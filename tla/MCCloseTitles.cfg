CONSTANTS
  Workloads = {"close"}
  Slots = {s1, s2}
  c1 = c1
  c2 = c2
  c3 = c3
  w1 = w1
  w2 = w2
  title = title
  cmd = cmd
  macro = macro
  focused = focused
  None = None
  Callers = {c1, c2, c3}
  Windows = {w1, w2}
  FocusedView = None
  Titles = {title}
  Commands = {cmd}
  Plugins = {macro}
  Manifest <- MCManifest
  WindowTexts <- IdTexts
  Tokens = {t1, t2, t3}
  AllowedTools <- Roles
  EnabledTools <- AllTools
  ClientTools = {"system_command", "window_control", "replay_action", "plugin_run"}
  AllowDestructive = FALSE
  Ttl = 1
  HistoryCap = 1
  MaxClock = 3
  MaxIndex = 2
SPECIFICATION WorkloadSpec
INVARIANT CloseNeverRedirected
SYMMETRY TokenSymmetry
CHECK_DEADLOCK FALSE
