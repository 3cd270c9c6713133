CONSTANTS
  Workloads = {"bypass", "focus"}
  Slots = {s1, s2}
  c1 = c1
  c2 = c2
  c3 = c3
  w1 = w1
  w2 = w2
  title = title
  cmd = cmd
  macro = macro
  focused = focused
  None = None
  Callers = {c3}
  Windows = {w1}
  FocusedView = focused
  Titles = {title}
  Commands = {cmd}
  Plugins = {macro}
  Manifest <- MCManifest
  WindowTexts <- PlainTexts
  Tokens = {t1, t2, t3}
  AllowedTools <- Roles
  EnabledTools <- AllTools
  ClientTools <- BypassTools
  AllowDestructive = TRUE
  Ttl = 1
  HistoryCap = 2
  MaxClock = 0
  MaxIndex = 2
SPECIFICATION BypassSpec
PROPERTY RequestsReturn
CHECK_DEADLOCK FALSE
