CONSTANTS
  Parts = {"detection", "input", "windows", "rows", "highlight", "clipboard", "portal"}
  w1 = w1
  w2 = w2
  w3 = w3
  w4 = w4
  c1 = c1
  c2 = c2
  i1 = i1
  i2 = i2
  g1 = g1
  g2 = g2
  h1 = h1
  shot = shot
  Environments <- MCEnvironments
  Sessions <- MCSessions
  Late = {"grim", "wmctrl"}
  Displays <- MCDisplays
  Rects <- MCRects
  MaxSide = 9
  MinTime = 1
  MaxTime = 3
  Nowhere = Nowhere
  Flows <- MCFlows
  Kind <- MCKind
  Casts <- MCCasts
  None = None
  MaxRequests = 7
  MaxBreaks = 2
  Clients = {c1, c2}
  Requests <- MCCopies
  Copied = {"latin", "png"}
  Reads <- MCReads
  TooLong = {"long"}
  NoText = NoText
  Backends = {"hyprctl", "sway", "gnome", "kdotool", "wayfire", "x11", "river", "wlr"}
  Wins = {w1, w2}
  Titles = {"a", "b"}
  Ident <- MCIdent
  NoWindow = NoWindow
  WindowCalls <- MCWindowCalls
  MaxChanges = 2
  MaxCalls = 1
  MaxFails = 1
  Callers = {c1, c2}
  ToolCalls <- MCToolCalls
  InputBackends = {"wlr", "uinput", "x11", "portal"}
  Layout <- MCLayout
  ShiftCode = "kshift"
  SpareCode = "kspare"
  Arrangements <- MCArrangements
  ScreenSizes = {3}
  Windows = {w1, w2}
  Unknown = Unknown
  CheckEvery = 2
  MaxSteps = 2
  MaxToolCalls = 2
  MaxFaults = 1
  MaxFocus = 1
SYMMETRY CallsAlike
SPECIFICATION DesktopSpec
INVARIANTS LadderServes NothingLeftDown TypedWhereMeant PointerLands ControlExact
           RowsTrue HighlightHonest ClipboardTrue SessionsConsented
CHECK_DEADLOCK FALSE
