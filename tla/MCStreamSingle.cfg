CONSTANTS
  Parts = {"stream"}
  s1 = s1
  s2 = s2
  Nothing = Nothing
  d1 = d1
  Clients = {s1, s2}
  MaxFrames = 2
  MaxBytes = 2
  Sizes = {1}
  MaxStreams = 2
  MaxSeq = 2
  Watermarks <- SomeWatermarks
  Workloads <- Rivals
  None = None
  Modes = {"held", "grab"}
  Widths = {1, 2}
  MaxBuffers = 3
  MaxFormats = 3
  Protocols = {"ext", "wlr", "shot"}
  Layouts <- SomeLayouts
  Blank = Blank
  MaxVersion = 2
  MaxResizes = 2
  MaxCaptures = 4
  Calls <- MCCalls
  MinDuration = 2
  MaxDuration = 8
  MinInterval = 1
  MaxInterval = 3
  FrameCap = 3
  ByteCap = 4
  ShotSizes = {1, 2}
  Slowness = {0, 2, 6}
  Dirs = {d1}
  Nil = Nil
  MaxCalls = 1
  MaxFaults = 1
  Arrangements <- MCArrangements
  Names = {"A", "B"}
  Scopes <- MCScopes
  Formats = {"xrgb", "xbgr", "rgb565"}
  Supported = {"xrgb", "xbgr"}
  Absent = Absent
  MaxDrawn = 2
  MaxChanges = 1
SPECIFICATION PixelsSpec
INVARIANT SingleStream
CHECK_DEADLOCK FALSE
