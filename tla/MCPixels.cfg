CONSTANTS
  Parts = {"stream", "wayland", "pipewire", "record", "shot"}
  s1 = s1
  s2 = s2
  Nothing = Nothing
  d1 = d1
  Clients = {s1, s2}
  MaxFrames = 1
  MaxBytes = 1
  Sizes = {1, 2}
  MaxStreams = 2
  MaxSeq = 2
  Watermarks <- SomeWatermarks
  Workloads <- RivalsAndWatchers
  None = None
  Modes = {"held", "grab"}
  Widths = {1, 2}
  MaxBuffers = 3
  MaxFormats = 3
  Protocols = {"ext", "wlr", "shot"}
  Layouts <- SomeLayouts
  Blank = Blank
  MaxVersion = 2
  MaxResizes = 2
  MaxCaptures = 4
  Calls <- MCCalls
  MinDuration = 2
  MaxDuration = 8
  MinInterval = 1
  MaxInterval = 3
  FrameCap = 3
  ByteCap = 4
  ShotSizes = {1, 2}
  Slowness = {0, 2, 6}
  Dirs = {d1}
  Nil = Nil
  MaxCalls = 1
  MaxFaults = 1
  Arrangements <- MCArrangements
  Names = {"A", "B"}
  Scopes <- MCScopes
  Formats = {"xrgb", "xbgr", "rgb565"}
  Supported = {"xrgb", "xbgr"}
  Absent = Absent
  MaxDrawn = 2
  MaxChanges = 1
SPECIFICATION PixelsSpec
INVARIANTS WindowKept NoStrayStream LatestNewer
           FrameCurrent FramesFaithful CapturesTold
CHECK_DEADLOCK FALSE
