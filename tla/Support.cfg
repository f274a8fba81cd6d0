SPECIFICATION SupportSpec
CONSTANTS
  Parts = {"demuxer", "muxer", "manager", "system", "images", "drawer"}
  a = a
  b = b
  other = other
  Uris <- MCUris
  Mp4Files <- MCFiles
  Second = 4
  DefaultDuration = 2
  KeepaliveInterval = 3
  NoFrameTimeout = 2
  BackoffMin = 1
  BackoffMax = 2
  CallTime = 1
  MaxOffset = 6
  MaxSessions = 2
  Muxers = {a, b}
  SinkUris <- MCSinkUris
  Packets <- MCPackets
  UsPerSecond = 10
  UsPerMs = 2
  StepUs = 3
  ClockRate = 4
  ReconnectBackoff = 2
  ConnectTime = 1
  MaxPackets = 3
  Names = {a, b, other}
  Threads = {a, b}
  DeviceIds = {0, 1}
  Wants = {{"vdec"}, {"venc", "ivps"}}
  MaxRefs = 2
  Chips = {"ax650", "ax620e", "axcl"}
  Sources <- MCSources
  Destinations <- MCDestinations
  Requests <- MCRequests
  JpegSizes <- MCJpegSizes
  MaxCalls = 2
  WordSize = 64
  ShortSize = 10
  Boards = {"ax650", "ax620e", "axcl"}
  DrawFrames <- MCDrawFrames
  FrameSize <- MCFrameSize
  PolygonPoints = {3, 4}
  MaxPictures = 2
INVARIANTS
  PassesApart ConfiguredFirst PathsOwned AttemptsSpaced
  SystemTruthful ManagerTruthful MemoryReturned ProcessedRight OverlaysDrawn
PROPERTIES
  GivenUpWhenSilent ReadReturns StampsRise
CHECK_DEADLOCK FALSE
