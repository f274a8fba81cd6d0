SPECIFICATION ClientSpec
CONSTANTS
  b1 = b1
  b2 = b2
  NoBranch = none
  Branches = {b1, b2}
  Blocking = {b1}
  Displacing = {b2}
  Depth = 1
  InputDepth = 1
  OutputDepth = 1
  Holds = {1}
  MaxFrames = 2
INVARIANTS
  MuxerOpenWhileUsed
  OutputsFollowPipeline
  QuietWhenStopped
  OverlayHolds
  PicturesKept
  CallbackThreadTold
PROPERTIES
  FramesShownOnce
  CallsReturn
CHECK_DEADLOCK FALSE
