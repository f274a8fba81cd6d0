\* Two producers compete for a queue of two frames; no staging.
SPECIFICATION Spec
CONSTANTS
  p1 = p1
  p2 = p2
  send = send
  b1 = b1
  b2 = b2
  b3 = b3
  b4 = b4
  Producers = {p1, p2}
  Sender = send
  Policies = {"kDropOldest", "kDropNewest", "kBlock"}
  QueueDepth = 2
  StagingDepth = 1
  HoldDepth = 1
  IdleLimit = 2
  HwDepth = 1
  Buffers = {}
  NoBuffer = NoBuffer
  Kinds = {"alias"}
  SpuriousWakeups = TRUE
  MaxFrames = 4
SYMMETRY MCSymmetry
INVARIANTS
  NoLostWakeup
  FramesAccountedFor
PROPERTIES
  PacketsInOrder
  InputQueueSpec
