\* One producer, every kind of input frame, a hardware that holds two frames.
SPECIFICATION Spec
CONSTANTS
  p1 = p1
  p2 = p2
  send = send
  b1 = b1
  b2 = b2
  b3 = b3
  b4 = b4
  Producers = {p1}
  Sender = send
  Policies = {"kDropOldest"}
  QueueDepth = 1
  StagingDepth = 1
  HoldDepth = 1
  IdleLimit = 1
  HwDepth = 2
  Buffers = {b1, b2, b3, b4}
  NoBuffer = NoBuffer
  Kinds = {"alias", "stage", "host"}
  SpuriousWakeups = TRUE
  MaxFrames = 4
SYMMETRY MCSymmetry
INVARIANTS
  HardwareInputsKept
  StagingBounded
  QuietWhenStopped
