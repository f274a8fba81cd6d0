\* The output side: both delivery modes, one producer.
SPECIFICATION Spec
CONSTANTS
  p1 = p1
  p2 = p2
  send = send
  receive = receive
  deliver = deliver
  Producers = {p1}
  Sender = send
  Receiver = receive
  Deliverer = deliver
  QueueDepth = 1
  CallbackDepth = 2
  Modes = {"kLatest", "kQueue"}
  HwDepth = 1
  FrameBuffers = 4
  Backpressure = TRUE
  Window = 1
  Faults = TRUE
  SpuriousWakeups = FALSE
  MaxPackets = 3
INVARIANTS
  OfferedInMode
  NewestFramesOffered
  QuietWhenStopped
PROPERTIES
  FramesInOrder
\* The code stops for good when the notify_all of Stop comes too early.
CHECK_DEADLOCK FALSE
