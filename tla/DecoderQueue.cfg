\* The input side: two producers, who may be overlooked by Stop.
SPECIFICATION Spec
CONSTANTS
  p1 = p1
  p2 = p2
  send = send
  receive = receive
  deliver = deliver
  Producers = {p1, p2}
  Sender = send
  Receiver = receive
  Deliverer = deliver
  QueueDepth = 3
  CallbackDepth = 1
  Modes = {}
  HwDepth = 1
  FrameBuffers = 2
  Backpressure = FALSE
  Window = 1
  Faults = FALSE
  SpuriousWakeups = TRUE
  MaxPackets = 4
SYMMETRY MCSymmetry
INVARIANTS
  NoOtherLostWakeup
  EndOfStreamComesLast
PROPERTIES
  PacketQueueSpec
\* The code stops for good when the notify_all of Stop comes too early.
CHECK_DEADLOCK FALSE
