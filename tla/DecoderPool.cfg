\* As many frame blocks as the callback queue holds frames (H.265).
SPECIFICATION SessionSpec
CONSTANTS
  p1 = p1
  p2 = p2
  send = send
  receive = receive
  deliver = deliver
  Producers = {p1}
  Sender = send
  Receiver = receive
  Deliverer = deliver
  QueueDepth = 1
  CallbackDepth = 2
  Modes = {"kQueue"}
  HwDepth = 1
  FrameBuffers = 2
  Backpressure = FALSE
  Window = 1
  Faults = FALSE
  SpuriousWakeups = FALSE
  MaxPackets = 4
PROPERTIES
  SendingGoesOn
\* The code stops for good when the notify_all of Stop comes too early.
CHECK_DEADLOCK FALSE
