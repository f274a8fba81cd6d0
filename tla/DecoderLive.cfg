\* One session of fair threads, a frame callback that may never return.
SPECIFICATION SessionSpec
CONSTANTS
  p1 = p1
  p2 = p2
  send = send
  receive = receive
  deliver = deliver
  Producers = {p1}
  Sender = send
  Receiver = receive
  Deliverer = deliver
  QueueDepth = 1
  CallbackDepth = 1
  Modes = {"kQueue"}
  HwDepth = 1
  FrameBuffers = 3
  Backpressure = TRUE
  Window = 2
  Faults = FALSE
  SpuriousWakeups = FALSE
  MaxPackets = 4
PROPERTIES
  SendingGoesOn
  StopTerminatesUnlessOverlooked
  OfferedFramesLeave
\* The code stops for good when the notify_all of Stop comes too early.
CHECK_DEADLOCK FALSE
