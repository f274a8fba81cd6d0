\* Stop notifies without the mutexes.
SPECIFICATION SessionSpec
CONSTANTS
  p1 = p1
  p2 = p2
  send = send
  receive = receive
  deliver = deliver
  Producers = {p1}
  Sender = send
  Receiver = receive
  Deliverer = deliver
  QueueDepth = 1
  CallbackDepth = 1
  Modes = {"kLatest"}
  HwDepth = 1
  FrameBuffers = 3
  Backpressure = FALSE
  Window = 1
  Faults = FALSE
  SpuriousWakeups = FALSE
  MaxPackets = 1
PROPERTIES
  StopTerminates
\* The code stops for good when the notify_all of Stop comes too early.
CHECK_DEADLOCK FALSE
