\* The counters of the AX620E backend survive Stop and Start.
SPECIFICATION FairSpec
CONSTANTS
  p1 = p1
  p2 = p2
  send = send
  receive = receive
  deliver = deliver
  Producers = {p1}
  Sender = send
  Receiver = receive
  Deliverer = deliver
  QueueDepth = 1
  CallbackDepth = 1
  Modes = {}
  HwDepth = 1
  FrameBuffers = 2
  Backpressure = TRUE
  Window = 1
  Faults = FALSE
  SpuriousWakeups = FALSE
  MaxPackets = 3
PROPERTIES
  SendingGoesOn
\* The code stops for good when the notify_all of Stop comes too early.
CHECK_DEADLOCK FALSE
