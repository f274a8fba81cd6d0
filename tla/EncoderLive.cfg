\* Two producers and a queue of one frame, every thread scheduled fairly.
SPECIFICATION FairSpec
CONSTANTS
  p1 = p1
  p2 = p2
  send = send
  b1 = b1
  b2 = b2
  b3 = b3
  b4 = b4
  Producers = {p1, p2}
  Sender = send
  Policies = {"kDropOldest", "kBlock"}
  QueueDepth = 1
  StagingDepth = 1
  HoldDepth = 1
  IdleLimit = 2
  HwDepth = 1
  Buffers = {}
  NoBuffer = NoBuffer
  Kinds = {"alias"}
  SpuriousWakeups = FALSE
  MaxFrames = 2
PROPERTIES
  StopTerminates
  StopReleasesProducers
  QueuedFramesLeave
\* The system may really stop: a kBlock producer that passed the running_ test
\* before a Stop can block behind the frames of others after a Start that failed,
\* and nobody is left to take them.
CHECK_DEADLOCK FALSE
