------------------------- MODULE VideoDecoderProofs -------------------------
(***************************************************************************)
(* Theorems about VideoDecoder, for every number of producers, every depth *)
(* of its two queues, every hardware and every number of frame blocks: its *)
(* types, that the input queue implements a FrameFifo, that no wakeup is   *)
(* lost but by the notify_all of Stop, that the end of the stream comes    *)
(* last, that the callback gets the newest frames and each at most once,   *)
(* in order, and that a stopped decoder is quiet.                          *)
(***************************************************************************)
EXTENDS VideoDecoder, FiniteSetTheorems, TLAPS

-----------------------------------------------------------------------------
(* The steps, by who takes them.                                           *)

ProducerAct(p) == SubmitPacket(p) \/ SubmitEndOfStream(p) \/ ProducerStep(p)

ThreadStep ==
  \/ \E p \in Producers : ProducerAct(p)
  \/ SendStep
  \/ ReceiveStep
  \/ CallbackStep
  \/ CallbackReturns
  \/ HardwareStep
  \/ \E t \in InputThreads \union {Deliverer} : SpuriousWakeup(t)

LEMMA NextCases == Next => CtlCall \/ CtlStep \/ ThreadStep
BY DEF Next, ThreadStep, ProducerAct

(***************************************************************************)
(* Only the application thread opens, starts, stops and closes.            *)
(***************************************************************************)
LEMMA ThreadsLeaveControl ==
  ThreadStep => UNCHANGED <<open, running, stop, callbackStop, ctl, goal>>
<1> SUFFICES ASSUME ThreadStep
             PROVE  UNCHANGED <<open, running, stop, callbackStop, ctl, goal>>
  OBVIOUS
<1> USE DEF flagVars, ctlVars, allButPc
<1>1. CASE \E p \in Producers : ProducerAct(p)
  BY <1>1 DEF ProducerAct, ProducerStep, SubmitPacket, SubmitEndOfStream, FallAsleep, SubmitLocked,
              SubmitNotify, SubmitEndOfStreamLocked
<1>2. CASE SendStep
  BY <1>2 DEF SendStep, FallAsleep, SendLoopStops, SendLoopTop, SendLoopNotify, SendAccepted,
              SendAbandoned, SendFails, SendPressure, SendEndOfStream, SendLoopEnds
<1>3. CASE ReceiveStep
  BY <1>3 DEF ReceiveStep, ReceiveLoopStops, ReceiveFrame, ReceiveFlowEnd, PublishLatest,
              PublishFails, PublishOffer
<1>4. CASE CallbackStep \/ CallbackReturns
  BY <1>4 DEF CallbackStep, CallbackReturns, FallAsleep, CallbackLoopTop
<1>5. CASE HardwareStep
  BY <1>5 DEF HardwareStep, Decode, DecodeNothing
<1>6. CASE \E t \in InputThreads \union {Deliverer} : SpuriousWakeup(t)
  BY <1>6 DEF SpuriousWakeup
<1>7. QED
  BY <1>1, <1>2, <1>3, <1>4, <1>5, <1>6 DEF ThreadStep

-----------------------------------------------------------------------------
(* Lemmas about the operators.                                             *)

(***************************************************************************)
(* The threads are different threads.                                      *)
(***************************************************************************)
LEMMA ThreadFacts ==
  /\ Threads = Producers \union {Sender, Receiver, Deliverer}
  /\ InputThreads = Producers \union {Sender}
  /\ \A p \in Producers : p # Sender /\ p # Receiver /\ p # Deliverer
  /\ Sender # Receiver /\ Sender # Deliverer /\ Receiver # Deliverer
BY DecoderAssumption DEF Threads, InputThreads

(***************************************************************************)
(* What moving a thread, notify_all and notify_one do to where the threads *)
(* are.                                                                    *)
(***************************************************************************)
PcType == pc \in [Threads -> PcStates]

LEMMA GotoMoves ==
  ASSUME PcType, NEW t \in Threads, NEW s \in PcStates
  PROVE  /\ Goto(t, s) \in [Threads -> PcStates]
         /\ Goto(t, s)[t] = s
         /\ \A u \in Threads : u # t => Goto(t, s)[u] = pc[u]
BY DEF Goto, PcType

LEMMA WakeAllMoves ==
  ASSUME NEW f \in [Threads -> PcStates], NEW S
  PROVE  /\ WakeAll(f, S) \in [Threads -> PcStates]
         /\ \A t \in Threads :
              /\ t \in S /\ f[t] = "wait" => WakeAll(f, S)[t] = "woken"
              /\ ~(t \in S /\ f[t] = "wait") => WakeAll(f, S)[t] = f[t]
BY DEF WakeAll, PcStates

LEMMA WakeOneMoves ==
  ASSUME NEW f \in [Threads -> PcStates], NEW S \in SUBSET Threads, NEW g \in WakeOne(f, S)
  PROVE  /\ g \in [Threads -> PcStates]
         /\ \/ g = f /\ \A t \in S : f[t] # "wait"
            \/ \E t \in S : /\ f[t] = "wait"
                            /\ g[t] = "woken"
                            /\ \A u \in Threads : u # t => g[u] = f[u]
<1>1. CASE {t \in S : f[t] = "wait"} = {}
  BY <1>1 DEF WakeOne
<1>2. CASE {t \in S : f[t] = "wait"} # {}
  <2>1. PICK t \in {t \in S : f[t] = "wait"} : g = [f EXCEPT ![t] = "woken"]
    BY <1>2 DEF WakeOne
  <2>2. t \in Threads /\ "woken" \in PcStates
    BY DEF PcStates
  <2>3. QED
    BY <2>1, <2>2
<1>3. QED
  BY <1>1, <1>2

(***************************************************************************)
(* A step moves one thread, the one that takes it; the others stay where   *)
(* they are or are woken.                                                  *)
(***************************************************************************)
Woke(t) == pc'[t] = pc[t] \/ (pc[t] = "wait" /\ pc'[t] = "woken")

OthersWoke(t) == \A u \in Threads : u # t => Woke(u)

LEMMA MoveType ==
  ASSUME PcType, NEW t \in Threads, NEW s \in PcStates, pc' = Goto(t, s)
  PROVE  PcType' /\ pc'[t] = s /\ OthersWoke(t)
BY GotoMoves DEF PcType, OthersWoke, Woke

LEMMA MoveWakeAll ==
  ASSUME PcType, NEW t \in Threads, NEW s \in PcStates, s # "wait", NEW S,
         pc' = WakeAll(Goto(t, s), S)
  PROVE  PcType' /\ pc'[t] = s /\ OthersWoke(t)
         /\ \A u \in Threads : u # t /\ u \in S => pc'[u] # "wait"
<1>1. /\ Goto(t, s) \in [Threads -> PcStates]
      /\ Goto(t, s)[t] = s
      /\ \A u \in Threads : u # t => Goto(t, s)[u] = pc[u]
  BY GotoMoves
<1> DEFINE f == Goto(t, s)
<1>2. /\ WakeAll(f, S) \in [Threads -> PcStates]
      /\ \A u \in Threads :
           /\ u \in S /\ f[u] = "wait" => WakeAll(f, S)[u] = "woken"
           /\ ~(u \in S /\ f[u] = "wait") => WakeAll(f, S)[u] = f[u]
  <2> HIDE DEF f
  <2>1. f \in [Threads -> PcStates]
    BY <1>1 DEF f
  <2>2. QED
    BY <2>1, WakeAllMoves
<1>3. QED
  <2> HIDE DEF f
  <2>1. pc' = WakeAll(f, S)
    BY DEF f
  <2>2. f[t] = s /\ \A u \in Threads : u # t => f[u] = pc[u]
    BY <1>1 DEF f
  <2>3. QED
    BY <1>2, <2>1, <2>2 DEF PcType, OthersWoke, Woke

LEMMA MoveWakeOne ==
  ASSUME PcType, NEW t \in Threads, NEW s \in PcStates, s # "wait", NEW S \in SUBSET Threads,
         pc' \in WakeOne(Goto(t, s), S)
  PROVE  /\ PcType' /\ pc'[t] = s /\ OthersWoke(t)
         /\ \/ /\ \A u \in S : u # t => pc[u] # "wait"
               /\ \A u \in Threads : u # t => pc'[u] = pc[u]
            \/ \E w \in S : /\ w # t /\ pc[w] = "wait" /\ pc'[w] = "woken"
                            /\ \A u \in Threads : u # t /\ u # w => pc'[u] = pc[u]
<1> DEFINE f == Goto(t, s)
<1>1. f \in [Threads -> PcStates] /\ f[t] = s /\ \A u \in Threads : u # t => f[u] = pc[u]
  BY GotoMoves
<1> HIDE DEF f
<1>2. pc' \in WakeOne(f, S)
  BY DEF f
<1>3. /\ pc' \in [Threads -> PcStates]
      /\ \/ pc' = f /\ \A u \in S : f[u] # "wait"
         \/ \E w \in S : /\ f[w] = "wait"
                         /\ pc'[w] = "woken"
                         /\ \A u \in Threads : u # w => pc'[u] = f[u]
  BY <1>1, <1>2, WakeOneMoves
<1>4. CASE pc' = f /\ \A u \in S : f[u] # "wait"
  BY <1>1, <1>4 DEF PcType, OthersWoke, Woke
<1>5. CASE \E w \in S : /\ f[w] = "wait"
                        /\ pc'[w] = "woken"
                        /\ \A u \in Threads : u # w => pc'[u] = f[u]
  <2>1. PICK w \in S : /\ f[w] = "wait"
                       /\ pc'[w] = "woken"
                       /\ \A u \in Threads : u # w => pc'[u] = f[u]
    BY <1>5
  <2>2. w # t /\ w \in Threads /\ pc[w] = "wait"
    BY <1>1, <2>1
  <2>3. pc'[t] = s /\ \A u \in Threads : u # t /\ u # w => pc'[u] = pc[u]
    BY <1>1, <2>1, <2>2
  <2>4. OthersWoke(t)
    BY <2>1, <2>2, <2>3 DEF OthersWoke, Woke
  <2>5. QED
    BY <1>3, <2>1, <2>2, <2>3, <2>4 DEF PcType
<1>6. QED
  BY <1>3, <1>4, <1>5

LEMMA StayWakeAll ==
  ASSUME PcType, NEW S, pc' = WakeAll(pc, S)
  PROVE  PcType' /\ \A u \in Threads : Woke(u) /\ (u \in S => pc'[u] # "wait")
BY WakeAllMoves DEF PcType, Woke

-----------------------------------------------------------------------------
(* Where the threads are.                                                  *)

ProducerPlaces == {"idle", "lock", "sleep", "wait", "woken", "notify", "eos"}
SenderPlaces == {"off", "lock", "sleep", "wait", "woken", "notify", "send", "pressure", "end",
                 "finish", "done"}
ReceiverPlaces == {"off", "poll", "publish", "offer", "done"}
DelivererPlaces == {"off", "lock", "sleep", "wait", "woken", "call", "done"}

SessionThreads == {Sender, Receiver, Deliverer}

LEMMA ProducerMoves ==
  ASSUME PcType, NEW p \in Producers, ProducerAct(p)
  PROVE  PcType' /\ OthersWoke(p) /\ pc'[p] \in ProducerPlaces
<1> USE DEF ProducerPlaces
<1>0. p \in Threads /\ InputThreads \in SUBSET Threads
  BY ThreadFacts
<1>1. CASE SubmitPacket(p)
  BY <1>0, <1>1, MoveType DEF SubmitPacket, PcStates
<1>2. CASE SubmitEndOfStream(p)
  BY <1>0, <1>2, MoveType DEF SubmitEndOfStream, PcStates
<1>3. CASE FallAsleep(p)
  BY <1>0, <1>3, MoveType DEF FallAsleep, PcStates
<1>4. CASE SubmitLocked(p)
  <2>1. pc' = Goto(p, "sleep") \/ pc' = Goto(p, "idle") \/ pc' = Goto(p, "notify")
    BY <1>4 DEF SubmitLocked, SubmitWaits, SubmitRejected, SubmitPushes
  <2>2. QED
    BY <1>0, <2>1, MoveType DEF PcStates
<1>5. CASE SubmitNotify(p)
  <2>1. pc' \in WakeOne(Goto(p, "idle"), InputThreads) /\ "idle" \in PcStates
    BY <1>5 DEF SubmitNotify, PcStates
  <2>2. QED
    BY <1>0, <2>1, MoveWakeOne
<1>6. CASE SubmitEndOfStreamLocked(p)
  <2>1. pc' = WakeAll(Goto(p, "idle"), InputThreads) /\ "idle" \in PcStates
    BY <1>6 DEF SubmitEndOfStreamLocked, PcStates
  <2>2. QED
    BY <1>0, <2>1, MoveWakeAll
<1>7. QED
  BY <1>1, <1>2, <1>3, <1>4, <1>5, <1>6 DEF ProducerAct, ProducerStep

LEMMA SendMoves ==
  ASSUME PcType, SendStep
  PROVE  /\ PcType' /\ OthersWoke(Sender)
         /\ pc[Sender] \notin {"off", "done"} /\ pc'[Sender] \in SenderPlaces \ {"off"}
<1> USE DEF SenderPlaces
<1>0. Sender \in Threads
  BY ThreadFacts
<1>1. CASE FallAsleep(Sender) \/ SendLoopStops
  BY <1>0, <1>1, MoveType DEF FallAsleep, SendLoopStops, PcStates
<1>2. CASE SendLoopTop
  <2>1. pc' = Goto(Sender, "notify") \/ pc' = Goto(Sender, "end") \/ pc' = Goto(Sender, "sleep")
    BY <1>2 DEF SendLoopTop, SendLoopTake, SendLoopBreaks, SendLoopWaits
  <2>2. pc[Sender] \notin {"off", "done"}
    BY <1>2 DEF SendLoopTop
  <2>3. QED
    BY <1>0, <2>1, <2>2, MoveType DEF PcStates
<1>3. CASE SendLoopNotify
  <2>1. pc' = WakeAll(Goto(Sender, "send"), InputThreads) /\ "send" \in PcStates
        /\ pc[Sender] = "notify"
    BY <1>3 DEF SendLoopNotify, PcStates
  <2>2. QED
    BY <1>0, <2>1, MoveWakeAll
<1>4. CASE SendAccepted \/ SendAbandoned \/ SendFails \/ SendPressure \/ SendEndOfStream
  <2>1. pc' = Goto(Sender, "pressure") \/ pc' = Goto(Sender, "lock") \/ pc' = Goto(Sender, "end")
          \/ pc' = Goto(Sender, "finish")
    BY <1>4 DEF SendAccepted, SendAbandoned, SendFails, SendPressure, SendEndOfStream
  <2>2. pc[Sender] \notin {"off", "done"}
    BY <1>4 DEF SendAccepted, SendAbandoned, SendFails, SendPressure, SendEndOfStream
  <2>3. QED
    BY <1>0, <2>1, <2>2, MoveType DEF PcStates
<1>5. CASE SendLoopEnds
  <2>1. pc' = WakeAll(Goto(Sender, "done"), InputThreads) /\ "done" \in PcStates
        /\ pc[Sender] = "finish"
    BY <1>5 DEF SendLoopEnds, PcStates
  <2>2. QED
    BY <1>0, <2>1, MoveWakeAll
<1>6. QED
  BY <1>1, <1>2, <1>3, <1>4, <1>5 DEF SendStep

LEMMA ReceiveMoves ==
  ASSUME PcType, ReceiveStep
  PROVE  /\ PcType' /\ OthersWoke(Receiver)
         /\ pc[Receiver] \notin {"off", "done"} /\ pc'[Receiver] \in ReceiverPlaces \ {"off"}
<1> USE DEF ReceiverPlaces
<1>0. Receiver \in Threads /\ {Deliverer} \in SUBSET Threads
  BY ThreadFacts
<1>1. CASE PublishOffer /\ callback
  <2>1. pc' \in WakeOne(Goto(Receiver, "poll"), {Deliverer}) /\ "poll" \in PcStates
        /\ pc[Receiver] = "offer"
    BY <1>1 DEF PublishOffer, PcStates
  <2>2. QED
    BY <1>0, <2>1, MoveWakeOne
<1>2. CASE ~(PublishOffer /\ callback)
  <2>1. \E s \in {"done", "publish", "offer", "poll"} : pc' = Goto(Receiver, s)
    BY <1>2 DEF ReceiveStep, ReceiveLoopStops, ReceiveFrame, ReceiveFlowEnd, PublishLatest,
                PublishFails, PublishOffer
  <2>2. pc[Receiver] \in {"poll", "publish", "offer"}
    BY DEF ReceiveStep, ReceiveLoopStops, ReceiveFrame, ReceiveFlowEnd, PublishLatest,
           PublishFails, PublishOffer
  <2>3. QED
    BY <1>0, <2>1, <2>2, MoveType DEF PcStates
<1>3. QED
  BY <1>1, <1>2

LEMMA CallbackMoves ==
  ASSUME PcType, CallbackStep \/ CallbackReturns
  PROVE  /\ PcType' /\ OthersWoke(Deliverer)
         /\ pc[Deliverer] \notin {"off", "done"} /\ pc'[Deliverer] \in DelivererPlaces \ {"off"}
<1>0. Deliverer \in Threads
  BY ThreadFacts
<1>1. \E s \in {"wait", "sleep", "done", "call", "lock"} : pc' = Goto(Deliverer, s)
  BY DEF CallbackStep, CallbackReturns, FallAsleep, CallbackLoopTop, CallbackWaits, CallbackEnds,
         CallbackTakesSlot, CallbackTakesFront, Deliver
<1>2. pc[Deliverer] \notin {"off", "done"}
  BY DEF CallbackStep, CallbackReturns, FallAsleep, CallbackLoopTop
<1>3. QED
  BY <1>0, <1>1, <1>2, MoveType DEF PcStates, DelivererPlaces

LEMMA WakeupMoves ==
  ASSUME PcType, NEW t \in InputThreads \union {Deliverer}, SpuriousWakeup(t)
  PROVE  /\ PcType' /\ OthersWoke(t)
         /\ pc[t] = "wait" /\ pc'[t] = "woken"
<1>1. t \in Threads
  BY ThreadFacts
<1>2. pc' = Goto(t, "woken") /\ pc[t] = "wait" /\ "woken" \in PcStates
  BY DEF SpuriousWakeup, PcStates
<1>3. QED
  BY <1>1, <1>2, MoveType

LEMMA HardwareMoves == HardwareStep => UNCHANGED pc
BY DEF HardwareStep, Decode, DecodeNothing

(***************************************************************************)
(* The application thread starts and joins the session's threads, and      *)
(* wakes who is blocked.                                                   *)
(***************************************************************************)
ThreadControl == StartThreads \/ JoinSend \/ JoinReceive \/ JoinCallback

LEMMA ThreadControlMoves ==
  ASSUME PcType, ThreadControl
  PROVE  PcType' /\ \A t \in Threads \ SessionThreads : Woke(t)
<1>1. CASE StartThreads
  <2>1. pc' = [t \in Threads |-> IF t = Receiver THEN "poll"
                                 ELSE IF t \in {Sender, Deliverer} THEN "lock" ELSE pc[t]]
    BY <1>1 DEF StartThreads
  <2>2. \A t \in Threads : pc'[t] \in PcStates
    BY <2>1 DEF PcType, PcStates
  <2>3. PcType'
    BY <2>1, <2>2 DEF PcType
  <2>4. QED
    BY <2>1, <2>3 DEF SessionThreads, Woke
<1>2. CASE JoinSend \/ JoinReceive \/ JoinCallback
  <2>1. \E t \in SessionThreads : pc' = Goto(t, "off")
    BY <1>2 DEF JoinSend, JoinReceive, JoinCallback, SessionThreads
  <2>2. PICK t \in SessionThreads : pc' = Goto(t, "off")
    BY <2>1
  <2>3. t \in Threads /\ "off" \in PcStates
    BY ThreadFacts DEF SessionThreads, PcStates
  <2>4. QED
    BY <2>2, <2>3, MoveType DEF OthersWoke
<1>3. QED
  BY <1>1, <1>2 DEF ThreadControl

LEMMA OtherControlMoves ==
  ASSUME PcType, CtlCall \/ CtlStep, ~ThreadControl
  PROVE  PcType' /\ \A t \in Threads : Woke(t)
<1>1. CASE SetFrameCallback \/ StopNotify \/ NotifyCallback
  <2>1. \E S : pc' = WakeAll(pc, S)
    BY <1>1 DEF SetFrameCallback, StopNotify, NotifyCallback
  <2>2. QED
    BY <2>1, StayWakeAll
<1>2. CASE ~(SetFrameCallback \/ StopNotify \/ NotifyCallback)
  <2>1. UNCHANGED pc
    BY <1>2 DEF CtlCall, CtlStep, ThreadControl, CreateBackend, Start, Stop, CloseStopped,
                StartBackendFails, StartReturns, StopBackend, StopCallback, CloseReturns
  <2>2. QED
    BY <2>1 DEF PcType, Woke
<1>3. QED
  BY <1>1, <1>2

(***************************************************************************)
(* Every step, seen from one thread.                                       *)
(***************************************************************************)
OwnStep(t) ==
  \/ t \in Producers /\ ProducerAct(t)
  \/ t = Sender /\ SendStep
  \/ t = Receiver /\ ReceiveStep
  \/ t = Deliverer /\ (CallbackStep \/ CallbackReturns)
  \/ t \in SessionThreads /\ ThreadControl

LEMMA StepMoves ==
  ASSUME PcType, [Next]_vars
  PROVE  PcType' /\ \A t \in Threads : Woke(t) \/ OwnStep(t)
<1>1. CASE \E p \in Producers : ProducerAct(p)
  BY <1>1, ProducerMoves DEF OthersWoke, OwnStep
<1>2. CASE SendStep
  BY <1>2, SendMoves DEF OthersWoke, OwnStep
<1>3. CASE ReceiveStep
  BY <1>3, ReceiveMoves DEF OthersWoke, OwnStep
<1>4. CASE CallbackStep \/ CallbackReturns
  BY <1>4, CallbackMoves DEF OthersWoke, OwnStep
<1>5. CASE \E t \in InputThreads \union {Deliverer} : SpuriousWakeup(t)
  BY <1>5, WakeupMoves DEF OthersWoke, Woke
<1>6. CASE HardwareStep \/ UNCHANGED vars
  BY <1>6, HardwareMoves DEF vars, PcType, Woke
<1>7. CASE ThreadControl
  BY <1>7, ThreadControlMoves DEF OwnStep
<1>8. CASE (CtlCall \/ CtlStep) /\ ~ThreadControl
  BY <1>8, OtherControlMoves
<1>9. QED
  BY <1>1, <1>2, <1>3, <1>4, <1>5, <1>6, <1>7, <1>8, NextCases DEF ThreadStep

-----------------------------------------------------------------------------
(* Type correctness, part by part.                                         *)

FlagType ==
  /\ open \in BOOLEAN /\ running \in BOOLEAN /\ stop \in BOOLEAN /\ callbackStop \in BOOLEAN
  /\ eos \in BOOLEAN /\ sendFinished \in BOOLEAN
  /\ failed \in BOOLEAN /\ hwEos \in BOOLEAN /\ callback \in BOOLEAN

CtlType == ctl \in CtlStates /\ goal \in {"stop", "close", "open"} /\ overlooked \subseteq Threads

QueueType ==
  pending \in Seq(Nat) /\ Len(pending) <= QueueDepth /\ accepted \in Nat /\ taken \in Nat

HwType == hwIn \in 0 .. HwDepth /\ hwOut \in Nat /\ ahead \in Nat /\ back \in Nat

FrameType ==
  /\ mode \in AllModes
  /\ slot \in Nat
  /\ queue \in Seq(Nat) /\ Len(queue) <= CallbackDepth
  /\ latest \in Nat /\ published \in Nat /\ calling \in Nat /\ delivered \in Nat

Types == FlagType /\ CtlType /\ PcType /\ QueueType /\ HwType /\ FrameType

LEMMA TypeParts == TypeOK <=> Types
BY DEF TypeOK, Types, FlagType, CtlType, PcType, QueueType, HwType, FrameType

LEMMA TypePartsNext == TypeOK' <=> Types'
BY DEF TypeOK, Types, FlagType, CtlType, PcType, QueueType, HwType, FrameType

LEMMA EmptyType == <<>> \in Seq(Nat) /\ Len(<<>>) = 0
OBVIOUS

LEMMA AppendType ==
  ASSUME NEW s \in Seq(Nat), NEW e \in Nat
  PROVE  Append(s, e) \in Seq(Nat) /\ Len(Append(s, e)) = Len(s) + 1
OBVIOUS

LEMMA TailType ==
  ASSUME NEW s \in Seq(Nat), s # <<>>
  PROVE  /\ Head(s) \in Nat /\ Head(s) = s[1] /\ Tail(s) \in Seq(Nat)
         /\ Len(s) > 0 /\ Len(Tail(s)) = Len(s) - 1
OBVIOUS

LEMMA TypeInit == Init => Types
<1> SUFFICES ASSUME Init PROVE Types
  OBVIOUS
<1>1. PcType
  BY DEF Init, PcType, PcStates
<1>2. FlagType
  BY DEF Init, FlagType
<1>3. CtlType
  BY DEF Init, CtlType, CtlStates
<1>4. QueueType
  BY EmptyType, DecoderAssumption DEF Init, QueueType
<1>5. HwType
  BY DecoderAssumption DEF Init, HwType
<1>6. FrameType
  BY EmptyType, DecoderAssumption DEF Init, FrameType, AllModes
<1>7. QED
  BY <1>1, <1>2, <1>3, <1>4, <1>5, <1>6 DEF Types

(***************************************************************************)
(* Which steps change the input queue, and which the frames.               *)
(***************************************************************************)
LEMMA QueueCases ==
  [Next]_vars =>
    \/ UNCHANGED queueVars
    \/ \E p \in Producers : SubmitLocked(p) /\ SubmitPushes(p)
    \/ SendLoopTop /\ SendLoopTake
    \/ CreateBackend \/ Start \/ CloseReturns
<1> SUFFICES ASSUME [Next]_vars
             PROVE  \/ UNCHANGED queueVars
                    \/ \E p \in Producers : SubmitLocked(p) /\ SubmitPushes(p)
                    \/ SendLoopTop /\ SendLoopTake
                    \/ CreateBackend \/ Start \/ CloseReturns
  OBVIOUS
<1> USE DEF queueVars, allButPc
<1>1. CASE \E p \in Producers : ProducerAct(p)
  BY <1>1 DEF ProducerAct, ProducerStep, SubmitPacket, SubmitEndOfStream, FallAsleep, SubmitLocked,
              SubmitWaits, SubmitRejected, SubmitNotify, SubmitEndOfStreamLocked
<1>2. CASE SendStep
  BY <1>2 DEF SendStep, FallAsleep, SendLoopStops, SendLoopTop, SendLoopBreaks, SendLoopWaits,
              SendLoopNotify, SendAccepted, SendAbandoned, SendFails, SendPressure,
              SendEndOfStream, SendLoopEnds
<1>3. CASE ReceiveStep
  BY <1>3 DEF ReceiveStep, ReceiveLoopStops, ReceiveFrame, ReceiveFlowEnd, PublishLatest,
              PublishFails, PublishOffer
<1>4. CASE CallbackStep \/ CallbackReturns
  BY <1>4 DEF CallbackStep, CallbackReturns, FallAsleep, CallbackLoopTop
<1>5. CASE HardwareStep
  BY <1>5 DEF HardwareStep, Decode, DecodeNothing
<1>6. CASE \E t \in InputThreads \union {Deliverer} : SpuriousWakeup(t)
  BY <1>6 DEF SpuriousWakeup
<1>7. CASE CtlCall \/ CtlStep
  BY <1>7 DEF CtlCall, CtlStep, SetFrameCallback, Stop, CloseStopped, StartBackendFails,
              StartThreads, StartReturns, StopNotify, JoinSend, JoinReceive, StopBackend,
              StopCallback, NotifyCallback, JoinCallback
<1>8. CASE UNCHANGED vars
  BY <1>8 DEF vars
<1>9. QED
  BY <1>1, <1>2, <1>3, <1>4, <1>5, <1>6, <1>7, <1>8, NextCases DEF ThreadStep

LEMMA FrameCases ==
  [Next]_vars =>
    \/ UNCHANGED frameVars
    \/ PublishLatest \/ PublishOffer
    \/ CallbackLoopTop \/ CallbackReturns
    \/ SetFrameCallback \/ CloseReturns
<1> SUFFICES ASSUME [Next]_vars
             PROVE  \/ UNCHANGED frameVars
                    \/ PublishLatest \/ PublishOffer
                    \/ CallbackLoopTop \/ CallbackReturns
                    \/ SetFrameCallback \/ CloseReturns
  OBVIOUS
<1>1. CASE \E p \in Producers : ProducerAct(p)
  BY <1>1 DEF ProducerAct, ProducerStep, SubmitPacket, SubmitEndOfStream, FallAsleep, SubmitLocked,
              SubmitNotify, SubmitEndOfStreamLocked, allButPc
<1>2. CASE SendStep
  BY <1>2 DEF SendStep, FallAsleep, SendLoopStops, SendLoopTop,
              SendLoopNotify, SendAccepted, SendAbandoned, SendFails, SendPressure,
              SendEndOfStream, SendLoopEnds, allButPc
<1>3. CASE ReceiveStep
  BY <1>3 DEF ReceiveStep, ReceiveLoopStops, ReceiveFrame, ReceiveFlowEnd, PublishFails, allButPc
<1>4. CASE CallbackStep \/ CallbackReturns
  BY <1>4 DEF CallbackStep, FallAsleep, allButPc
<1>5. CASE HardwareStep
  BY <1>5 DEF HardwareStep, Decode, DecodeNothing
<1>6. CASE \E t \in InputThreads \union {Deliverer} : SpuriousWakeup(t)
  BY <1>6 DEF SpuriousWakeup
<1>7. CASE CtlCall \/ CtlStep
  BY <1>7 DEF CtlCall, CtlStep, CreateBackend, Start, Stop, CloseStopped, StartBackendFails,
              StartThreads, StartReturns, StopNotify, JoinSend, JoinReceive, StopBackend,
              StopCallback, NotifyCallback, JoinCallback
<1>8. CASE UNCHANGED vars
  BY <1>8 DEF vars, allButPc
<1>9. QED
  BY <1>1, <1>2, <1>3, <1>4, <1>5, <1>6, <1>7, <1>8, NextCases DEF ThreadStep

LEMMA QueueTypeStep == QueueType /\ [Next]_vars => QueueType'
<1> SUFFICES ASSUME QueueType, [Next]_vars PROVE QueueType'
  OBVIOUS
<1>0. QueueDepth \in Nat \ {0}
  BY DecoderAssumption
<1>1. CASE UNCHANGED queueVars
  BY <1>1 DEF QueueType, queueVars
<1>2. ASSUME NEW p \in Producers, SubmitLocked(p), SubmitPushes(p)
      PROVE  QueueType'
  <2>1. /\ pending' = Append(pending, accepted + 1) /\ accepted' = accepted + 1
        /\ Len(pending) < QueueDepth /\ taken' = taken
    BY <1>0, <1>2 DEF SubmitPushes, SubmitLocked, QueueFull, QueueType
  <2>2. pending' \in Seq(Nat) /\ Len(pending') = Len(pending) + 1
    BY <2>1, AppendType DEF QueueType
  <2>3. QED
    BY <1>0, <2>1, <2>2 DEF QueueType
<1>3. CASE SendLoopTop /\ SendLoopTake
  <2>1. /\ pending # <<>> /\ pending' = Tail(pending) /\ taken' = Head(pending)
        /\ accepted' = accepted
    BY <1>3 DEF SendLoopTop, SendLoopTake
  <2>2. pending' \in Seq(Nat) /\ Len(pending') = Len(pending) - 1 /\ taken' \in Nat
    BY <2>1, TailType DEF QueueType
  <2>3. QED
    BY <1>0, <2>1, <2>2 DEF QueueType
<1>4. CASE CreateBackend \/ Start \/ CloseReturns
  <2>1. /\ pending' = <<>> \/ pending' = pending
        /\ accepted' = accepted \/ accepted' = 0
        /\ taken' = taken \/ taken' = 0
    BY <1>4 DEF CreateBackend, Start, CloseReturns
  <2>2. pending' \in Seq(Nat) /\ Len(pending') <= QueueDepth
    <3>1. CASE pending' = <<>>
      BY <1>0, <3>1, EmptyType
    <3>2. CASE pending' = pending
      BY <3>2 DEF QueueType
    <3>3. QED
      BY <2>1, <3>1, <3>2
  <2>3. QED
    BY <2>1, <2>2 DEF QueueType
<1>5. QED
  BY <1>1, <1>2, <1>3, <1>4, QueueCases

LEMMA FrameTypeStep == FrameType /\ [Next]_vars => FrameType'
<1> SUFFICES ASSUME FrameType, [Next]_vars PROVE FrameType'
  OBVIOUS
<1>0. CallbackDepth \in Nat \ {0} /\ Modes \subseteq AllModes
  BY DecoderAssumption
<1>1. CASE UNCHANGED frameVars
  BY <1>1 DEF FrameType, frameVars
<1>2. CASE PublishLatest
  BY <1>2 DEF PublishLatest, FrameType
<1>3. CASE PublishOffer
  <2>1. /\ mode' = mode /\ latest' = latest /\ published' = published
        /\ calling' = calling /\ delivered' = delivered
    BY <1>3 DEF PublishOffer
  <2>2. CASE OfferSlot \/ UNCHANGED <<slot, queue>>
    BY <2>1, <2>2 DEF OfferSlot, FrameType
  <2>3. CASE OfferQueue
    <3>1. CASE Len(queue) >= CallbackDepth
      <4>1. queue # <<>> /\ queue' = Append(Tail(queue), latest) /\ slot' = slot
        BY <1>0, <2>3, <3>1 DEF OfferQueue, FrameType
      <4>2. Tail(queue) \in Seq(Nat) /\ Len(Tail(queue)) = Len(queue) - 1
        BY <4>1, TailType DEF FrameType
      <4>3. queue' \in Seq(Nat) /\ Len(queue') = Len(queue)
        BY <4>1, <4>2, AppendType DEF FrameType
      <4>4. QED
        BY <2>1, <4>1, <4>3 DEF FrameType
    <3>2. CASE ~(Len(queue) >= CallbackDepth)
      <4>1. queue' = Append(queue, latest) /\ slot' = slot
        BY <2>3, <3>2 DEF OfferQueue
      <4>2. queue' \in Seq(Nat) /\ Len(queue') = Len(queue) + 1
        BY <4>1, AppendType DEF FrameType
      <4>3. QED
        BY <1>0, <2>1, <3>2, <4>1, <4>2 DEF FrameType
    <3>3. QED
      BY <3>1, <3>2
  <2>4. QED
    BY <1>3, <2>2, <2>3 DEF PublishOffer
<1>4. CASE CallbackLoopTop
  <2>1. /\ mode' = mode /\ latest' = latest /\ published' = published
    BY <1>4 DEF CallbackLoopTop
  <2>2. CASE CallbackWaits \/ CallbackEnds \/ CallbackTakesSlot
    BY <2>1, <2>2 DEF CallbackWaits, CallbackEnds, CallbackTakesSlot, Deliver, FrameType
  <2>3. CASE CallbackTakesFront
    <3>1. queue # <<>> /\ queue' = Tail(queue) /\ Deliver(Head(queue)) /\ slot' = slot
      BY <2>3 DEF CallbackTakesFront
    <3>2. Head(queue) \in Nat /\ queue' \in Seq(Nat) /\ Len(queue') = Len(queue) - 1
      BY <3>1, TailType DEF FrameType
    <3>3. calling' \in Nat /\ delivered' \in Nat
      BY <3>1, <3>2 DEF Deliver, FrameType
    <3>4. QED
      BY <1>0, <2>1, <3>1, <3>2, <3>3 DEF FrameType
  <2>4. QED
    BY <1>4, <2>2, <2>3 DEF CallbackLoopTop
<1>5. CASE CallbackReturns
  BY <1>5 DEF CallbackReturns, FrameType
<1>6. CASE SetFrameCallback
  BY <1>0, <1>6, EmptyType DEF SetFrameCallback, FrameType
<1>7. CASE CloseReturns
  BY <1>0, <1>7, EmptyType DEF CloseReturns, FrameType, AllModes
<1>8. QED
  BY <1>1, <1>2, <1>3, <1>4, <1>5, <1>6, <1>7, FrameCases

LEMMA HwTypeStep == HwType /\ [Next]_vars => HwType'
<1> SUFFICES ASSUME HwType, [Next]_vars PROVE HwType'
  OBVIOUS
<1> USE DEF hwVars, countVars, allButPc
<1>0. HwDepth \in Nat \ {0}
  BY DecoderAssumption
<1>1. CASE UNCHANGED <<hwIn, hwOut, ahead, back>>
  BY <1>1 DEF HwType
<1>2. CASE SendAccepted \/ SendAbandoned
  BY <1>0, <1>2 DEF SendAccepted, SendAbandoned, HwType
<1>3. CASE Decode \/ DecodeNothing \/ ReceiveFrame
  BY <1>0, <1>3 DEF Decode, DecodeNothing, ReceiveFrame, HwType
<1>4. CASE CreateBackend \/ StopBackend \/ CloseReturns
  BY <1>0, <1>4 DEF CreateBackend, StopBackend, CloseReturns, HwType
<1>5. CASE \E p \in Producers : ProducerAct(p)
  BY <1>1, <1>5 DEF ProducerAct, ProducerStep, SubmitPacket, SubmitEndOfStream, FallAsleep,
              SubmitLocked, SubmitNotify, SubmitEndOfStreamLocked
<1>6. CASE SendStep
  BY <1>1, <1>2, <1>6 DEF SendStep, FallAsleep, SendLoopStops, SendLoopTop, SendLoopNotify,
              SendFails, SendPressure, SendEndOfStream, SendLoopEnds
<1>7. CASE ReceiveStep
  BY <1>1, <1>3, <1>7 DEF ReceiveStep, ReceiveLoopStops, ReceiveFlowEnd, PublishLatest,
              PublishFails, PublishOffer
<1>8. CASE CallbackStep \/ CallbackReturns
  BY <1>1, <1>8 DEF CallbackStep, CallbackReturns, FallAsleep, CallbackLoopTop
<1>9. CASE \E t \in InputThreads \union {Deliverer} : SpuriousWakeup(t)
  BY <1>1, <1>9 DEF SpuriousWakeup
<1>10. CASE CtlCall \/ CtlStep
  BY <1>1, <1>4, <1>10 DEF CtlCall, CtlStep, SetFrameCallback, Start, Stop, CloseStopped,
              StartBackendFails, StartThreads, StartReturns, StopNotify, JoinSend, JoinReceive,
              StopCallback, NotifyCallback, JoinCallback
<1>11. CASE UNCHANGED vars
  BY <1>1, <1>11 DEF vars
<1>12. QED
  BY <1>3, <1>5, <1>6, <1>7, <1>8, <1>9, <1>10, <1>11, NextCases DEF ThreadStep, HardwareStep

LEMMA CtlTypeStep == CtlType /\ [Next]_vars => CtlType'
<1> SUFFICES ASSUME CtlType, [Next]_vars PROVE CtlType'
  OBVIOUS
<1>1. overlooked' \subseteq Threads
  <2> USE DEF histVars, allButPc
  <2>0. overlooked \subseteq Threads /\ InputThreads \subseteq Threads /\ {Deliverer} \subseteq Threads
    BY ThreadFacts DEF CtlType
  <2>1. CASE StillOverlooked \/ UNCHANGED overlooked
    BY <2>0, <2>1 DEF StillOverlooked
  <2>2. CASE StopNotify \/ NotifyCallback
    BY <2>0, <2>2 DEF StopNotify, NotifyCallback
  <2>3. CASE \E p \in Producers : ProducerAct(p)
    BY <2>1, <2>3 DEF ProducerAct, ProducerStep, SubmitPacket, SubmitEndOfStream, FallAsleep,
                SubmitLocked, SubmitNotify, SubmitEndOfStreamLocked
  <2>4. CASE SendStep
    BY <2>1, <2>4 DEF SendStep, FallAsleep, SendLoopStops, SendLoopTop, SendLoopNotify,
                SendAccepted, SendAbandoned, SendFails, SendPressure, SendEndOfStream, SendLoopEnds
  <2>5. CASE ReceiveStep
    BY <2>1, <2>5 DEF ReceiveStep, ReceiveLoopStops, ReceiveFrame, ReceiveFlowEnd, PublishLatest,
                PublishFails, PublishOffer
  <2>6. CASE CallbackStep \/ CallbackReturns
    BY <2>1, <2>6 DEF CallbackStep, CallbackReturns, FallAsleep, CallbackLoopTop
  <2>7. CASE HardwareStep
    BY <2>1, <2>7 DEF HardwareStep, Decode, DecodeNothing
  <2>8. CASE \E t \in InputThreads \union {Deliverer} : SpuriousWakeup(t)
    BY <2>1, <2>8 DEF SpuriousWakeup
  <2>9. CASE CtlCall \/ CtlStep
    BY <2>1, <2>2, <2>9 DEF CtlCall, CtlStep, CreateBackend, SetFrameCallback, Start, Stop,
                CloseStopped, StartBackendFails, StartThreads, StartReturns, JoinSend,
                JoinReceive, StopBackend, StopCallback, JoinCallback, CloseReturns
  <2>10. CASE UNCHANGED vars
    BY <2>1, <2>10 DEF vars
  <2>11. QED
    BY <2>3, <2>4, <2>5, <2>6, <2>7, <2>8, <2>9, <2>10, NextCases DEF ThreadStep
<1>2. ctl' \in CtlStates /\ goal' \in {"stop", "close", "open"}
  <2>1. CASE ThreadStep \/ UNCHANGED vars
    BY <2>1, ThreadsLeaveControl DEF CtlType, vars, allButPc, ctlVars
  <2>2. CASE CtlCall
    BY <2>2 DEF CtlCall, CreateBackend, SetFrameCallback, Start, Stop, CloseStopped, CtlType,
                CtlStates, StopPhases, ctlVars
  <2>3. CASE CtlStep
    BY <2>3 DEF CtlStep, CreateBackend, StartBackendFails, StartThreads, StartReturns, StopNotify,
                JoinSend, JoinReceive, StopBackend, StopCallback, NotifyCallback, JoinCallback,
                CloseReturns, CtlType, CtlStates, StopPhases
  <2>4. QED
    BY <2>1, <2>2, <2>3, NextCases
<1>3. QED
  BY <1>1, <1>2 DEF CtlType

LEMMA FlagTypeStep == FlagType /\ [Next]_vars => FlagType'
<1> SUFFICES ASSUME FlagType, [Next]_vars PROVE FlagType'
  OBVIOUS
<1> USE DEF FlagType, flagVars, hwVars, frameVars, histVars, allButPc
<1>1. CASE \E p \in Producers : ProducerAct(p)
  BY <1>1 DEF ProducerAct, ProducerStep, SubmitPacket, SubmitEndOfStream, FallAsleep, SubmitLocked,
              SubmitNotify, SubmitEndOfStreamLocked
<1>2. CASE SendStep
  <2>1. CASE SendEndOfStream
    <3>1. (~stop /\ hwIn < HwDepth) \in BOOLEAN
      OBVIOUS
    <3>2. QED
      BY <2>1, <3>1 DEF SendEndOfStream
  <2>2. CASE FallAsleep(Sender) \/ SendLoopStops \/ SendLoopTop \/ SendLoopNotify
    BY <2>2 DEF FallAsleep, SendLoopStops, SendLoopTop, SendLoopNotify
  <2>3. CASE SendAccepted \/ SendAbandoned \/ SendFails \/ SendPressure \/ SendLoopEnds
    BY <2>3, ZenonT(60) DEF SendAccepted, SendAbandoned, SendFails, SendPressure, SendLoopEnds
  <2>4. QED
    BY <1>2, <2>1, <2>2, <2>3 DEF SendStep
<1>3. CASE ReceiveStep
  BY <1>3 DEF ReceiveStep, ReceiveLoopStops, ReceiveFrame, ReceiveFlowEnd, PublishLatest,
              PublishFails, PublishOffer
<1>4. CASE CallbackStep \/ CallbackReturns
  BY <1>4 DEF CallbackStep, CallbackReturns, FallAsleep, CallbackLoopTop
<1>5. CASE HardwareStep
  BY <1>5 DEF HardwareStep, Decode, DecodeNothing
<1>6. CASE \E t \in InputThreads \union {Deliverer} : SpuriousWakeup(t)
  BY <1>6 DEF SpuriousWakeup
<1>7. CASE CtlCall
  BY <1>7, ZenonT(60) DEF CtlCall, CreateBackend, SetFrameCallback, Start, Stop, CloseStopped
<1>8. CASE CtlStep
  <2>1. CASE CreateBackend \/ CloseReturns
    BY <2>1 DEF CreateBackend, CloseReturns
  <2>2. CASE StartBackendFails \/ StartThreads \/ StartReturns \/ StopNotify
    BY <2>2, ZenonT(60) DEF StartBackendFails, StartThreads, StartReturns, StopNotify
  <2>3. CASE JoinSend \/ JoinReceive \/ StopBackend \/ StopCallback
    BY <2>3, ZenonT(60) DEF JoinSend, JoinReceive, StopBackend, StopCallback
  <2>4. CASE NotifyCallback \/ JoinCallback
    BY <2>4 DEF NotifyCallback, JoinCallback
  <2>5. QED
    BY <1>8, <2>1, <2>2, <2>3, <2>4 DEF CtlStep
<1>9. CASE UNCHANGED vars
  BY <1>9 DEF vars
<1>10. QED
  BY <1>1, <1>2, <1>3, <1>4, <1>5, <1>6, <1>7, <1>8, <1>9, NextCases DEF ThreadStep

LEMMA TypesStep == Types /\ [Next]_vars => Types'
BY FlagTypeStep, CtlTypeStep, StepMoves, QueueTypeStep, HwTypeStep, FrameTypeStep DEF Types

(***************************************************************************)
(* The decoder's variables have their types; in particular its two queues  *)
(* and the hardware's never hold more than they have room for.             *)
(***************************************************************************)
THEOREM TypeCorrect == Spec => []TypeOK
<1>1. Init => Types
  BY TypeInit
<1>2. Types /\ [Next]_vars => Types'
  BY TypesStep
<1>3. Types => TypeOK
  BY TypeParts
<1>4. QED
  BY <1>1, <1>2, <1>3, PTL DEF Spec

-----------------------------------------------------------------------------
(* The input queue is a FrameFifo.                                         *)

(***************************************************************************)
(* The decoder's input queue implements a FrameFifo that displaces         *)
(* nothing: whatever producers, send thread, Start, Open and Close do, a   *)
(* packet enters at the back while there is room, leaves at the front in   *)
(* its turn, and is thrown away only when the whole queue is.              *)
(***************************************************************************)
THEOREM QueueImplementsFifo == Spec => PacketQueueSpec
<1>1. Init => PacketQueue!Init
  BY DEF Init, PacketQueue!Init
<1>2. Types /\ [Next]_vars
        => [PacketQueue!Next]_(PacketQueue!fifoVars) /\ [~PacketQueue!Displace]_queueVars
  <2> SUFFICES ASSUME Types, [Next]_vars
               PROVE  /\ PacketQueue!Next \/ UNCHANGED PacketQueue!fifoVars
                      /\ ~PacketQueue!Displace \/ UNCHANGED queueVars
    OBVIOUS
  <2> USE DEF PacketQueue!Next, PacketQueue!fifoVars
  <2>0. QueueDepth \in Nat \ {0} /\ accepted \in Nat /\ pending \in Seq(Nat)
    BY DecoderAssumption DEF Types, QueueType
  <2>1. CASE UNCHANGED queueVars
    BY <2>1 DEF queueVars
  <2>2. ASSUME NEW p \in Producers, SubmitLocked(p), SubmitPushes(p)
        PROVE  PacketQueue!Accept /\ ~PacketQueue!Displace
    <3>1. Len(pending) < QueueDepth
      BY <2>0, <2>2 DEF SubmitPushes, QueueFull
    <3>2. PacketQueue!Accept
      BY <2>2, <3>1 DEF SubmitPushes, SubmitLocked, PacketQueue!Accept
    <3>3. QED
      BY <2>0, <3>1, <3>2 DEF PacketQueue!Displace
  <2>3. CASE SendLoopTop /\ SendLoopTake
    <3>1. PacketQueue!Take
      BY <2>3 DEF SendLoopTop, SendLoopTake, PacketQueue!Take
    <3>2. accepted' # accepted + 1
      BY <2>0, <3>1 DEF PacketQueue!Take
    <3>3. QED
      BY <3>1, <3>2 DEF PacketQueue!Displace
  <2>4. CASE CreateBackend \/ Start
    <3>1. PacketQueue!Discard \/ UNCHANGED queueVars
      BY <2>4 DEF CreateBackend, Start, PacketQueue!Discard, queueVars
    <3>2. accepted' # accepted + 1
      BY <2>0, <2>4 DEF CreateBackend, Start
    <3>3. QED
      BY <3>1, <3>2 DEF PacketQueue!Displace, queueVars
  <2>5. CASE CloseReturns
    <3>1. PacketQueue!Reset
      BY <2>5 DEF CloseReturns, PacketQueue!Reset
    <3>2. accepted' # accepted + 1
      BY <2>0, <3>1 DEF PacketQueue!Reset
    <3>3. QED
      BY <3>1, <3>2 DEF PacketQueue!Displace
  <2>6. QED
    BY <2>1, <2>2, <2>3, <2>4, <2>5, QueueCases DEF queueVars
<1>3. Init => Types
  BY TypeInit
<1>4. Types /\ [Next]_vars => Types'
  BY TypesStep
<1>5. QED
  BY <1>1, <1>2, <1>3, <1>4, PTL DEF Spec, PacketQueueSpec, PacketQueue!Spec

-----------------------------------------------------------------------------
(* The session.                                                            *)

(***************************************************************************)
(* A decoder works from the moment its threads are started until Stop has  *)
(* joined the last of them; running_ is set a little later and reset with  *)
(* that last join.                                                         *)
(***************************************************************************)
Working == running \/ ctl = "started"

CallbackEnding == {"notify_callback", "join_callback"}
BackendStopped == CallbackEnding \union {"stop_callback"}
ReceiverJoined == BackendStopped \union {"stop_backend"}
SenderJoined == ReceiverJoined \union {"join_receive"}

(***************************************************************************)
(* What the application thread's place says of the flags.                  *)
(***************************************************************************)
ControlInv ==
  /\ ctl \in StopPhases => running /\ stop
  /\ ctl \in {"start", "started"} => open /\ ~running /\ ~stop /\ ~callbackStop
  /\ ctl = "close" => open /\ ~running
  /\ ctl = "create" => ~open /\ ~running
  /\ running => open /\ ctl \in StopPhases \union {"idle"}
  /\ running /\ ctl = "idle" => ~stop
  /\ Working => (callbackStop <=> ctl \in CallbackEnding)

LEMMA ControlUntouched ==
  ControlInv /\ UNCHANGED <<open, running, stop, callbackStop, ctl>> => ControlInv'
BY DEF ControlInv, Working

(***************************************************************************)
(* Start and Stop lead the flags through a session and back.               *)
(***************************************************************************)
LEMMA ControlStep == Types /\ ControlInv /\ [Next]_vars => ControlInv'
<1> SUFFICES ASSUME Types, ControlInv, [Next]_vars PROVE ControlInv'
  OBVIOUS
<1> USE DEF flagVars, StopPhases, CallbackEnding
<1>0. FlagType /\ FlagType'
  BY TypesStep DEF Types
<1>1. CASE ThreadStep \/ UNCHANGED vars
  BY <1>1, ThreadsLeaveControl, ControlUntouched DEF vars, allButPc, ctlVars
<1>2. CASE CreateBackend
  BY <1>0, <1>2 DEF CreateBackend, ControlInv, Working, FlagType
<1>3. CASE SetFrameCallback
  BY <1>3, ControlUntouched DEF SetFrameCallback, ctlVars
<1>4. CASE Start \/ StartBackendFails \/ StartThreads \/ StartReturns
  <2>1. CASE Start
    BY <1>0, <2>1 DEF Start, ControlInv, Working, FlagType
  <2>2. CASE StartBackendFails
    BY <1>0, <2>2 DEF StartBackendFails, ControlInv, Working, FlagType
  <2>3. CASE StartThreads
    BY <1>0, <2>3 DEF StartThreads, ControlInv, Working, FlagType
  <2>4. CASE StartReturns
    BY <1>0, <2>4 DEF StartReturns, ControlInv, Working, FlagType
  <2>5. QED
    BY <1>4, <2>1, <2>2, <2>3, <2>4
<1>5. CASE \E g \in {"stop", "close", "open"} : Stop(g)
  BY <1>0, <1>5 DEF Stop, ControlInv, Working, FlagType
<1>6. CASE \E g \in {"close", "open"} : CloseStopped(g)
  BY <1>0, <1>6 DEF CloseStopped, ControlInv, Working, FlagType
<1>7. CASE StopNotify \/ JoinSend \/ JoinReceive \/ StopBackend
  BY <1>0, <1>7 DEF StopNotify, JoinSend, JoinReceive, StopBackend, ControlInv, Working, FlagType
<1>8. CASE StopCallback \/ NotifyCallback \/ JoinCallback
  BY <1>0, <1>8 DEF StopCallback, NotifyCallback, JoinCallback, ControlInv, Working, FlagType
<1>9. CASE CloseReturns
  BY <1>0, <1>9 DEF CloseReturns, ControlInv, Working, FlagType
<1>10. QED
  BY <1>1, <1>2, <1>3, <1>4, <1>5, <1>6, <1>7, <1>8, <1>9, NextCases DEF CtlCall, CtlStep

(***************************************************************************)
(* Where the threads are: each at a place of its own program, and not off  *)
(* exactly while the decoder works and Stop has not joined the thread.     *)
(***************************************************************************)
PlaceInv ==
  /\ \A p \in Producers : pc[p] \in ProducerPlaces
  /\ pc[Sender] \in SenderPlaces
  /\ pc[Receiver] \in ReceiverPlaces
  /\ pc[Deliverer] \in DelivererPlaces
  /\ pc[Sender] # "off" <=> Working /\ ctl \notin SenderJoined
  /\ pc[Receiver] # "off" <=> Working /\ ctl \notin ReceiverJoined
  /\ pc[Deliverer] # "off" <=> Working

(***************************************************************************)
(* A thread that does not take the step does not leave its program; which  *)
(* threads run is up to the application thread.                            *)
(***************************************************************************)
LEMMA PlaceKept ==
  ASSUME PlaceInv, NEW t \in Threads, Woke(t)
  PROVE  /\ t \in Producers => pc'[t] \in ProducerPlaces
         /\ t = Sender => pc'[t] \in SenderPlaces
         /\ t = Receiver => pc'[t] \in ReceiverPlaces
         /\ t = Deliverer => pc'[t] \in DelivererPlaces
         /\ pc'[t] # "off" <=> pc[t] # "off"
BY DEF PlaceInv, Woke, ProducerPlaces, SenderPlaces, ReceiverPlaces, DelivererPlaces

(***************************************************************************)
(* Threads and application keep to their programs.                         *)
(***************************************************************************)
LEMMA PlaceThreads ==
  ASSUME Types, PlaceInv, ThreadStep \/ UNCHANGED vars
  PROVE  PlaceInv'
<1>1. UNCHANGED <<running, ctl>>
  BY ThreadsLeaveControl DEF vars, allButPc, flagVars, ctlVars
<1>3. PcType /\ [Next]_vars
  BY DEF Types, ThreadStep, Next, ProducerAct, ProducerStep
<1>4. \A t \in Threads : Woke(t) \/ OwnStep(t)
  BY <1>3, StepMoves
<1>5. \A t \in SessionThreads : ~ThreadControl
  BY <1>1 DEF ThreadControl, StartThreads, JoinSend, JoinReceive, JoinCallback
<1>6. \A p \in Producers : pc'[p] \in ProducerPlaces
  <2> SUFFICES ASSUME NEW p \in Producers PROVE pc'[p] \in ProducerPlaces
    OBVIOUS
  <2>1. p \in Threads /\ p \notin SessionThreads
    BY ThreadFacts DEF SessionThreads
  <2>2. Woke(p) \/ ProducerAct(p)
    BY <1>4, <2>1 DEF OwnStep, SessionThreads
  <2>3. QED
    BY <1>3, <2>1, <2>2, PlaceKept, ProducerMoves
<1>7. Sender \in Threads /\ Receiver \in Threads /\ Deliverer \in Threads
  BY ThreadFacts
<1>8. Woke(Sender) \/ SendStep
  BY <1>4, <1>5, <1>7, ThreadFacts DEF OwnStep, SessionThreads
<1>9. Woke(Receiver) \/ ReceiveStep
  BY <1>4, <1>5, <1>7, ThreadFacts DEF OwnStep, SessionThreads
<1>10. Woke(Deliverer) \/ CallbackStep \/ CallbackReturns
  BY <1>4, <1>5, <1>7, ThreadFacts DEF OwnStep, SessionThreads
<1>11. pc'[Sender] \in SenderPlaces /\ (pc'[Sender] # "off" <=> pc[Sender] # "off")
  BY <1>3, <1>7, <1>8, PlaceKept, SendMoves
<1>12. pc'[Receiver] \in ReceiverPlaces /\ (pc'[Receiver] # "off" <=> pc[Receiver] # "off")
  BY <1>3, <1>7, <1>9, PlaceKept, ReceiveMoves
<1>13. pc'[Deliverer] \in DelivererPlaces /\ (pc'[Deliverer] # "off" <=> pc[Deliverer] # "off")
  BY <1>3, <1>7, <1>10, PlaceKept, CallbackMoves
<1>14. QED
  BY <1>1, <1>6, <1>11, <1>12, <1>13 DEF PlaceInv, Working

LEMMA PlaceControl ==
  ASSUME Types, ControlInv, PlaceInv, CtlCall \/ CtlStep
  PROVE  PlaceInv'
<1> USE DEF flagVars
<1>0. PcType /\ Sender \in Threads /\ Receiver \in Threads /\ Deliverer \in Threads
  BY ThreadFacts DEF Types
<1>1. \A t \in Threads \ SessionThreads : Woke(t)
  BY <1>0, ThreadControlMoves, OtherControlMoves
<1>2. \A p \in Producers : pc'[p] \in ProducerPlaces
  <2> SUFFICES ASSUME NEW p \in Producers PROVE pc'[p] \in ProducerPlaces
    OBVIOUS
  <2>1. p \in Threads \ SessionThreads
    BY ThreadFacts DEF SessionThreads
  <2>2. QED
    BY <1>1, <2>1, PlaceKept
<1>3. CASE ~ThreadControl
  <2>1. \A t \in Threads : Woke(t)
    BY <1>0, <1>3, OtherControlMoves
  <2>2. /\ pc'[Sender] \in SenderPlaces /\ (pc'[Sender] # "off" <=> pc[Sender] # "off")
        /\ pc'[Receiver] \in ReceiverPlaces /\ (pc'[Receiver] # "off" <=> pc[Receiver] # "off")
        /\ pc'[Deliverer] \in DelivererPlaces /\ (pc'[Deliverer] # "off" <=> pc[Deliverer] # "off")
    BY <1>0, <2>1, PlaceKept
  <2>3. /\ Working' <=> Working
        /\ Working => (ctl' \in SenderJoined <=> ctl \in SenderJoined)
        /\ Working => (ctl' \in ReceiverJoined <=> ctl \in ReceiverJoined)
    <3> USE DEF ControlInv, Working, SenderJoined, ReceiverJoined, BackendStopped, CallbackEnding,
                StopPhases
    <3>0. FlagType
      BY DEF Types
    <3>1. CASE CreateBackend \/ SetFrameCallback \/ Start
      BY <3>0, <3>1 DEF CreateBackend, SetFrameCallback, Start, ctlVars, FlagType
    <3>2. CASE (\E g \in {"stop", "close", "open"} : Stop(g))
               \/ (\E g \in {"close", "open"} : CloseStopped(g))
      BY <3>0, <3>2 DEF Stop, CloseStopped, FlagType
    <3>3. CASE StartBackendFails \/ StartReturns \/ StopNotify
      BY <3>0, <3>3 DEF StartBackendFails, StartReturns, StopNotify, FlagType
    <3>4. CASE StopBackend \/ StopCallback \/ NotifyCallback \/ CloseReturns
      BY <3>0, <3>4 DEF StopBackend, StopCallback, NotifyCallback, CloseReturns, FlagType
    <3>5. QED
      BY <1>3, <3>1, <3>2, <3>3, <3>4 DEF CtlCall, CtlStep, ThreadControl
  <2>4. QED
    BY <1>2, <2>2, <2>3 DEF PlaceInv
<1>4. CASE StartThreads
  <2>1. pc'[Sender] = "lock" /\ pc'[Receiver] = "poll" /\ pc'[Deliverer] = "lock"
    BY <1>0, <1>4, ThreadFacts DEF StartThreads
  <2>2. Working' /\ ctl' = "started"
    BY <1>4 DEF StartThreads, Working
  <2>3. QED
    BY <1>2, <2>1, <2>2 DEF PlaceInv, SenderPlaces, ReceiverPlaces, DelivererPlaces, SenderJoined,
                            ReceiverJoined, BackendStopped, CallbackEnding
<1>5. CASE JoinSend \/ JoinReceive \/ JoinCallback
  <2> USE DEF SenderJoined, ReceiverJoined, BackendStopped, CallbackEnding, StopPhases
  <2>1. CASE JoinSend
    <3>1. /\ pc'[Sender] = "off" /\ pc'[Receiver] = pc[Receiver] /\ pc'[Deliverer] = pc[Deliverer]
          /\ ctl = "join_send" /\ ctl' = "join_receive" /\ running' = running
      BY <1>0, <2>1, ThreadFacts, GotoMoves DEF JoinSend, PcStates
    <3>2. running
      BY <3>1 DEF ControlInv
    <3>3. QED
      BY <1>2, <3>1, <3>2 DEF PlaceInv, Working, SenderPlaces
  <2>2. CASE JoinReceive
    <3>1. /\ pc'[Receiver] = "off" /\ pc'[Sender] = pc[Sender] /\ pc'[Deliverer] = pc[Deliverer]
          /\ ctl = "join_receive" /\ ctl' = "stop_backend" /\ running' = running
      BY <1>0, <2>2, ThreadFacts, GotoMoves DEF JoinReceive, PcStates
    <3>2. running
      BY <3>1 DEF ControlInv
    <3>3. QED
      BY <1>2, <3>1, <3>2 DEF PlaceInv, Working, ReceiverPlaces
  <2>3. CASE JoinCallback
    <3>1. /\ pc'[Deliverer] = "off" /\ pc'[Sender] = pc[Sender] /\ pc'[Receiver] = pc[Receiver]
          /\ ctl = "join_callback" /\ ctl' \in {"idle", "close"} /\ ~running'
      BY <1>0, <2>3, ThreadFacts, GotoMoves DEF JoinCallback, PcStates
    <3>2. pc[Sender] = "off" /\ pc[Receiver] = "off"
      BY <3>1 DEF PlaceInv
    <3>3. QED
      BY <1>2, <3>1, <3>2 DEF PlaceInv, Working, SenderPlaces, ReceiverPlaces, DelivererPlaces
  <2>4. QED
    BY <1>5, <2>1, <2>2, <2>3
<1>6. QED
  BY <1>3, <1>4, <1>5 DEF ThreadControl

SessionInv == Types /\ ControlInv /\ PlaceInv

LEMMA SessionStep == SessionInv /\ [Next]_vars => SessionInv'
BY TypesStep, ControlStep, PlaceThreads, PlaceControl, NextCases DEF SessionInv

LEMMA SessionInit == Init => SessionInv
<1> SUFFICES ASSUME Init PROVE SessionInv
  OBVIOUS
<1>1. Types
  BY TypeInit
<1>2. ControlInv
  BY DEF Init, ControlInv, Working, StopPhases
<1>3. PlaceInv
  <2>1. /\ \A p \in Producers : pc[p] = "idle"
        /\ pc[Sender] = "off" /\ pc[Receiver] = "off" /\ pc[Deliverer] = "off"
    BY ThreadFacts, DecoderAssumption DEF Init, Threads, InputThreads
  <2>2. ~Working
    BY DEF Init, Working
  <2>3. QED
    BY <2>1, <2>2 DEF PlaceInv, ProducerPlaces, SenderPlaces, ReceiverPlaces, DelivererPlaces
<1>4. QED
  BY <1>1, <1>2, <1>3 DEF SessionInv

(***************************************************************************)
(* What a step can do with each of the session's threads.                  *)
(***************************************************************************)
LEMMA SenderMoves ==
  ASSUME SessionInv, [Next]_vars
  PROVE  \/ Woke(Sender) \/ SendStep
         \/ StartThreads /\ pc[Sender] = "off" /\ pc'[Sender] = "lock"
         \/ JoinSend /\ pc[Sender] = "done" /\ pc'[Sender] = "off"
<1>0. PcType /\ Sender \in Threads /\ "off" \in PcStates
  BY ThreadFacts DEF SessionInv, Types, PcStates
<1>1. Woke(Sender) \/ SendStep \/ ThreadControl
  BY <1>0, StepMoves, ThreadFacts DEF OwnStep
<1>2. CASE StartThreads
  <2>1. ~Working
    BY <1>2 DEF StartThreads, SessionInv, ControlInv, Working
  <2>2. QED
    BY <1>0, <1>2, <2>1, ThreadFacts DEF StartThreads, SessionInv, PlaceInv
<1>3. CASE JoinSend \/ JoinReceive \/ JoinCallback
  BY <1>0, <1>3, ThreadFacts, GotoMoves DEF JoinSend, JoinReceive, JoinCallback, Woke
<1>4. QED
  BY <1>1, <1>2, <1>3 DEF ThreadControl

LEMMA ReceiverMoves ==
  ASSUME SessionInv, [Next]_vars
  PROVE  \/ pc'[Receiver] = pc[Receiver] \/ ReceiveStep
         \/ StartThreads /\ pc[Receiver] = "off" /\ pc'[Receiver] = "poll"
         \/ JoinReceive /\ pc[Receiver] = "done" /\ pc'[Receiver] = "off"
<1>0. PcType /\ Receiver \in Threads /\ "off" \in PcStates
  BY ThreadFacts DEF SessionInv, Types, PcStates
<1>1. Woke(Receiver) \/ ReceiveStep \/ ThreadControl
  BY <1>0, StepMoves, ThreadFacts DEF OwnStep
<1>2. CASE StartThreads
  <2>1. ~Working
    BY <1>2 DEF StartThreads, SessionInv, ControlInv, Working
  <2>2. QED
    BY <1>0, <1>2, <2>1, ThreadFacts DEF StartThreads, SessionInv, PlaceInv
<1>3. CASE JoinSend \/ JoinReceive \/ JoinCallback
  BY <1>0, <1>3, ThreadFacts, GotoMoves DEF JoinSend, JoinReceive, JoinCallback
<1>4. CASE Woke(Receiver)
  BY <1>4 DEF Woke, SessionInv, PlaceInv, ReceiverPlaces
<1>5. QED
  BY <1>1, <1>2, <1>3, <1>4 DEF ThreadControl

LEMMA DelivererMoves ==
  ASSUME SessionInv, [Next]_vars
  PROVE  \/ Woke(Deliverer) \/ CallbackStep \/ CallbackReturns
         \/ StartThreads /\ pc[Deliverer] = "off" /\ pc'[Deliverer] = "lock"
         \/ JoinCallback /\ pc[Deliverer] = "done" /\ pc'[Deliverer] = "off"
<1>0. PcType /\ Deliverer \in Threads /\ "off" \in PcStates
  BY ThreadFacts DEF SessionInv, Types, PcStates
<1>1. Woke(Deliverer) \/ CallbackStep \/ CallbackReturns \/ ThreadControl
  BY <1>0, StepMoves, ThreadFacts DEF OwnStep
<1>2. CASE StartThreads
  <2>1. ~Working
    BY <1>2 DEF StartThreads, SessionInv, ControlInv, Working
  <2>2. QED
    BY <1>0, <1>2, <2>1, ThreadFacts DEF StartThreads, SessionInv, PlaceInv
<1>3. CASE JoinSend \/ JoinReceive \/ JoinCallback
  <2>1. CASE JoinSend \/ JoinReceive
    BY <1>0, <2>1, ThreadFacts, GotoMoves DEF JoinSend, JoinReceive, Woke
  <2>2. CASE JoinCallback
    BY <1>0, <2>2, GotoMoves DEF JoinCallback
  <2>3. QED
    BY <1>3, <2>1, <2>2
<1>4. QED
  BY <1>1, <1>2, <1>3 DEF ThreadControl

-----------------------------------------------------------------------------
(* A stopped decoder is quiet.                                             *)

(***************************************************************************)
(* The callback thread holds a frame only while it calls, ends only once   *)
(* Stop has set callback_stop_, which it does when the receive thread is   *)
(* gone, and leaves nothing behind.                                        *)
(***************************************************************************)
QuietInv ==
  /\ pc[Deliverer] # "call" => calling = 0
  /\ pc[Deliverer] = "done" => callbackStop
  /\ ~Working \/ pc[Deliverer] = "done" => NothingOffered

LEMMA CallbackLoopMoves ==
  ASSUME SessionInv, CallbackLoopTop
  PROVE  \/ CallbackWaits /\ pc'[Deliverer] = "sleep"
         \/ CallbackEnds /\ pc'[Deliverer] = "done"
         \/ /\ CallbackTakesSlot \/ CallbackTakesFront
            /\ \/ ~callback /\ UNCHANGED <<calling, delivered>> /\ pc'[Deliverer] = "lock"
               \/ callback /\ calling' = delivered' /\ pc'[Deliverer] = "call"
<1>0. PcType /\ Deliverer \in Threads /\ {"sleep", "done", "lock", "call"} \subseteq PcStates
  BY ThreadFacts DEF SessionInv, Types, PcStates
<1>1. \A s \in {"sleep", "done", "lock", "call"} : pc' = Goto(Deliverer, s) => pc'[Deliverer] = s
  BY <1>0, GotoMoves
<1>2. CASE CallbackWaits \/ CallbackEnds
  BY <1>1, <1>2 DEF CallbackWaits, CallbackEnds
<1>3. CASE CallbackTakesSlot \/ CallbackTakesFront
  <2>1. \E frame : Deliver(frame)
    BY <1>3 DEF CallbackTakesSlot, CallbackTakesFront
  <2>2. QED
    BY <1>1, <1>3, <2>1 DEF Deliver
<1>4. QED
  BY <1>2, <1>3 DEF CallbackLoopTop

LEMMA QuietStep == SessionInv /\ QuietInv /\ [Next]_vars => QuietInv'
<1> SUFFICES ASSUME SessionInv, QuietInv, [Next]_vars PROVE QuietInv'
  OBVIOUS
<1> USE DEF frameVars, flagVars
<1>0. SessionInv' /\ FlagType /\ FlagType'
  BY SessionStep DEF SessionInv, Types
<1>t. PcType /\ Deliverer \in Threads /\ Receiver \in Threads /\ {"lock", "poll"} \subseteq PcStates
      /\ Receiver # Deliverer
  BY ThreadFacts DEF SessionInv, Types, PcStates
<1>1. CASE CallbackLoopTop
  <2>1. UNCHANGED <<running, ctl, callbackStop>> /\ pc[Deliverer] \in {"lock", "woken"}
    BY <1>1 DEF CallbackLoopTop, ctlVars
  <2>2. Working' <=> Working
    BY <2>1 DEF Working
  <2>3. Working
    BY <2>1 DEF SessionInv, PlaceInv
  <2>4. CASE CallbackWaits /\ pc'[Deliverer] = "sleep"
    BY <2>1, <2>2, <2>3, <2>4 DEF CallbackWaits, QuietInv
  <2>5. CASE CallbackEnds /\ pc'[Deliverer] = "done"
    BY <2>1, <2>2, <2>3, <2>5 DEF CallbackEnds, QuietInv, NothingOffered
  <2>6. CASE \/ ~callback /\ UNCHANGED <<calling, delivered>> /\ pc'[Deliverer] = "lock"
             \/ callback /\ calling' = delivered' /\ pc'[Deliverer] = "call"
    BY <2>1, <2>2, <2>3, <2>6 DEF QuietInv
  <2>7. QED
    BY <1>1, <2>4, <2>5, <2>6, CallbackLoopMoves
<1>2. CASE CallbackReturns
  <2>1. /\ pc'[Deliverer] = "lock" /\ calling' = 0
        /\ UNCHANGED <<running, ctl, callbackStop, slot, queue>>
    BY <1>2, <1>t, GotoMoves DEF CallbackReturns, ctlVars
  <2>2. QED
    BY <2>1 DEF QuietInv, Working, NothingOffered
<1>3. CASE PublishOffer
  <2>1. pc[Receiver] = "offer" /\ UNCHANGED <<running, ctl, callbackStop, calling>>
    BY <1>3 DEF PublishOffer, ctlVars
  <2>2. Working /\ ctl \notin ReceiverJoined
    BY <2>1 DEF SessionInv, PlaceInv
  <2>3. ~callbackStop
    BY <2>2 DEF SessionInv, ControlInv, ReceiverJoined, BackendStopped
  <2>4. Woke(Deliverer)
    BY <1>3, <1>t, ReceiveMoves DEF ReceiveStep, OthersWoke
  <2>5. pc'[Deliverer] # "done" /\ (pc'[Deliverer] # "call" => pc[Deliverer] # "call")
    BY <2>3, <2>4 DEF Woke, QuietInv
  <2>6. Working'
    BY <2>1, <2>2 DEF Working
  <2>7. QED
    BY <2>1, <2>5, <2>6 DEF QuietInv
<1>4. CASE SetFrameCallback \/ CloseReturns
  <2>1. /\ NothingOffered' /\ UNCHANGED <<callbackStop, calling>>
    BY <1>4 DEF SetFrameCallback, CloseReturns, NothingOffered
  <2>2. Woke(Deliverer)
    <3>1. CtlCall \/ CtlStep
      BY <1>4 DEF CtlCall, CtlStep
    <3>2. ~ThreadControl
      BY <1>4 DEF SetFrameCallback, CloseReturns, ThreadControl, StartThreads, JoinSend,
                  JoinReceive, JoinCallback
    <3>3. QED
      BY <1>t, <3>1, <3>2, OtherControlMoves
  <2>3. QED
    BY <2>1, <2>2 DEF QuietInv, Woke
<1>5. CASE UNCHANGED frameVars \/ PublishLatest
  <2>1. UNCHANGED <<slot, queue, calling>>
    BY <1>5 DEF PublishLatest
  <2>2. NothingOffered' <=> NothingOffered
    BY <2>1 DEF NothingOffered
  <2>3. /\ Working /\ pc[Deliverer] = "done" => NothingOffered
        /\ ~Working => NothingOffered
    BY DEF QuietInv
  <2>4. CASE Woke(Deliverer) \/ FallAsleep(Deliverer)
    <3>1. /\ pc'[Deliverer] = "call" <=> pc[Deliverer] = "call"
          /\ pc'[Deliverer] = "done" <=> pc[Deliverer] = "done"
          /\ pc'[Deliverer] = "off" <=> pc[Deliverer] = "off"
      BY <1>t, <2>4, GotoMoves DEF Woke, FallAsleep, PcStates
    <3>2. Working' <=> Working
      BY <1>0, <3>1 DEF SessionInv, PlaceInv
    <3>3. pc'[Deliverer] = "done" => callbackStop'
      <4> SUFFICES ASSUME pc'[Deliverer] = "done" PROVE callbackStop'
        OBVIOUS
      <4>1. pc[Deliverer] = "done" /\ callbackStop /\ Working
        BY <3>1 DEF QuietInv, SessionInv, PlaceInv
      <4>2. Working' /\ ctl \in CallbackEnding
        BY <3>2, <4>1 DEF SessionInv, ControlInv
      <4>3. ctl' \in CallbackEnding
        <5>1. CASE ThreadStep \/ UNCHANGED vars
          BY <4>2, <5>1, ThreadsLeaveControl DEF vars, allButPc, ctlVars
        <5>2. CASE CtlCall \/ CtlStep
          <6>1. NotifyCallback \/ JoinCallback
            BY <4>2, <5>2 DEF CtlCall, CtlStep, CallbackEnding, CreateBackend, SetFrameCallback,
                 Start, Stop, CloseStopped, StartBackendFails, StartThreads, StartReturns,
                 StopNotify, JoinSend, JoinReceive, StopBackend, StopCallback, CloseReturns
          <6>2. ~JoinCallback
            <7>1. JoinCallback => pc'[Deliverer] = "off"
              BY <1>t, GotoMoves DEF JoinCallback, PcStates
            <7>2. QED
              BY <7>1
          <6>3. QED
            BY <6>1, <6>2 DEF NotifyCallback, CallbackEnding
        <5>3. QED
          BY <5>1, <5>2, NextCases
      <4>4. QED
        BY <1>0, <4>2, <4>3 DEF SessionInv, ControlInv
    <3>4. QED
      BY <2>1, <2>2, <2>3, <3>1, <3>2, <3>3 DEF QuietInv
  <2>5. CASE StartThreads /\ pc[Deliverer] = "off" /\ pc'[Deliverer] = "lock"
    <3>1. Working'
      BY <2>5 DEF StartThreads, Working
    <3>2. QED
      BY <2>1, <2>5, <3>1 DEF QuietInv
  <2>6. CASE JoinCallback /\ pc[Deliverer] = "done" /\ pc'[Deliverer] = "off"
    BY <2>1, <2>2, <2>3, <2>6 DEF QuietInv
  <2>7. QED
    <3>1. Woke(Deliverer) \/ FallAsleep(Deliverer) \/ CallbackLoopTop \/ CallbackReturns
            \/ (StartThreads /\ pc[Deliverer] = "off" /\ pc'[Deliverer] = "lock")
            \/ (JoinCallback /\ pc[Deliverer] = "done" /\ pc'[Deliverer] = "off")
      BY DelivererMoves DEF CallbackStep
    <3>2. QED
      BY <1>1, <1>2, <2>4, <2>5, <2>6, <3>1
<1>6. QED
  BY <1>1, <1>2, <1>3, <1>4, <1>5, FrameCases

LEMMA QuietInit == Init => QuietInv
<1> SUFFICES ASSUME Init PROVE QuietInv
  OBVIOUS
<1>1. pc[Deliverer] = "off"
  BY SessionInit DEF SessionInv, PlaceInv, Working, Init
<1>2. QED
  BY <1>1 DEF Init, QuietInv, NothingOffered

THEOREM SessionInvariant == Spec => [](SessionInv /\ QuietInv)
<1>1. Init => SessionInv /\ QuietInv
  BY SessionInit, QuietInit
<1>2. SessionInv /\ QuietInv /\ [Next]_vars => SessionInv' /\ QuietInv'
  BY SessionStep, QuietStep
<1>3. QED
  BY <1>1, <1>2, PTL DEF Spec

(***************************************************************************)
(* When Stop has returned, the threads have ended, no frame callback runs, *)
(* and none is owed: what was published before was delivered.              *)
(***************************************************************************)
THEOREM QuietAfterStop == Spec => []QuietWhenStopped
<1>1. SessionInv /\ QuietInv => QuietWhenStopped
  <2> SUFFICES ASSUME SessionInv, QuietInv, ~running, ctl # "started"
               PROVE  /\ \A t \in {Sender, Receiver, Deliverer} : pc[t] = "off"
                      /\ calling = 0
                      /\ NothingOffered
    BY DEF QuietWhenStopped
  <2>1. ~Working
    BY DEF Working
  <2>2. pc[Sender] = "off" /\ pc[Receiver] = "off" /\ pc[Deliverer] = "off"
    BY <2>1 DEF SessionInv, PlaceInv
  <2>3. QED
    BY <2>1, <2>2 DEF QuietInv
<1>2. QED
  BY <1>1, SessionInvariant, PTL

-----------------------------------------------------------------------------
(* The frames on offer.                                                    *)

LEMMA AppendElements ==
  ASSUME NEW s \in Seq(Nat), NEW e \in Nat
  PROVE  /\ Len(Append(s, e)) = Len(s) + 1
         /\ \A i \in 1 .. Len(s) : Append(s, e)[i] = s[i]
         /\ Append(s, e)[Len(s) + 1] = e
OBVIOUS

LEMMA TailElements ==
  ASSUME NEW s \in Seq(Nat), s # <<>>
  PROVE  /\ Len(Tail(s)) = Len(s) - 1
         /\ \A i \in 1 .. Len(s) - 1 : Tail(s)[i] = s[i + 1]
OBVIOUS

(***************************************************************************)
(* The last frame PublishFrame has finished with: the latest one, unless   *)
(* it is still to be offered.                                              *)
(***************************************************************************)
LastOffered == IF pc[Receiver] = "offer" THEN published - 1 ELSE published

(***************************************************************************)
(* Without a callback nothing is on offer; what is on offer is where the   *)
(* mode says, ends with the last frame offered, has no gap, and is newer   *)
(* than what the callback was given.                                       *)
(***************************************************************************)
PlacedInv == OfferedInMode /\ (~callback => NothingOffered)

LatestInv == latest = published /\ (pc[Receiver] = "offer" => published > 0)

RunInv(s, last) == \A i \in 1 .. Len(s) : s[i] + Len(s) = last + i

NewerInv(s, frame) == \A i \in 1 .. Len(s) : s[i] > frame

OfferInv ==
  /\ PlacedInv /\ LatestInv
  /\ slot # 0 => slot = LastOffered /\ slot > delivered
  /\ RunInv(queue, LastOffered) /\ NewerInv(queue, delivered)
  /\ delivered <= LastOffered

(***************************************************************************)
(* A queue without gap stays one when its front is taken and when the next *)
(* frame is appended.                                                      *)
(***************************************************************************)
LEMMA RunTail ==
  ASSUME NEW s \in Seq(Nat), NEW last \in Nat, s # <<>>, RunInv(s, last)
  PROVE  /\ RunInv(Tail(s), last)
         /\ NewerInv(Tail(s), Head(s))
         /\ Head(s) <= last
<1>1. /\ Len(s) \in Nat /\ Len(s) > 0 /\ Head(s) = s[1] /\ Len(Tail(s)) = Len(s) - 1
      /\ \A i \in 1 .. Len(s) : s[i] \in Nat
  BY TailType
<1>2. ASSUME NEW i \in 1 .. Len(Tail(s))
      PROVE  Tail(s)[i] + Len(Tail(s)) = last + i /\ Tail(s)[i] > Head(s)
  <2>1. i \in 1 .. Len(s) - 1 /\ i + 1 \in 1 .. Len(s) /\ 1 \in 1 .. Len(s)
    BY <1>1
  <2>2. Tail(s)[i] = s[i + 1]
    BY <2>1, TailElements
  <2>3. s[i + 1] + Len(s) = last + (i + 1) /\ s[1] + Len(s) = last + 1
    BY <2>1 DEF RunInv
  <2>4. s[i + 1] \in Nat /\ s[1] \in Nat /\ Len(s) \in Nat /\ i \in Nat /\ i > 0
    BY <1>1, <2>1
  <2>5. s[i + 1] + (Len(s) - 1) = last + i /\ s[i + 1] > s[1]
    BY <2>3, <2>4, SMTT(60)
  <2>6. QED
    BY <1>1, <2>2, <2>5
<1>3. Head(s) <= last
  <2>1. 1 \in 1 .. Len(s)
    BY <1>1
  <2>2. s[1] + Len(s) = last + 1 /\ s[1] \in Nat
    BY <1>1, <2>1 DEF RunInv
  <2>3. QED
    BY <1>1, <2>2
<1>4. QED
  BY <1>2, <1>3 DEF RunInv, NewerInv

LEMMA RunAppend ==
  ASSUME NEW s \in Seq(Nat), NEW last \in Nat, NEW frame \in Nat, frame < last + 1,
         RunInv(s, last), NewerInv(s, frame)
  PROVE  RunInv(Append(s, last + 1), last + 1) /\ NewerInv(Append(s, last + 1), frame)
<1> DEFINE t == Append(s, last + 1)
<1>1. /\ Len(s) \in Nat /\ Len(t) = Len(s) + 1
      /\ \A i \in 1 .. Len(s) : t[i] = s[i] /\ s[i] \in Nat
      /\ t[Len(s) + 1] = last + 1
  BY AppendElements
<1> HIDE DEF t
<1>2. ASSUME NEW i \in 1 .. Len(t)
      PROVE  t[i] + Len(t) = (last + 1) + i /\ t[i] > frame
  <2>1. CASE i = Len(s) + 1
    BY <1>1, <2>1
  <2>2. CASE i # Len(s) + 1
    <3>1. i \in 1 .. Len(s)
      BY <1>1, <2>2
    <3>2. s[i] + Len(s) = last + i /\ s[i] > frame
      BY <3>1 DEF RunInv, NewerInv
    <3>3. t[i] = s[i] /\ s[i] \in Nat /\ Len(t) = Len(s) + 1 /\ i \in Nat /\ Len(s) \in Nat
      BY <1>1, <3>1
    <3>4. s[i] + (Len(s) + 1) = (last + 1) + i
      BY <3>2, <3>3, SMTT(60)
    <3>5. QED
      BY <3>2, <3>3, <3>4
  <2>3. QED
    BY <2>1, <2>2
<1>3. RunInv(t, last + 1) /\ NewerInv(t, frame)
  BY <1>2 DEF RunInv, NewerInv
<1>4. QED
  BY <1>3 DEF t

LEMMA NewerTail ==
  ASSUME NEW s \in Seq(Nat), NEW frame \in Nat, s # <<>>, NewerInv(s, frame)
  PROVE  NewerInv(Tail(s), frame) /\ Head(s) > frame
<1>1. Len(s) \in Nat /\ Len(s) > 0 /\ Head(s) = s[1] /\ Len(Tail(s)) = Len(s) - 1
  BY TailType
<1>2. ASSUME NEW i \in 1 .. Len(Tail(s)) PROVE Tail(s)[i] > frame
  <2>1. i \in 1 .. Len(s) - 1 /\ i + 1 \in 1 .. Len(s)
    BY <1>1
  <2>2. QED
    BY <2>1, TailElements DEF NewerInv
<1>3. 1 \in 1 .. Len(s)
  BY <1>1
<1>4. QED
  BY <1>1, <1>2, <1>3 DEF NewerInv

LEMMA RunEmpty == \A last, frame : RunInv(<<>>, last) /\ NewerInv(<<>>, frame)
BY DEF RunInv, NewerInv

LEMMA LastOfferedType == FrameType /\ LatestInv => LastOffered \in Nat /\ LastOffered <= published
BY DEF FrameType, LatestInv, LastOffered

(***************************************************************************)
(* PublishFrame: the frame becomes the latest one and is then offered.     *)
(***************************************************************************)
LEMMA OfferPublish ==
  ASSUME SessionInv, OfferInv, PublishLatest \/ PublishOffer
  PROVE  OfferInv'
<1>0. FrameType /\ PcType /\ Receiver \in Threads /\ Deliverer \in Threads /\ Receiver # Deliverer
      /\ "offer" \in PcStates /\ "poll" \in PcStates /\ CallbackDepth \in Nat \ {0}
  BY ThreadFacts, DecoderAssumption DEF SessionInv, Types, PcStates
<1>1. CASE PublishLatest
  <2>1. pc[Receiver] = "publish" /\ pc'[Receiver] = "offer"
    BY <1>0, <1>1, GotoMoves DEF PublishLatest
  <2>2. /\ published' = published + 1 /\ latest' = published + 1
        /\ UNCHANGED <<callback, mode, slot, queue, delivered>>
    BY <1>1 DEF PublishLatest
  <2>3. LastOffered' = LastOffered
    BY <1>0, <2>1, <2>2 DEF LastOffered, FrameType
  <2>4. PlacedInv'
    BY <2>2 DEF OfferInv, PlacedInv, OfferedInMode, NothingOffered
  <2>5. LatestInv'
    BY <1>0, <2>2 DEF LatestInv, FrameType
  <2>6. /\ slot' # 0 => slot' = LastOffered' /\ slot' > delivered'
        /\ delivered' <= LastOffered'
    BY <2>2, <2>3 DEF OfferInv
  <2>7. RunInv(queue', LastOffered') /\ NewerInv(queue', delivered')
    BY <2>2, <2>3 DEF OfferInv
  <2>8. QED
    BY <2>4, <2>5, <2>6, <2>7 DEF OfferInv
<1>2. CASE PublishOffer
  <2>1. pc[Receiver] = "offer" /\ pc'[Receiver] = "poll"
    <3>1. CASE callback
      <4>1. pc' \in WakeOne(Goto(Receiver, "poll"), {Deliverer}) /\ {Deliverer} \in SUBSET Threads
        BY <1>0, <1>2, <3>1 DEF PublishOffer
      <4>2. pc'[Receiver] = "poll"
        BY <1>0, <4>1, MoveWakeOne
      <4>3. QED
        BY <1>2, <4>2 DEF PublishOffer
    <3>2. CASE ~callback
      BY <1>0, <1>2, <3>2, GotoMoves DEF PublishOffer
    <3>3. QED
      BY <3>1, <3>2
  <2>2. UNCHANGED <<callback, mode, latest, published, delivered>>
    BY <1>2 DEF PublishOffer
  <2>3. /\ LastOffered = published - 1 /\ LastOffered \in Nat
        /\ LastOffered' = LastOffered + 1 /\ latest = LastOffered + 1
    BY <1>0, <2>1, <2>2 DEF LastOffered, FrameType, OfferInv, LatestInv
  <2>4. LatestInv'
    BY <2>1, <2>2 DEF OfferInv, LatestInv
  <2>5. delivered \in Nat /\ delivered' <= LastOffered' /\ delivered < LastOffered + 1
    BY <1>0, <2>2, <2>3 DEF FrameType, OfferInv
  <2>6. CASE ~callback
    <3>1. slot' = 0 /\ queue' = <<>> /\ slot = 0 /\ queue = <<>>
      BY <1>2, <2>6 DEF PublishOffer, OfferInv, PlacedInv, NothingOffered
    <3>2. QED
      BY <2>4, <2>5, <3>1, RunEmpty DEF OfferInv, PlacedInv, OfferedInMode, NothingOffered
  <2>7. CASE callback /\ OfferSlot
    <3>1. slot' = latest /\ queue' = queue /\ mode = "kLatest"
      BY <2>7 DEF OfferSlot
    <3>2. queue' = <<>>
      BY <3>1 DEF OfferInv, PlacedInv, OfferedInMode
    <3>3. slot' = LastOffered' /\ slot' > delivered'
      BY <2>2, <2>3, <2>5, <3>1
    <3>4. PlacedInv'
      BY <2>2, <2>7, <3>1, <3>2 DEF PlacedInv, OfferedInMode
    <3>5. QED
      BY <2>4, <2>5, <3>2, <3>3, <3>4, RunEmpty DEF OfferInv
  <2>8. CASE callback /\ OfferQueue
    <3>1. mode = "kQueue" /\ slot' = slot
      BY <2>8 DEF OfferQueue
    <3>2. slot' = 0
      BY <3>1 DEF OfferInv, PlacedInv, OfferedInMode
    <3>3. PlacedInv'
      BY <2>2, <2>8, <3>1, <3>2 DEF PlacedInv, OfferedInMode
    <3>4. \E s \in Seq(Nat) : /\ queue' = Append(s, latest)
                              /\ RunInv(s, LastOffered) /\ NewerInv(s, delivered)
      <4>1. CASE Len(queue) >= CallbackDepth
        <5>1. queue # <<>> /\ queue' = Append(Tail(queue), latest)
          BY <1>0, <2>8, <4>1 DEF OfferQueue, FrameType
        <5>2. Tail(queue) \in Seq(Nat)
          BY <1>0, <5>1, TailType DEF FrameType
        <5>3. RunInv(Tail(queue), LastOffered) /\ NewerInv(Tail(queue), delivered)
          BY <1>0, <2>3, <2>5, <5>1, RunTail, NewerTail DEF FrameType, OfferInv
        <5>4. QED
          BY <5>1, <5>2, <5>3
      <4>2. CASE ~(Len(queue) >= CallbackDepth)
        BY <1>0, <2>8, <4>2 DEF OfferQueue, FrameType, OfferInv
      <4>3. QED
        BY <4>1, <4>2
    <3>5. PICK s \in Seq(Nat) : /\ queue' = Append(s, latest)
                                /\ RunInv(s, LastOffered) /\ NewerInv(s, delivered)
      BY <3>4
    <3>6. /\ RunInv(Append(s, LastOffered + 1), LastOffered + 1)
          /\ NewerInv(Append(s, LastOffered + 1), delivered)
      BY <2>3, <2>5, <3>5, RunAppend
    <3>7. RunInv(queue', LastOffered') /\ NewerInv(queue', delivered')
      BY <2>2, <2>3, <3>5, <3>6
    <3>8. QED
      BY <2>4, <2>5, <3>2, <3>3, <3>7 DEF OfferInv
  <2>9. QED
    BY <1>2, <2>6, <2>7, <2>8 DEF PublishOffer
<1>3. QED
  BY <1>1, <1>2

(***************************************************************************)
(* CallbackLoop takes the oldest frame on offer.                           *)
(***************************************************************************)
LEMMA OfferTake ==
  ASSUME SessionInv, OfferInv, CallbackLoopTop, pc'[Receiver] = pc[Receiver]
  PROVE  OfferInv' /\ (delivered' = delivered \/ delivered' > delivered)
<1>0. FrameType
  BY DEF SessionInv, Types
<1>1. UNCHANGED <<callback, mode, latest, published>>
  BY DEF CallbackLoopTop
<1>2. LastOffered' = LastOffered /\ LastOffered \in Nat
  BY <1>0, <1>1, LastOfferedType DEF LastOffered, OfferInv
<1>3. LatestInv'
  BY <1>1 DEF LatestInv, OfferInv
<1>4. CASE CallbackWaits \/ CallbackEnds
  <2>1. UNCHANGED <<slot, queue, delivered>>
    BY <1>4 DEF CallbackWaits, CallbackEnds
  <2>2. PlacedInv'
    BY <1>1, <2>1 DEF OfferInv, PlacedInv, OfferedInMode, NothingOffered
  <2>3. QED
    BY <1>2, <1>3, <2>1, <2>2 DEF OfferInv
<1>5. CASE CallbackTakesSlot
  <2>1. mode = "kLatest" /\ slot # 0 /\ slot' = 0 /\ queue' = queue
        /\ (delivered' = slot \/ delivered' = delivered)
    BY <1>5 DEF CallbackTakesSlot, Deliver
  <2>2. queue' = <<>>
    BY <2>1 DEF OfferInv, PlacedInv, OfferedInMode
  <2>3. PlacedInv'
    BY <2>1, <2>2 DEF PlacedInv, OfferedInMode, NothingOffered
  <2>4. /\ delivered' <= LastOffered'
        /\ delivered' = delivered \/ delivered' > delivered
    BY <1>0, <1>2, <2>1 DEF OfferInv, FrameType
  <2>5. QED
    BY <1>3, <2>1, <2>2, <2>3, <2>4, RunEmpty DEF OfferInv
<1>6. CASE CallbackTakesFront
  <2>1. mode = "kQueue" /\ queue # <<>> /\ slot' = slot /\ queue' = Tail(queue)
        /\ (delivered' = Head(queue) \/ delivered' = delivered)
    BY <1>6 DEF CallbackTakesFront, Deliver
  <2>2. slot' = 0
    BY <2>1 DEF OfferInv, PlacedInv, OfferedInMode
  <2>3. PlacedInv'
    BY <1>1, <2>1, <2>2 DEF OfferInv, PlacedInv, OfferedInMode, NothingOffered
  <2>4. /\ RunInv(Tail(queue), LastOffered) /\ NewerInv(Tail(queue), Head(queue))
        /\ Head(queue) <= LastOffered
    BY <1>0, <1>2, <2>1, RunTail DEF FrameType, OfferInv
  <2>5. NewerInv(Tail(queue), delivered) /\ Head(queue) > delivered
    BY <1>0, <2>1, NewerTail DEF FrameType, OfferInv
  <2>6. /\ RunInv(queue', LastOffered') /\ NewerInv(queue', delivered')
        /\ delivered' <= LastOffered'
        /\ delivered' = delivered \/ delivered' > delivered
    BY <1>2, <2>1, <2>4, <2>5 DEF OfferInv
  <2>7. QED
    BY <1>3, <2>2, <2>3, <2>6 DEF OfferInv
<1>7. QED
  BY <1>4, <1>5, <1>6 DEF CallbackLoopTop

(***************************************************************************)
(* SetFrameCallback and Close withdraw what is on offer.                   *)
(***************************************************************************)
LEMMA OfferWithdraw ==
  ASSUME SessionInv, OfferInv, SetFrameCallback \/ CloseReturns, pc'[Receiver] = pc[Receiver]
  PROVE  OfferInv'
<1>0. FrameType
  BY DEF SessionInv, Types
<1>1. slot' = 0 /\ queue' = <<>>
  BY DEF SetFrameCallback, CloseReturns
<1>2. PlacedInv'
  BY <1>1 DEF PlacedInv, OfferedInMode, NothingOffered
<1>3. LatestInv' /\ delivered' <= LastOffered'
  <2>1. CASE SetFrameCallback
    BY <2>1 DEF SetFrameCallback, OfferInv, LatestInv, LastOffered
  <2>2. CASE CloseReturns
    <3>1. pc[Receiver] = "off"
      BY <2>2 DEF CloseReturns, SessionInv, ControlInv, PlaceInv, Working
    <3>2. QED
      BY <2>2, <3>1 DEF CloseReturns, LatestInv, LastOffered
  <2>3. QED
    BY <2>1, <2>2
<1>4. QED
  BY <1>1, <1>2, <1>3, RunEmpty DEF OfferInv

LEMMA OfferUntouched ==
  ASSUME OfferInv, (pc'[Receiver] = "offer") <=> (pc[Receiver] = "offer"),
         UNCHANGED <<callback, mode, slot, queue, latest, published, delivered>>
  PROVE  OfferInv'
BY DEF OfferInv, PlacedInv, OfferedInMode, NothingOffered, LatestInv, RunInv, NewerInv, LastOffered

(***************************************************************************)
(* Only PublishFrame moves the receive thread from or to the place between *)
(* the latest frame and its offer.                                         *)
(***************************************************************************)
LEMMA OfferPlaceKept ==
  ASSUME SessionInv, [Next]_vars, ~PublishLatest, ~PublishOffer
  PROVE  (pc'[Receiver] = "offer") <=> (pc[Receiver] = "offer")
<1>0. PcType /\ Receiver \in Threads /\ {"done", "publish", "poll"} \subseteq PcStates
  BY ThreadFacts DEF SessionInv, Types, PcStates
<1>1. CASE ReceiveStep
  <2>1. /\ pc[Receiver] # "offer"
        /\ \E s \in {"done", "publish", "poll"} : pc' = Goto(Receiver, s)
    BY <1>1 DEF ReceiveStep, ReceiveLoopStops, ReceiveFrame, ReceiveFlowEnd, PublishFails
  <2>2. QED
    BY <1>0, <2>1, GotoMoves
<1>2. QED
  BY <1>1, ReceiverMoves

LEMMA OfferStep ==
  ASSUME SessionInv, OfferInv, [Next]_vars
  PROVE  OfferInv' /\ (delivered' = delivered \/ delivered' > delivered \/ ~open')
<1>0. PcType /\ Receiver \in Threads /\ Deliverer \in Threads /\ Receiver # Deliverer
  BY ThreadFacts DEF SessionInv, Types
<1>1. CASE PublishLatest \/ PublishOffer
  BY <1>1, OfferPublish DEF PublishLatest, PublishOffer
<1>2. CASE CallbackLoopTop /\ ~PublishLatest /\ ~PublishOffer
  <2>1. OthersWoke(Deliverer)
    BY <1>0, <1>2, CallbackMoves DEF CallbackStep
  <2>2. pc'[Receiver] = pc[Receiver]
    BY <1>0, <2>1 DEF OthersWoke, Woke, SessionInv, PlaceInv, ReceiverPlaces
  <2>3. QED
    BY <1>2, <2>2, OfferTake
<1>3. CASE SetFrameCallback \/ CloseReturns
  <2>1. Woke(Receiver)
    <3>1. CtlCall \/ CtlStep
      BY <1>3 DEF CtlCall, CtlStep
    <3>2. ~ThreadControl
      BY <1>3 DEF SetFrameCallback, CloseReturns, ThreadControl, StartThreads, JoinSend,
                  JoinReceive, JoinCallback
    <3>3. QED
      BY <1>0, <3>1, <3>2, OtherControlMoves
  <2>2. pc'[Receiver] = pc[Receiver]
    BY <2>1 DEF Woke, SessionInv, PlaceInv, ReceiverPlaces
  <2>3. QED
    BY <1>3, <2>2, OfferWithdraw DEF SetFrameCallback, CloseReturns
<1>4. CASE (UNCHANGED frameVars \/ CallbackReturns) /\ ~PublishLatest /\ ~PublishOffer
  <2>1. UNCHANGED <<callback, mode, slot, queue, latest, published, delivered>>
    BY <1>4 DEF frameVars, CallbackReturns
  <2>2. (pc'[Receiver] = "offer") <=> (pc[Receiver] = "offer")
    BY <1>4, OfferPlaceKept
  <2>3. QED
    BY <2>1, <2>2, OfferUntouched
<1>5. QED
  BY <1>1, <1>2, <1>3, <1>4, FrameCases

LEMMA OfferInit == Init => OfferInv
<1> SUFFICES ASSUME Init PROVE OfferInv
  OBVIOUS
<1>1. pc[Receiver] = "off"
  BY SessionInit DEF SessionInv, PlaceInv, Working, Init
<1>2. LastOffered = 0
  BY <1>1 DEF LastOffered, Init
<1>3. QED
  BY <1>1, <1>2, RunEmpty DEF Init, OfferInv, PlacedInv, OfferedInMode, NothingOffered, LatestInv

THEOREM OfferInvariant == Spec => []OfferInv
<1>1. Init => OfferInv
  BY OfferInit
<1>2. SessionInv /\ QuietInv /\ OfferInv /\ [Next]_vars => OfferInv'
  BY OfferStep
<1>3. QED
  BY <1>1, <1>2, SessionInvariant, PTL DEF Spec

(***************************************************************************)
(* Whatever the order of SetFrameCallback and PublishFrame, only the one   *)
(* of slot and queue that the mode names is ever filled: CallbackLoop      *)
(* never finds something to deliver that it would not take.                *)
(***************************************************************************)
THEOREM OffersFollowMode == Spec => []OfferedInMode
<1>1. OfferInv => OfferedInMode
  BY DEF OfferInv, PlacedInv
<1>2. QED
  BY <1>1, OfferInvariant, PTL

(***************************************************************************)
(* A slow callback misses the oldest frames only: what waits for it is the *)
(* newest frame, or an unbroken run of frames that ends with it.           *)
(***************************************************************************)
THEOREM OffersAreNewest == Spec => []NewestFramesOffered
<1>1. SessionInv /\ QuietInv /\ OfferInv => NewestFramesOffered
  <2> SUFFICES ASSUME SessionInv, OfferInv PROVE NewestFramesOffered
    OBVIOUS
  <2>0. queue \in Seq(Nat) /\ LastOffered \in Nat
    BY LastOfferedType DEF SessionInv, Types, FrameType, OfferInv
  <2>1. LastOffered \in Newest
    BY DEF LastOffered, Newest
  <2>2. slot # 0 => slot \in Newest
    BY <2>1 DEF OfferInv
  <2>3. \A i \in 1 .. Len(queue) : queue[i] + Len(queue) = LastOffered + i /\ queue[i] \in Nat
    BY <2>0 DEF OfferInv, RunInv
  <2>4. queue # <<>> => Last(queue) \in Newest
    <3> SUFFICES ASSUME queue # <<>> PROVE Last(queue) \in Newest
      OBVIOUS
    <3>1. Len(queue) \in 1 .. Len(queue)
      BY <2>0
    <3>2. queue[Len(queue)] = LastOffered
      BY <2>0, <2>3, <3>1
    <3>3. QED
      BY <2>1, <3>2 DEF Last
  <2>5. ASSUME NEW i \in 1 .. Len(queue) - 1
        PROVE  queue[i + 1] = queue[i] + 1
    <3>1. i \in 1 .. Len(queue) /\ i + 1 \in 1 .. Len(queue)
      BY <2>0
    <3>2. /\ queue[i] + Len(queue) = LastOffered + i /\ queue[i] \in Nat
          /\ queue[i + 1] + Len(queue) = LastOffered + (i + 1) /\ queue[i + 1] \in Nat
      BY <2>3, <3>1
    <3>3. QED
      BY <2>0, <3>2, SMTT(60)
  <2>6. QED
    BY <2>2, <2>4, <2>5 DEF NewestFramesOffered
<1>2. QED
  BY <1>1, SessionInvariant, OfferInvariant, PTL

(***************************************************************************)
(* The callback gets the frames in the order in which they were published, *)
(* none twice, across Stop and Start and changes of the mode, until Close. *)
(***************************************************************************)
THEOREM FramesStayInOrder == Spec => FramesInOrder
<1>1. SessionInv /\ QuietInv /\ OfferInv /\ [Next]_vars
        => [delivered' > delivered \/ ~open']_delivered
  BY OfferStep
<1>2. QED
  BY <1>1, SessionInvariant, OfferInvariant, PTL DEF Spec, FramesInOrder

-----------------------------------------------------------------------------
(* The end of the stream.                                                  *)

(***************************************************************************)
(* The send thread comes to the end with an empty queue that takes nothing *)
(* more, unless it was stopped or failed; and so it was when it told the   *)
(* hardware, which forgets about it when the backend is stopped.           *)
(***************************************************************************)
NothingToCome == eos /\ pending = <<>>

EndInv ==
  /\ pc[Sender] = "end" /\ ~stop /\ ~failed => NothingToCome
  /\ hwEos => Working /\ ctl \notin BackendStopped /\ pc[Sender] \in {"finish", "done", "off"}
  /\ hwEos /\ ~failed => NothingToCome

LEMMA EndUntouched ==
  ASSUME EndInv, Woke(Sender), NothingToCome => NothingToCome',
         UNCHANGED <<stop, failed, hwEos, running, ctl>>
  PROVE  EndInv'
<1>1. Working' <=> Working
  BY DEF Working
<1>2. /\ pc'[Sender] = "end" => pc[Sender] = "end"
      /\ pc[Sender] \in {"finish", "done", "off"} => pc'[Sender] \in {"finish", "done", "off"}
  BY DEF Woke
<1>3. QED
  BY <1>1, <1>2 DEF EndInv

LEMMA EndProducers ==
  ASSUME SessionInv, EndInv, NEW p \in Producers, ProducerAct(p)
  PROVE  EndInv'
<1> USE DEF histVars, hwVars, queueVars, flagVars, allButPc
<1>1. Woke(Sender)
  BY ProducerMoves, ThreadFacts DEF OthersWoke, SessionInv, Types
<1>2. UNCHANGED <<stop, failed, hwEos, running, ctl>>
  BY DEF ProducerAct, ProducerStep, SubmitPacket, SubmitEndOfStream, FallAsleep, SubmitLocked,
         SubmitNotify, SubmitEndOfStreamLocked, ctlVars
<1>3. NothingToCome => NothingToCome'
  <2>1. CASE SubmitLocked(p)
    <3>1. NothingToCome => UNCHANGED pending
      BY <2>1 DEF SubmitLocked, SubmitWaits, SubmitRejected, SubmitPushes, NothingToCome
    <3>2. QED
      BY <2>1, <3>1 DEF SubmitLocked, NothingToCome
  <2>2. CASE SubmitEndOfStreamLocked(p)
    BY <2>2 DEF SubmitEndOfStreamLocked, NothingToCome
  <2>3. CASE UNCHANGED <<eos, pending>>
    BY <2>3 DEF NothingToCome
  <2>4. QED
    BY <2>1, <2>2, <2>3 DEF ProducerAct, ProducerStep, SubmitPacket, SubmitEndOfStream, FallAsleep,
         SubmitNotify
<1>4. QED
  BY <1>1, <1>2, <1>3, EndUntouched

LEMMA EndSend ==
  ASSUME SessionInv, EndInv, SendStep
  PROVE  EndInv'
<1> USE DEF histVars, hwVars, queueVars, flagVars, ctlVars, allButPc
<1>0. PcType /\ Sender \in Threads
      /\ {"wait", "end", "notify", "sleep", "send", "lock", "pressure", "finish", "done"}
           \subseteq PcStates
  BY ThreadFacts DEF SessionInv, Types, PcStates
<1>1. Working /\ ctl \notin SenderJoined /\ ctl \notin BackendStopped
  BY <1>0, SendMoves DEF SessionInv, PlaceInv, SenderJoined, ReceiverJoined
<1>2. UNCHANGED <<running, ctl, stop>>
  BY ThreadsLeaveControl DEF ThreadStep
<1>3. Working' /\ ctl' \notin BackendStopped
  BY <1>1, <1>2 DEF Working
<1>4. \A s \in {"wait", "end", "notify", "sleep", "send", "lock", "pressure", "finish", "done"} :
        pc' = Goto(Sender, s) => pc'[Sender] = s
  BY <1>0, GotoMoves
<1>5. CASE FallAsleep(Sender) \/ SendLoopStops \/ SendPressure
  <2>1. UNCHANGED <<eos, pending, stop, failed, hwEos>> /\ ~hwEos
    BY <1>5 DEF FallAsleep, SendLoopStops, SendPressure, EndInv
  <2>2. pc'[Sender] = "end" => stop
    BY <1>4, <1>5 DEF FallAsleep, SendLoopStops, SendPressure
  <2>3. QED
    BY <2>1, <2>2 DEF EndInv
<1>6. CASE SendLoopTop
  <2>1. UNCHANGED <<eos, stop, failed, hwEos>> /\ ~hwEos
    BY <1>6 DEF SendLoopTop, EndInv
  <2>2. pc'[Sender] = "end" => stop \/ NothingToCome'
    BY <1>4, <1>6 DEF SendLoopTop, SendLoopTake, SendLoopBreaks, SendLoopWaits, NothingToCome
  <2>3. QED
    BY <2>1, <2>2 DEF EndInv
<1>7. CASE SendLoopNotify
  <2>1. pc' = WakeAll(Goto(Sender, "send"), InputThreads) /\ pc[Sender] = "notify"
    BY <1>7 DEF SendLoopNotify
  <2>2. pc'[Sender] = "send"
    BY <1>0, <2>1, MoveWakeAll
  <2>3. QED
    BY <1>7, <2>1, <2>2 DEF SendLoopNotify, EndInv
<1>8. CASE SendAccepted \/ SendAbandoned
  <2>1. UNCHANGED <<stop, failed, hwEos>> /\ ~hwEos
    BY <1>8 DEF SendAccepted, SendAbandoned, EndInv
  <2>2. pc'[Sender] = "end" => stop
    BY <1>4, <1>8 DEF SendAccepted, SendAbandoned
  <2>3. QED
    BY <2>1, <2>2 DEF EndInv
<1>9. CASE SendFails
  BY <1>9 DEF SendFails, EndInv
<1>10. CASE SendEndOfStream
  <2>1. /\ pc[Sender] = "end" /\ pc'[Sender] = "finish"
        /\ UNCHANGED <<eos, pending, stop, failed>>
        /\ hwEos' => ~stop
    BY <1>4, <1>10 DEF SendEndOfStream
  <2>2. hwEos' /\ ~failed' => NothingToCome'
    BY <2>1 DEF EndInv, NothingToCome
  <2>3. QED
    BY <1>3, <2>1, <2>2 DEF EndInv
<1>11. CASE SendLoopEnds
  <2>1. pc' = WakeAll(Goto(Sender, "done"), InputThreads)
    BY <1>11 DEF SendLoopEnds
  <2>2. pc'[Sender] = "done"
    BY <1>0, <2>1, MoveWakeAll
  <2>3. UNCHANGED <<eos, pending, stop, failed, hwEos>>
    BY <1>11 DEF SendLoopEnds
  <2>4. NothingToCome' <=> NothingToCome
    BY <2>3 DEF NothingToCome
  <2>5. QED
    BY <1>3, <2>2, <2>3, <2>4 DEF EndInv
<1>12. QED
  BY <1>5, <1>6, <1>7, <1>8, <1>9, <1>10, <1>11 DEF SendStep

LEMMA EndOthers ==
  ASSUME SessionInv, EndInv,
         \/ ReceiveStep \/ CallbackStep \/ CallbackReturns \/ HardwareStep
         \/ \E t \in InputThreads \union {Deliverer} : SpuriousWakeup(t)
         \/ UNCHANGED vars
  PROVE  EndInv'
<1> USE DEF histVars, hwVars, queueVars, flagVars, ctlVars, allButPc
<1>0. PcType /\ Sender \in Threads
  BY ThreadFacts DEF SessionInv, Types
<1>1. CASE ReceiveStep
  <2>1. UNCHANGED <<eos, pending, stop, failed, hwEos, running, ctl>>
    BY <1>1 DEF ReceiveStep, ReceiveLoopStops, ReceiveFrame, ReceiveFlowEnd, PublishLatest,
                PublishFails, PublishOffer
  <2>2. Woke(Sender)
    BY <1>0, <1>1, ReceiveMoves, ThreadFacts DEF OthersWoke
  <2>3. QED
    BY <2>1, <2>2, EndUntouched DEF NothingToCome
<1>2. CASE CallbackStep \/ CallbackReturns
  <2>1. UNCHANGED <<eos, pending, stop, failed, hwEos, running, ctl>>
    BY <1>2 DEF CallbackStep, CallbackReturns, FallAsleep, CallbackLoopTop
  <2>2. Woke(Sender)
    BY <1>0, <1>2, CallbackMoves, ThreadFacts DEF OthersWoke
  <2>3. QED
    BY <2>1, <2>2, EndUntouched DEF NothingToCome
<1>3. CASE HardwareStep \/ UNCHANGED vars
  <2>1. UNCHANGED <<eos, pending, stop, failed, hwEos, running, ctl, pc>>
    BY <1>3 DEF HardwareStep, Decode, DecodeNothing, vars
  <2>2. QED
    BY <2>1, EndUntouched DEF NothingToCome, Woke
<1>4. CASE \E t \in InputThreads \union {Deliverer} : SpuriousWakeup(t)
  <2>1. UNCHANGED <<eos, pending, stop, failed, hwEos, running, ctl>>
    BY <1>4 DEF SpuriousWakeup
  <2>2. Woke(Sender)
    BY <1>0, <1>4, WakeupMoves DEF OthersWoke, Woke
  <2>3. QED
    BY <2>1, <2>2, EndUntouched DEF NothingToCome
<1>5. QED
  BY <1>1, <1>2, <1>3, <1>4

LEMMA EndControl ==
  ASSUME SessionInv, EndInv, CtlCall \/ CtlStep
  PROVE  EndInv'
<1> USE DEF histVars, hwVars, queueVars, flagVars, ctlVars, StopPhases, Working
<1>0. PcType /\ Sender \in Threads /\ "off" \in PcStates
  BY ThreadFacts DEF SessionInv, Types, PcStates
<1>1. CASE CreateBackend \/ Start \/ CloseReturns
  <2>1. ~Working
    BY <1>1 DEF CreateBackend, Start, CloseReturns, SessionInv, ControlInv
  <2>2. ~hwEos /\ pc[Sender] = "off"
    BY <2>1 DEF EndInv, SessionInv, PlaceInv
  <2>3. UNCHANGED <<pc, hwEos>>
    BY <1>1 DEF CreateBackend, Start, CloseReturns
  <2>4. QED
    BY <2>2, <2>3 DEF EndInv
<1>2. CASE \E g \in {"stop", "close", "open"} : Stop(g)
  <2>1. /\ UNCHANGED <<eos, pending, failed, hwEos, running, pc>> /\ stop' /\ running
        /\ ctl' = "stop_notify"
    BY <1>2 DEF Stop
  <2>2. NothingToCome' <=> NothingToCome
    BY <2>1 DEF NothingToCome
  <2>3. QED
    BY <2>1, <2>2 DEF EndInv, BackendStopped, CallbackEnding
<1>3. CASE SetFrameCallback \/ StopNotify
  <2>1. UNCHANGED <<eos, pending, failed, hwEos, running, stop>>
        /\ (ctl' = ctl \/ (ctl = "stop_notify" /\ ctl' = "join_send"))
    BY <1>3 DEF SetFrameCallback, StopNotify
  <2>2. \E S : pc' = WakeAll(pc, S)
    BY <1>3 DEF SetFrameCallback, StopNotify
  <2>3. Woke(Sender)
    BY <1>0, <2>2, StayWakeAll
  <2>4. /\ pc'[Sender] = "end" => pc[Sender] = "end"
        /\ pc[Sender] \in {"finish", "done", "off"} => pc'[Sender] \in {"finish", "done", "off"}
    BY <2>3 DEF Woke
  <2>5. NothingToCome' <=> NothingToCome
    BY <2>1 DEF NothingToCome
  <2>6. ctl' \in BackendStopped => ctl \in BackendStopped
    BY <2>1 DEF BackendStopped, CallbackEnding
  <2>7. Working' <=> Working
    BY <2>1
  <2>8. QED
    BY <2>1, <2>4, <2>5, <2>6, <2>7 DEF EndInv
<1>4. CASE \/ \E g \in {"close", "open"} : CloseStopped(g)
           \/ StartBackendFails \/ StartThreads \/ StartReturns
  <2>1. UNCHANGED <<eos, pending, failed, hwEos, stop>> /\ pc'[Sender] \in {pc[Sender], "lock"}
    BY <1>0, <1>4, ThreadFacts DEF CloseStopped, StartBackendFails, StartThreads, StartReturns
  <2>2. CASE StartReturns
    <3>1. running' /\ ctl' = "idle" /\ pc' = pc
      BY <2>2 DEF StartReturns
    <3>2. NothingToCome' <=> NothingToCome
      BY <2>1 DEF NothingToCome
    <3>3. QED
      BY <2>1, <3>1, <3>2 DEF EndInv, BackendStopped, CallbackEnding
  <2>3. CASE ~StartReturns
    <3>1. ~Working
      BY <1>4, <2>3 DEF CloseStopped, StartBackendFails, StartThreads, SessionInv, ControlInv
    <3>2. ~hwEos /\ pc[Sender] = "off"
      BY <3>1 DEF EndInv, SessionInv, PlaceInv
    <3>3. QED
      BY <2>1, <3>2 DEF EndInv
  <2>4. QED
    BY <2>2, <2>3
<1>5. CASE JoinSend \/ JoinReceive
  <2>1. UNCHANGED <<eos, pending, failed, hwEos, stop, running>>
        /\ ctl' \in {"join_receive", "stop_backend"} /\ ctl \in StopPhases
    BY <1>5 DEF JoinSend, JoinReceive
  <2>2. pc'[Sender] = pc[Sender] \/ pc'[Sender] = "off"
    BY <1>0, <1>5, GotoMoves, ThreadFacts DEF JoinSend, JoinReceive
  <2>3. NothingToCome' <=> NothingToCome
    BY <2>1 DEF NothingToCome
  <2>4. Working' /\ ctl' \notin BackendStopped
    BY <2>1 DEF SessionInv, ControlInv, BackendStopped, CallbackEnding
  <2>5. QED
    BY <2>1, <2>2, <2>3, <2>4 DEF EndInv
<1>6. CASE StopBackend \/ StopCallback \/ NotifyCallback \/ JoinCallback
  <2>1. ctl \in {"stop_backend", "stop_callback", "notify_callback", "join_callback"}
    BY <1>6 DEF StopBackend, StopCallback, NotifyCallback, JoinCallback
  <2>2. pc[Sender] = "off"
    BY <2>1 DEF SessionInv, PlaceInv, SenderJoined, ReceiverJoined, BackendStopped, CallbackEnding
  <2>3. ~hwEos'
    BY <1>6 DEF StopBackend, StopCallback, NotifyCallback, JoinCallback, EndInv, BackendStopped,
                CallbackEnding
  <2>4. pc'[Sender] = "off"
    <3>1. CASE JoinCallback
      BY <1>0, <2>2, <3>1, GotoMoves, ThreadFacts DEF JoinCallback
    <3>2. CASE NotifyCallback
      BY <1>0, <2>2, <3>2, StayWakeAll DEF NotifyCallback, Woke
    <3>3. QED
      BY <1>6, <2>2, <3>1, <3>2 DEF StopBackend, StopCallback
  <2>5. QED
    BY <2>3, <2>4 DEF EndInv
<1>7. QED
  BY <1>1, <1>2, <1>3, <1>4, <1>5, <1>6 DEF CtlCall, CtlStep

LEMMA EndStep == SessionInv /\ EndInv /\ [Next]_vars => EndInv'
BY EndProducers, EndSend, EndOthers, EndControl, NextCases DEF ThreadStep

(***************************************************************************)
(* The hardware is told of the end of the stream after every packet that   *)
(* was accepted before it, and none is accepted after it, unless sending a *)
(* packet failed in the session.                                           *)
(***************************************************************************)
THEOREM EndOfStreamIsLast == Spec => []EndOfStreamComesLast
<1>1. Init => EndInv
  <2> SUFFICES ASSUME Init PROVE EndInv
    OBVIOUS
  <2>1. pc[Sender] = "off"
    BY SessionInit DEF SessionInv, PlaceInv, Working, Init
  <2>2. QED
    BY <2>1 DEF Init, EndInv
<1>2. SessionInv /\ QuietInv /\ EndInv /\ [Next]_vars => EndInv'
  BY EndStep
<1>3. EndInv => EndOfStreamComesLast
  BY DEF EndInv, NothingToCome, EndOfStreamComesLast
<1>4. QED
  BY <1>1, <1>2, <1>3, SessionInvariant, PTL DEF Spec

-----------------------------------------------------------------------------
(* No wakeup is lost.                                                      *)

Waiting == {p \in Producers : Blocked(p)}
Notifying == {p \in Producers : pc[p] = "notify"}
Settled == {p \in Producers : pc[p] \in {"idle", "notify", "eos"}}

(***************************************************************************)
(* A thread about to be blocked still holds the mutex: what it saw of the  *)
(* queue is still so.                                                      *)
(***************************************************************************)
SleepInv ==
  /\ \A p \in Producers : pc[p] = "sleep" => QueueFull
  /\ pc[Sender] = "sleep" => pending = <<>> /\ ~eos

(***************************************************************************)
(* Whoever is still blocked when Stop has notified was overlooked.  Nobody *)
(* joins them before the next session runs: until then every producer      *)
(* submits one packet at most, the one it was let in with, and the queue   *)
(* has room for one of each.                                               *)
(***************************************************************************)
OverlookedInv ==
  stop \/ ~running => ctl = "stop_notify" \/ \A p \in Waiting : p \in overlooked

FewInv == ~stop /\ ~running => Len(pending) <= Cardinality(Settled)

(***************************************************************************)
(* While the send thread is blocked the queue cannot fill up.  A producer  *)
(* that pushes must notify before it can push again, and its notify_one    *)
(* ends the wait of the send thread or of another producer, overlooked     *)
(* before; at the start of the wait nobody has pushed.                     *)
(***************************************************************************)
RoomLeft ==
  \/ Len(pending) + Cardinality(Waiting) < Cardinality(Notifying) + Cardinality(Producers)
  \/ pending = <<>> /\ Waiting = Producers

RoomInv == Blocked(Sender) /\ ~stop => RoomLeft

WakeInv == SleepInv /\ OverlookedInv /\ FewInv /\ RoomInv /\ NoOtherLostWakeup

(***************************************************************************)
(* Counting.                                                               *)
(***************************************************************************)
LEMMA CountSubset ==
  ASSUME NEW S \in SUBSET Producers, NEW T \in SUBSET S
  PROVE  /\ IsFiniteSet(S)
         /\ Cardinality(S) \in Nat /\ Cardinality(T) \in Nat /\ Cardinality(Producers) \in Nat
         /\ Cardinality(T) <= Cardinality(S)
         /\ Cardinality(S) <= Cardinality(Producers)
         /\ S # Producers => Cardinality(S) < Cardinality(Producers)
<1>1. IsFiniteSet(Producers)
  BY DecoderAssumption
<1>2. IsFiniteSet(S) /\ Cardinality(S) <= Cardinality(Producers)
      /\ (Cardinality(Producers) = Cardinality(S) => Producers = S)
  BY <1>1, FS_Subset
<1>3. IsFiniteSet(T) /\ Cardinality(T) <= Cardinality(S)
  BY <1>2, FS_Subset
<1>4. Cardinality(S) \in Nat /\ Cardinality(T) \in Nat /\ Cardinality(Producers) \in Nat
  BY <1>1, <1>2, <1>3, FS_CardinalityType
<1>5. QED
  BY <1>2, <1>3, <1>4

LEMMA CountWithout ==
  ASSUME NEW p \in Producers, NEW S \in SUBSET Producers, NEW T \in SUBSET Producers,
         S \intersect T = {}, p \notin S, p \notin T
  PROVE  Cardinality(S) + Cardinality(T) + 1 <= Cardinality(Producers)
<1>1. IsFiniteSet(Producers) /\ IsFiniteSet(S) /\ IsFiniteSet(T) /\ IsFiniteSet(S \union T)
  <2>1. S \union T \in SUBSET Producers
    OBVIOUS
  <2>2. QED
    BY <2>1, CountSubset, DecoderAssumption
<1>2. Cardinality(S \union T) = Cardinality(S) + Cardinality(T)
  <2>1. Cardinality(S \union T) = Cardinality(S) + Cardinality(T) - Cardinality(S \intersect T)
    BY <1>1, FS_Union
  <2>2. Cardinality(S \intersect T) = 0
    BY FS_EmptySet
  <2>3. Cardinality(S) \in Nat /\ Cardinality(T) \in Nat
    BY CountSubset
  <2>4. QED
    BY <2>1, <2>2, <2>3
<1>3. Cardinality(S \union T \union {p}) = Cardinality(S \union T) + 1
  BY <1>1, FS_AddElement
<1>4. Cardinality(S \union T \union {p}) <= Cardinality(Producers)
  <2>1. S \union T \union {p} \in SUBSET Producers
    OBVIOUS
  <2>2. QED
    BY <1>1, <2>1, FS_Subset
<1>5. Cardinality(S) \in Nat /\ Cardinality(T) \in Nat /\ Cardinality(Producers) \in Nat
  BY CountSubset
<1>6. QED
  BY <1>2, <1>3, <1>4, <1>5

LEMMA CountAdd ==
  ASSUME NEW S \in SUBSET Producers, NEW p, p \notin S
  PROVE  Cardinality(S \union {p}) = Cardinality(S) + 1
BY CountSubset, FS_AddElement

LEMMA CountRemove ==
  ASSUME NEW S \in SUBSET Producers, NEW p \in S
  PROVE  Cardinality(S \ {p}) = Cardinality(S) - 1
BY CountSubset, FS_RemoveElement

LEMMA SetFacts ==
  /\ Waiting \in SUBSET Producers /\ Notifying \in SUBSET Producers /\ Settled \in SUBSET Producers
  /\ Waiting \intersect Notifying = {}
  /\ Waiting' \in SUBSET Producers /\ Notifying' \in SUBSET Producers
  /\ Settled' \in SUBSET Producers /\ Waiting' \intersect Notifying' = {}
BY DEF Waiting, Notifying, Settled, Blocked

(***************************************************************************)
(* With an empty queue there is room.                                      *)
(***************************************************************************)
LEMMA RoomWhenEmpty ==
  ASSUME NEW len, NEW S \in SUBSET Producers, NEW T \in SUBSET Producers, len = 0
  PROVE  len + Cardinality(S) < Cardinality(T) + Cardinality(Producers) \/ S = Producers
<1>1. /\ Cardinality(S) \in Nat /\ Cardinality(T) \in Nat /\ Cardinality(Producers) \in Nat
      /\ S # Producers => Cardinality(S) < Cardinality(Producers)
  BY CountSubset
<1>2. QED
  BY <1>1

(***************************************************************************)
(* For a producer that neither waits nor notifies there is room.           *)
(***************************************************************************)
LEMMA RoomForOne ==
  ASSUME NEW len \in Nat, NEW p \in Producers,
         NEW S \in SUBSET Producers, NEW T \in SUBSET Producers,
         S \intersect T = {}, p \notin S, p \notin T,
         len + Cardinality(S) < Cardinality(T) + Cardinality(Producers)
  PROVE  ~(len >= QueueDepth)
<1>1. Cardinality(S) \in Nat /\ Cardinality(T) \in Nat /\ Cardinality(Producers) \in Nat
  BY CountSubset
<1>2. Cardinality(S) + Cardinality(T) + 1 <= Cardinality(Producers)
  BY CountWithout
<1>3. QueueDepth \in Nat /\ 2 * Cardinality(Producers) <= QueueDepth + 1
  BY DecoderAssumption
<1>4. QED
  BY <1>1, <1>2, <1>3

LEMMA RoomForActive ==
  ASSUME SessionInv, WakeInv, NEW p \in Producers, pc[p] \in {"lock", "woken"}, ~stop,
         Blocked(Sender) \/ ~running
  PROVE  ~QueueFull
<1>0. p \notin Waiting /\ p \notin Notifying /\ p \notin Settled /\ Len(pending) \in Nat
  BY DEF Waiting, Notifying, Settled, Blocked, SessionInv, Types, QueueType
<1>1. CASE Blocked(Sender)
  <2>1. Len(pending) + Cardinality(Waiting) < Cardinality(Notifying) + Cardinality(Producers)
    BY <1>0, <1>1 DEF WakeInv, RoomInv, RoomLeft
  <2>2. QED
    BY <1>0, <2>1, SetFacts, RoomForOne DEF QueueFull
<1>2. CASE ~running
  <2>1. Len(pending) <= Cardinality(Settled)
    BY <1>2 DEF WakeInv, FewInv
  <2>2. Cardinality(Settled) + Cardinality({}) + 1 <= Cardinality(Producers)
    BY <1>0, SetFacts, CountWithout
  <2>3. Cardinality(Settled) \in Nat /\ Cardinality(Producers) \in Nat /\ Cardinality({}) = 0
    BY SetFacts, CountSubset, FS_EmptySet
  <2>4. QueueDepth \in Nat \ {0} /\ 2 * Cardinality(Producers) <= QueueDepth + 1
    BY DecoderAssumption
  <2>5. QED
    BY <1>0, <2>1, <2>2, <2>3, <2>4 DEF QueueFull
<1>3. QED
  BY <1>1, <1>2

(***************************************************************************)
(* The overlooked remain so while they are blocked, but for Stop, which    *)
(* counts them anew.                                                       *)
(***************************************************************************)
OverlookedKept == \A p \in Producers : p \in overlooked /\ Blocked(p)' => p \in overlooked'

(***************************************************************************)
(* A step that leaves the queue alone, makes nobody wait and keeps from    *)
(* nobody that was bound to notify the send thread.                        *)
(***************************************************************************)
HarmlessStep ==
  /\ pending' = pending
  /\ OverlookedKept
  /\ \A p \in Producers :
       /\ pc'[p] = "sleep" => pc[p] = "sleep"
       /\ Blocked(p)' => Blocked(p) /\ (pc[Sender] = "notify" => pc'[Sender] = "notify" \/ QueueFull)
       /\ pc'[p] = "notify" <=> pc[p] = "notify"
       /\ pc[p] \in {"idle", "notify", "eos"} => pc'[p] \in {"idle", "notify", "eos"} \/ running'
       /\ Blocked(Sender)' /\ ~stop' /\ BoundToNotify(p) => BoundToNotify(p)'
  /\ Blocked(Sender)' => Blocked(Sender) /\ eos' = eos
  /\ pc'[Sender] = "sleep" => pc[Sender] = "sleep"
  /\ stop => stop'
  /\ ~running' /\ ~stop' => ~running
  /\ \/ ctl' = "stop_notify"
     \/ stop' \/ ~running' => (stop \/ ~running) /\ ctl # "stop_notify"

LEMMA WakeHarmless ==
  ASSUME SessionInv, WakeInv, HarmlessStep
  PROVE  WakeInv'
<1>0. pending' = pending /\ Len(pending) \in Nat /\ (QueueFull' <=> QueueFull)
  BY DEF HarmlessStep, QueueFull, SessionInv, Types, QueueType
<1>1. Waiting' \in SUBSET Waiting
  BY DEF HarmlessStep, Waiting
<1>2. Notifying' = Notifying
  BY DEF HarmlessStep, Notifying
<1>3. SleepInv'
  <2>1. pc'[Sender] = "sleep" => pc[Sender] = "sleep" /\ eos' = eos
    BY DEF HarmlessStep, Blocked
  <2>2. QED
    BY <1>0, <2>1 DEF HarmlessStep, WakeInv, SleepInv
<1>4. OverlookedInv'
  <2> SUFFICES ASSUME stop' \/ ~running', ctl' # "stop_notify", NEW p \in Waiting'
               PROVE  p \in overlooked'
    BY DEF OverlookedInv
  <2>1. p \in Waiting /\ p \in Producers /\ Blocked(p)'
    BY <1>1 DEF Waiting
  <2>2. p \in overlooked
    BY <2>1 DEF HarmlessStep, WakeInv, OverlookedInv
  <2>3. QED
    BY <2>1, <2>2 DEF HarmlessStep, OverlookedKept
<1>5. FewInv'
  <2> SUFFICES ASSUME ~stop', ~running' PROVE Len(pending') <= Cardinality(Settled')
    BY DEF FewInv
  <2>1. Settled \in SUBSET Settled'
    BY DEF HarmlessStep, Settled
  <2>2. Cardinality(Settled) <= Cardinality(Settled') /\ Cardinality(Settled) \in Nat
        /\ Cardinality(Settled') \in Nat
    BY <2>1, SetFacts, CountSubset
  <2>3. Len(pending) <= Cardinality(Settled)
    BY DEF HarmlessStep, WakeInv, FewInv
  <2>4. QED
    BY <1>0, <2>2, <2>3
<1>6. RoomInv'
  <2> SUFFICES ASSUME Blocked(Sender)', ~stop' PROVE RoomLeft'
    BY DEF RoomInv
  <2>1. RoomLeft
    BY DEF HarmlessStep, WakeInv, RoomInv
  <2>2. CASE pending = <<>>
    BY <1>0, <2>2, SetFacts, RoomWhenEmpty DEF RoomLeft
  <2>3. CASE pending # <<>>
    <3>1. Cardinality(Waiting') <= Cardinality(Waiting)
      BY <1>1, SetFacts, CountSubset
    <3>2. Cardinality(Waiting') \in Nat /\ Cardinality(Waiting) \in Nat
          /\ Cardinality(Notifying) \in Nat /\ Cardinality(Producers) \in Nat
      BY SetFacts, CountSubset
    <3>3. Len(pending) + Cardinality(Waiting) < Cardinality(Notifying) + Cardinality(Producers)
      BY <2>1, <2>3 DEF RoomLeft
    <3>4. Len(pending) + Cardinality(Waiting') < Cardinality(Notifying) + Cardinality(Producers)
      BY <1>0, <3>1, <3>2, <3>3
    <3>5. QED
      BY <1>0, <1>2, <3>4 DEF RoomLeft
  <2>4. QED
    BY <2>2, <2>3
<1>7. SenderBlockedWithCause'
  <2> SUFFICES ASSUME Blocked(Sender)', ~stop'
               PROVE  /\ ~eos'
                      /\ pending' # <<>> => \E p \in Producers : BoundToNotify(p)'
                      /\ \A p \in Producers \ overlooked' : ~Blocked(p)'
    BY DEF SenderBlockedWithCause
  <2>1. Blocked(Sender) /\ ~stop /\ eos' = eos
    BY DEF HarmlessStep
  <2>2. /\ ~eos
        /\ pending # <<>> => \E p \in Producers : BoundToNotify(p)
        /\ \A p \in Producers \ overlooked : ~Blocked(p)
    BY <2>1 DEF WakeInv, NoOtherLostWakeup, SenderBlockedWithCause
  <2>3. pending' # <<>> => \E p \in Producers : BoundToNotify(p)'
    BY <1>0, <2>2 DEF HarmlessStep
  <2>4. ASSUME NEW p \in Producers \ overlooked' PROVE ~Blocked(p)'
    BY <2>2 DEF HarmlessStep, OverlookedKept
  <2>5. QED
    BY <2>1, <2>2, <2>3, <2>4
<1>8. ProducerBlockedWithCause'
  <2> SUFFICES ASSUME NEW p \in Producers \ overlooked', Blocked(p)', ~stop'
               PROVE  QueueFull' \/ pc'[Sender] = "notify"
    BY DEF ProducerBlockedWithCause
  <2>1. p \in Producers \ overlooked /\ Blocked(p) /\ ~stop
    BY DEF HarmlessStep, OverlookedKept
  <2>2. QueueFull \/ pc[Sender] = "notify"
    BY <2>1 DEF WakeInv, NoOtherLostWakeup, ProducerBlockedWithCause
  <2>3. QED
    BY <1>0, <2>2 DEF HarmlessStep
<1>9. QED
  BY <1>3, <1>4, <1>5, <1>6, <1>7, <1>8 DEF WakeInv, NoOtherLostWakeup

LEMMA KeptOverlooked ==
  ASSUME StillOverlooked \/ overlooked' = overlooked \/ overlooked \subseteq overlooked'
  PROVE  OverlookedKept
BY DEF StillOverlooked, OverlookedKept, Blocked

FlagsHarmless ==
  /\ stop => stop'
  /\ ~running' /\ ~stop' => ~running
  /\ \/ ctl' = "stop_notify"
     \/ stop' \/ ~running' => (stop \/ ~running) /\ ctl # "stop_notify"

(***************************************************************************)
(* Harmless steps: those of which the input threads notice no more than    *)
(* that they are woken, and those of an input thread that ends or goes on  *)
(* without being blocked.                                                  *)
(***************************************************************************)
LEMMA HarmlessWoken ==
  ASSUME \A t \in InputThreads : Woke(t), UNCHANGED <<pending, eos>>, OverlookedKept, FlagsHarmless
  PROVE  HarmlessStep
<1>1. QueueFull' <=> QueueFull
  BY DEF QueueFull
<1>2. Woke(Sender) /\ \A p \in Producers : Woke(p)
  BY ThreadFacts
<1>3. ASSUME NEW p \in Producers
      PROVE  /\ pc'[p] = "sleep" => pc[p] = "sleep"
             /\ Blocked(p)' => Blocked(p)
             /\ pc'[p] = "notify" <=> pc[p] = "notify"
             /\ pc[p] \in {"idle", "notify", "eos"} => pc'[p] \in {"idle", "notify", "eos"}
             /\ BoundToNotify(p) => BoundToNotify(p)'
  BY <1>1, <1>2 DEF Woke, Blocked, BoundToNotify
<1>4. /\ Blocked(Sender)' => Blocked(Sender)
      /\ pc'[Sender] = "sleep" => pc[Sender] = "sleep"
      /\ pc[Sender] = "notify" => pc'[Sender] = "notify"
  BY <1>2 DEF Woke, Blocked
<1>5. QED
  BY <1>3, <1>4 DEF HarmlessStep, FlagsHarmless

LEMMA HarmlessProducer ==
  ASSUME NEW p \in Producers, OthersWoke(p), UNCHANGED pending, OverlookedKept, FlagsHarmless,
         pc'[p] = "sleep" => pc[p] = "sleep",
         Blocked(p)' => Blocked(p),
         pc[p] # "notify" /\ pc'[p] # "notify",
         pc[p] \in {"idle", "eos"} => pc'[p] \in {"idle", "eos"} \/ running',
         Blocked(Sender)' => eos' = eos,
         Blocked(Sender)' /\ ~stop' /\ BoundToNotify(p) => BoundToNotify(p)'
  PROVE  HarmlessStep
<1>1. QueueFull' <=> QueueFull
  BY DEF QueueFull
<1>2. Woke(Sender) /\ \A q \in Producers : q # p => Woke(q)
  BY ThreadFacts DEF OthersWoke
<1>3. ASSUME NEW q \in Producers, q # p
      PROVE  /\ pc'[q] = "sleep" => pc[q] = "sleep"
             /\ Blocked(q)' => Blocked(q)
             /\ pc'[q] = "notify" <=> pc[q] = "notify"
             /\ pc[q] \in {"idle", "notify", "eos"} => pc'[q] \in {"idle", "notify", "eos"}
             /\ BoundToNotify(q) => BoundToNotify(q)'
  BY <1>1, <1>2, <1>3 DEF Woke, Blocked, BoundToNotify
<1>4. /\ Blocked(Sender)' => Blocked(Sender)
      /\ pc'[Sender] = "sleep" => pc[Sender] = "sleep"
      /\ pc[Sender] = "notify" => pc'[Sender] = "notify"
  BY <1>2 DEF Woke, Blocked
<1>5. QED
  BY <1>3, <1>4 DEF HarmlessStep, FlagsHarmless

LEMMA HarmlessSender ==
  ASSUME OthersWoke(Sender), UNCHANGED pending, OverlookedKept, FlagsHarmless,
         Blocked(Sender)' => Blocked(Sender) /\ eos' = eos,
         pc'[Sender] # "sleep",
         pc[Sender] = "notify" => \A p \in Producers : Blocked(p)' => QueueFull
  PROVE  HarmlessStep
<1>1. QueueFull' <=> QueueFull
  BY DEF QueueFull
<1>2. \A p \in Producers : Woke(p)
  BY ThreadFacts DEF OthersWoke
<1>3. ASSUME NEW p \in Producers
      PROVE  /\ pc'[p] = "sleep" => pc[p] = "sleep"
             /\ Blocked(p)' => Blocked(p)
             /\ pc'[p] = "notify" <=> pc[p] = "notify"
             /\ pc[p] \in {"idle", "notify", "eos"} => pc'[p] \in {"idle", "notify", "eos"}
             /\ BoundToNotify(p) => BoundToNotify(p)'
  BY <1>1, <1>2 DEF Woke, Blocked, BoundToNotify
<1>4. QED
  BY <1>3 DEF HarmlessStep, FlagsHarmless

LEMMA FlagsLeftAlone == UNCHANGED <<stop, running, ctl>> => FlagsHarmless
BY DEF FlagsHarmless

(***************************************************************************)
(* What a producer does, but for waiting, pushing and notifying.           *)
(***************************************************************************)
LEMMA WakeProducer ==
  ASSUME SessionInv, WakeInv, NEW p \in Producers,
         \/ SubmitPacket(p) \/ SubmitEndOfStream(p) \/ FallAsleep(p)
         \/ SubmitLocked(p) /\ SubmitRejected(p)
         \/ SubmitEndOfStreamLocked(p)
  PROVE  HarmlessStep
<1> USE DEF flagVars, queueVars, histVars, ctlVars, allButPc
<1>0. PcType /\ p \in Threads /\ {"lock", "eos", "wait", "idle"} \subseteq PcStates
  BY ThreadFacts DEF SessionInv, Types, PcStates
<1>1. ProducerAct(p)
  BY DEF ProducerAct, ProducerStep
<1>2. OthersWoke(p) /\ FlagsHarmless
  <2>1. UNCHANGED <<stop, running, ctl>>
    BY <1>1, ThreadsLeaveControl DEF ThreadStep
  <2>2. QED
    BY <1>0, <1>1, <2>1, ProducerMoves, FlagsLeftAlone
<1>3. \A s \in {"lock", "eos", "wait", "idle"} : pc' = Goto(p, s) => pc'[p] = s
  BY <1>0, GotoMoves
<1>4. CASE SubmitPacket(p) \/ SubmitEndOfStream(p)
  <2>1. pc[p] = "idle" /\ pc'[p] \in {"lock", "eos"} /\ running'
        /\ UNCHANGED <<pending, eos, overlooked>>
    BY <1>3, <1>4 DEF SubmitPacket, SubmitEndOfStream
  <2>2. QED
    BY <1>2, <2>1, KeptOverlooked, HarmlessProducer DEF Blocked, BoundToNotify
<1>5. CASE FallAsleep(p)
  <2>1. pc[p] = "sleep" /\ pc'[p] = "wait" /\ UNCHANGED <<pending, eos, overlooked>>
    BY <1>3, <1>5 DEF FallAsleep
  <2>2. QED
    BY <1>2, <2>1, KeptOverlooked, HarmlessProducer DEF Blocked, BoundToNotify
<1>6. CASE SubmitLocked(p) /\ SubmitRejected(p)
  <2>1. pc[p] \in {"lock", "woken"} /\ pc'[p] = "idle" /\ UNCHANGED <<pending, eos, stop, overlooked>>
        /\ (stop \/ (eos /\ ~QueueFull))
    BY <1>3, <1>6 DEF SubmitLocked, SubmitRejected
  <2>2. Blocked(Sender)' => Blocked(Sender)
    BY <1>2, ThreadFacts DEF OthersWoke, Woke, Blocked
  <2>3. ~(Blocked(Sender)' /\ ~stop')
    BY <2>1, <2>2 DEF WakeInv, NoOtherLostWakeup, SenderBlockedWithCause
  <2>4. QED
    BY <1>2, <2>1, <2>3, KeptOverlooked, HarmlessProducer DEF Blocked
<1>7. CASE SubmitEndOfStreamLocked(p)
  <2>1. pc[p] = "eos" /\ pc' = WakeAll(Goto(p, "idle"), InputThreads) /\ UNCHANGED pending
        /\ StillOverlooked /\ InputMutexFree
    BY <1>7 DEF SubmitEndOfStreamLocked
  <2>2. pc'[p] = "idle" /\ \A u \in Threads : u # p /\ u \in InputThreads => pc'[u] # "wait"
    BY <1>0, <2>1, MoveWakeAll
  <2>3. pc'[Sender] # "sleep" /\ pc'[Sender] # "wait"
    BY <1>2, <2>1, <2>2, ThreadFacts DEF OthersWoke, Woke, InputMutexFree
  <2>4. QED
    BY <1>2, <2>1, <2>2, <2>3, KeptOverlooked, HarmlessProducer DEF Blocked, BoundToNotify
<1>8. QED
  BY <1>4, <1>5, <1>6, <1>7

(***************************************************************************)
(* What the send thread does, but for taking a packet and waiting.         *)
(***************************************************************************)
LEMMA WakeSender ==
  ASSUME SessionInv, WakeInv, SendStep, ~(SendLoopTop /\ SendLoopTake),
         ~(SendLoopTop /\ SendLoopWaits)
  PROVE  HarmlessStep
<1> USE DEF flagVars, queueVars, histVars, ctlVars, allButPc
<1>0. PcType /\ Sender \in Threads
      /\ {"wait", "end", "send", "lock", "pressure", "finish", "done"} \subseteq PcStates
  BY ThreadFacts DEF SessionInv, Types, PcStates
<1>1. OthersWoke(Sender) /\ FlagsHarmless
  <2>1. UNCHANGED <<stop, running, ctl>>
    BY ThreadsLeaveControl DEF ThreadStep
  <2>2. QED
    BY <1>0, <2>1, SendMoves, FlagsLeftAlone
<1>2. \A s \in {"wait", "end", "send", "lock", "pressure", "finish", "done"} :
        pc' = Goto(Sender, s) => pc'[Sender] = s
  BY <1>0, GotoMoves
<1>3. CASE FallAsleep(Sender)
  <2>1. pc[Sender] = "sleep" /\ pc'[Sender] = "wait" /\ UNCHANGED <<pending, eos, overlooked>>
    BY <1>2, <1>3 DEF FallAsleep
  <2>2. QED
    BY <1>1, <2>1, KeptOverlooked, HarmlessSender DEF Blocked
<1>4. CASE SendLoopNotify
  <2>1. /\ pc' = WakeAll(Goto(Sender, "send"), InputThreads) /\ UNCHANGED pending
        /\ StillOverlooked
    BY <1>4 DEF SendLoopNotify
  <2>2. pc'[Sender] = "send"
        /\ \A u \in Threads : u # Sender /\ u \in InputThreads => pc'[u] # "wait"
    BY <1>0, <2>1, MoveWakeAll
  <2>3. ASSUME NEW p \in Producers, Blocked(p)' PROVE QueueFull
    <3>1. pc[p] = "sleep"
      BY <1>1, <2>2, <2>3, ThreadFacts DEF OthersWoke, Woke, Blocked
    <3>2. QED
      BY <3>1 DEF WakeInv, SleepInv
  <2>4. QED
    BY <1>1, <2>1, <2>2, <2>3, KeptOverlooked, HarmlessSender DEF Blocked
<1>5. CASE SendLoopEnds
  <2>1. /\ pc' = WakeAll(Goto(Sender, "done"), InputThreads) /\ UNCHANGED pending
        /\ StillOverlooked /\ pc[Sender] = "finish"
    BY <1>5 DEF SendLoopEnds
  <2>2. pc'[Sender] = "done"
    BY <1>0, <2>1, MoveWakeAll
  <2>3. QED
    BY <1>1, <2>1, <2>2, KeptOverlooked, HarmlessSender DEF Blocked
<1>6. CASE SendLoopTop /\ SendLoopBreaks
  <2>1. pc[Sender] \in {"lock", "woken"} /\ pc'[Sender] = "end" /\ UNCHANGED <<pending, overlooked>>
    BY <1>2, <1>6 DEF SendLoopTop, SendLoopBreaks
  <2>2. QED
    BY <1>1, <2>1, KeptOverlooked, HarmlessSender DEF Blocked
<1>7. CASE \/ SendLoopStops \/ SendAccepted \/ SendAbandoned \/ SendFails
           \/ SendPressure \/ SendEndOfStream
  <2>1. /\ pc[Sender] \in {"lock", "send", "pressure", "end"}
        /\ pc'[Sender] \in {"lock", "end", "pressure", "finish"}
        /\ UNCHANGED <<pending, overlooked>>
    BY <1>2, <1>7 DEF SendLoopStops, SendAccepted, SendAbandoned, SendFails, SendPressure,
                      SendEndOfStream
  <2>2. QED
    BY <1>1, <2>1, KeptOverlooked, HarmlessSender DEF Blocked
<1>8. QED
  BY <1>3, <1>4, <1>5, <1>6, <1>7 DEF SendStep, SendLoopTop

(***************************************************************************)
(* What the other threads do, and the wakeups that nobody caused.          *)
(***************************************************************************)
LEMMA WakeOthers ==
  ASSUME SessionInv, WakeInv,
         \/ ReceiveStep \/ CallbackStep \/ CallbackReturns \/ HardwareStep
         \/ \E t \in InputThreads \union {Deliverer} : SpuriousWakeup(t)
         \/ UNCHANGED vars
  PROVE  HarmlessStep
<1> USE DEF flagVars, queueVars, histVars, ctlVars, allButPc
<1>0. PcType
  BY DEF SessionInv, Types
<1>1. \A t \in InputThreads : Woke(t)
  <2>1. \A t \in InputThreads : t \in Threads /\ t # Receiver /\ t # Deliverer
    BY ThreadFacts
  <2>2. CASE ReceiveStep
    BY <1>0, <2>1, <2>2, ReceiveMoves DEF OthersWoke
  <2>3. CASE CallbackStep \/ CallbackReturns
    BY <1>0, <2>1, <2>3, CallbackMoves DEF OthersWoke
  <2>4. CASE HardwareStep \/ UNCHANGED vars
    BY <2>4, HardwareMoves DEF Woke, vars
  <2>5. CASE \E t \in InputThreads \union {Deliverer} : SpuriousWakeup(t)
    BY <1>0, <2>1, <2>5, WakeupMoves DEF OthersWoke, Woke
  <2>6. QED
    BY <2>2, <2>3, <2>4, <2>5
<1>2. UNCHANGED <<pending, eos, stop, running, ctl>> /\ (StillOverlooked \/ UNCHANGED overlooked)
  <2>1. CASE ReceiveStep
    BY <2>1 DEF ReceiveStep, ReceiveLoopStops, ReceiveFrame, ReceiveFlowEnd, PublishLatest,
                PublishFails, PublishOffer
  <2>2. CASE CallbackStep \/ CallbackReturns
    BY <2>2 DEF CallbackStep, CallbackReturns, FallAsleep, CallbackLoopTop
  <2>3. CASE HardwareStep \/ UNCHANGED vars
    BY <2>3 DEF HardwareStep, Decode, DecodeNothing, vars
  <2>4. CASE \E t \in InputThreads \union {Deliverer} : SpuriousWakeup(t)
    BY <2>4 DEF SpuriousWakeup
  <2>5. QED
    BY <2>1, <2>2, <2>3, <2>4
<1>3. QED
  BY <1>1, <1>2, KeptOverlooked, FlagsLeftAlone, HarmlessWoken

(***************************************************************************)
(* What the application thread does, but for resetting the queue and for   *)
(* the notify_all of Stop.                                                 *)
(***************************************************************************)
LEMMA WakeControl ==
  ASSUME SessionInv, WakeInv, CtlCall \/ CtlStep,
         ~CreateBackend, ~Start, ~CloseReturns, ~StopNotify
  PROVE  HarmlessStep
<1> USE DEF flagVars, queueVars, histVars, ctlVars
<1>0. PcType /\ Sender \in Threads /\ "off" \in PcStates
      /\ \A t \in InputThreads : t \in Threads /\ t # Receiver /\ t # Deliverer
  BY ThreadFacts DEF SessionInv, Types, PcStates
<1>f. FlagType
  BY DEF SessionInv, Types
<1>1. UNCHANGED <<pending, eos>> /\ (StillOverlooked \/ overlooked \subseteq overlooked')
  BY DEF CtlCall, CtlStep, SetFrameCallback, Stop, CloseStopped, StartBackendFails, StartThreads,
         StartReturns, JoinSend, JoinReceive, StopBackend, StopCallback, NotifyCallback,
         JoinCallback
<1>2. FlagsHarmless
  <2>1. CASE SetFrameCallback \/ StartBackendFails \/ StartThreads \/ StartReturns
    BY <2>1 DEF SetFrameCallback, StartBackendFails, StartThreads, StartReturns, FlagsHarmless,
                SessionInv, ControlInv
  <2>2. CASE \/ \E g \in {"stop", "close", "open"} : Stop(g)
             \/ \E g \in {"close", "open"} : CloseStopped(g)
    BY <2>2 DEF Stop, CloseStopped, FlagsHarmless
  <2>3. CASE JoinSend \/ JoinReceive \/ StopBackend \/ StopCallback \/ NotifyCallback \/ JoinCallback
    <3>1. ctl \in StopPhases \ {"stop_notify"} /\ stop' = stop
      BY <2>3 DEF JoinSend, JoinReceive, StopBackend, StopCallback, NotifyCallback, JoinCallback,
                  StopPhases
    <3>2. stop
      BY <3>1 DEF SessionInv, ControlInv
    <3>3. QED
      BY <3>1, <3>2 DEF FlagsHarmless
  <2>4. QED
    BY <2>1, <2>2, <2>3 DEF CtlCall, CtlStep
<1>3. CASE ~StartThreads /\ ~JoinSend
  <2>1. \A t \in InputThreads : Woke(t)
    <3>1. CASE JoinReceive \/ JoinCallback
      BY <1>0, <3>1, GotoMoves, ThreadFacts DEF JoinReceive, JoinCallback, Woke
    <3>2. CASE ~JoinReceive /\ ~JoinCallback
      <4>1. ~ThreadControl
        BY <1>3, <3>2 DEF ThreadControl
      <4>2. QED
        BY <1>0, <4>1, OtherControlMoves
    <3>3. QED
      BY <3>1, <3>2
  <2>2. QED
    BY <1>1, <1>2, <2>1, KeptOverlooked, HarmlessWoken
<1>4. CASE StartThreads \/ JoinSend
  <2>1. pc[Sender] \in {"off", "done"} /\ pc'[Sender] \in {"lock", "off"}
        /\ \A t \in Producers : pc'[t] = pc[t]
    <3>1. CASE StartThreads
      <4>1. ~Working
        BY <3>1 DEF StartThreads, SessionInv, ControlInv, Working
      <4>2. pc[Sender] = "off"
        BY <4>1 DEF SessionInv, PlaceInv
      <4>3. QED
        BY <1>0, <3>1, <4>2, ThreadFacts DEF StartThreads
    <3>2. CASE JoinSend
      BY <1>0, <3>2, GotoMoves, ThreadFacts DEF JoinSend
    <3>3. QED
      BY <1>4, <3>1, <3>2
  <2>2. \A p \in Producers : /\ Blocked(p)' <=> Blocked(p)
                             /\ BoundToNotify(p)' <=> BoundToNotify(p)
    BY <1>1, <2>1 DEF Blocked, BoundToNotify, QueueFull
  <2>3. ~Blocked(Sender)' /\ ~Blocked(Sender)
    BY <2>1 DEF Blocked
  <2>4. QED
    BY <1>1, <1>2, <2>1, <2>2, <2>3, KeptOverlooked DEF HarmlessStep, FlagsHarmless
<1>5. QED
  BY <1>3, <1>4

(***************************************************************************)
(* A producer waits only when the send thread is at work.                  *)
(***************************************************************************)
LEMMA WakeWaits ==
  ASSUME SessionInv, WakeInv, NEW p \in Producers, SubmitLocked(p), SubmitWaits(p)
  PROVE  WakeInv'
<1> USE DEF flagVars, histVars, ctlVars
<1>0. PcType /\ p \in Threads /\ "sleep" \in PcStates
  BY ThreadFacts DEF SessionInv, Types, PcStates
<1>1. /\ pc[p] \in {"lock", "woken"} /\ QueueFull /\ ~stop /\ InputMutexFree
      /\ UNCHANGED <<pending, eos, stop, running, ctl, overlooked>>
      /\ pc' = Goto(p, "sleep")
  BY DEF SubmitLocked, SubmitWaits
<1>2. pc'[p] = "sleep" /\ \A t \in Threads : t # p => pc'[t] = pc[t]
  BY <1>0, <1>1, GotoMoves
<1>3. ~Blocked(Sender) /\ running
  BY <1>1, RoomForActive
<1>4. pc'[Sender] = pc[Sender] /\ \A q \in Producers : q # p => pc'[q] = pc[q]
  BY <1>2, ThreadFacts
<1>5. ~Blocked(Sender)' /\ pc'[Sender] # "sleep"
  BY <1>3, <1>4 DEF Blocked
<1>6. QueueFull'
  BY <1>1 DEF QueueFull
<1>7. SleepInv' /\ RoomInv' /\ SenderBlockedWithCause' /\ ProducerBlockedWithCause'
  BY <1>5, <1>6 DEF SleepInv, RoomInv, SenderBlockedWithCause, ProducerBlockedWithCause
<1>8. OverlookedInv' /\ FewInv'
  BY <1>1, <1>3 DEF OverlookedInv, FewInv
<1>9. QED
  BY <1>7, <1>8 DEF WakeInv, NoOtherLostWakeup

(***************************************************************************)
(* A producer that pushes is bound to notify.                              *)
(***************************************************************************)
LEMMA WakePushes ==
  ASSUME SessionInv, WakeInv, NEW p \in Producers, SubmitLocked(p), SubmitPushes(p)
  PROVE  WakeInv'
<1> USE DEF flagVars, histVars, ctlVars
<1>0. PcType /\ p \in Threads /\ "notify" \in PcStates /\ pending \in Seq(Nat) /\ accepted \in Nat
  BY ThreadFacts DEF SessionInv, Types, PcStates, QueueType
<1>1. /\ pc[p] \in {"lock", "woken"} /\ ~QueueFull /\ ~stop /\ InputMutexFree
      /\ UNCHANGED <<eos, stop, running, ctl, overlooked>>
      /\ pending' = Append(pending, accepted + 1)
      /\ pc' = Goto(p, "notify")
  BY DEF SubmitLocked, SubmitPushes
<1>2. pc'[p] = "notify" /\ \A t \in Threads : t # p => pc'[t] = pc[t]
  BY <1>0, <1>1, GotoMoves
<1>3. pc'[Sender] = pc[Sender] /\ \A q \in Producers : q # p => pc'[q] = pc[q]
  BY <1>2, ThreadFacts
<1>4. Len(pending') = Len(pending) + 1 /\ Len(pending) \in Nat
  BY <1>0, <1>1, AppendType
<1>5. /\ p \notin Waiting /\ p \notin Notifying /\ p \notin Settled
      /\ Waiting' = Waiting
      /\ Notifying' = Notifying \union {p}
      /\ Settled' = Settled \union {p}
  BY <1>1, <1>2, <1>3 DEF Waiting, Notifying, Settled, Blocked
<1>6. SleepInv'
  <2>1. pc'[Sender] # "sleep" /\ \A q \in Producers : pc'[q] # "sleep"
    BY <1>1, <1>2, <1>3, ThreadFacts DEF InputMutexFree
  <2>2. QED
    BY <2>1 DEF SleepInv
<1>7. OverlookedInv'
  BY <1>1, <1>5 DEF WakeInv, OverlookedInv
<1>8. FewInv'
  <2>1. Cardinality(Settled') = Cardinality(Settled) + 1 /\ Cardinality(Settled) \in Nat
    BY <1>5, SetFacts, CountSubset, CountAdd
  <2>2. ~stop /\ ~running => Len(pending) <= Cardinality(Settled)
    BY DEF WakeInv, FewInv
  <2>3. QED
    BY <1>1, <1>4, <2>1, <2>2 DEF FewInv
<1>9. RoomInv'
  <2> SUFFICES ASSUME Blocked(Sender)' PROVE RoomLeft'
    BY DEF RoomInv
  <2>1. RoomLeft
    BY <1>1, <1>3 DEF WakeInv, RoomInv, Blocked
  <2>2. Len(pending) + Cardinality(Waiting) < Cardinality(Notifying) + Cardinality(Producers)
    BY <1>5, <2>1 DEF RoomLeft
  <2>3. Cardinality(Notifying') = Cardinality(Notifying) + 1
    BY <1>5, SetFacts, CountAdd
  <2>4. Cardinality(Notifying) \in Nat /\ Cardinality(Waiting) \in Nat
        /\ Cardinality(Producers) \in Nat
    BY SetFacts, CountSubset
  <2>5. Len(pending') + Cardinality(Waiting') < Cardinality(Notifying') + Cardinality(Producers)
    BY <1>4, <1>5, <2>2, <2>3, <2>4
  <2>6. QED
    BY <2>5 DEF RoomLeft
<1>10. SenderBlockedWithCause'
  <2> SUFFICES ASSUME Blocked(Sender)', ~stop'
               PROVE  /\ ~eos'
                      /\ pending' # <<>> => \E q \in Producers : BoundToNotify(q)'
                      /\ \A q \in Producers \ overlooked' : ~Blocked(q)'
    BY DEF SenderBlockedWithCause
  <2>1. Blocked(Sender) /\ ~stop
    BY <1>1, <1>3 DEF Blocked
  <2>2. ~eos /\ \A q \in Producers \ overlooked : ~Blocked(q)
    BY <2>1 DEF WakeInv, NoOtherLostWakeup, SenderBlockedWithCause
  <2>3. BoundToNotify(p)'
    BY <1>2 DEF BoundToNotify
  <2>4. \A q \in Producers \ overlooked' : ~Blocked(q)'
    BY <1>1, <1>2, <1>3, <2>2 DEF Blocked
  <2>5. QED
    BY <1>1, <2>2, <2>3, <2>4
<1>11. ProducerBlockedWithCause'
  <2> SUFFICES ASSUME NEW q \in Producers \ overlooked', Blocked(q)', ~stop'
               PROVE  QueueFull' \/ pc'[Sender] = "notify"
    BY DEF ProducerBlockedWithCause
  <2>1. q \in Producers \ overlooked /\ Blocked(q)
    BY <1>1, <1>2, <1>3 DEF Blocked
  <2>2. QueueFull \/ pc[Sender] = "notify"
    BY <1>1, <2>1 DEF WakeInv, NoOtherLostWakeup, ProducerBlockedWithCause
  <2>3. QED
    BY <1>1, <1>3, <2>2
<1>12. QED
  BY <1>6, <1>7, <1>8, <1>9, <1>10, <1>11 DEF WakeInv, NoOtherLostWakeup

(***************************************************************************)
(* A producer's notify_one wakes the send thread, or another producer that *)
(* finds room and will notify in its turn.                                 *)
(***************************************************************************)
LEMMA WakeNotifies ==
  ASSUME SessionInv, WakeInv, NEW p \in Producers, SubmitNotify(p)
  PROVE  WakeInv'
<1> USE DEF flagVars, queueVars, ctlVars
<1>0. PcType /\ p \in Threads /\ "idle" \in PcStates /\ Len(pending) \in Nat
      /\ InputThreads \in SUBSET Threads
  BY ThreadFacts DEF SessionInv, Types, PcStates, QueueType
<1>1. /\ pc[p] = "notify" /\ StillOverlooked
      /\ UNCHANGED <<pending, eos, stop, running, ctl>>
      /\ pc' \in WakeOne(Goto(p, "idle"), InputThreads)
  BY DEF SubmitNotify
<1>2. /\ pc'[p] = "idle" /\ OthersWoke(p)
      /\ \/ /\ \A u \in InputThreads : u # p => pc[u] # "wait"
            /\ \A u \in Threads : u # p => pc'[u] = pc[u]
         \/ \E w \in InputThreads :
              /\ w # p /\ pc[w] = "wait" /\ pc'[w] = "woken"
              /\ \A u \in Threads : u # p /\ u # w => pc'[u] = pc[u]
  BY <1>0, <1>1, MoveWakeOne
<1>3. OverlookedKept
  BY <1>1, KeptOverlooked
<1>4. Woke(Sender) /\ \A q \in Producers : q # p => Woke(q)
  BY <1>2, ThreadFacts DEF OthersWoke
<1>5. /\ \A q \in Producers : /\ pc'[q] = "sleep" => pc[q] = "sleep"
                              /\ Blocked(q)' => Blocked(q)
      /\ Blocked(Sender)' => Blocked(Sender)
      /\ pc'[Sender] = "sleep" => pc[Sender] = "sleep"
      /\ pc[Sender] = "notify" => pc'[Sender] = "notify"
  BY <1>2, <1>4 DEF Woke, Blocked
<1>6. QueueFull' <=> QueueFull
  BY <1>1 DEF QueueFull
<1>7. SleepInv'
  BY <1>1, <1>5, <1>6 DEF WakeInv, SleepInv
<1>8. OverlookedInv'
  <2>1. Waiting' \subseteq Waiting
    BY <1>5 DEF Waiting
  <2>2. QED
    BY <1>1, <1>3, <2>1 DEF WakeInv, OverlookedInv, OverlookedKept, Waiting
<1>9. FewInv'
  <2>1. Settled \in SUBSET Settled'
    BY <1>1, <1>2, <1>4 DEF Settled, Woke
  <2>2. Cardinality(Settled) <= Cardinality(Settled') /\ Cardinality(Settled) \in Nat
        /\ Cardinality(Settled') \in Nat
    BY <2>1, SetFacts, CountSubset
  <2>3. ~stop /\ ~running => Len(pending) <= Cardinality(Settled)
    BY DEF WakeInv, FewInv
  <2>4. QED
    BY <1>0, <1>1, <2>2, <2>3 DEF FewInv
<1>10. ASSUME Blocked(Sender)', pending # <<>>
       PROVE  \E w \in Producers : /\ w # p /\ pc[w] = "wait" /\ pc'[w] = "woken"
                                   /\ \A q \in Producers : q # p /\ q # w => pc'[q] = pc[q]
  <2>1. pc[Sender] = "wait"
    BY <1>5, <1>10 DEF WakeInv, SleepInv, Blocked
  <2>2. Sender \in InputThreads /\ Sender # p
    BY ThreadFacts
  <2>3. PICK w \in InputThreads : /\ w # p /\ pc[w] = "wait" /\ pc'[w] = "woken"
                                  /\ \A u \in Threads : u # p /\ u # w => pc'[u] = pc[u]
    BY <1>2, <2>1, <2>2
  <2>4. w # Sender
    BY <1>10, <2>3 DEF Blocked
  <2>5. w \in Producers
    BY <2>3, <2>4, ThreadFacts
  <2>6. QED
    BY <2>3, <2>5, ThreadFacts
<1>11. ASSUME Blocked(Sender)', ~stop', pending # <<>>
       PROVE  Len(pending) + Cardinality(Waiting') < Cardinality(Notifying') + Cardinality(Producers)
  <2>1. PICK w \in Producers : /\ w # p /\ pc[w] = "wait" /\ pc'[w] = "woken"
                               /\ \A q \in Producers : q # p /\ q # w => pc'[q] = pc[q]
    BY <1>10, <1>11
  <2>2. /\ w \in Waiting /\ p \in Notifying
        /\ Waiting' = Waiting \ {w} /\ Notifying' = Notifying \ {p}
    BY <1>1, <1>2, <2>1 DEF Waiting, Notifying, Blocked
  <2>3. Cardinality(Waiting') = Cardinality(Waiting) - 1
        /\ Cardinality(Notifying') = Cardinality(Notifying) - 1
    BY <2>2, SetFacts, CountRemove
  <2>4. RoomLeft
    BY <1>1, <1>5, <1>11 DEF WakeInv, RoomInv
  <2>5. Len(pending) + Cardinality(Waiting) < Cardinality(Notifying) + Cardinality(Producers)
    BY <1>11, <2>4 DEF RoomLeft
  <2>6. Cardinality(Waiting) \in Nat /\ Cardinality(Notifying) \in Nat
        /\ Cardinality(Producers) \in Nat
    BY SetFacts, CountSubset
  <2>7. QED
    BY <1>0, <2>3, <2>5, <2>6
<1>12. RoomInv'
  <2> SUFFICES ASSUME Blocked(Sender)', ~stop' PROVE RoomLeft'
    BY DEF RoomInv
  <2>1. CASE pending = <<>>
    BY <1>1, <2>1, SetFacts, RoomWhenEmpty DEF RoomLeft
  <2>2. CASE pending # <<>>
    BY <1>1, <1>11, <2>2 DEF RoomLeft
  <2>3. QED
    BY <2>1, <2>2
<1>13. SenderBlockedWithCause'
  <2> SUFFICES ASSUME Blocked(Sender)', ~stop'
               PROVE  /\ ~eos'
                      /\ pending' # <<>> => \E q \in Producers : BoundToNotify(q)'
                      /\ \A q \in Producers \ overlooked' : ~Blocked(q)'
    BY DEF SenderBlockedWithCause
  <2>1. Blocked(Sender) /\ ~stop
    BY <1>1, <1>5
  <2>2. ~eos /\ \A q \in Producers \ overlooked : ~Blocked(q)
    BY <2>1 DEF WakeInv, NoOtherLostWakeup, SenderBlockedWithCause
  <2>3. \A q \in Producers \ overlooked' : ~Blocked(q)'
    BY <1>3, <1>5, <2>2 DEF OverlookedKept
  <2>4. ASSUME pending # <<>> PROVE \E q \in Producers : BoundToNotify(q)'
    <3>1. PICK w \in Producers : w # p /\ pc[w] = "wait" /\ pc'[w] = "woken"
      BY <1>10, <2>4
    <3>2. w \notin Waiting' /\ w \notin Notifying'
      BY <3>1 DEF Waiting, Notifying, Blocked
    <3>3. Len(pending) + Cardinality(Waiting') < Cardinality(Notifying') + Cardinality(Producers)
      BY <1>11, <2>4
    <3>4. ~(Len(pending) >= QueueDepth)
      BY <1>0, <3>2, <3>3, SetFacts, RoomForOne
    <3>5. ~QueueFull'
      BY <1>6, <3>4 DEF QueueFull
    <3>6. BoundToNotify(w)'
      BY <3>1, <3>5 DEF BoundToNotify
    <3>7. QED
      BY <3>6
  <2>5. QED
    BY <1>1, <2>2, <2>3, <2>4
<1>14. ProducerBlockedWithCause'
  <2> SUFFICES ASSUME NEW q \in Producers \ overlooked', Blocked(q)', ~stop'
               PROVE  QueueFull' \/ pc'[Sender] = "notify"
    BY DEF ProducerBlockedWithCause
  <2>1. q \in Producers \ overlooked /\ Blocked(q) /\ ~stop
    BY <1>1, <1>3, <1>5 DEF OverlookedKept
  <2>2. QueueFull \/ pc[Sender] = "notify"
    BY <2>1 DEF WakeInv, NoOtherLostWakeup, ProducerBlockedWithCause
  <2>3. QED
    BY <1>5, <1>6, <2>2
<1>15. QED
  BY <1>7, <1>8, <1>9, <1>12, <1>13, <1>14 DEF WakeInv, NoOtherLostWakeup

(***************************************************************************)
(* The send thread takes a packet and is then bound to notify, or finds    *)
(* none and waits, when no producer of its session does.                   *)
(***************************************************************************)
LEMMA WakeTakes ==
  ASSUME SessionInv, WakeInv, SendLoopTop, SendLoopTake \/ SendLoopWaits
  PROVE  WakeInv'
<1> USE DEF flagVars, histVars, ctlVars
<1>0. PcType /\ Sender \in Threads /\ {"notify", "sleep"} \subseteq PcStates
      /\ pending \in Seq(Nat) /\ Len(pending) \in Nat
  BY ThreadFacts DEF SessionInv, Types, PcStates, QueueType
<1>1. /\ pc[Sender] \in {"lock", "woken"} /\ InputMutexFree /\ ~stop
      /\ UNCHANGED <<eos, stop, running, ctl, overlooked>>
  BY DEF SendLoopTop, SendLoopTake, SendLoopWaits
<1>2. \A s \in {"notify", "sleep"} : pc' = Goto(Sender, s) => pc'[Sender] = s
  BY <1>0, GotoMoves
<1>3. \A p \in Producers : pc'[p] = pc[p] /\ pc'[p] # "sleep"
  <2>1. \A p \in Producers : p \in Threads /\ p \in InputThreads /\ p # Sender
    BY ThreadFacts
  <2>2. pc' = Goto(Sender, "notify") \/ pc' = Goto(Sender, "sleep")
    BY DEF SendLoopTake, SendLoopWaits
  <2>3. \A p \in Producers : pc'[p] = pc[p]
    BY <1>0, <2>1, <2>2, GotoMoves
  <2>4. QED
    BY <1>1, <2>1, <2>3 DEF InputMutexFree
<1>4. Waiting' = Waiting /\ Notifying' = Notifying /\ Settled' = Settled
  BY <1>3 DEF Waiting, Notifying, Settled, Blocked
<1>5. OverlookedInv'
  BY <1>1, <1>4 DEF WakeInv, OverlookedInv
<1>6. CASE SendLoopTake
  <2>1. pending # <<>> /\ pending' = Tail(pending) /\ pc'[Sender] = "notify"
    BY <1>2, <1>6 DEF SendLoopTake
  <2>2. Len(pending') = Len(pending) - 1 /\ Len(pending') \in Nat
    BY <1>0, <2>1, TailType
  <2>3. SleepInv' /\ RoomInv' /\ SenderBlockedWithCause' /\ ProducerBlockedWithCause'
    BY <1>3, <2>1 DEF SleepInv, RoomInv, SenderBlockedWithCause, ProducerBlockedWithCause, Blocked
  <2>4. FewInv'
    <3>1. Cardinality(Settled) \in Nat
      BY SetFacts, CountSubset
    <3>2. QED
      BY <1>0, <1>1, <1>4, <2>2, <3>1 DEF WakeInv, FewInv
  <2>5. QED
    BY <1>5, <2>3, <2>4 DEF WakeInv, NoOtherLostWakeup
<1>7. CASE SendLoopWaits
  <2>1. pending = <<>> /\ ~eos /\ pc'[Sender] = "sleep" /\ pending' = pending
    BY <1>2, <1>7 DEF SendLoopWaits
  <2>2. ~QueueFull
    BY <2>1, EmptyType, DecoderAssumption DEF QueueFull
  <2>3. \A p \in Producers \ overlooked : ~Blocked(p)
    BY <1>1, <2>2 DEF WakeInv, NoOtherLostWakeup, ProducerBlockedWithCause
  <2>4. \A p \in Producers \ overlooked' : ~Blocked(p)'
    BY <1>1, <1>3, <2>3 DEF Blocked
  <2>5. SleepInv' /\ SenderBlockedWithCause' /\ ProducerBlockedWithCause'
    BY <1>1, <1>3, <2>1, <2>4 DEF SleepInv, SenderBlockedWithCause, ProducerBlockedWithCause
  <2>6. FewInv'
    BY <1>1, <1>4, <2>1 DEF WakeInv, FewInv
  <2>7. RoomInv'
    BY <2>1, EmptyType, SetFacts, RoomWhenEmpty DEF RoomInv, RoomLeft
  <2>8. QED
    BY <1>5, <2>5, <2>6, <2>7 DEF WakeInv, NoOtherLostWakeup
<1>8. QED
  BY <1>6, <1>7

(***************************************************************************)
(* Open, Start and Close reset the queue while no session runs.            *)
(***************************************************************************)
LEMMA WakeReset ==
  ASSUME SessionInv, WakeInv, CreateBackend \/ Start \/ CloseReturns
  PROVE  WakeInv'
<1>0. FlagType
  BY DEF SessionInv, Types
<1>1. ~running /\ ~Working /\ ctl # "stop_notify"
  BY <1>0 DEF CreateBackend, Start, CloseReturns, SessionInv, ControlInv, Working, StopPhases
<1>2. UNCHANGED <<pc, running, overlooked>> /\ InputMutexFree
      /\ (pending' = <<>> \/ UNCHANGED <<pending, stop>>)
  BY DEF CreateBackend, Start, CloseReturns, histVars
<1>3. pc[Sender] = "off" /\ pc'[Sender] = "off"
  BY <1>1, <1>2 DEF SessionInv, PlaceInv
<1>4. \A p \in Producers : pc'[p] = pc[p] /\ pc'[p] # "sleep"
  BY <1>2, ThreadFacts DEF InputMutexFree
<1>5. Waiting' = Waiting /\ Settled' = Settled
  BY <1>4 DEF Waiting, Settled, Blocked
<1>6. \A p \in Waiting : p \in overlooked
  BY <1>1 DEF WakeInv, OverlookedInv
<1>7. OverlookedInv'
  BY <1>2, <1>5, <1>6 DEF OverlookedInv
<1>8. ProducerBlockedWithCause'
  BY <1>2, <1>4, <1>6 DEF ProducerBlockedWithCause, Waiting, Blocked
<1>9. SleepInv' /\ RoomInv' /\ SenderBlockedWithCause'
  BY <1>3, <1>4 DEF SleepInv, RoomInv, SenderBlockedWithCause, Blocked
<1>10. FewInv'
  <2>1. Cardinality(Settled) \in Nat
    BY SetFacts, CountSubset
  <2>2. CASE pending' = <<>>
    BY <1>5, <2>1, <2>2, EmptyType DEF FewInv
  <2>3. CASE UNCHANGED <<pending, stop>>
    BY <1>2, <1>5, <2>3 DEF WakeInv, FewInv
  <2>4. QED
    BY <1>2, <2>2, <2>3
<1>11. QED
  BY <1>7, <1>8, <1>9, <1>10 DEF WakeInv, NoOtherLostWakeup

(***************************************************************************)
(* Stop notifies all that are blocked, and overlooks those that are about  *)
(* to be.                                                                  *)
(***************************************************************************)
LEMMA WakeStop ==
  ASSUME SessionInv, WakeInv, StopNotify
  PROVE  WakeInv'
<1> USE DEF flagVars, queueVars
<1>0. PcType
  BY DEF SessionInv, Types
<1>1. /\ pc' = WakeAll(pc, Threads) /\ UNCHANGED <<pending, eos, stop, running>>
      /\ overlooked' = {t \in InputThreads : pc[t] = "sleep"} /\ stop
  BY DEF StopNotify, SessionInv, ControlInv, StopPhases
<1>2. \A t \in Threads : Woke(t) /\ pc'[t] # "wait"
  BY <1>0, <1>1, StayWakeAll
<1>3. Sender \in Threads /\ \A p \in Producers : p \in Threads /\ p \in InputThreads
  BY ThreadFacts
<1>4. SleepInv'
  BY <1>1, <1>2, <1>3 DEF WakeInv, SleepInv, Woke, QueueFull
<1>5. OverlookedInv'
  <2> SUFFICES ASSUME NEW p \in Waiting' PROVE p \in overlooked'
    BY DEF OverlookedInv
  <2>1. p \in Producers /\ Blocked(p)'
    BY DEF Waiting
  <2>2. pc[p] = "sleep"
    BY <1>2, <1>3, <2>1 DEF Woke, Blocked
  <2>3. QED
    BY <1>1, <1>3, <2>1, <2>2
<1>6. QED
  BY <1>1, <1>4, <1>5 DEF WakeInv, FewInv, RoomInv, NoOtherLostWakeup, SenderBlockedWithCause,
                          ProducerBlockedWithCause

LEMMA WakeStep == SessionInv /\ WakeInv /\ [Next]_vars => WakeInv'
<1> SUFFICES ASSUME SessionInv, WakeInv, [Next]_vars PROVE WakeInv'
  OBVIOUS
<1>1. CASE \E p \in Producers : ProducerAct(p)
  BY <1>1, WakeProducer, WakeHarmless, WakeWaits, WakePushes, WakeNotifies
     DEF ProducerAct, ProducerStep, SubmitLocked
<1>2. CASE SendStep
  BY <1>2, WakeSender, WakeHarmless, WakeTakes
<1>3. CASE \/ ReceiveStep \/ CallbackStep \/ CallbackReturns \/ HardwareStep
           \/ \E t \in InputThreads \union {Deliverer} : SpuriousWakeup(t)
           \/ UNCHANGED vars
  BY <1>3, WakeOthers, WakeHarmless
<1>4. CASE CtlCall \/ CtlStep
  BY <1>4, WakeControl, WakeHarmless, WakeReset, WakeStop
<1>5. QED
  BY <1>1, <1>2, <1>3, <1>4, NextCases DEF ThreadStep

LEMMA WakeInit == Init => WakeInv
<1> SUFFICES ASSUME Init PROVE WakeInv
  OBVIOUS
<1>1. /\ \A p \in Producers : pc[p] = "idle"
      /\ pc[Sender] = "off" /\ pending = <<>>
  BY ThreadFacts, DecoderAssumption DEF Init, Threads, InputThreads
<1>2. \A p \in Producers : ~Blocked(p)
  BY <1>1 DEF Blocked
<1>3. Waiting = {} /\ ~Blocked(Sender)
  BY <1>1, <1>2 DEF Waiting, Blocked
<1>4. SleepInv /\ OverlookedInv /\ RoomInv
  BY <1>1, <1>3 DEF SleepInv, OverlookedInv, RoomInv
<1>5. NoOtherLostWakeup
  BY <1>2, <1>3 DEF NoOtherLostWakeup, SenderBlockedWithCause, ProducerBlockedWithCause
<1>6. FewInv
  <2>1. Cardinality(Settled) \in Nat
    BY SetFacts, CountSubset
  <2>2. QED
    BY <1>1, <2>1, EmptyType DEF FewInv
<1>7. QED
  BY <1>4, <1>5, <1>6 DEF WakeInv

(***************************************************************************)
(* No wakeup is lost but by the notify_all of Stop: the send thread is     *)
(* blocked beside a queued packet only while somebody is bound to notify   *)
(* it, and a producer only while the queue is full or the send thread is   *)
(* about to notify, however many they are, as long as the queue has room   *)
(* for two packets of each producer but one.                               *)
(***************************************************************************)
THEOREM WakeupsKept == Spec => []NoOtherLostWakeup
<1>1. Init => WakeInv
  BY WakeInit
<1>2. SessionInv /\ QuietInv /\ WakeInv /\ [Next]_vars => WakeInv'
  BY WakeStep
<1>3. WakeInv => NoOtherLostWakeup
  BY DEF WakeInv
<1>4. QED
  BY <1>1, <1>2, <1>3, SessionInvariant, PTL DEF Spec
=============================================================================
