---------------------------- MODULE VideoDecoder ----------------------------
(***************************************************************************)
(* AxVideoDecoderBase: the platform-independent half of the video decoder, *)
(* with what its platform backends add to it.                              *)
(*                                                                         *)
(* Producers call SubmitPacket and SubmitEndOfStream; the send thread      *)
(* takes packets from the bounded input queue and sends them to the        *)
(* hardware; the receive thread publishes decoded frames; the callback     *)
(* thread hands them to the frame callback; one application thread calls   *)
(* Open, SetFrameCallback, Start, Stop and Close.                          *)
(*                                                                         *)
(* Mutexes and condition variables are modelled as in VideoEncoder: a      *)
(* thread whose wait predicate is false still holds the mutex ("sleep"),   *)
(* then is blocked ("wait"), then notified ("woken").  Notifications that  *)
(* the code issues without the mutex are steps of their own.               *)
(*                                                                         *)
(* A packet is the number its SubmitPacket was given when it was accepted, *)
(* a frame the number PublishFrame gave it; which packet a frame comes     *)
(* from is the hardware's business.  A decoded frame occupies a block of   *)
(* the decoder's pool for as long as anybody refers to it.                 *)
(*                                                                         *)
(* Definitions introduced as "a plausible error" are not part of the       *)
(* specification: each stands before the definition it is a faulty version *)
(* of, and serves to show that a property notices the fault.               *)
(***************************************************************************)
EXTENDS Naturals, Sequences, SequencesExt, FiniteSets

CONSTANTS
  Producers,      \* threads that call SubmitPacket and SubmitEndOfStream
  Sender,         \* the send thread
  Receiver,       \* the receive thread
  Deliverer,      \* the callback thread
  QueueDepth,     \* kDecodeInputQueueDepth
  CallbackDepth,  \* kCallbackQueueDepth
  Modes,          \* the delivery modes SetFrameCallback may ask for
  HwDepth,        \* packets the hardware's input queue holds
  FrameBuffers,   \* kFrameBufferCount: blocks in the decoder's frame pool
  Backpressure,   \* whether the backend counts packets and frames (AX620E)
  Window,         \* stream_buffers_.size(), the most packets it lets ahead
  Faults,         \* whether the hardware may fail and packets yield no frame
  SpuriousWakeups,\* whether a condition variable wakes threads by itself
  MaxPackets      \* bound: packets accepted between Open and Close

AllModes == {"kLatest", "kQueue"}

InputThreads == Producers \union {Sender}
Threads == InputThreads \union {Receiver, Deliverer}

ASSUME DecoderAssumption ==
  /\ Sender \notin Producers
  /\ Receiver \notin InputThreads
  /\ Deliverer \notin InputThreads \union {Receiver}
  /\ IsFiniteSet(Producers)
  /\ QueueDepth \in Nat \ {0}
  /\ 2 * Cardinality(Producers) <= QueueDepth + 1
  /\ CallbackDepth \in Nat \ {0}
  /\ Modes \subseteq AllModes
  /\ HwDepth \in Nat \ {0}
  /\ FrameBuffers \in Nat \ {0}
  /\ Backpressure \in BOOLEAN
  /\ Window \in Nat \ {0}
  /\ Faults \in BOOLEAN
  /\ SpuriousWakeups \in BOOLEAN
  /\ MaxPackets \in Nat

VARIABLES
  open, running,        \* open_, running_
  stop, callbackStop,   \* stop_requested_, callback_stop_
  eos, sendFinished,    \* input_eos_requested_, send_finished_
  ctl,                  \* where the application thread is
  goal,                 \* which call it is in
  pc,                   \* where every other thread is
  pending,              \* pending_packets_
  accepted,             \* how many packets SubmitPacket has accepted
  taken,                \* the packet the send loop took last
  failed,               \* history: whether a send failed in this session
  overlooked,           \* history: threads Stop's notify_all came too early for
  hwIn, hwOut,          \* packets to decode and frames to fetch in the hardware
  hwEos,                \* whether the hardware was sent the end of the stream
  ahead, back,          \* submitted_frames_, received_frames_ (AX620E)
  callback, mode,       \* frame_callback_, callback_mode_
  slot,                 \* pending_callback_frame_, 0 for none
  queue,                \* callback_queue_
  latest,               \* latest_frame_, 0 for none
  published,            \* history: frames published so far
  calling,              \* the frame the callback thread holds, 0 for none
  delivered             \* history: the frame the callback was given last

flagVars == <<open, running, stop, callbackStop, eos, sendFinished>>
ctlVars == <<ctl, goal>>
queueVars == <<pending, accepted, taken>>
hwVars == <<hwIn, hwOut, hwEos>>
countVars == <<ahead, back>>
frameVars == <<callback, mode, slot, queue, latest, published, calling, delivered>>
histVars == <<failed, overlooked>>
allButPc == <<flagVars, ctlVars, queueVars, hwVars, countVars, frameVars, histVars>>
vars == <<pc, allButPc>>

StopPhases == {"stop_notify", "join_send", "join_receive", "stop_backend",
               "stop_callback", "notify_callback", "join_callback"}
CtlStates == StopPhases \union {"idle", "create", "close", "start", "started"}
PcStates == {"idle", "lock", "sleep", "wait", "woken", "notify", "eos", "off",
             "send", "pressure", "end", "finish", "poll", "publish", "offer",
             "call", "done"}

-----------------------------------------------------------------------------
(* input_mutex_, input_cv_, callback_mutex_, callback_cv_.                 *)

InputMutexFree == \A t \in InputThreads : pc[t] # "sleep"
CallbackMutexFree == pc[Deliverer] # "sleep"

Goto(t, s) == [pc EXCEPT ![t] = s]

\* notify_all and notify_one on the condition variable the threads S wait on.
WakeAll(f, S) == [t \in Threads |-> IF t \in S /\ f[t] = "wait" THEN "woken" ELSE f[t]]

WakeOne(f, S) ==
  LET blocked == {t \in S : f[t] = "wait"}
  IN  IF blocked = {} THEN {f} ELSE {[f EXCEPT ![t] = "woken"] : t \in blocked}

\* Threads that are not blocked (any more) were not overlooked (after all).
StillOverlooked == overlooked' = {t \in overlooked : pc'[t] \in {"sleep", "wait"}}

FallAsleep(t) ==
  /\ pc[t] = "sleep"
  /\ pc' = Goto(t, "wait")
  /\ UNCHANGED allButPc

SpuriousWakeup(t) ==
  /\ SpuriousWakeups
  /\ pc[t] = "wait"
  /\ pc' = Goto(t, "woken")
  /\ StillOverlooked
  /\ UNCHANGED <<flagVars, ctlVars, queueVars, hwVars, countVars, frameVars, failed>>

-----------------------------------------------------------------------------
(* SubmitPacket and SubmitEndOfStream.                                     *)

\* running_ is read before the mutex is taken.
SubmitPacket(p) ==
  /\ pc[p] = "idle"
  /\ running
  /\ accepted < MaxPackets
  /\ pc' = Goto(p, "lock")
  /\ UNCHANGED allButPc

QueueFull == Len(pending) >= QueueDepth

SubmitWaits(p) ==
  /\ QueueFull /\ ~stop
  /\ pc' = Goto(p, "sleep")
  /\ UNCHANGED <<pending, accepted>>

SubmitRejected(p) ==
  /\ stop \/ (eos /\ ~QueueFull)
  /\ pc' = Goto(p, "idle")
  /\ UNCHANGED <<pending, accepted>>

\* A plausible error: the end of the stream does not close the queue.
SubmitPushesAfterEnd(p) ==
  /\ ~QueueFull /\ ~stop
  /\ pending' = Append(pending, accepted + 1)
  /\ accepted' = accepted + 1
  /\ pc' = Goto(p, "notify")

SubmitPushes(p) ==
  /\ ~QueueFull /\ ~stop /\ ~eos
  /\ pending' = Append(pending, accepted + 1)
  /\ accepted' = accepted + 1
  /\ pc' = Goto(p, "notify")

\* With the mutex: the wait's predicate, and what follows the wait.
SubmitLocked(p) ==
  /\ pc[p] \in {"lock", "woken"}
  /\ InputMutexFree
  /\ SubmitWaits(p) \/ SubmitRejected(p) \/ SubmitPushes(p)
  /\ UNCHANGED <<flagVars, ctlVars, taken, hwVars, countVars, frameVars, histVars>>

\* notify_one, after the mutex was released; the call returns true.
SubmitNotify(p) ==
  /\ pc[p] = "notify"
  /\ pc' \in WakeOne(Goto(p, "idle"), InputThreads)
  /\ StillOverlooked
  /\ UNCHANGED <<flagVars, ctlVars, queueVars, hwVars, countVars, frameVars, failed>>

\* running_ is read before the mutex is taken.
SubmitEndOfStream(p) ==
  /\ pc[p] = "idle"
  /\ running
  /\ pc' = Goto(p, "eos")
  /\ UNCHANGED allButPc

\* notify_all happens with the mutex held.
SubmitEndOfStreamLocked(p) ==
  /\ pc[p] = "eos"
  /\ InputMutexFree
  /\ eos' = TRUE
  /\ pc' = WakeAll(Goto(p, "idle"), InputThreads)
  /\ StillOverlooked
  /\ UNCHANGED <<open, running, stop, callbackStop, sendFinished, ctlVars, queueVars,
                 hwVars, countVars, frameVars, failed>>

-----------------------------------------------------------------------------
(* The send thread: SendLoop.                                              *)

\* The while condition, read without the mutex.
SendLoopStops ==
  /\ pc[Sender] = "lock"
  /\ stop
  /\ pc' = Goto(Sender, "end")
  /\ UNCHANGED allButPc

\* A plausible error: the newest packet is taken first.
SendLoopTakeNewest ==
  /\ ~stop
  /\ pending # <<>>
  /\ taken' = Last(pending)
  /\ pending' = Front(pending)
  /\ pc' = Goto(Sender, "notify")

SendLoopTake ==
  /\ ~stop
  /\ pending # <<>>
  /\ taken' = Head(pending)
  /\ pending' = Tail(pending)
  /\ pc' = Goto(Sender, "notify")

\* A plausible error: the end of the stream overtakes the queued packets.
SendLoopBreaksAtEnd ==
  /\ stop \/ eos
  /\ pc' = Goto(Sender, "end")
  /\ UNCHANGED <<pending, taken>>

SendLoopBreaks ==
  /\ stop \/ (pending = <<>> /\ eos)
  /\ pc' = Goto(Sender, "end")
  /\ UNCHANGED <<pending, taken>>

SendLoopWaits ==
  /\ ~stop /\ pending = <<>> /\ ~eos
  /\ pc' = Goto(Sender, "sleep")
  /\ UNCHANGED <<pending, taken>>

SendLoopTop ==
  /\ pc[Sender] \in {"lock", "woken"}
  /\ InputMutexFree
  /\ SendLoopTake \/ SendLoopBreaks \/ SendLoopWaits
  /\ UNCHANGED <<flagVars, ctlVars, accepted, hwVars, countVars, frameVars, histVars>>

\* A plausible error: one blocked producer is told of the room, not all.
SendLoopNotifyOne ==
  /\ pc[Sender] = "notify"
  /\ pc' \in WakeOne(Goto(Sender, "send"), InputThreads)
  /\ StillOverlooked
  /\ UNCHANGED <<flagVars, ctlVars, queueVars, hwVars, countVars, frameVars, failed>>

\* notify_all, after the mutex was released.
SendLoopNotify ==
  /\ pc[Sender] = "notify"
  /\ pc' = WakeAll(Goto(Sender, "send"), InputThreads)
  /\ StillOverlooked
  /\ UNCHANGED <<flagVars, ctlVars, queueVars, hwVars, countVars, frameVars, failed>>

\* SendEncodedPacket: the hardware takes the packet.
SendAccepted ==
  /\ pc[Sender] = "send"
  /\ hwIn < HwDepth
  /\ hwIn' = hwIn + 1
  /\ ahead' = IF Backpressure THEN ahead + 1 ELSE ahead
  /\ pc' = Goto(Sender, IF Backpressure THEN "pressure" ELSE "lock")
  /\ UNCHANGED <<flagVars, ctlVars, queueVars, hwOut, hwEos, back, frameVars, histVars>>

\* SendEncodedPacket retries while the hardware's queue is full, until Stop.
\* The AX620E backend counts the packet although it was not sent.
SendAbandoned ==
  /\ pc[Sender] = "send"
  /\ stop
  /\ ahead' = IF Backpressure THEN ahead + 1 ELSE ahead
  /\ pc' = Goto(Sender, "end")
  /\ UNCHANGED <<flagVars, ctlVars, queueVars, hwVars, back, frameVars, histVars>>

\* SendEncodedPacket fails: the packet is too large or the hardware refuses it.
SendFails ==
  /\ Faults
  /\ pc[Sender] = "send"
  /\ failed' = TRUE
  /\ pc' = Goto(Sender, "end")
  /\ UNCHANGED <<flagVars, ctlVars, queueVars, hwVars, countVars, frameVars, overlooked>>

\* submitted_frames_ - received_frames_, not below zero.
Inflight == IF ahead > back THEN ahead - back ELSE 0

\* The AX620E backend returns once fewer than Window packets are ahead of the
\* frames, and with a failure once Stop was requested.
SendPressure ==
  /\ pc[Sender] = "pressure"
  /\ stop \/ Inflight < Window
  /\ pc' = Goto(Sender, IF stop THEN "end" ELSE "lock")
  /\ UNCHANGED allButPc

\* SendEndOfStream is tried once: it is lost when the hardware's input queue
\* stays full for the length of that try.
SendEndOfStream ==
  /\ pc[Sender] = "end"
  /\ hwEos' = (~stop /\ hwIn < HwDepth)
  /\ pc' = Goto(Sender, "finish")
  /\ UNCHANGED <<flagVars, ctlVars, queueVars, hwIn, hwOut, countVars, frameVars, histVars>>

\* send_finished_ is set and everybody notified; the thread ends.
SendLoopEnds ==
  /\ pc[Sender] = "finish"
  /\ sendFinished' = TRUE
  /\ pc' = WakeAll(Goto(Sender, "done"), InputThreads)
  /\ StillOverlooked
  /\ UNCHANGED <<open, running, stop, callbackStop, eos, ctlVars, queueVars, hwVars,
                 countVars, frameVars, failed>>

-----------------------------------------------------------------------------
(* The hardware, and its pool of frame blocks.                             *)

\* The frames somebody refers to: each keeps a block of the pool.
Retained ==
  ({latest, slot, calling} \union {queue[i] : i \in DOMAIN queue}) \ {0}

BlocksInUse ==
  hwOut + (IF pc[Receiver] = "publish" THEN 1 ELSE 0) + Cardinality(Retained)

Decode ==
  /\ hwIn > 0
  /\ BlocksInUse < FrameBuffers
  /\ hwIn' = hwIn - 1
  /\ hwOut' = hwOut + 1
  /\ UNCHANGED <<flagVars, ctlVars, pc, queueVars, hwEos, countVars, frameVars, histVars>>

\* A packet without a picture, or one that cannot be decoded.
DecodeNothing ==
  /\ Faults
  /\ hwIn > 0
  /\ hwIn' = hwIn - 1
  /\ UNCHANGED <<flagVars, ctlVars, pc, queueVars, hwOut, hwEos, countVars, frameVars,
                 histVars>>

-----------------------------------------------------------------------------
(* The receive thread: ReceiveLoop and PublishFrame.  A poll that brings   *)
(* nothing changes nothing.                                                *)

ReceiveLoopStops ==
  /\ pc[Receiver] = "poll"
  /\ stop
  /\ pc' = Goto(Receiver, "done")
  /\ UNCHANGED allButPc

\* A plausible error: the frame is not counted.
ReceiveFrameUncounted ==
  /\ pc[Receiver] = "poll"
  /\ hwOut > 0
  /\ hwOut' = hwOut - 1
  /\ pc' = Goto(Receiver, "publish")
  /\ UNCHANGED <<flagVars, ctlVars, queueVars, hwIn, hwEos, countVars, frameVars, histVars>>

ReceiveFrame ==
  /\ pc[Receiver] = "poll"
  /\ hwOut > 0
  /\ hwOut' = hwOut - 1
  /\ back' = IF Backpressure THEN back + 1 ELSE back
  /\ pc' = Goto(Receiver, "publish")
  /\ UNCHANGED <<flagVars, ctlVars, queueVars, hwIn, hwEos, ahead, frameVars, histVars>>

ReceiveFlowEnd ==
  /\ pc[Receiver] = "poll"
  /\ hwEos /\ hwIn = 0 /\ hwOut = 0
  /\ sendFinished
  /\ pc' = Goto(Receiver, "done")
  /\ UNCHANGED allButPc

\* The frame becomes the latest one.
PublishLatest ==
  /\ pc[Receiver] = "publish"
  /\ published' = published + 1
  /\ latest' = published + 1
  /\ pc' = Goto(Receiver, "offer")
  /\ UNCHANGED <<flagVars, ctlVars, queueVars, hwVars, countVars, callback, mode, slot,
                 queue, calling, delivered, histVars>>

\* No image can be made for the frame: it is lost.
PublishFails ==
  /\ Faults
  /\ pc[Receiver] = "publish"
  /\ pc' = Goto(Receiver, "poll")
  /\ UNCHANGED allButPc

OfferSlot ==
  /\ mode = "kLatest"
  /\ slot' = latest
  /\ UNCHANGED queue

\* A plausible error: the queue is not trimmed.
OfferUntrimmed ==
  /\ mode = "kQueue"
  /\ queue' = Append(queue, latest)
  /\ UNCHANGED slot

\* A plausible error: the new frame is dropped when the queue is full.
OfferDropsNewest ==
  /\ mode = "kQueue"
  /\ queue' = IF Len(queue) >= CallbackDepth THEN queue ELSE Append(queue, latest)
  /\ UNCHANGED slot

\* push_back, then pop_front of the oldest frame if there is one too many.
OfferQueue ==
  /\ mode = "kQueue"
  /\ queue' = IF Len(queue) >= CallbackDepth
              THEN Append(Tail(queue), latest)
              ELSE Append(queue, latest)
  /\ UNCHANGED slot

\* A plausible error: the callback thread is not notified.
PublishOfferSilently ==
  /\ pc[Receiver] = "offer"
  /\ CallbackMutexFree
  /\ IF callback THEN OfferSlot \/ OfferQueue ELSE UNCHANGED <<slot, queue>>
  /\ pc' = Goto(Receiver, "poll")
  /\ UNCHANGED <<flagVars, ctlVars, queueVars, hwVars, countVars, callback, mode, latest,
                 published, calling, delivered, histVars>>

\* With callback_mutex_: the frame is offered to the callback thread.
PublishOffer ==
  /\ pc[Receiver] = "offer"
  /\ CallbackMutexFree
  /\ IF callback
     THEN /\ OfferSlot \/ OfferQueue
          /\ pc' \in WakeOne(Goto(Receiver, "poll"), {Deliverer})
          /\ StillOverlooked
     ELSE /\ pc' = Goto(Receiver, "poll")
          /\ UNCHANGED <<slot, queue, overlooked>>
  /\ UNCHANGED <<flagVars, ctlVars, queueVars, hwVars, countVars, callback, mode, latest,
                 published, calling, delivered, failed>>

-----------------------------------------------------------------------------
(* The callback thread: CallbackLoop.                                      *)

NothingOffered == slot = 0 /\ queue = <<>>

CallbackWaits ==
  /\ NothingOffered /\ ~callbackStop
  /\ pc' = Goto(Deliverer, "sleep")
  /\ UNCHANGED <<slot, queue, calling, delivered>>

\* A plausible error: what was offered before the end is not delivered.
CallbackEndsAtOnce ==
  /\ callbackStop
  /\ pc' = Goto(Deliverer, "done")
  /\ UNCHANGED <<slot, queue, calling, delivered>>

CallbackEnds ==
  /\ NothingOffered /\ callbackStop
  /\ pc' = Goto(Deliverer, "done")
  /\ UNCHANGED <<slot, queue, calling, delivered>>

\* The frame is given to the callback, or dropped if there is none.
Deliver(frame) ==
  IF callback
  THEN /\ calling' = frame
       /\ delivered' = frame
       /\ pc' = Goto(Deliverer, "call")
  ELSE /\ pc' = Goto(Deliverer, "lock")
       /\ UNCHANGED <<calling, delivered>>

CallbackTakesSlot ==
  /\ mode = "kLatest"
  /\ slot # 0
  /\ slot' = 0
  /\ Deliver(slot)
  /\ UNCHANGED queue

\* A plausible error: the newest frame is delivered first.
CallbackTakesLast ==
  /\ mode = "kQueue"
  /\ queue # <<>>
  /\ queue' = Front(queue)
  /\ Deliver(Last(queue))
  /\ UNCHANGED slot

CallbackTakesFront ==
  /\ mode = "kQueue"
  /\ queue # <<>>
  /\ queue' = Tail(queue)
  /\ Deliver(Head(queue))
  /\ UNCHANGED slot

CallbackLoopTop ==
  /\ pc[Deliverer] \in {"lock", "woken"}
  /\ CallbackWaits \/ CallbackEnds \/ CallbackTakesSlot \/ CallbackTakesFront
  /\ UNCHANGED <<flagVars, ctlVars, queueVars, hwVars, countVars, callback, mode, latest,
                 published, histVars>>

CallbackReturns ==
  /\ pc[Deliverer] = "call"
  /\ calling' = 0
  /\ pc' = Goto(Deliverer, "lock")
  /\ UNCHANGED <<flagVars, ctlVars, queueVars, hwVars, countVars, callback, mode, slot,
                 queue, latest, published, delivered, histVars>>

-----------------------------------------------------------------------------
(* The application thread: Open, SetFrameCallback and Start.               *)

\* Open of a closed decoder, and the tail of an Open that closed it first.
\* CreateBackend resets the AX620E counters even if Open then fails.
CreateBackend ==
  /\ ctl = "create" \/ (ctl = "idle" /\ ~open)
  /\ InputMutexFree
  /\ ctl' = "idle"
  /\ ahead' = 0
  /\ back' = 0
  /\ \/ /\ open' = TRUE
        /\ pending' = <<>>
        /\ eos' = FALSE
        /\ sendFinished' = FALSE
        /\ callbackStop' = FALSE
     \/ UNCHANGED <<open, pending, eos, sendFinished, callbackStop>>
  /\ UNCHANGED <<running, stop, goal, pc, accepted, taken, hwVars, frameVars, histVars>>

\* A plausible error: what was offered in the old mode is kept.
SetFrameCallbackKeeps ==
  /\ ctl = "idle"
  /\ CallbackMutexFree
  /\ callback' \in BOOLEAN
  /\ mode' \in Modes
  /\ pc' = WakeAll(pc, {Deliverer})
  /\ StillOverlooked
  /\ UNCHANGED <<flagVars, ctlVars, queueVars, hwVars, countVars, latest, published,
                 calling, delivered, failed, slot, queue>>

SetFrameCallback ==
  /\ ctl = "idle"
  /\ CallbackMutexFree
  /\ callback' \in BOOLEAN
  /\ mode' \in Modes
  /\ slot' = 0
  /\ queue' = <<>>
  /\ pc' = WakeAll(pc, {Deliverer})
  /\ StillOverlooked
  /\ UNCHANGED <<flagVars, ctlVars, queueVars, hwVars, countVars, latest, published,
                 calling, delivered, failed>>

Start ==
  /\ ctl = "idle"
  /\ open
  /\ ~running
  /\ InputMutexFree
  /\ pending' = <<>>
  /\ eos' = FALSE
  /\ sendFinished' = FALSE
  /\ stop' = FALSE
  /\ callbackStop' = FALSE
  /\ failed' = FALSE
  /\ ctl' = "start"
  /\ UNCHANGED <<open, running, goal, pc, accepted, taken, hwVars, countVars, frameVars,
                 overlooked>>

StartBackendFails ==
  /\ ctl = "start"
  /\ ctl' = "idle"
  /\ UNCHANGED <<flagVars, goal, pc, queueVars, hwVars, countVars, frameVars, histVars>>

StartThreads ==
  /\ ctl = "start"
  /\ ctl' = "started"
  /\ pc' = [t \in Threads |-> IF t = Receiver THEN "poll"
                              ELSE IF t \in {Sender, Deliverer} THEN "lock" ELSE pc[t]]
  /\ UNCHANGED <<flagVars, goal, queueVars, hwVars, countVars, frameVars, histVars>>

StartReturns ==
  /\ ctl = "started"
  /\ ctl' = "idle"
  /\ running' = TRUE
  /\ UNCHANGED <<open, stop, callbackStop, eos, sendFinished, goal, pc, queueVars, hwVars,
                 countVars, frameVars, histVars>>

-----------------------------------------------------------------------------
(* The application thread: Stop and Close.                                 *)

\* Stop, and the Stop with which Close and an Open of an open decoder begin.
Stop(g) ==
  /\ ctl = "idle"
  /\ running
  /\ goal' = g
  /\ stop' = TRUE
  /\ ctl' = "stop_notify"
  /\ UNCHANGED <<open, running, callbackStop, eos, sendFinished, pc, queueVars, hwVars,
                 countVars, frameVars, histVars>>

\* Both condition variables are notified, with neither mutex held.
StopNotify ==
  /\ ctl = "stop_notify"
  /\ pc' = WakeAll(pc, Threads)
  /\ overlooked' = {t \in InputThreads : pc[t] = "sleep"}
  /\ ctl' = "join_send"
  /\ UNCHANGED <<flagVars, goal, queueVars, hwVars, countVars, frameVars, failed>>

JoinSend ==
  /\ ctl = "join_send"
  /\ pc[Sender] = "done"
  /\ pc' = Goto(Sender, "off")
  /\ ctl' = "join_receive"
  /\ UNCHANGED <<flagVars, goal, queueVars, hwVars, countVars, frameVars, histVars>>

JoinReceive ==
  /\ ctl = "join_receive"
  /\ pc[Receiver] = "done"
  /\ pc' = Goto(Receiver, "off")
  /\ ctl' = "stop_backend"
  /\ UNCHANGED <<flagVars, goal, queueVars, hwVars, countVars, frameVars, histVars>>

\* Nothing of the session is left in a hardware channel that was stopped
\* (external); the AX620E counters are not reset.
StopBackend ==
  /\ ctl = "stop_backend"
  /\ hwIn' = 0
  /\ hwOut' = 0
  /\ hwEos' = FALSE
  /\ ctl' = "stop_callback"
  /\ UNCHANGED <<flagVars, goal, pc, queueVars, countVars, frameVars, histVars>>

StopCallback ==
  /\ ctl = "stop_callback"
  /\ callbackStop' = TRUE
  /\ ctl' = "notify_callback"
  /\ UNCHANGED <<open, running, stop, eos, sendFinished, goal, pc, queueVars, hwVars,
                 countVars, frameVars, histVars>>

\* A plausible error: the callback thread is not told of the end.
NotifyCallbackMissing ==
  /\ ctl = "notify_callback"
  /\ ctl' = "join_callback"
  /\ UNCHANGED <<flagVars, goal, pc, queueVars, hwVars, countVars, frameVars, histVars>>

\* Without callback_mutex_.
NotifyCallback ==
  /\ ctl = "notify_callback"
  /\ pc' = WakeAll(pc, {Deliverer})
  /\ overlooked' = overlooked \union {t \in {Deliverer} : pc[t] = "sleep"}
  /\ ctl' = "join_callback"
  /\ UNCHANGED <<flagVars, goal, queueVars, hwVars, countVars, frameVars, failed>>

JoinCallback ==
  /\ ctl = "join_callback"
  /\ pc[Deliverer] = "done"
  /\ pc' = Goto(Deliverer, "off")
  /\ running' = FALSE
  /\ ctl' = IF goal = "stop" THEN "idle" ELSE "close"
  /\ UNCHANGED <<open, stop, callbackStop, eos, sendFinished, goal, queueVars, hwVars,
                 countVars, frameVars, histVars>>

\* Close or Open of a decoder that is open and not running.
CloseStopped(g) ==
  /\ ctl = "idle"
  /\ open
  /\ ~running
  /\ goal' = g
  /\ ctl' = "close"
  /\ UNCHANGED <<flagVars, pc, queueVars, hwVars, countVars, frameVars, histVars>>

\* The rest of Close; the numbering starts over.
CloseReturns ==
  /\ ctl = "close"
  /\ InputMutexFree
  /\ pending' = <<>>
  /\ accepted' = 0
  /\ taken' = 0
  /\ eos' = FALSE
  /\ latest' = 0
  /\ slot' = 0
  /\ queue' = <<>>
  /\ callback' = FALSE
  /\ mode' = "kLatest"
  /\ published' = 0
  /\ delivered' = 0
  /\ ahead' = 0
  /\ back' = 0
  /\ open' = FALSE
  /\ ctl' = IF goal = "open" THEN "create" ELSE "idle"
  /\ UNCHANGED <<running, stop, callbackStop, sendFinished, goal, pc, hwVars, calling,
                 histVars>>

-----------------------------------------------------------------------------

Init ==
  /\ open = FALSE
  /\ running = FALSE
  /\ stop = FALSE
  /\ callbackStop = FALSE
  /\ eos = FALSE
  /\ sendFinished = FALSE
  /\ ctl = "idle"
  /\ goal = "stop"
  /\ pc = [t \in Threads |-> IF t \in Producers THEN "idle" ELSE "off"]
  /\ pending = <<>>
  /\ accepted = 0
  /\ taken = 0
  /\ failed = FALSE
  /\ overlooked = {}
  /\ hwIn = 0
  /\ hwOut = 0
  /\ hwEos = FALSE
  /\ ahead = 0
  /\ back = 0
  /\ callback = FALSE
  /\ mode = "kLatest"
  /\ slot = 0
  /\ queue = <<>>
  /\ latest = 0
  /\ published = 0
  /\ calling = 0
  /\ delivered = 0

\* What a producer does inside SubmitPacket and SubmitEndOfStream.
ProducerStep(p) ==
  \/ FallAsleep(p)
  \/ SubmitLocked(p)
  \/ SubmitNotify(p)
  \/ SubmitEndOfStreamLocked(p)

SendStep ==
  \/ FallAsleep(Sender)
  \/ SendLoopStops
  \/ SendLoopTop
  \/ SendLoopNotify
  \/ SendAccepted
  \/ SendAbandoned
  \/ SendFails
  \/ SendPressure
  \/ SendEndOfStream
  \/ SendLoopEnds

ReceiveStep ==
  \/ ReceiveLoopStops
  \/ ReceiveFrame
  \/ ReceiveFlowEnd
  \/ PublishLatest
  \/ PublishFails
  \/ PublishOffer

CallbackStep == FallAsleep(Deliverer) \/ CallbackLoopTop

HardwareStep == Decode \/ DecodeNothing

\* What the application thread does inside Start, Stop, Close and Open.
CtlStep ==
  \/ ctl = "create" /\ CreateBackend
  \/ StartBackendFails
  \/ StartThreads
  \/ StartReturns
  \/ StopNotify
  \/ JoinSend
  \/ JoinReceive
  \/ StopBackend
  \/ StopCallback
  \/ NotifyCallback
  \/ JoinCallback
  \/ CloseReturns

\* The calls the application thread may make.
CtlCall ==
  \/ ctl = "idle" /\ CreateBackend
  \/ SetFrameCallback
  \/ Start
  \/ \E g \in {"stop", "close", "open"} : Stop(g)
  \/ \E g \in {"close", "open"} : CloseStopped(g)

Next ==
  \/ CtlCall
  \/ CtlStep
  \/ \E p \in Producers : SubmitPacket(p) \/ SubmitEndOfStream(p) \/ ProducerStep(p)
  \/ SendStep
  \/ ReceiveStep
  \/ CallbackStep
  \/ CallbackReturns
  \/ HardwareStep
  \/ \E t \in InputThreads \union {Deliverer} : SpuriousWakeup(t)

Spec == Init /\ [][Next]_vars

(***************************************************************************)
(* Every thread of the SDK that can run runs on and the hardware decodes   *)
(* what it has room for.  The frame callback is the user's and may take    *)
(* for ever; nobody has to call anything.                                  *)
(***************************************************************************)
Fairness ==
  /\ WF_vars(CtlStep)
  /\ WF_vars(SendStep)
  /\ WF_vars(ReceiveStep)
  /\ WF_vars(CallbackStep)
  /\ WF_vars(HardwareStep)
  /\ \A p \in Producers : WF_vars(ProducerStep(p))

FairSpec == Spec /\ Fairness

-----------------------------------------------------------------------------

TypeOK ==
  /\ {open, running, stop, callbackStop, eos, sendFinished} \subseteq BOOLEAN
  /\ {failed, hwEos, callback} \subseteq BOOLEAN
  /\ ctl \in CtlStates
  /\ goal \in {"stop", "close", "open"}
  /\ pc \in [Threads -> PcStates]
  /\ pending \in Seq(Nat) /\ Len(pending) <= QueueDepth
  /\ accepted \in Nat
  /\ taken \in Nat
  /\ overlooked \subseteq Threads
  /\ hwIn \in 0 .. HwDepth
  /\ hwOut \in Nat
  /\ ahead \in Nat
  /\ back \in Nat
  /\ mode \in AllModes
  /\ slot \in Nat
  /\ queue \in Seq(Nat) /\ Len(queue) <= CallbackDepth
  /\ {latest, published, calling, delivered} \subseteq Nat

(***************************************************************************)
(* No wakeup is lost but by the notify_all of Stop, which does not wait    *)
(* for the mutex (the threads in `overlooked`).  The send thread is        *)
(* blocked beside a queued packet only while somebody is bound to notify   *)
(* it: a producer about to, or one that a notify_one meant for the send    *)
(* thread woke instead (it was overlooked by an earlier Stop), which will  *)
(* find room and notify in its turn.  It is never blocked beside a blocked *)
(* producer of its own session.  A producer is blocked only while the      *)
(* queue is full or the send thread is about to notify.                    *)
(***************************************************************************)
Blocked(t) == pc[t] \in {"sleep", "wait"}

BoundToNotify(p) == pc[p] = "notify" \/ (pc[p] \in {"lock", "woken"} /\ ~QueueFull)

SenderBlockedWithCause ==
  Blocked(Sender) /\ ~stop =>
    /\ ~eos
    /\ pending # <<>> => \E p \in Producers : BoundToNotify(p)
    /\ \A p \in Producers \ overlooked : ~Blocked(p)

ProducerBlockedWithCause ==
  \A p \in Producers \ overlooked :
    Blocked(p) /\ ~stop => QueueFull \/ pc[Sender] = "notify"

NoOtherLostWakeup == SenderBlockedWithCause /\ ProducerBlockedWithCause

(***************************************************************************)
(* CallbackLoop takes from the slot or from the queue according to the     *)
(* mode, but waits for either: whatever the order of SetFrameCallback and  *)
(* PublishFrame, only the one the mode names is ever filled, or the        *)
(* callback thread would spin without taking anything and never end.       *)
(***************************************************************************)
OfferedInMode ==
  /\ slot # 0 => mode = "kLatest"
  /\ queue # <<>> => mode = "kQueue"

(***************************************************************************)
(* A slow callback misses the oldest frames only: what the callback thread *)
(* has not taken yet is the newest frame published, or an unbroken run of  *)
(* frames that ends with it.                                               *)
(***************************************************************************)
Newest == IF pc[Receiver] = "offer" THEN {published, published - 1} ELSE {published}

NewestFramesOffered ==
  /\ slot # 0 => slot \in Newest
  /\ queue # <<>> => Last(queue) \in Newest
  /\ \A i \in 1 .. Len(queue) - 1 : queue[i + 1] = queue[i] + 1

(***************************************************************************)
(* The hardware is told of the end of the stream after every packet that   *)
(* was accepted before it, and no packet is accepted after it, unless      *)
(* sending a packet failed.                                                *)
(***************************************************************************)
EndOfStreamComesLast == hwEos /\ ~failed => pending = <<>>

(***************************************************************************)
(* When Stop has returned, the threads have ended, no callback is running  *)
(* and none is owed: what was offered to the callback thread before was    *)
(* delivered.                                                              *)
(***************************************************************************)
QuietWhenStopped ==
  ~running /\ ctl # "started" =>
    /\ \A t \in {Sender, Receiver, Deliverer} : pc[t] = "off"
    /\ calling = 0
    /\ NothingOffered

(***************************************************************************)
(* The callback gets the frames in the order in which they were published, *)
(* none of them twice, across Stop and Start and changes of the mode.      *)
(***************************************************************************)
FramesInOrder == [][delivered' > delivered \/ ~open']_delivered

(***************************************************************************)
(* The input queue, with its producers, its send thread and Start, is a    *)
(* FrameFifo that displaces nothing.                                       *)
(***************************************************************************)
PacketQueue == INSTANCE FrameFifo
  WITH Depth <- QueueDepth, fifo <- pending

PacketQueueSpec == PacketQueue!Spec /\ [][~PacketQueue!Displace]_queueVars

-----------------------------------------------------------------------------

(***************************************************************************)
(* Stop, and the Stop inside Close and Open, returns.                      *)
(***************************************************************************)
StopTerminates == (ctl \in StopPhases) ~> ~running

(***************************************************************************)
(* Nothing but a notify_all that came too early keeps Stop from returning, *)
(* or a frame callback that does not return.                               *)
(***************************************************************************)
StopTerminatesUnlessOverlooked ==
  (ctl \in StopPhases) ~> (~running \/ overlooked # {} \/ pc[Deliverer] = "call")

(***************************************************************************)
(* However long the frame callback takes, the send thread gets rid of the  *)
(* packet it is sending while the decoder runs: the hardware goes on       *)
(* decoding, and the AX620E backend finds the frames it waits for.         *)
(***************************************************************************)
SendingGoesOn ==
  (running /\ pc[Sender] \in {"send", "pressure"}) ~> pc[Sender] \in {"lock", "end"}

(***************************************************************************)
(* A frame offered to the callback thread does not wait for anything but   *)
(* the frame callback: the thread takes it and calls, or the frame is      *)
(* withdrawn by SetFrameCallback or Close, even while Stop is under way.   *)
(***************************************************************************)
OfferedFramesLeave ==
  ~NothingOffered ~> (NothingOffered \/ pc[Deliverer] = "call")
=============================================================================
