---------------------------- MODULE VideoEncoder ----------------------------
(***************************************************************************)
(* AxVideoEncoderBase: the platform-independent half of the video encoder. *)
(*                                                                         *)
(* Producers call SubmitFrame; the send thread takes frames from the       *)
(* bounded input queue, prepares them for the hardware and sends them; the *)
(* stream thread polls the hardware for packets and calls the packet       *)
(* callback; one application thread calls Open, Start, Stop and Close.     *)
(*                                                                         *)
(* input_mutex_ and input_cv_ are modelled at the grain at which wakeups   *)
(* can be lost: a thread that finds its wait predicate false is "asleep    *)
(* soon" ("sleep": it still holds the mutex), then blocked on the          *)
(* condition variable ("wait": the mutex is free again), then notified     *)
(* ("woken": it must take the mutex and test again).                       *)
(*                                                                         *)
(* A frame is the number its SubmitFrame was given when it was accepted.   *)
(*                                                                         *)
(* Definitions introduced as "a plausible error" are not part of the       *)
(* specification: each stands before the definition it is a faulty version *)
(* of, and serves to show that a property notices the fault.               *)
(***************************************************************************)
EXTENDS Naturals, Sequences, SequencesExt, FiniteSets

CONSTANTS
  Producers,      \* threads that call SubmitFrame
  Sender,         \* the send thread
  Policies,       \* the overflow policies an Open may ask for
  QueueDepth,     \* config_.input_queue_depth
  StagingDepth,   \* kEncoderReusableInflightDepth
  HoldDepth,      \* kEncoderHoldInflightDepth
  IdleLimit,      \* kEncoderStopIdlePollLimit
  HwDepth,        \* frames the hardware channel holds
  Buffers,        \* the device memory staging images are cut from
  NoBuffer,       \* no staging image
  Kinds,          \* what PrepareInputFrame may have to do for a frame
  SpuriousWakeups,\* whether the condition variable wakes threads by itself
  MaxFrames       \* bound: SubmitFrame calls between Open and Close

AllPolicies == {"kDropOldest", "kDropNewest", "kBlock"}
AllKinds == {"alias", "stage", "host"}

ASSUME EncoderAssumption ==
  /\ Sender \notin Producers
  /\ Policies \subseteq AllPolicies
  /\ Kinds \subseteq AllKinds
  /\ NoBuffer \notin Buffers
  /\ QueueDepth \in Nat \ {0}
  /\ StagingDepth \in Nat \ {0}
  /\ HoldDepth \in Nat \ {0}
  /\ IdleLimit \in Nat \ {0}
  /\ HwDepth \in Nat \ {0}
  /\ SpuriousWakeups \in BOOLEAN
  /\ MaxFrames \in Nat

VARIABLES
  open, running, stop,  \* open_, running_, stop_requested_
  callback,             \* whether packet_callback_ is set
  policy,               \* config_.overflow_policy
  ctl,                  \* where the application thread is
  goal,                 \* which call it is in
  pc,                   \* where each producer and the send thread are
  pending,              \* pending_frames_
  submitted, dropped,   \* submitted_frames_, dropped_frames_
  removed,              \* history: frames the send loop took or Stop discarded
  taken,                \* the frame the send loop took last
  work,                 \* the prepared frame: a staging image, or NoBuffer
  reusable,             \* reusable_frames_
  inflight,             \* inflight_frames_
  hold,                 \* inflight_hold_frames_
  hw,                   \* frames inside the hardware channel
  strm,                 \* where the stream thread is
  idle,                 \* idle_polls_after_stop
  latest                \* latest_packet_, as the frame it encodes

sessionVars == <<open, running, stop, callback, policy, ctl, goal>>
queueVars   == <<pending, submitted, dropped, removed, taken>>
stagingVars == <<work, reusable, inflight, hold>>
streamVars  == <<strm, idle, latest>>
vars == <<sessionVars, pc, queueVars, stagingVars, hw, streamVars>>

Threads == Producers \union {Sender}

StopPhases == {"stop_clear", "stop_notify", "join_send", "stop_backend",
               "join_stream", "stop_staging"}
PcStates == {"idle", "lock", "sleep", "wait", "woken", "off", "prepare", "send", "done"}

CtlStates == StopPhases \union {"idle", "create", "close", "start", "started"}

(***************************************************************************)
(* A staging image of the size and format of the encoder's input           *)
(* ("target"), or of a host frame that has to be uploaded first            *)
(* ("source").                                                             *)
(***************************************************************************)
Descriptors == {"target", "source"}
Images == [id : Buffers, desc : Descriptors]
HwEntries == [frame : Nat, image : Buffers \union {NoBuffer}]

-----------------------------------------------------------------------------
(* input_mutex_ and input_cv_.                                             *)

\* A thread holds the mutex from the test that fails until it is blocked.
InputMutexFree == \A t \in Threads : pc[t] # "sleep"

Waiters == {t \in Threads : pc[t] = "wait"}

\* notify_all, given where the threads are otherwise.
WakeAll(f) == [t \in Threads |-> IF f[t] = "wait" THEN "woken" ELSE f[t]]

\* A plausible error: the producers' wakeup reaches producers only.
WakeOneProducer(f) ==
  LET blocked == {t \in Producers : f[t] = "wait"}
  IN  IF blocked = {} THEN {f} ELSE {[f EXCEPT ![t] = "woken"] : t \in blocked}

\* notify_one: any one of the blocked threads, if there is one.
WakeOne(f) ==
  LET blocked == {t \in Threads : f[t] = "wait"}
  IN  IF blocked = {} THEN {f} ELSE {[f EXCEPT ![t] = "woken"] : t \in blocked}

\* The wait atomically releases the mutex and blocks.
FallAsleep(t) ==
  /\ pc[t] = "sleep"
  /\ pc' = [pc EXCEPT ![t] = "wait"]
  /\ UNCHANGED <<sessionVars, queueVars, stagingVars, hw, streamVars>>

\* A condition variable may wake a thread that nobody notified.
SpuriousWakeup(t) ==
  /\ SpuriousWakeups
  /\ pc[t] = "wait"
  /\ pc' = [pc EXCEPT ![t] = "woken"]
  /\ UNCHANGED <<sessionVars, queueVars, stagingVars, hw, streamVars>>

-----------------------------------------------------------------------------
(* SubmitFrame.                                                            *)

\* running_ is read before the mutex is taken.
SubmitFrame(p) ==
  /\ pc[p] = "idle"
  /\ running
  /\ submitted + dropped < MaxFrames
  /\ pc' = [pc EXCEPT ![p] = "lock"]
  /\ UNCHANGED <<sessionVars, queueVars, stagingVars, hw, streamVars>>

QueueFull == Len(pending) >= QueueDepth

\* push_back, ++submitted_frames_, notify_one; the call returns true.
Push(p, queue) ==
  /\ pending' = Append(queue, submitted + 1)
  /\ submitted' = submitted + 1
  /\ pc' \in WakeOne([pc EXCEPT ![p] = "idle"])

SubmitPush(p) ==
  /\ ~QueueFull
  /\ Push(p, pending)
  /\ UNCHANGED dropped

SubmitDropNewest(p) ==
  /\ QueueFull
  /\ policy = "kDropNewest"
  /\ dropped' = dropped + 1
  /\ pc' = [pc EXCEPT ![p] = "idle"]
  /\ UNCHANGED <<pending, submitted>>

\* A plausible error: the newest queued frame is displaced, not the oldest.
SubmitDropBack(p) ==
  /\ QueueFull
  /\ policy = "kDropOldest"
  /\ dropped' = dropped + 1
  /\ Push(p, Front(pending))

\* A plausible error: the displaced frame is not counted.
SubmitDropUncounted(p) ==
  /\ QueueFull
  /\ policy = "kDropOldest"
  /\ Push(p, Tail(pending))
  /\ UNCHANGED dropped

SubmitDropOldest(p) ==
  /\ QueueFull
  /\ policy = "kDropOldest"
  /\ LET excess == Len(pending) - QueueDepth + 1
     IN  /\ dropped' = dropped + excess
         /\ Push(p, SubSeq(pending, excess + 1, Len(pending)))

\* A plausible error: the predicate does not look at stop_requested_.
SubmitBlockIgnoringStop(p) ==
  /\ QueueFull
  /\ policy = "kBlock"
  /\ pc' = [pc EXCEPT ![p] = "sleep"]
  /\ UNCHANGED <<pending, submitted, dropped>>

\* The wait of kBlock with its predicate, and the test of stop_requested_ after it.
SubmitBlock(p) ==
  /\ QueueFull
  /\ policy = "kBlock"
  /\ pc' = [pc EXCEPT ![p] = IF stop THEN "idle" ELSE "sleep"]
  /\ UNCHANGED <<pending, submitted, dropped>>

\* The mutex is taken for the first time: stop_requested_ is not looked at
\* unless the queue is full.
SubmitLocked(p) ==
  /\ pc[p] = "lock"
  /\ InputMutexFree
  /\ \/ SubmitPush(p)
     \/ SubmitDropNewest(p)
     \/ SubmitDropOldest(p)
     \/ SubmitBlock(p)
  /\ UNCHANGED <<sessionVars, removed, taken, stagingVars, hw, streamVars>>

\* A producer that waited has the mutex again.  (If stop_requested_ is reset
\* by a Start between the predicate and the test after it, the loop tests
\* the queue again: the same steps as with stop_requested_ unset.)
SubmitWoken(p) ==
  /\ pc[p] = "woken"
  /\ InputMutexFree
  /\ \/ /\ stop
        /\ pc' = [pc EXCEPT ![p] = "idle"]
        /\ UNCHANGED <<pending, submitted, dropped>>
     \/ /\ ~stop
        /\ SubmitPush(p) \/ SubmitBlock(p)
  /\ UNCHANGED <<sessionVars, removed, taken, stagingVars, hw, streamVars>>

-----------------------------------------------------------------------------
(* The send thread: the top of SendLoop.                                   *)

ClearPending ==
  /\ pending' = <<>>
  /\ removed' = removed + Len(pending)

\* A plausible error: the stack end of the deque is popped.
SendLoopTakeNewest ==
  /\ pending # <<>>
  /\ taken' = Last(pending)
  /\ pending' = Front(pending)
  /\ removed' = removed + 1
  /\ pc' = WakeAll([pc EXCEPT ![Sender] = "prepare"])

SendLoopTake ==
  /\ pending # <<>>
  /\ taken' = Head(pending)
  /\ pending' = Tail(pending)
  /\ removed' = removed + 1
  /\ pc' = WakeAll([pc EXCEPT ![Sender] = "prepare"])

SendLoopTop ==
  /\ pc[Sender] \in {"lock", "woken"}
  /\ InputMutexFree
  /\ \/ /\ stop
        /\ ClearPending
        /\ pc' = [pc EXCEPT ![Sender] = "done"]
        /\ UNCHANGED taken
     \/ /\ ~stop
        /\ SendLoopTake
     \/ /\ ~stop
        /\ pending = <<>>
        /\ pc' = [pc EXCEPT ![Sender] = "sleep"]
        /\ UNCHANGED <<pending, removed, taken>>
  /\ UNCHANGED <<sessionVars, submitted, dropped, stagingVars, hw, streamVars>>

-----------------------------------------------------------------------------
(* The send thread: PrepareInputFrame and the staging images.              *)

ImageIds(s) == {s[i].id : i \in DOMAIN s}

\* Device memory some image of the encoder still owns.
OwnedBuffers ==
  ImageIds(reusable) \union ImageIds(inflight)
    \union (IF work = NoBuffer THEN {} ELSE {work.id})

FirstMatch(pool, d) ==
  {i \in DOMAIN pool : pool[i].desc = d /\ \A j \in 1 .. i - 1 : pool[j].desc # d}

\* A plausible error: the pool is never looked at.
AcquireAlwaysAllocates(pool, owned, d) ==
  {[image |-> [id |-> b, desc |-> d], rest |-> pool] : b \in Buffers \ owned}

\* AcquireReusableFrame: the first image of the descriptor in the pool, else
\* a new one from free memory; each outcome is an image and what is left in
\* the pool.  (A failed allocation: PrepareFails.)
Acquire(pool, owned, d) ==
  IF FirstMatch(pool, d) # {}
  THEN {[image |-> pool[i], rest |-> RemoveAt(pool, i)] : i \in FirstMatch(pool, d)}
  ELSE {[image |-> [id |-> b, desc |-> d], rest |-> pool] : b \in Buffers \ owned}

\* The frame is ready to be sent, as itself or as the staging image `image`.
Prepared(image, pool) ==
  /\ work' = image
  /\ reusable' = pool
  /\ pc' = [pc EXCEPT ![Sender] = "send"]

\* The frame is lost; the send loop goes on with the next one.
Lost(pool) ==
  /\ work' = NoBuffer
  /\ reusable' = pool
  /\ pc' = [pc EXCEPT ![Sender] = "lock"]

\* The frame already has the geometry the hardware wants: it is not copied.
PrepareAlias ==
  /\ "alias" \in Kinds
  /\ Prepared(NoBuffer, reusable)

\* A device frame is copied or processed into a target image; when that
\* fails the target image is freed, not recycled.
PrepareStage ==
  /\ "stage" \in Kinds
  /\ \E target \in Acquire(reusable, OwnedBuffers, "target") :
        Prepared(target.image, target.rest) \/ Lost(target.rest)

\* A host frame is uploaded into a source image first.  The source image is
\* recycled whatever becomes of the target, but freed when the upload fails.
PrepareHost ==
  /\ "host" \in Kinds
  /\ \E d \in Descriptors :
     \E source \in Acquire(reusable, OwnedBuffers, d) :
        \/ Lost(source.rest)
        \/ Lost(Append(source.rest, source.image))
        \/ \E target \in Acquire(source.rest, OwnedBuffers \union {source.image.id},
                                 "target") :
              \/ Prepared(target.image, Append(target.rest, source.image))
              \/ Lost(Append(target.rest, source.image))

\* No image processor, or no memory for the first image.
PrepareFails == Lost(reusable)

PrepareInputFrame ==
  /\ pc[Sender] = "prepare"
  /\ PrepareAlias \/ PrepareStage \/ PrepareHost \/ PrepareFails
  /\ UNCHANGED <<sessionVars, queueVars, inflight, hold, hw, streamVars>>

-----------------------------------------------------------------------------
(* The send thread: SendFrameToEncoder and the inflight windows.           *)

\* A plausible error: the windows are one frame short.
ReleaseAtDepth(images, frames) ==
  /\ IF Len(images) >= StagingDepth
     THEN /\ inflight' = Tail(images)
          /\ reusable' = Append(reusable, Head(images))
     ELSE /\ inflight' = images
          /\ UNCHANGED reusable
  /\ hold' = SubSeq(frames, 2, Len(frames))

\* ReleaseOldInflightFrame, given what the windows hold after the push.
ReleaseOldInflightFrame(images, frames) ==
  /\ IF Len(images) > StagingDepth
     THEN /\ inflight' = Tail(images)
          /\ reusable' = Append(reusable, Head(images))
     ELSE /\ inflight' = images
          /\ UNCHANGED reusable
  /\ hold' = IF Len(frames) > HoldDepth
             THEN SubSeq(frames, Len(frames) - HoldDepth + 1, Len(frames))
             ELSE frames

\* The hardware accepts the frame.
SendAccepted ==
  /\ pc[Sender] = "send"
  /\ Len(hw) < HwDepth
  /\ hw' = Append(hw, [frame |-> taken, image |-> IF work = NoBuffer THEN NoBuffer ELSE work.id])
  /\ IF work = NoBuffer
     THEN ReleaseOldInflightFrame(inflight, Append(hold, taken))
     ELSE ReleaseOldInflightFrame(Append(inflight, work), hold)
  /\ work' = NoBuffer
  /\ pc' = [pc EXCEPT ![Sender] = "lock"]
  /\ UNCHANGED <<sessionVars, queueVars, streamVars>>

\* RecyclePreparedFrame, of a frame that may have no staging image.
Recycle(pool, image) == IF image = NoBuffer THEN pool ELSE Append(pool, image)

\* The hardware refuses it, times out, or Stop ends the wait for room: the
\* frame is lost and its staging image recycled.
SendRefused ==
  /\ pc[Sender] = "send"
  /\ Lost(Recycle(reusable, work))
  /\ UNCHANGED <<sessionVars, queueVars, inflight, hold, hw, streamVars>>

-----------------------------------------------------------------------------
(* The stream thread: StreamLoop.                                          *)

\* A packet arrives: it becomes the latest one and is given to the callback
\* the thread copied, outside every lock.
StreamPacket ==
  /\ strm = "poll"
  /\ hw # <<>>
  /\ hw' = Tail(hw)
  /\ latest' = Head(hw).frame
  /\ idle' = 0
  /\ strm' = IF callback THEN "deliver" ELSE "poll"
  /\ UNCHANGED <<sessionVars, pc, queueVars, stagingVars>>

StreamCallbackReturns ==
  /\ strm = "deliver"
  /\ strm' = "poll"
  /\ UNCHANGED <<sessionVars, pc, queueVars, stagingVars, hw, idle, latest>>

\* Nothing arrives within the poll's wait.  Before Stop that changes nothing.
StreamIdlePoll ==
  /\ strm = "poll"
  /\ stop
  /\ idle' = idle + 1
  /\ strm' = IF idle + 1 >= IdleLimit THEN "done" ELSE "poll"
  /\ UNCHANGED <<sessionVars, pc, queueVars, stagingVars, hw, latest>>

\* The hardware reports the end of the stream: only once it is stopped.
StreamFlowEnd ==
  /\ strm = "poll"
  /\ ctl = "join_stream"
  /\ strm' = "done"
  /\ UNCHANGED <<sessionVars, pc, queueVars, stagingVars, hw, idle, latest>>

-----------------------------------------------------------------------------
(* The application thread: Open, Start, SetPacketCallback.                 *)

\* Open of a closed encoder, and the tail of an Open that closed it first.
CreateBackend ==
  /\ \/ ctl = "create"
     \/ ctl = "idle" /\ ~open
  /\ policy' \in Policies
  /\ open' \in BOOLEAN
  /\ ctl' = "idle"
  /\ UNCHANGED <<running, stop, callback, goal, pc, queueVars, stagingVars, hw,
                 streamVars>>

SetPacketCallback ==
  /\ ctl = "idle"
  /\ callback' \in BOOLEAN
  /\ UNCHANGED <<open, running, stop, policy, ctl, goal, pc, queueVars,
                 stagingVars, hw, streamVars>>

Start ==
  /\ ctl = "idle"
  /\ open
  /\ ~running
  /\ stop' = FALSE
  /\ ctl' = "start"
  /\ UNCHANGED <<open, running, callback, policy, goal, pc, queueVars,
                 stagingVars, hw, streamVars>>

StartBackendFails ==
  /\ ctl = "start"
  /\ ctl' = "idle"
  /\ UNCHANGED <<open, running, stop, callback, policy, goal, pc, queueVars,
                 stagingVars, hw, streamVars>>

\* The channel starts empty (external), and the two threads run before
\* running_ is set.  The queue is not cleared.
StartThreads ==
  /\ ctl = "start"
  /\ ctl' = "started"
  /\ hw' = <<>>
  /\ pc' = [pc EXCEPT ![Sender] = "lock"]
  /\ strm' = "poll"
  /\ idle' = 0
  /\ UNCHANGED <<open, running, stop, callback, policy, goal, queueVars,
                 stagingVars, latest>>

StartReturns ==
  /\ ctl = "started"
  /\ ctl' = "idle"
  /\ running' = TRUE
  /\ UNCHANGED <<open, stop, callback, policy, goal, pc, queueVars, stagingVars,
                 hw, streamVars>>

-----------------------------------------------------------------------------
(* The application thread: Stop and Close.                                 *)

\* Stop, and the Stop with which Close and an Open of an open encoder begin.
Stop(g) ==
  /\ ctl = "idle"
  /\ running
  /\ goal' = g
  /\ stop' = TRUE
  /\ ctl' = "stop_clear"
  /\ UNCHANGED <<open, running, callback, policy, pc, queueVars, stagingVars, hw,
                 streamVars>>

\* Close or Open of an encoder that is open and not running.
CloseStopped(g) ==
  /\ ctl = "idle"
  /\ open
  /\ ~running
  /\ goal' = g
  /\ ctl' = "close"
  /\ UNCHANGED <<open, running, stop, callback, policy, pc, queueVars,
                 stagingVars, hw, streamVars>>

\* A plausible error: the queue is not cleared and the mutex not taken
\* between setting stop_requested_ and notify_all.
StopClearUnlocked ==
  /\ ctl = "stop_clear"
  /\ ctl' = "stop_notify"
  /\ UNCHANGED <<open, running, stop, callback, policy, goal, pc, queueVars,
                 stagingVars, hw, streamVars>>

\* Taking input_mutex_ here is what keeps notify_all from being missed.
StopClear ==
  /\ ctl = "stop_clear"
  /\ InputMutexFree
  /\ ClearPending
  /\ ctl' = "stop_notify"
  /\ UNCHANGED <<open, running, stop, callback, policy, goal, pc, submitted,
                 dropped, taken, stagingVars, hw, streamVars>>

StopNotify ==
  /\ ctl = "stop_notify"
  /\ pc' = WakeAll(pc)
  /\ ctl' = "join_send"
  /\ UNCHANGED <<open, running, stop, callback, policy, goal, queueVars,
                 stagingVars, hw, streamVars>>

JoinSend ==
  /\ ctl = "join_send"
  /\ pc[Sender] = "done"
  /\ pc' = [pc EXCEPT ![Sender] = "off"]
  /\ ctl' = "stop_backend"
  /\ UNCHANGED <<open, running, stop, callback, policy, goal, queueVars,
                 stagingVars, hw, streamVars>>

\* AXCL resets the channel and loses what is in it; the other platforms let
\* the stream thread drain it.
StopBackend ==
  /\ ctl = "stop_backend"
  /\ hw' \in {hw, <<>>}
  /\ ctl' = "join_stream"
  /\ UNCHANGED <<open, running, stop, callback, policy, goal, pc, queueVars,
                 stagingVars, streamVars>>

\* A plausible error: Stop does not wait for the stream thread.
StreamNotJoined ==
  /\ ctl = "join_stream"
  /\ ctl' = "stop_staging"
  /\ UNCHANGED <<open, running, stop, callback, policy, goal, pc, queueVars,
                 stagingVars, hw, streamVars>>

JoinStream ==
  /\ ctl = "join_stream"
  /\ strm = "done"
  /\ strm' = "off"
  /\ ctl' = "stop_staging"
  /\ UNCHANGED <<open, running, stop, callback, policy, goal, pc, queueVars,
                 stagingVars, hw, idle, latest>>

\* The staging lists are cleared, input_cv_ is notified again and running_
\* is reset.
StopReturns ==
  /\ ctl = "stop_staging"
  /\ reusable' = <<>>
  /\ inflight' = <<>>
  /\ hold' = <<>>
  /\ pc' = WakeAll(pc)
  /\ running' = FALSE
  /\ ctl' = IF goal = "stop" THEN "idle" ELSE "close"
  /\ UNCHANGED <<open, stop, callback, policy, goal, queueVars, work, hw,
                 streamVars>>

\* The rest of Close.  The caller's discipline, as for destroying the object:
\* no SubmitFrame is in progress.
CloseReturns ==
  /\ ctl = "close"
  /\ \A p \in Producers : pc[p] = "idle"
  /\ pending' = <<>>
  /\ submitted' = 0
  /\ dropped' = 0
  /\ removed' = 0
  /\ taken' = 0
  /\ reusable' = <<>>
  /\ inflight' = <<>>
  /\ hold' = <<>>
  /\ latest' = 0
  /\ hw' = <<>>
  /\ callback' = FALSE
  /\ policy' = "kDropOldest"
  /\ open' = FALSE
  /\ ctl' = IF goal = "open" THEN "create" ELSE "idle"
  /\ UNCHANGED <<running, stop, goal, pc, work, strm, idle>>

-----------------------------------------------------------------------------

Init ==
  /\ open = FALSE
  /\ running = FALSE
  /\ stop = FALSE
  /\ callback = FALSE
  /\ policy = "kDropOldest"
  /\ ctl = "idle"
  /\ goal = "stop"
  /\ pc = [t \in Threads |-> IF t = Sender THEN "off" ELSE "idle"]
  /\ pending = <<>>
  /\ submitted = 0
  /\ dropped = 0
  /\ removed = 0
  /\ taken = 0
  /\ work = NoBuffer
  /\ reusable = <<>>
  /\ inflight = <<>>
  /\ hold = <<>>
  /\ hw = <<>>
  /\ strm = "off"
  /\ idle = 0
  /\ latest = 0

\* What a producer does inside SubmitFrame.
ProducerStep(p) == FallAsleep(p) \/ SubmitLocked(p) \/ SubmitWoken(p)

\* SendLoop.
SendStep ==
  \/ FallAsleep(Sender)
  \/ SendLoopTop
  \/ PrepareInputFrame
  \/ SendAccepted
  \/ SendRefused

\* StreamLoop.
StreamStep ==
  \/ StreamPacket
  \/ StreamCallbackReturns
  \/ StreamIdlePoll
  \/ StreamFlowEnd

\* What the application thread does inside Start, Stop, Close and Open.
CtlStep ==
  \/ ctl = "create" /\ CreateBackend
  \/ StartBackendFails
  \/ StartThreads
  \/ StartReturns
  \/ StopClear
  \/ StopNotify
  \/ JoinSend
  \/ StopBackend
  \/ JoinStream
  \/ StopReturns
  \/ CloseReturns

\* The calls the application thread may make.
CtlCall ==
  \/ ctl = "idle" /\ CreateBackend
  \/ SetPacketCallback
  \/ Start
  \/ \E g \in {"stop", "close", "open"} : Stop(g)
  \/ \E g \in {"close", "open"} : CloseStopped(g)

Next ==
  \/ CtlCall
  \/ CtlStep
  \/ \E p \in Producers : SubmitFrame(p) \/ ProducerStep(p)
  \/ SendStep
  \/ StreamStep
  \/ \E t \in Threads : SpuriousWakeup(t)

Spec == Init /\ [][Next]_vars

(***************************************************************************)
(* Every thread that can run runs on; the hardware answers every poll and  *)
(* every send, and a callback returns.  Nobody has to call anything, and a *)
(* mutex is not fair to those who compete for it.                          *)
(***************************************************************************)
Fairness ==
  /\ WF_vars(CtlStep)
  /\ WF_vars(SendStep)
  /\ WF_vars(StreamStep)
  /\ \A p \in Producers : WF_vars(ProducerStep(p))

FairSpec == Spec /\ Fairness

-----------------------------------------------------------------------------

TypeOK ==
  /\ open \in BOOLEAN
  /\ running \in BOOLEAN
  /\ stop \in BOOLEAN
  /\ callback \in BOOLEAN
  /\ policy \in AllPolicies
  /\ ctl \in CtlStates
  /\ goal \in {"stop", "close", "open"}
  /\ pc \in [Threads -> PcStates]
  /\ pending \in Seq(Nat)
  /\ submitted \in Nat
  /\ dropped \in Nat
  /\ removed \in Nat
  /\ taken \in Nat
  /\ work \in Images \union {NoBuffer}
  /\ reusable \in Seq(Images)
  /\ inflight \in Seq(Images)
  /\ hold \in Seq(Nat)
  /\ hw \in Seq(HwEntries)
  /\ strm \in {"off", "poll", "deliver", "done"}
  /\ idle \in Nat
  /\ latest \in Nat

(***************************************************************************)
(* No wakeup is lost (input_mutex_, input_cv_ in SubmitFrame, SendLoop and *)
(* Stop), although every thread waits on one condition variable and a      *)
(* SubmitFrame notifies only one of them: the send thread is blocked only  *)
(* while there is nothing to send, never beside a blocked producer, and,   *)
(* once Stop has told everybody, not at all; a producer is blocked only    *)
(* while the queue is full or a Stop that emptied it is about to notify.   *)
(***************************************************************************)
Blocked(t) == pc[t] \in {"sleep", "wait"}

SenderBlockedWithCause ==
  Blocked(Sender) =>
    /\ pending = <<>>
    /\ stop => ctl \in {"stop_clear", "stop_notify"}
    /\ \A p \in Producers : ~Blocked(p)

ProducerBlockedWithCause ==
  \A p \in Producers :
    Blocked(p) => QueueFull \/ ctl \in {"stop_clear", "stop_notify"}

NoLostWakeup == SenderBlockedWithCause /\ ProducerBlockedWithCause

(***************************************************************************)
(* The statistics add up: the frame at the front of the queue comes right  *)
(* after the frames the send loop took or a Stop discarded and, under      *)
(* kDropOldest only, the frames counted as dropped.  So no accepted frame  *)
(* vanishes from the queue uncounted, and kBlock and kDropNewest lose none.*)
(***************************************************************************)
FramesAccountedFor ==
  submitted = removed + Len(pending) + (IF policy = "kDropOldest" THEN dropped ELSE 0)

(***************************************************************************)
(* A buffer the hardware may still be reading is not handed out to be      *)
(* overwritten (the inflight windows of SendLoop): as long as fewer than   *)
(* StagingDepth staged frames were sent after it, the staging image of a   *)
(* frame inside the hardware is neither in the reuse pool nor being        *)
(* prepared; and as long as fewer than HoldDepth aliased frames were sent  *)
(* after it, an aliased frame is still kept alive.                         *)
(***************************************************************************)
StagedAfter(i) == {j \in i + 1 .. Len(hw) : hw[j].image # NoBuffer}
AliasedAfter(i) == {j \in i + 1 .. Len(hw) : hw[j].image = NoBuffer}

HardwareInputsKept ==
  strm # "off" =>
    \A i \in DOMAIN hw :
      IF hw[i].image # NoBuffer
      THEN Cardinality(StagedAfter(i)) < StagingDepth =>
             /\ hw[i].image \notin ImageIds(reusable)
             /\ work # NoBuffer => work.id # hw[i].image
      ELSE Cardinality(AliasedAfter(i)) < HoldDepth =>
             \E j \in DOMAIN hold : hold[j] = hw[i].frame

(***************************************************************************)
(* Staging memory is bounded (AcquireReusableFrame, ReleaseOldInflight-    *)
(* Frame): whatever fails on the way, an encoder never owns more than      *)
(* StagingDepth + 2 images of the target size and one of a host frame's    *)
(* size.                                                                   *)
(***************************************************************************)
OwnedImages(d) ==
  Cardinality({i \in DOMAIN reusable : reusable[i].desc = d})
    + Cardinality({i \in DOMAIN inflight : inflight[i].desc = d})
    + (IF work # NoBuffer /\ work.desc = d THEN 1 ELSE 0)

StagingBounded ==
  /\ OwnedImages("target") <= StagingDepth + 2
  /\ OwnedImages("source") <= 1

(***************************************************************************)
(* When no session runs, nothing of it is left: both threads have ended,   *)
(* so no packet callback can be running (RemoveOutput and Close of the     *)
(* pipeline close the muxer the callback uses right after Stop), and no    *)
(* image is owned.                                                         *)
(***************************************************************************)
QuietWhenStopped ==
  ~running /\ ctl \notin {"started"} =>
    /\ pc[Sender] = "off"
    /\ strm = "off"
    /\ OwnedBuffers = {}
    /\ hold = <<>>

(***************************************************************************)
(* Packets come out in the order in which SubmitFrame accepted the frames, *)
(* each at most once, across Stop and Start, until Close.                  *)
(***************************************************************************)
PacketsInOrder == [][latest' > latest \/ ~open']_latest

(***************************************************************************)
(* The input queue, with its producers, its send thread and Stop, is a     *)
(* FrameFifo.                                                              *)
(***************************************************************************)
InputQueue == INSTANCE FrameFifo
  WITH Depth <- QueueDepth, fifo <- pending, accepted <- submitted

InputQueueSpec == InputQueue!Spec

(***************************************************************************)
(* Stop, and the Stop inside Close and Open, returns.                      *)
(***************************************************************************)
StopTerminates == (ctl \in StopPhases) ~> ~running

(***************************************************************************)
(* Stop releases the producers that kBlock holds in SubmitFrame, unless a  *)
(* Start overtakes it.                                                     *)
(***************************************************************************)
StopReleasesProducers ==
  \A p \in Producers :
    (stop /\ pc[p] \in {"sleep", "wait", "woken"}) ~> (pc[p] = "idle" \/ ~stop)

(***************************************************************************)
(* While the encoder runs, no accepted frame stays in the queue for ever:  *)
(* the send thread takes it, or a newer frame displaces it.                *)
(***************************************************************************)
QueuedFramesLeave ==
  \A n \in 1 .. MaxFrames :
    (running /\ Contains(pending, n)) ~> (~Contains(pending, n) \/ ~running)
=============================================================================
