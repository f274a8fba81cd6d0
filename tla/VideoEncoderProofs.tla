------------------------- MODULE VideoEncoderProofs -------------------------
(***************************************************************************)
(* Theorems about VideoEncoder, for every number of producers, every queue *)
(* depth, every window depth and every number of buffers: its types, that  *)
(* no wakeup is lost, that the input queue implements a FrameFifo and its  *)
(* statistics add up, that packets stay in order, that nothing is left     *)
(* when no session runs, that staging memory is bounded and that what the  *)
(* hardware is reading is kept.                                            *)
(***************************************************************************)
EXTENDS VideoEncoder, FunctionTheorems, FiniteSetTheorems, WellFoundedInduction, TLAPS

(***************************************************************************)
(* The inductive invariant.  A session is the part of an encoder's life    *)
(* with a send thread; the application thread's position says which of the *)
(* flags hold, which threads exist and what Stop has already told them.    *)
(***************************************************************************)
SendThreadExists ==
  \/ ctl = "started"
  \/ running /\ ctl \notin {"stop_backend", "join_stream", "stop_staging"}

StreamThreadExists ==
  \/ ctl = "started"
  \/ running /\ ctl # "stop_staging"

SessionInv ==
  /\ running => open
  /\ ctl \in StopPhases => running /\ stop
  /\ running /\ ctl \notin StopPhases => ctl = "idle" /\ ~stop
  /\ ctl \in {"start", "started"} => open /\ ~stop
  /\ ctl = "close" => open
  /\ ctl = "create" => ~open
  /\ (pc[Sender] = "off") = ~SendThreadExists
  /\ (strm = "off") = ~StreamThreadExists

(***************************************************************************)
(* Nobody starts to wait once stop_requested_ is set, and nobody who       *)
(* waited before is still waiting after Stop's notify_all.  This is where  *)
(* Stop's taking of input_mutex_ matters.                                  *)
(***************************************************************************)
StopInv ==
  stop => \A t \in Threads :
            /\ pc[t] = "sleep" => ctl = "stop_clear"
            /\ pc[t] = "wait" => ctl \in {"stop_clear", "stop_notify"}

MutexInv == \A s, t \in Threads : pc[s] = "sleep" /\ pc[t] = "sleep" => s = t

ProducerStates == {"idle", "lock", "sleep", "wait", "woken"}
SenderStates == {"off", "lock", "sleep", "wait", "woken", "prepare", "send", "done"}

ThreadInv ==
  /\ \A p \in Producers : pc[p] \in ProducerStates
  /\ pc[Sender] \in SenderStates

ClosedInv ==
  ~open =>
    /\ \A p \in Producers : pc[p] = "idle"
    /\ pending = <<>>
    /\ submitted = 0
    /\ dropped = 0
    /\ removed = 0

WakeupInv ==
  SessionInv /\ StopInv /\ MutexInv /\ ThreadInv /\ ClosedInv /\ NoLostWakeup

-----------------------------------------------------------------------------
(* Lemmas about the operators.                                             *)

(***************************************************************************)
(* Sequences, as the provers need to be told.                              *)
(***************************************************************************)
LEMMA EmptyType == \A S : <<>> \in Seq(S)
OBVIOUS

LEMMA AppendType ==
  ASSUME NEW S, NEW s \in Seq(S), NEW e \in S
  PROVE  Append(s, e) \in Seq(S) /\ Len(Append(s, e)) = Len(s) + 1
OBVIOUS

LEMMA TailType ==
  ASSUME NEW S, NEW s \in Seq(S), s # <<>>
  PROVE  Head(s) \in S /\ Tail(s) \in Seq(S) /\ Len(s) > 0 /\ Len(Tail(s)) = Len(s) - 1
OBVIOUS

LEMMA SuffixType ==
  ASSUME NEW S, NEW s \in Seq(S), NEW i \in 1 .. Len(s) + 1
  PROVE  /\ SubSeq(s, i, Len(s)) \in Seq(S)
         /\ Len(SubSeq(s, i, Len(s))) = Len(s) - i + 1
OBVIOUS

(***************************************************************************)
(* Notifying changes no thread but the blocked ones.                       *)
(***************************************************************************)
LEMMA WakeAllType ==
  ASSUME NEW f \in [Threads -> PcStates]
  PROVE  WakeAll(f) \in [Threads -> PcStates]
BY DEF WakeAll, PcStates

LEMMA WakeOneType ==
  ASSUME NEW f \in [Threads -> PcStates], NEW g \in WakeOne(f)
  PROVE  g \in [Threads -> PcStates]
BY DEF WakeOne, PcStates

(***************************************************************************)
(* Removing one element of a sequence leaves a sequence of the same kind.  *)
(***************************************************************************)
LEMMA RemoveAtType ==
  ASSUME NEW S, NEW s \in Seq(S), NEW i \in DOMAIN s
  PROVE  RemoveAt(s, i) \in Seq(S)
BY DEF RemoveAt

(***************************************************************************)
(* AcquireReusableFrame returns an image and leaves a pool of images.      *)
(***************************************************************************)
LEMMA AcquireType ==
  ASSUME NEW pool \in Seq(Images), NEW owned, NEW d \in Descriptors,
         NEW a \in Acquire(pool, owned, d)
  PROVE  a.image \in Images /\ a.rest \in Seq(Images)
<1>1. CASE FirstMatch(pool, d) # {}
  <2>1. PICK i \in FirstMatch(pool, d) : a = [image |-> pool[i], rest |-> RemoveAt(pool, i)]
    BY <1>1 DEF Acquire
  <2>2. i \in DOMAIN pool
    BY DEF FirstMatch
  <2>3. QED
    BY <2>1, <2>2, RemoveAtType
<1>2. CASE FirstMatch(pool, d) = {}
  <2>1. PICK b \in Buffers : a = [image |-> [id |-> b, desc |-> d], rest |-> pool]
    BY <1>2 DEF Acquire
  <2>2. QED
    BY <2>1 DEF Images
<1>3. QED
  BY <1>1, <1>2

(***************************************************************************)
(* ReleaseOldInflightFrame moves images between the window and the pool.   *)
(***************************************************************************)
LEMMA ReleaseType ==
  ASSUME NEW images \in Seq(Images), NEW frames \in Seq(Nat), reusable \in Seq(Images),
         ReleaseOldInflightFrame(images, frames)
  PROVE  inflight' \in Seq(Images) /\ reusable' \in Seq(Images) /\ hold' \in Seq(Nat)
<1>0. StagingDepth \in Nat \ {0} /\ HoldDepth \in Nat \ {0}
  BY EncoderAssumption
<1>1. inflight' \in Seq(Images) /\ reusable' \in Seq(Images)
  <2>1. CASE Len(images) > StagingDepth
    <3>1. images # <<>>
      BY <1>0, <2>1
    <3>2. Head(images) \in Images /\ Tail(images) \in Seq(Images)
      BY <3>1, TailType
    <3>3. Append(reusable, Head(images)) \in Seq(Images)
      BY <3>2, AppendType
    <3>4. QED
      BY <2>1, <3>2, <3>3 DEF ReleaseOldInflightFrame
  <2>2. CASE ~(Len(images) > StagingDepth)
    BY <2>2 DEF ReleaseOldInflightFrame
  <2>3. QED
    BY <2>1, <2>2
<1>2. hold' \in Seq(Nat)
  <2>1. CASE Len(frames) > HoldDepth
    <3>1. Len(frames) - HoldDepth + 1 \in 1 .. Len(frames) + 1
      BY <1>0, <2>1
    <3>2. SubSeq(frames, Len(frames) - HoldDepth + 1, Len(frames)) \in Seq(Nat)
      BY <3>1, SuffixType
    <3>3. QED
      BY <2>1, <3>2 DEF ReleaseOldInflightFrame
  <2>2. CASE ~(Len(frames) > HoldDepth)
    BY <2>2 DEF ReleaseOldInflightFrame
  <2>3. QED
    BY <2>1, <2>2
<1>3. QED
  BY <1>1, <1>2

-----------------------------------------------------------------------------
(* Type correctness.                                                       *)

SessionActions ==
  \/ CreateBackend
  \/ SetPacketCallback
  \/ Start
  \/ StartBackendFails
  \/ StartThreads
  \/ StartReturns
  \/ \E g \in {"stop", "close", "open"} : Stop(g)
  \/ \E g \in {"close", "open"} : CloseStopped(g)
  \/ StopClear
  \/ StopNotify
  \/ JoinSend
  \/ StopBackend
  \/ JoinStream
  \/ StopReturns
  \/ CloseReturns

LEMMA TypeInit == Init => TypeOK
<1> SUFFICES ASSUME Init PROVE TypeOK
  OBVIOUS
<1>1. pc \in [Threads -> PcStates]
  BY DEF Init, PcStates
<1>2. work \in Images \union {NoBuffer}
  BY DEF Init
<1>3. /\ pending \in Seq(Nat)
      /\ reusable \in Seq(Images)
      /\ inflight \in Seq(Images)
      /\ hold \in Seq(Nat)
      /\ hw \in Seq(HwEntries)
  BY EmptyType DEF Init
<1>4. ctl \in CtlStates /\ policy \in AllPolicies
  BY DEF Init, CtlStates, AllPolicies
<1>5. QED
  BY <1>1, <1>2, <1>3, <1>4 DEF Init, TypeOK

LEMMA TypeSession == TypeOK /\ SessionActions => TypeOK'
<1> SUFFICES ASSUME TypeOK, SessionActions PROVE TypeOK'
  OBVIOUS
<1> USE DEF TypeOK, CtlStates, StopPhases, queueVars, stagingVars, streamVars
<1>1. CASE CreateBackend
  BY <1>1, EncoderAssumption DEF CreateBackend
<1>2. CASE SetPacketCallback
  BY <1>2 DEF SetPacketCallback
<1>3. CASE Start \/ StartBackendFails \/ StartReturns
  BY <1>3 DEF Start, StartBackendFails, StartReturns
<1>4. CASE StartThreads
  BY <1>4, EmptyType DEF StartThreads, PcStates
<1>5. CASE \E g \in {"stop", "close", "open"} : Stop(g)
  BY <1>5 DEF Stop
<1>6. CASE \E g \in {"close", "open"} : CloseStopped(g)
  BY <1>6 DEF CloseStopped
<1>7. CASE StopClear
  BY <1>7, EmptyType DEF StopClear, ClearPending
<1>8. CASE StopNotify
  BY <1>8, WakeAllType DEF StopNotify
<1>9. CASE JoinSend
  BY <1>9 DEF JoinSend, PcStates
<1>10. CASE StopBackend
  BY <1>10, EmptyType DEF StopBackend
<1>11. CASE JoinStream
  BY <1>11 DEF JoinStream
<1>12. CASE StopReturns
  BY <1>12, WakeAllType, EmptyType DEF StopReturns
<1>13. CASE CloseReturns
  BY <1>13, EmptyType DEF CloseReturns, AllPolicies
<1>14. QED
  BY <1>1, <1>2, <1>3, <1>4, <1>5, <1>6, <1>7, <1>8, <1>9, <1>10, <1>11, <1>12, <1>13
     DEF SessionActions

LEMMA TypeProducer ==
  ASSUME TypeOK, NEW p \in Producers, SubmitFrame(p) \/ SubmitLocked(p) \/ SubmitWoken(p)
  PROVE  TypeOK'
<1> USE DEF TypeOK, sessionVars, queueVars, stagingVars, streamVars
<1>1. p \in Threads
  BY DEF Threads
<1>2. ASSUME NEW queue \in Seq(Nat), Push(p, queue)
      PROVE  /\ pending' \in Seq(Nat)
             /\ submitted' \in Nat
             /\ pc' \in [Threads -> PcStates]
  <2>1. [pc EXCEPT ![p] = "idle"] \in [Threads -> PcStates]
    BY DEF PcStates
  <2>2. submitted + 1 \in Nat /\ submitted' = submitted + 1
    BY <1>2 DEF Push
  <2>3. pending' \in Seq(Nat)
    BY <1>2, <2>2, AppendType DEF Push
  <2>4. pc' \in [Threads -> PcStates]
    BY <1>2, <2>1, WakeOneType DEF Push
  <2>5. QED
    BY <2>2, <2>3, <2>4
<1>3. CASE SubmitFrame(p)
  BY <1>3 DEF SubmitFrame, PcStates
<1>4. SubmitPush(p) =>
        pending' \in Seq(Nat) /\ submitted' \in Nat /\ dropped' \in Nat
          /\ pc' \in [Threads -> PcStates]
  BY <1>2 DEF SubmitPush
<1>5. SubmitDropNewest(p) =>
        pending' \in Seq(Nat) /\ submitted' \in Nat /\ dropped' \in Nat
          /\ pc' \in [Threads -> PcStates]
  <2> SUFFICES ASSUME SubmitDropNewest(p)
               PROVE  /\ pending' \in Seq(Nat) /\ submitted' \in Nat
                      /\ dropped' \in Nat /\ pc' \in [Threads -> PcStates]
    OBVIOUS
  <2>1. pc' \in [Threads -> PcStates]
    BY DEF SubmitDropNewest, PcStates
  <2>2. QED
    BY <2>1 DEF SubmitDropNewest
<1>6. SubmitDropOldest(p) =>
        pending' \in Seq(Nat) /\ submitted' \in Nat /\ dropped' \in Nat
          /\ pc' \in [Threads -> PcStates]
  <2> SUFFICES ASSUME SubmitDropOldest(p)
               PROVE  /\ pending' \in Seq(Nat) /\ submitted' \in Nat
                      /\ dropped' \in Nat /\ pc' \in [Threads -> PcStates]
    OBVIOUS
  <2> DEFINE excess == Len(pending) - QueueDepth + 1
  <2>1. Len(pending) \in Nat /\ QueueDepth \in Nat \ {0} /\ Len(pending) >= QueueDepth
    BY EncoderAssumption DEF SubmitDropOldest, QueueFull
  <2>2. excess \in Nat /\ excess + 1 \in 1 .. Len(pending) + 1
    BY <2>1
  <2>3. SubSeq(pending, excess + 1, Len(pending)) \in Seq(Nat)
    BY <2>2, SuffixType
  <2>4. dropped' = dropped + excess /\ Push(p, SubSeq(pending, excess + 1, Len(pending)))
    BY DEF SubmitDropOldest
  <2>5. dropped' \in Nat
    BY <2>2, <2>4
  <2>6. pending' \in Seq(Nat) /\ submitted' \in Nat /\ pc' \in [Threads -> PcStates]
    <3> HIDE DEF excess, TypeOK
    <3>1. QED
      BY <1>2, <2>3, <2>4
  <2>7. QED
    BY <2>5, <2>6
<1>7. SubmitBlock(p) =>
        pending' \in Seq(Nat) /\ submitted' \in Nat /\ dropped' \in Nat
          /\ pc' \in [Threads -> PcStates]
  BY DEF SubmitBlock, PcStates
<1>8. CASE SubmitLocked(p)
  BY <1>8, <1>4, <1>5, <1>6, <1>7 DEF SubmitLocked
<1>9. CASE SubmitWoken(p)
  BY <1>9, <1>1, <1>4, <1>7 DEF SubmitWoken, PcStates
<1>10. QED
  BY <1>3, <1>8, <1>9

LEMMA TypeSender ==
  ASSUME TypeOK, SendLoopTop \/ PrepareInputFrame \/ SendAccepted \/ SendRefused
  PROVE  TypeOK'
<1> USE DEF TypeOK, sessionVars, queueVars, streamVars
<1>1. Sender \in Threads
  BY DEF Threads
<1>2. CASE SendLoopTop
  <2>1. [pc EXCEPT ![Sender] = "prepare"] \in [Threads -> PcStates]
    BY DEF PcStates
  <2>2. CASE stop /\ ClearPending /\ pc' = [pc EXCEPT ![Sender] = "done"] /\ UNCHANGED taken
    <3>1. pc' \in [Threads -> PcStates]
      BY <2>2 DEF PcStates
    <3>2. pending' \in Seq(Nat) /\ removed' \in Nat /\ taken' \in Nat
      BY <2>2, EmptyType DEF ClearPending
    <3>3. QED
      BY <1>2, <3>1, <3>2 DEF SendLoopTop, stagingVars
  <2>3. CASE SendLoopTake
    <3>1. pc' \in [Threads -> PcStates]
      BY <2>1, <2>3, WakeAllType DEF SendLoopTake
    <3>2. pending # <<>> /\ pending \in Seq(Nat)
      BY <2>3 DEF SendLoopTake
    <3>3. Head(pending) \in Nat /\ Tail(pending) \in Seq(Nat)
      BY <3>2, TailType
    <3>4. pending' \in Seq(Nat) /\ removed' \in Nat /\ taken' \in Nat
      BY <2>3, <3>3 DEF SendLoopTake
    <3>5. QED
      BY <1>2, <3>1, <3>4 DEF SendLoopTop, stagingVars
  <2>4. CASE pc' = [pc EXCEPT ![Sender] = "sleep"] /\ UNCHANGED <<pending, removed, taken>>
    <3>1. pc' \in [Threads -> PcStates]
      BY <2>4 DEF PcStates
    <3>2. QED
      BY <1>2, <2>4, <3>1 DEF SendLoopTop, stagingVars
  <2>5. \/ stop /\ ClearPending /\ pc' = [pc EXCEPT ![Sender] = "done"] /\ UNCHANGED taken
        \/ SendLoopTake
        \/ pc' = [pc EXCEPT ![Sender] = "sleep"] /\ UNCHANGED <<pending, removed, taken>>
    BY <1>2 DEF SendLoopTop
  <2>6. QED
    BY <2>2, <2>3, <2>4, <2>5
<1>3. ASSUME NEW pool \in Seq(Images), NEW image \in Images \union {NoBuffer},
             Prepared(image, pool) \/ Lost(pool)
      PROVE  /\ work' \in Images \union {NoBuffer}
             /\ reusable' \in Seq(Images)
             /\ pc' \in [Threads -> PcStates]
  BY <1>3 DEF Prepared, Lost, PcStates
<1>4. CASE PrepareInputFrame
  <2>1. /\ work' \in Images \union {NoBuffer}
        /\ reusable' \in Seq(Images)
        /\ pc' \in [Threads -> PcStates]
    <3>1. CASE PrepareAlias \/ PrepareFails
      BY <3>1, <1>3 DEF PrepareAlias, PrepareFails
    <3>2. CASE PrepareStage
      <4>1. PICK target \in Acquire(reusable, OwnedBuffers, "target") :
              Prepared(target.image, target.rest) \/ Lost(target.rest)
        BY <3>2 DEF PrepareStage
      <4>2. target.image \in Images /\ target.rest \in Seq(Images)
        BY AcquireType DEF Descriptors
      <4>3. QED
        BY <4>1, <4>2, <1>3
    <3>3. CASE PrepareHost
      <4>0. PICK d \in Descriptors :
              \E source \in Acquire(reusable, OwnedBuffers, d) :
                \/ Lost(source.rest)
                \/ Lost(Append(source.rest, source.image))
                \/ \E target \in Acquire(source.rest,
                                         OwnedBuffers \union {source.image.id}, "target") :
                      \/ Prepared(target.image, Append(target.rest, source.image))
                      \/ Lost(Append(target.rest, source.image))
        BY <3>3 DEF PrepareHost
      <4>1. PICK source \in Acquire(reusable, OwnedBuffers, d) :
              \/ Lost(source.rest)
              \/ Lost(Append(source.rest, source.image))
              \/ \E target \in Acquire(source.rest,
                                       OwnedBuffers \union {source.image.id}, "target") :
                    \/ Prepared(target.image, Append(target.rest, source.image))
                    \/ Lost(Append(target.rest, source.image))
        BY <4>0
      <4>2. source.image \in Images /\ source.rest \in Seq(Images)
        BY AcquireType
      <4>3. Append(source.rest, source.image) \in Seq(Images)
        BY <4>2
      <4>4. CASE Lost(source.rest) \/ Lost(Append(source.rest, source.image))
        BY <4>4, <4>2, <4>3, <1>3
      <4>5. ASSUME NEW target \in Acquire(source.rest,
                                OwnedBuffers \union {source.image.id}, "target"),
                   \/ Prepared(target.image, Append(target.rest, source.image))
                   \/ Lost(Append(target.rest, source.image))
            PROVE  /\ work' \in Images \union {NoBuffer}
                   /\ reusable' \in Seq(Images)
                   /\ pc' \in [Threads -> PcStates]
        <5>1. target.image \in Images /\ target.rest \in Seq(Images)
          BY <4>2, AcquireType DEF Descriptors
        <5>2. Append(target.rest, source.image) \in Seq(Images)
          BY <4>2, <5>1
        <5>3. QED
          BY <4>5, <5>1, <5>2, <1>3
      <4>6. QED
        BY <4>1, <4>4, <4>5
    <3>4. QED
      BY <1>4, <3>1, <3>2, <3>3 DEF PrepareInputFrame
  <2>2. QED
    BY <1>4, <2>1 DEF PrepareInputFrame, PcStates
<1>5. CASE SendAccepted
  <2>1. work # NoBuffer => work \in Images /\ work.id \in Buffers
    BY DEF Images
  <2>2. hw' \in Seq(HwEntries)
    BY <1>5, <2>1 DEF SendAccepted, HwEntries
  <2>3. ASSUME NEW images \in Seq(Images), NEW frames \in Seq(Nat),
               ReleaseOldInflightFrame(images, frames)
        PROVE  inflight' \in Seq(Images) /\ reusable' \in Seq(Images) /\ hold' \in Seq(Nat)
    BY <2>3, ReleaseType
  <2>4. inflight' \in Seq(Images) /\ reusable' \in Seq(Images) /\ hold' \in Seq(Nat)
    <3>1. CASE work = NoBuffer
      <4>1. Append(hold, taken) \in Seq(Nat)
        BY AppendType
      <4>2. QED
        BY <1>5, <3>1, <4>1, <2>3 DEF SendAccepted
    <3>2. CASE work # NoBuffer
      <4>1. Append(inflight, work) \in Seq(Images)
        BY <3>2, <2>1, AppendType
      <4>2. QED
        BY <1>5, <3>2, <4>1, <2>3 DEF SendAccepted
    <3>3. QED
      BY <3>1, <3>2
  <2>5. QED
    BY <1>5, <2>2, <2>4 DEF SendAccepted, PcStates
<1>6. CASE SendRefused
  <2>1. Recycle(reusable, work) \in Seq(Images)
    BY DEF Recycle
  <2>2. QED
    BY <1>6, <2>1, <1>3 DEF SendRefused, PcStates
<1>7. QED
  BY <1>2, <1>4, <1>5, <1>6

LEMMA TypeStream == TypeOK /\ StreamStep => TypeOK'
<1> SUFFICES ASSUME TypeOK, StreamStep PROVE TypeOK'
  OBVIOUS
<1> USE DEF TypeOK, sessionVars, queueVars, stagingVars
<1>1. CASE StreamPacket
  <2>1. Head(hw) \in HwEntries /\ Tail(hw) \in Seq(HwEntries)
    BY <1>1 DEF StreamPacket
  <2>2. QED
    BY <1>1, <2>1 DEF StreamPacket, HwEntries
<1>2. CASE StreamCallbackReturns \/ StreamIdlePoll \/ StreamFlowEnd
  BY <1>2, SMTT(60) DEF StreamCallbackReturns, StreamIdlePoll, StreamFlowEnd
<1>3. QED
  BY <1>1, <1>2 DEF StreamStep

LEMMA TypeWait ==
  ASSUME TypeOK, NEW t \in Threads, FallAsleep(t) \/ SpuriousWakeup(t)
  PROVE  TypeOK'
BY DEF TypeOK, PcStates, FallAsleep, SpuriousWakeup, sessionVars, queueVars, stagingVars, streamVars

(***************************************************************************)
(* Every step of the encoder is one of these.                              *)
(***************************************************************************)
LEMMA NextCases ==
  ASSUME Next
  PROVE  \/ SessionActions
         \/ \E p \in Producers : SubmitFrame(p) \/ SubmitLocked(p) \/ SubmitWoken(p)
         \/ SendLoopTop \/ PrepareInputFrame \/ SendAccepted \/ SendRefused
         \/ StreamStep
         \/ \E t \in Threads : FallAsleep(t) \/ SpuriousWakeup(t)
BY DEF Next, CtlCall, CtlStep, ProducerStep, SendStep, SessionActions, Threads

(***************************************************************************)
(* The type invariant of the encoder holds in every reachable state.       *)
(***************************************************************************)
THEOREM TypeCorrect == Spec => []TypeOK
<1>1. TypeOK /\ [Next]_vars => TypeOK'
  <2> SUFFICES ASSUME TypeOK, [Next]_vars PROVE TypeOK'
    OBVIOUS
  <2>1. CASE Next
    BY <2>1, NextCases, TypeSession, TypeProducer, TypeSender, TypeStream, TypeWait
  <2>2. CASE UNCHANGED vars
    BY <2>2 DEF TypeOK, vars, sessionVars, queueVars, stagingVars, streamVars
  <2>3. QED
    BY <2>1, <2>2
<1>2. QED
  BY <1>1, TypeInit, PTL DEF Spec
-----------------------------------------------------------------------------
(* No lost wakeup.                                                         *)

(***************************************************************************)
(* What a notification does to a thread.                                   *)
(***************************************************************************)
LEMMA WakeAllMoves ==
  ASSUME NEW f \in [Threads -> PcStates], NEW t \in Threads
  PROVE  /\ WakeAll(f)[t] # "wait"
         /\ WakeAll(f)[t] = f[t] \/ (f[t] = "wait" /\ WakeAll(f)[t] = "woken")
BY DEF WakeAll

LEMMA WakeOneMoves ==
  ASSUME NEW f \in [Threads -> PcStates], NEW g \in WakeOne(f), NEW t \in Threads
  PROVE  /\ g[t] = f[t] \/ (f[t] = "wait" /\ g[t] = "woken")
         /\ (\A u \in Threads : f[u] = "wait" => u = t) => g[t] # "wait"
BY DEF WakeOne

(***************************************************************************)
(* Threads that move on without blocking keep the invariant, as long as    *)
(* the queue and the session stay as they are.                             *)
(***************************************************************************)
LEMMA UnblockedMove ==
  ASSUME TypeOK, WakeupInv, open,
         NEW t \in Threads, NEW s \in PcStates \ {"sleep", "wait", "off"},
         pc[t] # "off",
         t \in Producers => s \in ProducerStates,
         t = Sender => s \in SenderStates,
         pc' = [pc EXCEPT ![t] = s],
         UNCHANGED <<open, running, stop, ctl, pending, strm>>
  PROVE  WakeupInv'
<1>1. \A u \in Threads : pc'[u] = pc[u] \/ (u = t /\ pc'[u] = s)
  BY DEF TypeOK
<1>2. \A u \in Threads : (pc'[u] = "off") = (pc[u] = "off")
  BY <1>1
<1>3. \A u \in Threads : /\ pc'[u] = "sleep" => pc[u] = "sleep"
                         /\ pc'[u] = "wait" => pc[u] = "wait"
  BY <1>1
<1>4. \A p \in Producers : p \in Threads
  BY DEF Threads
<1>5. Sender \in Threads /\ Sender \notin Producers
  BY EncoderAssumption DEF Threads
<1>6. SessionInv'
  BY <1>2, <1>5 DEF WakeupInv, SessionInv, SendThreadExists, StreamThreadExists
<1>7. StopInv'
  BY <1>3 DEF WakeupInv, StopInv
<1>8. MutexInv'
  BY <1>3 DEF WakeupInv, MutexInv
<1>9. ThreadInv'
  BY <1>1, <1>4, <1>5 DEF WakeupInv, ThreadInv
<1>10. ClosedInv'
  BY DEF ClosedInv
<1>11. NoLostWakeup'
  BY <1>3, <1>4, <1>5
     DEF WakeupInv, NoLostWakeup, SenderBlockedWithCause, ProducerBlockedWithCause,
         Blocked, QueueFull
<1>12. QED
  BY <1>6, <1>7, <1>8, <1>9, <1>10, <1>11 DEF WakeupInv

(***************************************************************************)
(* A thread that may only exist in an open encoder shows that it is open.  *)
(***************************************************************************)
LEMMA OpenWhenBusy ==
  ASSUME WakeupInv
  PROVE  /\ \A p \in Producers : pc[p] # "idle" => open
         /\ pc[Sender] # "off" => open
<1>1. \A p \in Producers : pc[p] # "idle" => open
  BY DEF WakeupInv, ClosedInv
<1>2. pc[Sender] # "off" => open
  BY DEF WakeupInv, SessionInv, SendThreadExists
<1>3. QED
  BY <1>1, <1>2

(***************************************************************************)
(* A push notifies one thread; if the send thread waits, it is the only    *)
(* one that does.                                                          *)
(***************************************************************************)
LEMMA PushWakesSender ==
  ASSUME TypeOK, WakeupInv, InputMutexFree, NEW p \in Producers,
         pc[p] \in {"lock", "woken"}, NEW queue \in Seq(Nat), Push(p, queue),
         UNCHANGED <<open, running, stop, ctl, strm>>,
         \A q \in Producers : Blocked(q) =>
           QueueFull' \/ ctl \in {"stop_clear", "stop_notify"}
  PROVE  WakeupInv'
<1>1. Sender \in Threads /\ p \in Threads /\ Sender # p
  BY EncoderAssumption DEF Threads
<1>2. DEFINE f == [pc EXCEPT ![p] = "idle"]
<1>3. /\ f \in [Threads -> PcStates] /\ f[p] = "idle"
      /\ \A t \in Threads : t # p => f[t] = pc[t]
  BY <1>1 DEF TypeOK, PcStates
<1>4. pc' \in WakeOne(f)
  BY DEF Push
<1> HIDE DEF f
<1>5. \A t \in Threads : t # p => pc'[t] = pc[t] \/ (pc[t] = "wait" /\ pc'[t] = "woken")
  BY <1>3, <1>4, WakeOneMoves
<1>6. pc'[p] = "idle"
  BY <1>1, <1>3, <1>4, WakeOneMoves
<1>7. \A t \in Threads : pc'[t] # "sleep"
  BY <1>5, <1>6 DEF InputMutexFree
<1>8. \A t \in Threads : pc'[t] = "wait" => pc[t] = "wait"
  BY <1>5, <1>6
<1>9. pc'[Sender] # "wait"
  <2>1. CASE pc[Sender] = "wait"
    <3>1. \A t \in Threads : f[t] = "wait" => t = Sender
      <4>1. \A q \in Producers : ~Blocked(q)
        BY <2>1 DEF WakeupInv, NoLostWakeup, SenderBlockedWithCause, Blocked
      <4>2. QED
        BY <1>3, <4>1 DEF Blocked, Threads
    <3>2. QED
      BY <1>1, <1>3, <1>4, <3>1, WakeOneMoves
  <2>2. CASE pc[Sender] # "wait"
    BY <1>1, <1>8, <2>2
  <2>3. QED
    BY <2>1, <2>2
<1>10. SessionInv'
  BY <1>1, <1>5 DEF WakeupInv, SessionInv, SendThreadExists, StreamThreadExists
<1>11. StopInv'
  BY <1>7, <1>8 DEF WakeupInv, StopInv
<1>12. MutexInv'
  BY <1>7 DEF MutexInv
<1>13. ThreadInv'
  <2>1. \A q \in Producers : pc'[q] \in ProducerStates
    BY <1>5, <1>6 DEF WakeupInv, ThreadInv, ProducerStates, Threads
  <2>2. pc'[Sender] \in SenderStates
    BY <1>1, <1>5 DEF WakeupInv, ThreadInv, SenderStates
  <2>3. QED
    BY <2>1, <2>2 DEF ThreadInv
<1>14. ClosedInv'
  BY OpenWhenBusy DEF ClosedInv
<1>15. NoLostWakeup'
  <2>1. ~Blocked(Sender)'
    BY <1>1, <1>7, <1>9 DEF Blocked
  <2>2. \A q \in Producers : Blocked(q)' => Blocked(q)
    BY <1>7, <1>8 DEF Blocked, Threads
  <2>3. QED
    BY <2>1, <2>2 DEF NoLostWakeup, SenderBlockedWithCause, ProducerBlockedWithCause
<1>16. QED
  BY <1>10, <1>11, <1>12, <1>13, <1>14, <1>15 DEF WakeupInv

(***************************************************************************)
(* A thread that finds its predicate false keeps the mutex until it is     *)
(* blocked, and nobody else is between the two.                            *)
(***************************************************************************)
LEMMA SleepKeepsSession ==
  ASSUME TypeOK, WakeupInv, InputMutexFree, ~stop, open, NEW t \in Threads,
         pc[t] # "off", pc' = [pc EXCEPT ![t] = "sleep"],
         UNCHANGED <<open, running, stop, ctl, strm>>
  PROVE  SessionInv' /\ StopInv' /\ MutexInv' /\ ThreadInv' /\ ClosedInv'
<1>1. pc'[t] = "sleep" /\ \A u \in Threads : u # t => pc'[u] = pc[u]
  BY DEF TypeOK
<1>2. Sender \in Threads /\ \A p \in Producers : p \in Threads
  BY DEF Threads
<1>3. SessionInv'
  BY <1>1, <1>2 DEF WakeupInv, SessionInv, SendThreadExists, StreamThreadExists
<1>4. StopInv'
  BY DEF StopInv
<1>5. MutexInv'
  BY <1>1 DEF InputMutexFree, MutexInv
<1>6. ThreadInv'
  BY <1>1, <1>2 DEF WakeupInv, ThreadInv, ProducerStates, SenderStates
<1>7. ClosedInv'
  BY DEF ClosedInv
<1>8. QED
  BY <1>3, <1>4, <1>5, <1>6, <1>7

LEMMA WakeupProducer ==
  ASSUME TypeOK, WakeupInv, NEW p \in Producers,
         SubmitFrame(p) \/ SubmitLocked(p) \/ SubmitWoken(p)
  PROVE  WakeupInv'
<1>1. p \in Threads /\ p # Sender /\ pc[p] # "off"
  <2>1. pc[p] \in ProducerStates
    BY DEF WakeupInv, ThreadInv
  <2>2. QED
    BY <2>1, EncoderAssumption DEF Threads, ProducerStates
<1>2. CASE SubmitFrame(p)
  <2>1. open
    BY <1>2 DEF SubmitFrame, WakeupInv, SessionInv
  <2>2. QED
    BY <1>1, <1>2, <2>1, UnblockedMove
       DEF SubmitFrame, sessionVars, queueVars, streamVars, PcStates, ProducerStates
<1> SUFFICES ASSUME SubmitLocked(p) \/ SubmitWoken(p)
             PROVE  WakeupInv'
  BY <1>2
<1>3. /\ pc[p] \in {"lock", "woken"}
      /\ InputMutexFree
      /\ UNCHANGED <<open, running, stop, ctl, strm>>
  BY DEF SubmitLocked, SubmitWoken, sessionVars, streamVars
<1>4. open
  BY <1>3, OpenWhenBusy
<1>5. ASSUME pc' = [pc EXCEPT ![p] = "idle"], UNCHANGED pending
      PROVE  WakeupInv'
  BY <1>1, <1>3, <1>4, <1>5, UnblockedMove DEF PcStates, ProducerStates
<1>6. CASE SubmitPush(p)
  <2>1. pending \in Seq(Nat) /\ Push(p, pending)
    BY <1>6 DEF SubmitPush, TypeOK
  <2>2. \A q \in Producers : Blocked(q) => ctl \in {"stop_clear", "stop_notify"}
    BY <1>6 DEF SubmitPush, WakeupInv, NoLostWakeup, ProducerBlockedWithCause
  <2>3. QED
    BY <1>3, <2>1, <2>2, PushWakesSender
<1>7. CASE SubmitDropOldest(p)
  <2> DEFINE excess == Len(pending) - QueueDepth + 1
             queue == SubSeq(pending, excess + 1, Len(pending))
  <2>1. /\ Len(pending) \in Nat
        /\ QueueDepth \in Nat \ {0}
        /\ Len(pending) >= QueueDepth
        /\ pending \in Seq(Nat)
    BY <1>7, EncoderAssumption DEF SubmitDropOldest, QueueFull, TypeOK
  <2>2. excess + 1 \in 1 .. Len(pending) + 1 /\ Len(pending) - (excess + 1) + 1 = QueueDepth - 1
    BY <2>1
  <2>3. queue \in Seq(Nat) /\ Len(queue) = QueueDepth - 1
    BY <2>1, <2>2, SuffixType
  <2>4. Push(p, queue)
    BY <1>7 DEF SubmitDropOldest
  <2> HIDE DEF queue
  <2>5. QueueFull'
    <3>1. pending' = Append(queue, submitted + 1)
      BY <2>4 DEF Push
    <3>2. submitted + 1 \in Nat
      BY DEF TypeOK
    <3>3. Len(pending') = QueueDepth
      BY <2>1, <2>3, <3>1, <3>2, AppendType
    <3>4. QED
      BY <2>1, <3>3 DEF QueueFull
  <2>6. QED
    BY <1>3, <2>3, <2>4, <2>5, PushWakesSender
<1>8. CASE SubmitBlock(p)
  <2>1. CASE stop
    BY <1>5, <1>8, <2>1 DEF SubmitBlock
  <2>2. CASE ~stop
    <3>1. pc' = [pc EXCEPT ![p] = "sleep"]
      BY <1>8, <2>2 DEF SubmitBlock
    <3>2. SessionInv' /\ StopInv' /\ MutexInv' /\ ThreadInv' /\ ClosedInv'
      BY <1>1, <1>3, <1>4, <2>2, <3>1, SleepKeepsSession
    <3>3. pending # <<>> /\ QueueFull /\ QueueFull'
      BY <1>8, EncoderAssumption DEF SubmitBlock, QueueFull
    <3>4. ~Blocked(Sender)
      BY <3>3 DEF WakeupInv, NoLostWakeup, SenderBlockedWithCause
    <3>5. ~Blocked(Sender)'
      BY <1>1, <3>1, <3>4 DEF Blocked, Threads, TypeOK
    <3>6. QED
      BY <3>2, <3>3, <3>5
         DEF WakeupInv, NoLostWakeup, SenderBlockedWithCause, ProducerBlockedWithCause
  <2>3. QED
    BY <2>1, <2>2
<1>9. CASE SubmitDropNewest(p)
  BY <1>5, <1>9 DEF SubmitDropNewest
<1>10. CASE SubmitWoken(p) /\ stop
  BY <1>5, <1>10 DEF SubmitWoken
<1>11. QED
  BY <1>6, <1>7, <1>8, <1>9, <1>10 DEF SubmitLocked, SubmitWoken

LEMMA WakeupSender ==
  ASSUME TypeOK, WakeupInv,
         SendLoopTop \/ PrepareInputFrame \/ SendAccepted \/ SendRefused
  PROVE  WakeupInv'
<1>1. /\ Sender \in Threads /\ Sender \notin Producers
      /\ \A p \in Producers : p \in Threads
  BY EncoderAssumption DEF Threads
<1>2. pc[Sender] # "off" /\ UNCHANGED <<open, running, stop, ctl, strm>>
  BY DEF SendLoopTop, PrepareInputFrame, SendAccepted, SendRefused, sessionVars, streamVars
<1>3. open
  BY <1>2, OpenWhenBusy
<1>4. CASE PrepareInputFrame
  <2>1. pc' = [pc EXCEPT ![Sender] = "send"] \/ pc' = [pc EXCEPT ![Sender] = "lock"]
    BY <1>4 DEF PrepareInputFrame, PrepareAlias, PrepareStage, PrepareHost, PrepareFails,
                Prepared, Lost
  <2>2. UNCHANGED pending
    BY <1>4 DEF PrepareInputFrame, queueVars
  <2>3. QED
    BY <1>1, <1>2, <1>3, <2>1, <2>2, UnblockedMove DEF PcStates, SenderStates
<1>5. CASE SendAccepted \/ SendRefused
  <2>1. pc' = [pc EXCEPT ![Sender] = "lock"] /\ UNCHANGED pending
    BY <1>5 DEF SendAccepted, SendRefused, Lost, queueVars
  <2>2. QED
    BY <1>1, <1>2, <1>3, <2>1, UnblockedMove DEF PcStates, SenderStates
<1> SUFFICES ASSUME SendLoopTop PROVE WakeupInv'
  BY <1>4, <1>5
<1>6. InputMutexFree
  BY DEF SendLoopTop
<1>7. CASE stop /\ ClearPending /\ pc' = [pc EXCEPT ![Sender] = "done"]
  <2>1. pc'[Sender] = "done" /\ \A p \in Producers : pc'[p] = pc[p]
    BY <1>1, <1>7 DEF TypeOK
  <2>2. SessionInv'
    BY <1>2, <2>1 DEF WakeupInv, SessionInv, SendThreadExists, StreamThreadExists
  <2>3. StopInv' /\ MutexInv'
    BY <1>2, <1>6, <2>1 DEF WakeupInv, StopInv, MutexInv, InputMutexFree, Threads
  <2>4. ThreadInv'
    BY <2>1 DEF WakeupInv, ThreadInv, SenderStates
  <2>5. ClosedInv'
    BY <1>2, <1>3 DEF ClosedInv
  <2>6. NoLostWakeup'
    <3>1. \A p \in Producers : Blocked(p)' => ctl' \in {"stop_clear", "stop_notify"}
      BY <1>1, <1>2, <1>7, <2>1 DEF WakeupInv, StopInv, Blocked
    <3>2. ~Blocked(Sender)'
      BY <2>1 DEF Blocked
    <3>3. QED
      BY <3>1, <3>2 DEF NoLostWakeup, SenderBlockedWithCause, ProducerBlockedWithCause
  <2>7. QED
    BY <2>2, <2>3, <2>4, <2>5, <2>6 DEF WakeupInv
<1>8. CASE SendLoopTake
  <2> DEFINE f == [pc EXCEPT ![Sender] = "prepare"]
  <2>1. /\ f \in [Threads -> PcStates] /\ f[Sender] = "prepare"
        /\ \A p \in Producers : f[p] = pc[p]
    BY <1>1 DEF TypeOK, PcStates
  <2>2. pc' = WakeAll(f)
    BY <1>8 DEF SendLoopTake
  <2> HIDE DEF f
  <2>3. pc'[Sender] = "prepare"
    BY <1>1, <2>1, <2>2, WakeAllMoves
  <2>4. \A p \in Producers : /\ pc'[p] # "wait"
                             /\ pc'[p] = pc[p] \/ pc'[p] = "woken"
    BY <1>1, <2>1, <2>2, WakeAllMoves
  <2>5. \A t \in Threads : ~Blocked(t)'
    BY <1>6, <2>3, <2>4 DEF InputMutexFree, Blocked, Threads
  <2>6. SessionInv'
    BY <1>2, <2>3 DEF WakeupInv, SessionInv, SendThreadExists, StreamThreadExists
  <2>7. StopInv' /\ MutexInv'
    BY <2>5 DEF StopInv, MutexInv, Blocked
  <2>8. ThreadInv'
    BY <2>3, <2>4 DEF WakeupInv, ThreadInv, SenderStates, ProducerStates
  <2>9. ClosedInv'
    BY <1>2, <1>3 DEF ClosedInv
  <2>10. NoLostWakeup'
    BY <1>1, <2>5 DEF NoLostWakeup, SenderBlockedWithCause, ProducerBlockedWithCause
  <2>11. QED
    BY <2>6, <2>7, <2>8, <2>9, <2>10 DEF WakeupInv
<1>9. CASE ~stop /\ pending = <<>> /\ pc' = [pc EXCEPT ![Sender] = "sleep"] /\ UNCHANGED pending
  <2>1. SessionInv' /\ StopInv' /\ MutexInv' /\ ThreadInv' /\ ClosedInv'
    BY <1>1, <1>2, <1>3, <1>6, <1>9, SleepKeepsSession
  <2>2. ctl \notin {"stop_clear", "stop_notify"}
    BY <1>9 DEF WakeupInv, SessionInv, StopPhases
  <2>3. ~QueueFull
    BY <1>9, EncoderAssumption DEF QueueFull
  <2>4. \A p \in Producers : ~Blocked(p)
    BY <2>2, <2>3 DEF WakeupInv, NoLostWakeup, ProducerBlockedWithCause
  <2>5. \A p \in Producers : ~Blocked(p)'
    BY <1>1, <1>9, <2>4 DEF Blocked, TypeOK
  <2>6. NoLostWakeup'
    BY <1>2, <1>9, <2>5 DEF NoLostWakeup, SenderBlockedWithCause, ProducerBlockedWithCause
  <2>7. QED
    BY <2>1, <2>6 DEF WakeupInv
<1>10. QED
  BY <1>7, <1>8, <1>9 DEF SendLoopTop

(***************************************************************************)
(* The application thread: outside Stop and Close it touches neither the   *)
(* queue nor a thread that could be blocked.                               *)
(***************************************************************************)
LEMMA WakeupStart ==
  ASSUME TypeOK, WakeupInv,
         \/ CreateBackend \/ SetPacketCallback \/ Start \/ StartBackendFails
         \/ StartThreads \/ StartReturns
         \/ \E g \in {"stop", "close", "open"} : Stop(g)
         \/ \E g \in {"close", "open"} : CloseStopped(g)
         \/ StopBackend \/ JoinStream
  PROVE  WakeupInv'
<1>1. /\ Sender \in Threads /\ Sender \notin Producers
      /\ \A p \in Producers : p \in Threads
  BY EncoderAssumption DEF Threads
<1>2. UNCHANGED <<pending, submitted, dropped, removed>>
  BY DEF CreateBackend, SetPacketCallback, Start, StartBackendFails, StartThreads,
         StartReturns, Stop, CloseStopped, StopBackend, JoinStream, queueVars
<1>3. CASE StartThreads
  <2>1. pc'[Sender] = "lock" /\ \A p \in Producers : pc'[p] = pc[p]
    BY <1>1, <1>3 DEF StartThreads, TypeOK
  <2>2. /\ ctl = "start" /\ ctl' = "started" /\ strm' = "poll"
        /\ UNCHANGED <<open, running, stop>>
    BY <1>3 DEF StartThreads
  <2>3. open /\ ~stop /\ ~running
    BY <2>2 DEF WakeupInv, SessionInv, StopPhases
  <2>4. SessionInv'
    BY <2>1, <2>2, <2>3 DEF SessionInv, SendThreadExists, StreamThreadExists, StopPhases
  <2>5. StopInv' /\ MutexInv' /\ ThreadInv' /\ ClosedInv'
    BY <1>1, <2>1, <2>2, <2>3
       DEF WakeupInv, StopInv, MutexInv, ThreadInv, ClosedInv, SenderStates, Threads
  <2>6. NoLostWakeup'
    BY <1>2, <2>1, <2>2
       DEF WakeupInv, NoLostWakeup, SenderBlockedWithCause, ProducerBlockedWithCause,
           Blocked, QueueFull
  <2>7. QED
    BY <2>4, <2>5, <2>6 DEF WakeupInv
<1> SUFFICES ASSUME ~StartThreads PROVE WakeupInv'
  BY <1>3
<1>4. UNCHANGED pc
  BY DEF CreateBackend, SetPacketCallback, Start, StartBackendFails, StartReturns, Stop,
         CloseStopped, StopBackend, JoinStream
<1>5. SessionInv'
  <2> USE DEF WakeupInv, SessionInv, SendThreadExists, StreamThreadExists, StopPhases
  <2>1. CASE CreateBackend
    BY <1>4, <2>1 DEF CreateBackend, streamVars, TypeOK
  <2>2. CASE SetPacketCallback
    BY <1>4, <2>2 DEF SetPacketCallback, streamVars
  <2>3. CASE Start \/ StartBackendFails \/ StartReturns
    BY <1>4, <2>3 DEF Start, StartBackendFails, StartReturns, streamVars
  <2>4. CASE \E g \in {"stop", "close", "open"} : Stop(g)
    BY <1>4, <2>4 DEF Stop, streamVars
  <2>5. CASE \E g \in {"close", "open"} : CloseStopped(g)
    BY <1>4, <2>5 DEF CloseStopped, streamVars
  <2>6. CASE StopBackend \/ JoinStream
    BY <1>4, <2>6 DEF StopBackend, JoinStream, streamVars
  <2>7. QED
    BY <2>1, <2>2, <2>3, <2>4, <2>5, <2>6
<1>6. stop' => \/ stop /\ ctl \notin {"stop_clear", "stop_notify"}
               \/ ctl' = "stop_clear"
  BY DEF CreateBackend, SetPacketCallback, Start, StartBackendFails, StartReturns, Stop,
         CloseStopped, StopBackend, JoinStream
<1>7. StopInv'
  BY <1>4, <1>6 DEF WakeupInv, StopInv
<1>8. MutexInv' /\ ThreadInv'
  BY <1>4 DEF WakeupInv, MutexInv, ThreadInv
<1>9. ~open' => ~open
  BY DEF CreateBackend, SetPacketCallback, Start, StartBackendFails, StartReturns, Stop,
         CloseStopped, StopBackend, JoinStream, WakeupInv, SessionInv
<1>10. ClosedInv'
  BY <1>2, <1>4, <1>9 DEF WakeupInv, ClosedInv
<1>11. ctl \notin {"stop_clear", "stop_notify"}
  BY DEF CreateBackend, SetPacketCallback, Start, StartBackendFails, StartReturns, Stop,
         CloseStopped, StopBackend, JoinStream
<1>12. NoLostWakeup'
  BY <1>2, <1>4, <1>6, <1>11
     DEF WakeupInv, NoLostWakeup, SenderBlockedWithCause, ProducerBlockedWithCause,
         Blocked, QueueFull
<1>13. QED
  BY <1>5, <1>7, <1>8, <1>10, <1>12 DEF WakeupInv

LEMMA WakeupStop ==
  ASSUME TypeOK, WakeupInv,
         StopClear \/ StopNotify \/ JoinSend \/ StopReturns \/ CloseReturns
  PROVE  WakeupInv'
<1>1. /\ Sender \in Threads /\ Sender \notin Producers
      /\ \A p \in Producers : p \in Threads
  BY EncoderAssumption DEF Threads
<1>2. CASE StopClear
  <2>1. /\ ctl = "stop_clear" /\ ctl' = "stop_notify"
        /\ InputMutexFree /\ ClearPending
        /\ UNCHANGED <<open, running, stop, pc, strm>>
    BY <1>2 DEF StopClear, streamVars
  <2>2. running /\ open
    BY <2>1 DEF WakeupInv, SessionInv, StopPhases
  <2>3. SessionInv'
    BY <2>1 DEF WakeupInv, SessionInv, SendThreadExists, StreamThreadExists, StopPhases
  <2>4. StopInv' /\ MutexInv' /\ ThreadInv' /\ ClosedInv'
    BY <2>1, <2>2
       DEF WakeupInv, StopInv, MutexInv, ThreadInv, ClosedInv, InputMutexFree
  <2>5. NoLostWakeup'
    BY <2>1 DEF WakeupInv, NoLostWakeup, SenderBlockedWithCause, ProducerBlockedWithCause,
                Blocked, ClearPending
  <2>6. QED
    BY <2>3, <2>4, <2>5 DEF WakeupInv
<1>3. CASE StopNotify
  <2>1. /\ ctl = "stop_notify" /\ ctl' = "join_send"
        /\ pc' = WakeAll(pc)
        /\ UNCHANGED <<open, running, stop, pending, strm>>
    BY <1>3 DEF StopNotify, streamVars, queueVars
  <2>2. running /\ open /\ stop
    BY <2>1 DEF WakeupInv, SessionInv, StopPhases
  <2>3. \A t \in Threads : /\ pc'[t] # "wait"
                           /\ pc'[t] = pc[t] \/ (pc[t] = "wait" /\ pc'[t] = "woken")
    BY <2>1, WakeAllMoves DEF TypeOK
  <2>4. \A t \in Threads : pc'[t] # "sleep"
    BY <2>1, <2>2, <2>3 DEF WakeupInv, StopInv
  <2>5. SessionInv'
    BY <1>1, <2>1, <2>3
       DEF WakeupInv, SessionInv, SendThreadExists, StreamThreadExists, StopPhases
  <2>6. StopInv' /\ MutexInv' /\ ClosedInv'
    BY <2>1, <2>2, <2>3, <2>4 DEF StopInv, MutexInv, ClosedInv
  <2>7. ThreadInv'
    BY <1>1, <2>3 DEF WakeupInv, ThreadInv, ProducerStates, SenderStates
  <2>8. NoLostWakeup'
    BY <1>1, <2>3, <2>4
       DEF NoLostWakeup, SenderBlockedWithCause, ProducerBlockedWithCause, Blocked
  <2>9. QED
    BY <2>5, <2>6, <2>7, <2>8 DEF WakeupInv
<1>4. CASE JoinSend
  <2>1. /\ ctl = "join_send" /\ ctl' = "stop_backend"
        /\ UNCHANGED <<open, running, stop, pending, strm>>
    BY <1>4 DEF JoinSend, streamVars, queueVars
  <2>2. running /\ open /\ stop
    BY <2>1 DEF WakeupInv, SessionInv, StopPhases
  <2>3. pc'[Sender] = "off" /\ \A p \in Producers : pc'[p] = pc[p]
    BY <1>1, <1>4 DEF JoinSend, TypeOK
  <2>4. \A t \in Threads : ~Blocked(t)
    BY <2>1, <2>2 DEF WakeupInv, StopInv, Blocked
  <2>5. \A t \in Threads : ~Blocked(t)'
    BY <2>3, <2>4 DEF Blocked, Threads
  <2>6. SessionInv'
    BY <2>1, <2>2, <2>3
       DEF WakeupInv, SessionInv, SendThreadExists, StreamThreadExists, StopPhases
  <2>7. StopInv' /\ MutexInv' /\ ClosedInv'
    BY <2>1, <2>2, <2>5 DEF StopInv, MutexInv, ClosedInv, Blocked
  <2>8. ThreadInv'
    BY <2>3 DEF WakeupInv, ThreadInv, SenderStates
  <2>9. NoLostWakeup'
    BY <1>1, <2>5 DEF NoLostWakeup, SenderBlockedWithCause, ProducerBlockedWithCause
  <2>10. QED
    BY <2>6, <2>7, <2>8, <2>9 DEF WakeupInv
<1>5. CASE StopReturns
  <2>1. /\ ctl = "stop_staging" /\ ctl' \in {"idle", "close"} /\ ~running'
        /\ pc' = WakeAll(pc)
        /\ UNCHANGED <<open, stop, pending, strm>>
    BY <1>5 DEF StopReturns, streamVars, queueVars
  <2>2. running /\ open /\ stop
    BY <2>1 DEF WakeupInv, SessionInv, StopPhases
  <2>3. \A t \in Threads : /\ pc'[t] # "wait"
                           /\ pc'[t] = pc[t] \/ (pc[t] = "wait" /\ pc'[t] = "woken")
    BY <2>1, WakeAllMoves DEF TypeOK
  <2>4. \A t \in Threads : pc'[t] # "sleep"
    BY <2>1, <2>2, <2>3 DEF WakeupInv, StopInv
  <2>5. SessionInv'
    BY <1>1, <2>1, <2>2, <2>3
       DEF WakeupInv, SessionInv, SendThreadExists, StreamThreadExists, StopPhases
  <2>6. StopInv' /\ MutexInv' /\ ClosedInv'
    BY <2>1, <2>2, <2>3, <2>4 DEF StopInv, MutexInv, ClosedInv
  <2>7. ThreadInv'
    BY <1>1, <2>3 DEF WakeupInv, ThreadInv, ProducerStates, SenderStates
  <2>8. NoLostWakeup'
    BY <1>1, <2>3, <2>4
       DEF NoLostWakeup, SenderBlockedWithCause, ProducerBlockedWithCause, Blocked
  <2>9. QED
    BY <2>5, <2>6, <2>7, <2>8 DEF WakeupInv
<1>6. CASE CloseReturns
  <2>1. /\ ctl = "close" /\ ctl' \in {"idle", "create"} /\ ~open'
        /\ pending' = <<>> /\ submitted' = 0 /\ dropped' = 0 /\ removed' = 0
        /\ \A p \in Producers : pc[p] = "idle"
        /\ UNCHANGED <<running, stop, pc, strm>>
    BY <1>6 DEF CloseReturns
  <2>2. ~running
    BY <2>1 DEF WakeupInv, SessionInv, StopPhases
  <2>3. pc[Sender] = "off"
    BY <2>1, <2>2 DEF WakeupInv, SessionInv, SendThreadExists
  <2>4. SessionInv'
    BY <2>1, <2>2
       DEF WakeupInv, SessionInv, SendThreadExists, StreamThreadExists, StopPhases
  <2>5. \A t \in Threads : ~Blocked(t)'
    BY <2>1, <2>3 DEF Blocked, Threads
  <2>6. StopInv' /\ MutexInv'
    BY <2>5 DEF StopInv, MutexInv, Blocked
  <2>7. ThreadInv' /\ ClosedInv'
    BY <2>1 DEF WakeupInv, ThreadInv, ClosedInv
  <2>8. NoLostWakeup'
    BY <1>1, <2>5 DEF NoLostWakeup, SenderBlockedWithCause, ProducerBlockedWithCause
  <2>9. QED
    BY <2>4, <2>6, <2>7, <2>8 DEF WakeupInv
<1>7. QED
  BY <1>2, <1>3, <1>4, <1>5, <1>6

LEMMA WakeupWait ==
  ASSUME TypeOK, WakeupInv, NEW t \in Threads, FallAsleep(t) \/ SpuriousWakeup(t)
  PROVE  WakeupInv'
<1>1. /\ Sender \in Threads /\ Sender \notin Producers
      /\ \A p \in Producers : p \in Threads
  BY EncoderAssumption DEF Threads
<1>2. UNCHANGED <<open, running, stop, ctl, pending, submitted, dropped, removed, strm>>
  BY DEF FallAsleep, SpuriousWakeup, sessionVars, queueVars, streamVars
<1>3. CASE FallAsleep(t)
  <2>1. /\ pc[t] = "sleep" /\ pc'[t] = "wait"
        /\ \A u \in Threads : u # t => pc'[u] = pc[u]
    BY <1>3 DEF FallAsleep, TypeOK
  <2>2. \A u \in Threads : Blocked(u)' = Blocked(u)
    BY <2>1 DEF Blocked
  <2>3. SessionInv'
    BY <1>1, <1>2, <2>1 DEF WakeupInv, SessionInv, SendThreadExists, StreamThreadExists
  <2>4. StopInv' /\ MutexInv'
    BY <1>2, <2>1 DEF WakeupInv, StopInv, MutexInv
  <2>5. ThreadInv'
    BY <1>1, <2>1 DEF WakeupInv, ThreadInv, ProducerStates, SenderStates
  <2>6. ClosedInv'
    BY <1>1, <1>2, <2>1 DEF WakeupInv, ClosedInv, ThreadInv, SessionInv, SendThreadExists, Threads
  <2>7. NoLostWakeup'
    BY <1>1, <1>2, <2>2
       DEF WakeupInv, NoLostWakeup, SenderBlockedWithCause, ProducerBlockedWithCause, QueueFull
  <2>8. QED
    BY <2>3, <2>4, <2>5, <2>6, <2>7 DEF WakeupInv
<1>4. CASE SpuriousWakeup(t)
  <2>1. pc[t] = "wait" /\ pc' = [pc EXCEPT ![t] = "woken"]
    BY <1>4 DEF SpuriousWakeup
  <2>2. open
    BY <1>1, <2>1, OpenWhenBusy DEF Threads
  <2>3. QED
    BY <1>2, <2>1, <2>2, UnblockedMove DEF PcStates, ProducerStates, SenderStates
<1>5. QED
  BY <1>3, <1>4

LEMMA WakeupStream == TypeOK /\ WakeupInv /\ StreamStep => WakeupInv'
<1> SUFFICES ASSUME TypeOK, WakeupInv, StreamStep PROVE WakeupInv'
  OBVIOUS
<1>1. /\ UNCHANGED <<open, running, stop, ctl, pc, pending, submitted, dropped, removed>>
      /\ strm # "off" /\ strm' # "off"
  BY DEF StreamStep, StreamPacket, StreamCallbackReturns, StreamIdlePoll, StreamFlowEnd,
         sessionVars, queueVars
<1>2. SessionInv'
  BY <1>1 DEF WakeupInv, SessionInv, SendThreadExists, StreamThreadExists
<1>3. StopInv' /\ MutexInv' /\ ThreadInv' /\ ClosedInv'
  BY <1>1 DEF WakeupInv, StopInv, MutexInv, ThreadInv, ClosedInv
<1>4. NoLostWakeup'
  BY <1>1 DEF WakeupInv, NoLostWakeup, SenderBlockedWithCause, ProducerBlockedWithCause,
              Blocked, QueueFull
<1>5. QED
  BY <1>2, <1>3, <1>4 DEF WakeupInv

LEMMA WakeupStutter == WakeupInv /\ UNCHANGED vars => WakeupInv'
BY DEF vars, sessionVars, queueVars, stagingVars, streamVars, WakeupInv, SessionInv,
       SendThreadExists, StreamThreadExists, StopInv, MutexInv, ThreadInv, ClosedInv,
       NoLostWakeup, SenderBlockedWithCause, ProducerBlockedWithCause, Blocked, QueueFull

LEMMA WakeupInit == Init => WakeupInv
<1> SUFFICES ASSUME Init PROVE WakeupInv
  OBVIOUS
<1>1. pc[Sender] = "off" /\ \A p \in Producers : pc[p] = "idle"
  BY EncoderAssumption DEF Init, Threads
<1>2. SessionInv
  BY <1>1 DEF Init, SessionInv, SendThreadExists, StreamThreadExists, StopPhases
<1>3. \A t \in Threads : ~Blocked(t)
  BY <1>1 DEF Blocked, Threads
<1>4. StopInv /\ MutexInv
  BY <1>3 DEF StopInv, MutexInv, Blocked
<1>5. ThreadInv /\ ClosedInv
  BY <1>1 DEF Init, ThreadInv, ClosedInv, ProducerStates, SenderStates
<1>6. NoLostWakeup
  BY <1>3 DEF NoLostWakeup, SenderBlockedWithCause, ProducerBlockedWithCause, Threads
<1>7. QED
  BY <1>2, <1>4, <1>5, <1>6 DEF WakeupInv

(***************************************************************************)
(* The inductive invariant holds in every reachable state.                 *)
(***************************************************************************)
THEOREM WakeupInvariant == Spec => []WakeupInv
<1>1. TypeOK /\ WakeupInv /\ [Next]_vars => WakeupInv'
  <2> SUFFICES ASSUME TypeOK, WakeupInv, [Next]_vars PROVE WakeupInv'
    OBVIOUS
  <2>1. CASE Next
    <3>1. SessionActions => WakeupInv'
      BY WakeupStart, WakeupStop DEF SessionActions
    <3>2. QED
      BY <2>1, <3>1, NextCases, WakeupProducer, WakeupSender, WakeupStream, WakeupWait
  <2>2. CASE UNCHANGED vars
    BY <2>2, WakeupStutter
  <2>3. QED
    BY <2>1, <2>2
<1>2. QED
  BY <1>1, TypeCorrect, WakeupInit, PTL DEF Spec

(***************************************************************************)
(* No wakeup is lost: whatever the number of producers and the policy, the *)
(* send thread is never blocked beside a frame to send or a blocked        *)
(* producer, and nobody stays blocked behind a Stop.                       *)
(***************************************************************************)
THEOREM WakeupsKept == Spec => []NoLostWakeup
<1>1. WakeupInv => NoLostWakeup
  BY DEF WakeupInv
<1>2. QED
  BY <1>1, WakeupInvariant, PTL

-----------------------------------------------------------------------------
(* What a step of the encoder may do to the queue and its counters.        *)

(***************************************************************************)
(* The queue never outgrows its depth, so a frame that arrives displaces   *)
(* one frame at most.                                                      *)
(***************************************************************************)
DepthInv == Len(pending) <= QueueDepth

QueueAccepts ==
  /\ Len(pending) < QueueDepth
  /\ pending' = Append(pending, submitted + 1)
  /\ submitted' = submitted + 1
  /\ UNCHANGED <<dropped, removed, taken, policy>>

QueueDisplaces ==
  /\ Len(pending) = QueueDepth
  /\ policy = "kDropOldest"
  /\ pending' = Append(Tail(pending), submitted + 1)
  /\ submitted' = submitted + 1
  /\ dropped' = dropped + 1
  /\ UNCHANGED <<removed, taken, policy>>

QueueRefuses ==
  /\ policy = "kDropNewest"
  /\ dropped' = dropped + 1
  /\ UNCHANGED <<pending, submitted, removed, taken, policy>>

QueueGives ==
  /\ pending # <<>>
  /\ taken' = Head(pending)
  /\ pending' = Tail(pending)
  /\ removed' = removed + 1
  /\ UNCHANGED <<submitted, dropped, policy>>

QueueEmptied ==
  /\ ClearPending
  /\ UNCHANGED <<submitted, dropped, taken, policy>>

QueueReset ==
  /\ pending' = <<>>
  /\ submitted' = 0
  /\ dropped' = 0
  /\ removed' = 0
  /\ taken' = 0

QueueReopened ==
  /\ ~open
  /\ UNCHANGED queueVars

QueueKept == UNCHANGED <<queueVars, policy>>

QueueCases ==
  \/ QueueAccepts
  \/ QueueDisplaces
  \/ QueueRefuses
  \/ QueueGives
  \/ QueueEmptied
  \/ QueueReset
  \/ QueueReopened
  \/ QueueKept

(***************************************************************************)
(* Dropping what is too much of a full queue drops its front.              *)
(***************************************************************************)
LEMMA ExcessIsFront ==
  ASSUME NEW s \in Seq(Nat), s # <<>>
  PROVE  SubSeq(s, 2, Len(s)) = Tail(s)
OBVIOUS

(***************************************************************************)
(* SubmitFrame accepts, displaces, refuses, or leaves the queue alone.     *)
(***************************************************************************)
LEMMA QueueCasesProducer ==
  ASSUME TypeOK, DepthInv, NEW p \in Producers,
         SubmitFrame(p) \/ SubmitLocked(p) \/ SubmitWoken(p)
  PROVE  QueueCases
<1> USE DEF sessionVars, queueVars
<1>1. QueueDepth \in Nat \ {0} /\ pending \in Seq(Nat) /\ Len(pending) \in Nat
  BY EncoderAssumption DEF TypeOK
<1>2. CASE SubmitFrame(p)
  BY <1>2 DEF SubmitFrame, QueueCases, QueueKept
<1>3. ASSUME SubmitPush(p), UNCHANGED <<removed, taken, policy>> PROVE QueueAccepts
  BY <1>1, <1>3 DEF SubmitPush, Push, QueueFull, QueueAccepts
<1>4. ASSUME SubmitDropOldest(p), UNCHANGED <<removed, taken, policy>> PROVE QueueDisplaces
  <2>1. Len(pending) = QueueDepth
    BY <1>1, <1>4 DEF SubmitDropOldest, QueueFull, DepthInv
  <2>2. Len(pending) - QueueDepth + 1 = 1 /\ pending # <<>>
    BY <1>1, <2>1
  <2>3. dropped' = dropped + 1 /\ Push(p, SubSeq(pending, 1 + 1, Len(pending)))
    BY <1>4, <2>2 DEF SubmitDropOldest
  <2>4. SubSeq(pending, 1 + 1, Len(pending)) = Tail(pending)
    BY <1>1, <2>2, ExcessIsFront
  <2>5. QED
    BY <1>4, <2>1, <2>3, <2>4 DEF SubmitDropOldest, Push, QueueDisplaces
<1>5. ASSUME SubmitDropNewest(p), UNCHANGED <<removed, taken, policy>> PROVE QueueRefuses
  BY <1>5 DEF SubmitDropNewest, QueueRefuses
<1>6. ASSUME SubmitBlock(p), UNCHANGED <<removed, taken, policy>> PROVE QueueKept
  BY <1>6 DEF SubmitBlock, QueueKept
<1>7. CASE SubmitLocked(p)
  BY <1>3, <1>4, <1>5, <1>6, <1>7 DEF SubmitLocked, QueueCases
<1>8. CASE SubmitWoken(p)
  <2>1. UNCHANGED <<removed, taken, policy>>
    BY <1>8 DEF SubmitWoken
  <2>2. CASE stop
    BY <1>8, <2>1, <2>2 DEF SubmitWoken, QueueCases, QueueKept
  <2>3. CASE ~stop
    BY <1>3, <1>6, <1>8, <2>1, <2>3 DEF SubmitWoken, QueueCases
  <2>4. QED
    BY <2>2, <2>3
<1>9. QED
  BY <1>2, <1>7, <1>8

(***************************************************************************)
(* The send thread takes the front, or empties the queue on Stop.          *)
(***************************************************************************)
LEMMA QueueCasesSender ==
  SendLoopTop \/ PrepareInputFrame \/ SendAccepted \/ SendRefused => QueueCases
<1> USE DEF sessionVars, queueVars
<1>1. SendLoopTop => QueueEmptied \/ QueueGives \/ QueueKept
  BY DEF SendLoopTop, SendLoopTake, QueueEmptied, QueueGives, QueueKept
<1>2. PrepareInputFrame \/ SendAccepted \/ SendRefused => QueueKept
  BY DEF PrepareInputFrame, SendAccepted, SendRefused, QueueKept
<1>3. QED
  BY <1>1, <1>2 DEF QueueCases

(***************************************************************************)
(* Of the session's calls only Stop, Close and Open concern the queue.     *)
(***************************************************************************)
LEMMA QueueCasesSession ==
  ASSUME WakeupInv, SessionActions
  PROVE  QueueCases
<1> USE DEF queueVars
<1>1. CASE CreateBackend
  <2>1. ~open
    BY <1>1 DEF CreateBackend, WakeupInv, SessionInv
  <2>2. QED
    BY <1>1, <2>1 DEF CreateBackend, QueueCases, QueueReopened
<1>2. CASE SetPacketCallback \/ Start \/ StartBackendFails \/ StartThreads \/ StartReturns
  BY <1>2 DEF SetPacketCallback, Start, StartBackendFails, StartThreads, StartReturns,
              QueueCases, QueueKept
<1>3. CASE (\E g \in {"stop", "close", "open"} : Stop(g))
             \/ (\E g \in {"close", "open"} : CloseStopped(g))
  BY <1>3 DEF Stop, CloseStopped, QueueCases, QueueKept
<1>4. CASE StopClear
  BY <1>4 DEF StopClear, QueueCases, QueueEmptied
<1>5. CASE StopNotify \/ JoinSend \/ StopBackend \/ JoinStream \/ StopReturns
  BY <1>5 DEF StopNotify, JoinSend, StopBackend, JoinStream, StopReturns,
              QueueCases, QueueKept
<1>6. CASE CloseReturns
  BY <1>6 DEF CloseReturns, QueueCases, QueueReset
<1>7. QED
  BY <1>1, <1>2, <1>3, <1>4, <1>5, <1>6 DEF SessionActions

(***************************************************************************)
(* Every step of the encoder does one of these things to the queue.        *)
(***************************************************************************)
LEMMA EveryStepQueue ==
  ASSUME TypeOK, WakeupInv, DepthInv, [Next]_vars
  PROVE  QueueCases
<1> USE DEF sessionVars, queueVars
<1>1. CASE UNCHANGED vars
  BY <1>1 DEF vars, QueueCases, QueueKept
<1>2. CASE Next
  <2>1. StreamStep => QueueCases
    BY DEF StreamStep, StreamPacket, StreamCallbackReturns, StreamIdlePoll, StreamFlowEnd,
           QueueCases, QueueKept
  <2>2. ASSUME NEW t \in Threads, FallAsleep(t) \/ SpuriousWakeup(t)
        PROVE  QueueCases
    BY <2>2 DEF FallAsleep, SpuriousWakeup, QueueCases, QueueKept
  <2>3. QED
    BY <1>2, <2>1, <2>2, NextCases, QueueCasesProducer, QueueCasesSender, QueueCasesSession
<1>3. QED
  BY <1>1, <1>2

-----------------------------------------------------------------------------
(* The statistics add up.                                                  *)

(***************************************************************************)
(* The queue never holds more than QueueDepth frames.                      *)
(***************************************************************************)
THEOREM QueueBounded == Spec => []DepthInv
<1>1. Init => DepthInv
  BY EncoderAssumption DEF Init, DepthInv
<1>2. TypeOK /\ WakeupInv /\ DepthInv /\ [Next]_vars => DepthInv'
  <2> SUFFICES ASSUME TypeOK, WakeupInv, DepthInv, [Next]_vars PROVE DepthInv'
    OBVIOUS
  <2>1. QueueDepth \in Nat \ {0} /\ pending \in Seq(Nat) /\ submitted + 1 \in Nat
    BY EncoderAssumption DEF TypeOK
  <2>2. QueueCases
    BY EveryStepQueue
  <2>3. CASE QueueAccepts
    BY <2>1, <2>3, AppendType DEF QueueAccepts, DepthInv
  <2>4. CASE QueueDisplaces
    <3>1. pending # <<>> /\ Tail(pending) \in Seq(Nat) /\ Len(Tail(pending)) = Len(pending) - 1
      BY <2>1, <2>4 DEF QueueDisplaces
    <3>2. Len(pending') = Len(pending)
      BY <2>1, <2>4, <3>1, AppendType DEF QueueDisplaces
    <3>3. QED
      BY <2>4, <3>2 DEF DepthInv
  <2>5. CASE QueueGives
    BY <2>1, <2>5, TailType DEF QueueGives, DepthInv
  <2>6. CASE QueueEmptied \/ QueueReset
    BY <2>1, <2>6 DEF QueueEmptied, ClearPending, QueueReset, DepthInv
  <2>7. CASE QueueRefuses \/ QueueReopened \/ QueueKept
    BY <2>7 DEF QueueRefuses, QueueReopened, QueueKept, queueVars, DepthInv
  <2>8. QED
    BY <2>2, <2>3, <2>4, <2>5, <2>6, <2>7 DEF QueueCases
<1>3. QED
  BY <1>1, <1>2, TypeCorrect, WakeupInvariant, PTL DEF Spec

(***************************************************************************)
(* Every accepted frame was taken or discarded, is queued, or was counted  *)
(* as dropped, whatever the number of producers and the policy.            *)
(***************************************************************************)
THEOREM StatisticsAddUp == Spec => []FramesAccountedFor
<1>1. Init => FramesAccountedFor
  BY DEF Init, FramesAccountedFor
<1>2. TypeOK /\ WakeupInv /\ DepthInv /\ FramesAccountedFor /\ [Next]_vars
        => FramesAccountedFor'
  <2> SUFFICES ASSUME TypeOK, WakeupInv, DepthInv, FramesAccountedFor, [Next]_vars
               PROVE  FramesAccountedFor'
    OBVIOUS
  <2>1. /\ pending \in Seq(Nat) /\ Len(pending) \in Nat
        /\ submitted \in Nat /\ dropped \in Nat /\ removed \in Nat
        /\ submitted + 1 \in Nat
    BY DEF TypeOK
  <2>2. QueueCases
    BY EveryStepQueue
  <2>3. CASE QueueAccepts
    <3>1. Len(pending') = Len(pending) + 1
      BY <2>1, <2>3, AppendType DEF QueueAccepts
    <3>2. QED
      BY <2>1, <2>3, <3>1 DEF QueueAccepts, FramesAccountedFor
  <2>4. CASE QueueDisplaces
    <3>1. pending # <<>>
      BY <2>1, <2>4, EncoderAssumption DEF QueueDisplaces
    <3>2. Len(pending') = Len(pending)
      BY <2>1, <2>4, <3>1, AppendType, TailType DEF QueueDisplaces
    <3>3. submitted = removed + Len(pending) + dropped /\ policy' = "kDropOldest"
      BY <2>4 DEF QueueDisplaces, FramesAccountedFor
    <3>4. submitted' = submitted + 1 /\ dropped' = dropped + 1 /\ removed' = removed
      BY <2>4 DEF QueueDisplaces
    <3>5. submitted' = removed' + Len(pending') + dropped'
      BY <2>1, <3>2, <3>3, <3>4
    <3>6. QED
      BY <3>3, <3>5 DEF FramesAccountedFor
  <2>5. CASE QueueRefuses
    BY <2>1, <2>5 DEF QueueRefuses, FramesAccountedFor
  <2>6. CASE QueueGives
    <3>1. Len(pending') = Len(pending) - 1
      BY <2>1, <2>6, TailType DEF QueueGives
    <3>2. QED
      BY <2>1, <2>6, <3>1 DEF QueueGives, FramesAccountedFor
  <2>7. CASE QueueEmptied
    BY <2>1, <2>7 DEF QueueEmptied, ClearPending, FramesAccountedFor
  <2>8. CASE QueueReset
    BY <2>8 DEF QueueReset, FramesAccountedFor
  <2>9. CASE QueueReopened
    BY <2>9 DEF QueueReopened, queueVars, WakeupInv, ClosedInv, FramesAccountedFor
  <2>10. CASE QueueKept
    BY <2>10 DEF QueueKept, queueVars, FramesAccountedFor
  <2>11. QED
    BY <2>2, <2>3, <2>4, <2>5, <2>6, <2>7, <2>8, <2>9, <2>10 DEF QueueCases
<1>3. QED
  BY <1>1, <1>2, TypeCorrect, WakeupInvariant, QueueBounded, PTL DEF Spec

-----------------------------------------------------------------------------
(* The input queue is a FrameFifo.                                         *)

(***************************************************************************)
(* The encoder implements a FrameFifo: whatever its threads do, a frame    *)
(* enters at the back, leaves at the front, and only the oldest frame of a *)
(* full queue is displaced.                                                *)
(***************************************************************************)
THEOREM QueueImplementsFifo == Spec => InputQueueSpec
<1>1. Init => InputQueue!Init
  BY DEF Init, InputQueue!Init
<1>2. TypeOK /\ WakeupInv /\ DepthInv /\ [Next]_vars
        => [InputQueue!Next]_(InputQueue!fifoVars)
  <2> SUFFICES ASSUME TypeOK, WakeupInv, DepthInv, [Next]_vars
               PROVE  InputQueue!Next \/ UNCHANGED InputQueue!fifoVars
    OBVIOUS
  <2> USE DEF InputQueue!Next, InputQueue!fifoVars
  <2>1. QueueCases
    BY EveryStepQueue
  <2>2. CASE QueueAccepts
    BY <2>2 DEF QueueAccepts, InputQueue!Accept
  <2>3. CASE QueueDisplaces
    BY <2>3 DEF QueueDisplaces, InputQueue!Displace
  <2>4. CASE QueueGives
    BY <2>4 DEF QueueGives, InputQueue!Take
  <2>5. CASE QueueEmptied
    BY <2>5 DEF QueueEmptied, ClearPending, InputQueue!Discard
  <2>6. CASE QueueReset
    BY <2>6 DEF QueueReset, InputQueue!Reset
  <2>7. CASE QueueRefuses \/ QueueReopened \/ QueueKept
    BY <2>7 DEF QueueRefuses, QueueReopened, QueueKept, queueVars
  <2>8. QED
    BY <2>1, <2>2, <2>3, <2>4, <2>5, <2>6, <2>7 DEF QueueCases
<1>3. QED
  BY <1>1, <1>2, TypeCorrect, WakeupInvariant, QueueBounded, PTL
     DEF Spec, InputQueueSpec, InputQueue!Spec

-----------------------------------------------------------------------------
(* Packets come out in the order of acceptance.                            *)

(***************************************************************************)
(* On its way a frame passes the queue, the send thread (`taken`), the     *)
(* hardware and the packet callback (`latest`); at every moment the frames *)
(* at each stage are newer than all frames at the later ones, and each     *)
(* stage holds its frames in order.                                        *)
(***************************************************************************)
PendingOrder ==
  /\ taken <= submitted
  /\ \A i \in DOMAIN pending : taken < pending[i] /\ pending[i] <= submitted
  /\ \A i, j \in DOMAIN pending : i < j => pending[i] < pending[j]

HwOrder ==
  /\ latest <= taken
  /\ \A i \in DOMAIN hw : latest < hw[i].frame /\ hw[i].frame <= taken
  /\ \A i, j \in DOMAIN hw : i < j => hw[i].frame < hw[j].frame
  /\ pc[Sender] \in {"prepare", "send"} =>
       latest < taken /\ \A i \in DOMAIN hw : hw[i].frame < taken

(***************************************************************************)
(* Whatever a step does to the queue, it stays in order.                   *)
(***************************************************************************)
LEMMA PendingStaysOrdered ==
  ASSUME TypeOK, PendingOrder, QueueCases, WakeupInv
  PROVE  PendingOrder'
<1>1. /\ pending \in Seq(Nat) /\ submitted \in Nat /\ taken \in Nat
      /\ submitted + 1 \in Nat
  BY DEF TypeOK
<1>2. \A i \in DOMAIN pending : pending[i] \in Nat
  BY <1>1
<1>3. CASE QueueAccepts
  <2>1. \A i \in DOMAIN pending' :
           \/ i \in DOMAIN pending /\ pending'[i] = pending[i]
           \/ i = Len(pending) + 1 /\ pending'[i] = submitted + 1
    BY <1>1, <1>3 DEF QueueAccepts
  <2>2. DOMAIN pending = 1 .. Len(pending) /\ Len(pending) \in Nat
    BY <1>1
  <2>3. submitted' = submitted + 1 /\ taken' = taken
    BY <1>3 DEF QueueAccepts
  <2>4. QED
    BY <1>1, <1>2, <2>1, <2>2, <2>3 DEF PendingOrder
<1>4. CASE QueueDisplaces
  <2>0. pending # <<>>
    BY <1>1, <1>4, EncoderAssumption DEF QueueDisplaces
  <2>1. \A i \in DOMAIN pending' :
           \/ i + 1 \in DOMAIN pending /\ pending'[i] = pending[i + 1]
           \/ i = Len(pending) /\ pending'[i] = submitted + 1
    BY <1>1, <1>4, <2>0 DEF QueueDisplaces
  <2>2. /\ DOMAIN pending = 1 .. Len(pending) /\ Len(pending) \in Nat
        /\ \A i \in DOMAIN pending' : i \in Nat
    BY <1>1, <1>4, <2>0 DEF QueueDisplaces
  <2>3. submitted' = submitted + 1 /\ taken' = taken
    BY <1>4 DEF QueueDisplaces
  <2>4. QED
    BY <1>1, <1>2, <2>1, <2>2, <2>3, SMTT(60) DEF PendingOrder
<1>5. CASE QueueGives
  <2>1. /\ 1 \in DOMAIN pending /\ taken' = pending[1] /\ submitted' = submitted
        /\ \A i \in DOMAIN pending' :
              i \in Nat \ {0} /\ i + 1 \in DOMAIN pending /\ pending'[i] = pending[i + 1]
    BY <1>1, <1>5 DEF QueueGives
  <2>2. QED
    BY <1>1, <1>2, <2>1 DEF PendingOrder
<1>6. CASE QueueEmptied
  BY <1>6 DEF QueueEmptied, ClearPending, PendingOrder
<1>7. CASE QueueReset
  BY <1>7 DEF QueueReset, PendingOrder
<1>8. CASE QueueRefuses \/ QueueReopened \/ QueueKept
  BY <1>8 DEF QueueRefuses, QueueReopened, QueueKept, queueVars, PendingOrder
<1>9. QED
  BY <1>3, <1>4, <1>5, <1>6, <1>7, <1>8 DEF QueueCases

(***************************************************************************)
(* Other threads do not move the send thread to where it holds a frame.    *)
(***************************************************************************)
LEMMA HwUntouched ==
  ASSUME HwOrder, UNCHANGED <<hw, latest, taken>>,
         pc'[Sender] \in {"prepare", "send"} => pc[Sender] \in {"prepare", "send"}
  PROVE  HwOrder'
BY DEF HwOrder

LEMMA HwOrderProducer ==
  ASSUME TypeOK, HwOrder, NEW p \in Producers,
         SubmitFrame(p) \/ SubmitLocked(p) \/ SubmitWoken(p)
  PROVE  HwOrder'
<1> USE DEF sessionVars, queueVars, stagingVars, streamVars
<1>1. Sender \in Threads /\ Sender # p /\ p \in Threads
  BY EncoderAssumption DEF Threads
<1>2. UNCHANGED <<hw, latest, taken>>
  BY DEF SubmitFrame, SubmitLocked, SubmitWoken
<1>3. ASSUME NEW queue, Push(p, queue), pc'[Sender] \in {"prepare", "send"}
      PROVE  pc[Sender] \in {"prepare", "send"}
  <2>1. [pc EXCEPT ![p] = "idle"] \in [Threads -> PcStates]
    BY DEF TypeOK, PcStates
  <2>2. pc'[Sender] = pc[Sender] \/ pc'[Sender] = "woken"
    BY <1>1, <1>3, <2>1, WakeOneMoves, ZenonT(60) DEF Push, TypeOK
  <2>3. QED
    BY <1>3, <2>2
<1>4. pc'[Sender] \in {"prepare", "send"} => pc[Sender] \in {"prepare", "send"}
  BY <1>1, <1>3 DEF SubmitFrame, SubmitLocked, SubmitWoken, SubmitPush, SubmitDropOldest,
                    SubmitDropNewest, SubmitBlock, TypeOK
<1>5. QED
  BY <1>2, <1>4, HwUntouched

LEMMA HwFrameType ==
  ASSUME TypeOK, NEW i \in DOMAIN hw
  PROVE  hw[i].frame \in Nat
<1>1. hw \in Seq(HwEntries)
  BY DEF TypeOK
<1>2. hw[i] \in HwEntries
  BY <1>1
<1>3. QED
  BY <1>2 DEF HwEntries

LEMMA HwOrderSender ==
  ASSUME TypeOK, PendingOrder, HwOrder,
         SendLoopTop \/ PrepareInputFrame \/ SendAccepted \/ SendRefused
  PROVE  HwOrder'
<1> USE DEF sessionVars, queueVars, stagingVars, streamVars
<1>1. /\ Sender \in Threads /\ taken \in Nat /\ latest \in Nat /\ pending \in Seq(Nat)
      /\ hw \in Seq(HwEntries) /\ pc \in [Threads -> PcStates]
  BY EncoderAssumption DEF TypeOK, Threads
<1>2. \A i \in DOMAIN hw : hw[i].frame \in Nat
  BY HwFrameType
<1>3. CASE SendLoopTop /\ taken' = taken
  <2>1. pc'[Sender] \notin {"prepare", "send"}
    BY <1>1, <1>3 DEF SendLoopTop, SendLoopTake, PendingOrder
  <2>2. QED
    BY <1>3, <2>1, HwUntouched DEF SendLoopTop
<1>4. CASE SendLoopTop /\ taken' # taken
  <2>1. pending # <<>> /\ taken' = pending[1]
    BY <1>1, <1>4 DEF SendLoopTop, SendLoopTake
  <2>2. taken < taken' /\ taken' \in Nat
    BY <1>1, <2>1 DEF PendingOrder
  <2>3. UNCHANGED <<hw, latest>>
    BY <1>4 DEF SendLoopTop
  <2>4. QED
    BY <1>1, <1>2, <2>2, <2>3 DEF HwOrder
<1>5. CASE PrepareInputFrame
  <2>1. UNCHANGED <<hw, latest, taken>> /\ pc[Sender] = "prepare"
    BY <1>5 DEF PrepareInputFrame
  <2>2. QED
    BY <2>1, HwUntouched
<1>6. CASE SendAccepted
  <2>1. /\ pc[Sender] = "send" /\ pc'[Sender] = "lock"
        /\ UNCHANGED <<latest, taken>>
    BY <1>1, <1>6 DEF SendAccepted
  <2>2. \A i \in DOMAIN hw' :
           \/ i \in DOMAIN hw /\ hw'[i].frame = hw[i].frame
           \/ i = Len(hw) + 1 /\ hw'[i].frame = taken
    BY <1>1, <1>6 DEF SendAccepted
  <2>3. DOMAIN hw = 1 .. Len(hw) /\ Len(hw) \in Nat
    BY <1>1
  <2>4. QED
    BY <1>1, <1>2, <2>1, <2>2, <2>3 DEF HwOrder
<1>7. CASE SendRefused
  <2>1. UNCHANGED <<hw, latest, taken>> /\ pc[Sender] = "send"
    BY <1>7 DEF SendRefused
  <2>2. QED
    BY <2>1, HwUntouched
<1>8. QED
  BY <1>3, <1>4, <1>5, <1>6, <1>7

LEMMA HwOrderStream ==
  ASSUME TypeOK, HwOrder, StreamStep
  PROVE  HwOrder' /\ (latest' # latest => latest' > latest)
<1> USE DEF sessionVars, queueVars, stagingVars, streamVars
<1>1. taken \in Nat /\ latest \in Nat /\ hw \in Seq(HwEntries)
  BY DEF TypeOK
<1>2. \A i \in DOMAIN hw : hw[i].frame \in Nat
  BY HwFrameType
<1>3. CASE StreamPacket
  <2>1. /\ 1 \in DOMAIN hw /\ latest' = hw[1].frame /\ UNCHANGED <<taken, pc>>
        /\ \A i \in DOMAIN hw' : i \in Nat \ {0} /\ i + 1 \in DOMAIN hw /\ hw'[i] = hw[i + 1]
    BY <1>1, <1>3 DEF StreamPacket
  <2>2. latest < latest' /\ latest' <= taken /\ latest' \in Nat
    BY <1>1, <1>2, <2>1 DEF HwOrder
  <2>3. \A i \in DOMAIN hw' : /\ latest' < hw'[i].frame
                              /\ hw'[i].frame <= taken'
                              /\ pc'[Sender] \in {"prepare", "send"} => hw'[i].frame < taken'
    <3> SUFFICES ASSUME NEW i \in DOMAIN hw'
                 PROVE  /\ latest' < hw'[i].frame
                        /\ hw'[i].frame <= taken'
                        /\ pc'[Sender] \in {"prepare", "send"} => hw'[i].frame < taken'
      OBVIOUS
    <3>1. /\ i \in Nat /\ 1 < i + 1 /\ i + 1 \in DOMAIN hw
          /\ hw'[i].frame = hw[i + 1].frame
      BY <2>1
    <3>2. QED
      BY <2>1, <3>1 DEF HwOrder
  <2>4. \A i, j \in DOMAIN hw' : i < j => hw'[i].frame < hw'[j].frame
    <3> SUFFICES ASSUME NEW i \in DOMAIN hw', NEW j \in DOMAIN hw', i < j
                 PROVE  hw'[i].frame < hw'[j].frame
      OBVIOUS
    <3>1. /\ i + 1 < j + 1 /\ i + 1 \in DOMAIN hw /\ j + 1 \in DOMAIN hw
          /\ hw'[i].frame = hw[i + 1].frame /\ hw'[j].frame = hw[j + 1].frame
      BY <2>1
    <3>2. QED
      BY <3>1 DEF HwOrder
  <2>5. pc'[Sender] \in {"prepare", "send"} => latest' < taken'
    BY <2>1 DEF HwOrder
  <2>6. QED
    BY <2>1, <2>2, <2>3, <2>4, <2>5 DEF HwOrder
<1>4. CASE StreamCallbackReturns \/ StreamIdlePoll \/ StreamFlowEnd
  <2>1. UNCHANGED <<hw, latest, taken, pc>>
    BY <1>4 DEF StreamCallbackReturns, StreamIdlePoll, StreamFlowEnd
  <2>2. QED
    BY <2>1, HwUntouched
<1>5. QED
  BY <1>3, <1>4 DEF StreamStep

LEMMA HwOrderSession ==
  ASSUME TypeOK, WakeupInv, HwOrder, SessionActions
  PROVE  HwOrder' /\ (latest' # latest => ~open')
<1> USE DEF queueVars, stagingVars, streamVars
<1>1. Sender \in Threads /\ pc \in [Threads -> PcStates] /\ taken \in Nat /\ latest \in Nat
  BY EncoderAssumption DEF TypeOK, Threads
<1>2. CASE CreateBackend \/ SetPacketCallback \/ Start \/ StartBackendFails \/ StartReturns
             \/ (\E g \in {"stop", "close", "open"} : Stop(g))
             \/ (\E g \in {"close", "open"} : CloseStopped(g))
             \/ StopClear \/ JoinStream
  <2>1. UNCHANGED <<hw, latest, taken, pc>>
    BY <1>2 DEF CreateBackend, SetPacketCallback, Start, StartBackendFails, StartReturns,
                Stop, CloseStopped, StopClear, JoinStream
  <2>2. QED
    BY <2>1, HwUntouched
<1>3. CASE StopNotify \/ JoinSend \/ StopReturns
  <2>1. UNCHANGED <<hw, latest, taken>>
    BY <1>3 DEF StopNotify, JoinSend, StopReturns
  <2>2. pc'[Sender] \in {"prepare", "send"} => pc[Sender] \in {"prepare", "send"}
    BY <1>1, <1>3, WakeAllMoves DEF StopNotify, JoinSend, StopReturns
  <2>3. QED
    BY <2>1, <2>2, HwUntouched
<1>4. CASE StartThreads
  <2>1. hw' = <<>> /\ UNCHANGED <<latest, taken>> /\ pc'[Sender] = "lock"
    BY <1>1, <1>4 DEF StartThreads
  <2>2. QED
    BY <2>1 DEF HwOrder
<1>5. CASE StopBackend
  <2>1. (hw' = hw \/ hw' = <<>>) /\ UNCHANGED <<latest, taken, pc>>
    BY <1>5 DEF StopBackend
  <2>2. QED
    BY <2>1 DEF HwOrder
<1>6. CASE CloseReturns
  <2>1. pc[Sender] = "off"
    BY <1>6 DEF CloseReturns, WakeupInv, SessionInv, SendThreadExists, StopPhases
  <2>2. hw' = <<>> /\ latest' = 0 /\ taken' = 0 /\ pc' = pc /\ ~open'
    BY <1>6 DEF CloseReturns
  <2>3. QED
    BY <2>1, <2>2 DEF HwOrder
<1>7. QED
  BY <1>2, <1>3, <1>4, <1>5, <1>6 DEF SessionActions

LEMMA HwOrderWait ==
  ASSUME TypeOK, HwOrder, NEW t \in Threads, FallAsleep(t) \/ SpuriousWakeup(t)
  PROVE  HwOrder'
<1>1. UNCHANGED <<hw, latest, taken>>
  BY DEF FallAsleep, SpuriousWakeup, queueVars, streamVars
<1>2. pc'[Sender] \in {"prepare", "send"} => pc[Sender] \in {"prepare", "send"}
  BY EncoderAssumption DEF FallAsleep, SpuriousWakeup, TypeOK, Threads
<1>3. QED
  BY <1>1, <1>2, HwUntouched

LEMMA HwOrderStep ==
  ASSUME TypeOK, WakeupInv, PendingOrder, HwOrder, [Next]_vars
  PROVE  HwOrder' /\ (latest' # latest => latest' > latest \/ ~open')
<1> USE DEF sessionVars, queueVars, stagingVars, streamVars
<1>1. CASE UNCHANGED vars
  BY <1>1, HwUntouched DEF vars
<1>2. ASSUME NEW p \in Producers, SubmitFrame(p) \/ SubmitLocked(p) \/ SubmitWoken(p)
      PROVE  HwOrder' /\ latest' = latest
  BY <1>2, HwOrderProducer DEF SubmitFrame, SubmitLocked, SubmitWoken
<1>3. ASSUME SendLoopTop \/ PrepareInputFrame \/ SendAccepted \/ SendRefused
      PROVE  HwOrder' /\ latest' = latest
  BY <1>3, HwOrderSender DEF SendLoopTop, PrepareInputFrame, SendAccepted, SendRefused
<1>4. ASSUME NEW t \in Threads, FallAsleep(t) \/ SpuriousWakeup(t)
      PROVE  HwOrder' /\ latest' = latest
  BY <1>4, HwOrderWait DEF FallAsleep, SpuriousWakeup
<1>5. QED
  BY <1>1, <1>2, <1>3, <1>4, NextCases, HwOrderStream, HwOrderSession

(***************************************************************************)
(* The order of frames along the encoder holds in every reachable state.   *)
(***************************************************************************)
THEOREM OrderInvariant == Spec => [](PendingOrder /\ HwOrder)
<1>1. Init => PendingOrder /\ HwOrder
  <2> SUFFICES ASSUME Init PROVE PendingOrder /\ HwOrder
    OBVIOUS
  <2>1. pc[Sender] = "off"
    BY EncoderAssumption DEF Init, Threads
  <2>2. QED
    BY <2>1 DEF Init, PendingOrder, HwOrder
<1>2. TypeOK /\ WakeupInv /\ DepthInv /\ PendingOrder /\ HwOrder /\ [Next]_vars
        => PendingOrder' /\ HwOrder'
  BY EveryStepQueue, PendingStaysOrdered, HwOrderStep
<1>3. QED
  BY <1>1, <1>2, TypeCorrect, WakeupInvariant, QueueBounded, PTL DEF Spec

(***************************************************************************)
(* Packets come out in the order in which SubmitFrame accepted the frames, *)
(* each at most once, across Stop and Start, until Close.                  *)
(***************************************************************************)
THEOREM PacketsStayInOrder == Spec => PacketsInOrder
<1>1. TypeOK /\ WakeupInv /\ PendingOrder /\ HwOrder /\ [Next]_vars
        => [latest' > latest \/ ~open']_latest
  BY HwOrderStep
<1>2. QED
  BY <1>1, TypeCorrect, WakeupInvariant, OrderInvariant, PTL DEF Spec, PacketsInOrder

-----------------------------------------------------------------------------
(* Nothing of a session is left when it is over.                           *)

(***************************************************************************)
(* The send thread holds a staging image only between PrepareInputFrame    *)
(* and SendFrameToEncoder, and the lists are empty between sessions.       *)
(***************************************************************************)
WorkInv == work # NoBuffer => pc[Sender] = "send"

QuietInv ==
  ~running /\ ctl # "started" => reusable = <<>> /\ inflight = <<>> /\ hold = <<>>

(***************************************************************************)
(* Only the send thread's own steps take it away from "send".              *)
(***************************************************************************)
LEMMA SenderStays ==
  ASSUME TypeOK, pc[Sender] = "send", Next,
         ~(PrepareInputFrame \/ SendLoopTop \/ SendAccepted \/ SendRefused),
         ctl # "start"
  PROVE  pc'[Sender] = "send"
<1> USE DEF sessionVars, queueVars, stagingVars, streamVars
<1>1. Sender \in Threads /\ pc \in [Threads -> PcStates] /\ Producers \subseteq Threads
  BY EncoderAssumption DEF TypeOK, Threads
<1>2. SessionActions => pc'[Sender] = "send"
  <2> SUFFICES ASSUME SessionActions PROVE pc'[Sender] = "send"
    OBVIOUS
  <2>1. CASE pc' = pc
    BY <2>1
  <2>2. CASE StopNotify \/ StopReturns
    BY <1>1, <2>2, WakeAllMoves DEF StopNotify, StopReturns
  <2>3. QED
    BY <2>1, <2>2
       DEF SessionActions, CreateBackend, SetPacketCallback, Start, StartBackendFails,
           StartThreads, StartReturns, Stop, CloseStopped, StopClear, JoinSend, StopBackend,
           JoinStream, CloseReturns
<1>3. ASSUME NEW p \in Producers, SubmitFrame(p) \/ SubmitLocked(p) \/ SubmitWoken(p)
      PROVE  pc'[Sender] = "send"
  <2>1. Sender # p /\ p \in Threads
    BY <1>1, EncoderAssumption
  <2>2. ASSUME NEW queue, Push(p, queue) PROVE pc'[Sender] = "send"
    <3>1. [pc EXCEPT ![p] = "idle"] \in [Threads -> PcStates]
      BY <1>1 DEF PcStates
    <3>2. [pc EXCEPT ![p] = "idle"][Sender] = "send"
      BY <1>1, <2>1
    <3>3. pc' \in WakeOne([pc EXCEPT ![p] = "idle"])
      BY <2>2 DEF Push
    <3>4. QED
      BY <1>1, <3>1, <3>2, <3>3, WakeOneMoves, ZenonT(60)
  <2>3. QED
    BY <1>1, <1>3, <2>1, <2>2
       DEF SubmitFrame, SubmitLocked, SubmitWoken, SubmitPush, SubmitDropOldest,
           SubmitDropNewest, SubmitBlock
<1>4. StreamStep => pc'[Sender] = "send"
  BY DEF StreamStep, StreamPacket, StreamCallbackReturns, StreamIdlePoll, StreamFlowEnd
<1>5. ASSUME NEW t \in Threads, FallAsleep(t) \/ SpuriousWakeup(t)
      PROVE  pc'[Sender] = "send"
  BY <1>1, <1>5 DEF FallAsleep, SpuriousWakeup
<1>6. QED
  BY <1>2, <1>3, <1>4, <1>5, NextCases

(***************************************************************************)
(* Every step but those of the send thread and the end of Stop and Close   *)
(* leaves the staging images alone.                                        *)
(***************************************************************************)
LEMMA StagingUntouched ==
  ASSUME Next, ~(PrepareInputFrame \/ SendAccepted \/ SendRefused),
         ~(StopReturns \/ CloseReturns)
  PROVE  UNCHANGED stagingVars
<1> USE DEF sessionVars, queueVars, streamVars
<1>1. SessionActions => UNCHANGED stagingVars
  BY DEF SessionActions, CreateBackend, SetPacketCallback, Start, StartBackendFails,
         StartThreads, StartReturns, Stop, CloseStopped, StopClear, StopNotify, JoinSend,
         StopBackend, JoinStream
<1>2. ASSUME NEW p \in Producers, SubmitFrame(p) \/ SubmitLocked(p) \/ SubmitWoken(p)
      PROVE  UNCHANGED stagingVars
  BY <1>2 DEF SubmitFrame, SubmitLocked, SubmitWoken
<1>3. SendLoopTop => UNCHANGED stagingVars
  BY DEF SendLoopTop
<1>4. StreamStep => UNCHANGED stagingVars
  BY DEF StreamStep, StreamPacket, StreamCallbackReturns, StreamIdlePoll, StreamFlowEnd,
         stagingVars
<1>5. ASSUME NEW t \in Threads, FallAsleep(t) \/ SpuriousWakeup(t)
      PROVE  UNCHANGED stagingVars
  BY <1>5 DEF FallAsleep, SpuriousWakeup
<1>6. QED
  BY <1>1, <1>2, <1>3, <1>4, <1>5, NextCases

(***************************************************************************)
(* Where an image in preparation can be.                                   *)
(***************************************************************************)
LEMMA WorkStep ==
  ASSUME TypeOK, WakeupInv, WorkInv, [Next]_vars
  PROVE  WorkInv'
<1>1. Sender \in Threads /\ pc \in [Threads -> PcStates]
  BY EncoderAssumption DEF TypeOK, Threads
<1>2. CASE UNCHANGED vars
  BY <1>2 DEF vars, stagingVars, WorkInv
<1>3. CASE PrepareInputFrame
  <2>1. work' = NoBuffer \/ pc'[Sender] = "send"
    BY <1>1, <1>3 DEF PrepareInputFrame, PrepareAlias, PrepareStage, PrepareHost,
                      PrepareFails, Prepared, Lost
  <2>2. QED
    BY <2>1 DEF WorkInv
<1>4. CASE SendAccepted \/ SendRefused
  BY <1>4 DEF SendAccepted, SendRefused, Lost, WorkInv
<1>5. CASE SendLoopTop
  BY <1>5 DEF SendLoopTop, stagingVars, WorkInv
<1>6. CASE Next /\ ~(PrepareInputFrame \/ SendLoopTop \/ SendAccepted \/ SendRefused)
  <2>1. work' = work
    BY <1>6, StagingUntouched DEF stagingVars, StopReturns, CloseReturns
  <2>2. CASE work = NoBuffer
    BY <2>1, <2>2 DEF WorkInv
  <2>3. CASE work # NoBuffer
    <3>1. pc[Sender] = "send"
      BY <2>3 DEF WorkInv
    <3>2. CASE ctl # "start"
      BY <1>6, <3>1, <3>2, SenderStays DEF WorkInv
    <3>3. CASE ctl = "start"
      BY <3>1, <3>3 DEF WakeupInv, SessionInv, SendThreadExists, StopPhases
    <3>4. QED
      BY <3>2, <3>3
  <2>4. QED
    BY <2>2, <2>3
<1>7. QED
  BY <1>2, <1>3, <1>4, <1>5, <1>6

(***************************************************************************)
(* The lists stay empty between sessions.                                  *)
(***************************************************************************)
LEMMA QuietStep ==
  ASSUME TypeOK, WakeupInv, QuietInv, [Next]_vars
  PROVE  QuietInv'
<1>1. CASE UNCHANGED vars
  BY <1>1 DEF vars, sessionVars, stagingVars, QuietInv
<1>2. CASE PrepareInputFrame \/ SendAccepted \/ SendRefused
  <2>1. pc[Sender] # "off" /\ UNCHANGED <<running, ctl>>
    BY <1>2 DEF PrepareInputFrame, SendAccepted, SendRefused, sessionVars
  <2>2. running \/ ctl = "started"
    BY <2>1 DEF WakeupInv, SessionInv, SendThreadExists
  <2>3. QED
    BY <2>1, <2>2 DEF QuietInv
<1>3. CASE StopReturns \/ CloseReturns
  BY <1>3 DEF StopReturns, CloseReturns, QuietInv
<1>4. CASE Next /\ ~(PrepareInputFrame \/ SendAccepted \/ SendRefused)
                /\ ~(StopReturns \/ CloseReturns)
  <2>1. UNCHANGED <<reusable, inflight, hold>>
    BY <1>4, StagingUntouched DEF stagingVars
  <2>2. ~running' /\ ctl' # "started" => ~running /\ ctl # "started"
    <3>1. ASSUME SessionActions PROVE ~running' /\ ctl' # "started" => ~running /\ ctl # "started"
      BY <1>4, <3>1
         DEF SessionActions, CreateBackend, SetPacketCallback, Start, StartBackendFails,
             StartThreads, StartReturns, Stop, CloseStopped, StopClear, StopNotify, JoinSend,
             StopBackend, JoinStream
    <3>2. ~SessionActions => UNCHANGED <<running, ctl>>
      BY <1>4, NextCases
         DEF SubmitFrame, SubmitLocked, SubmitWoken, SendLoopTop, StreamStep, StreamPacket,
             StreamCallbackReturns, StreamIdlePoll, StreamFlowEnd, FallAsleep,
             SpuriousWakeup, sessionVars
    <3>3. QED
      BY <3>1, <3>2
  <2>3. QED
    BY <2>1, <2>2 DEF QuietInv
<1>5. QED
  BY <1>1, <1>2, <1>3, <1>4

(***************************************************************************)
(* Between sessions no thread of the encoder runs and no image is owned:   *)
(* whatever Stop interrupted, RemoveOutput may close the muxer the packet  *)
(* callback uses.                                                          *)
(***************************************************************************)
THEOREM QuietAfterStop == Spec => []QuietWhenStopped
<1>1. Init => WorkInv /\ QuietInv
  BY DEF Init, WorkInv, QuietInv
<1>2. TypeOK /\ WakeupInv /\ WorkInv /\ QuietInv /\ [Next]_vars => WorkInv' /\ QuietInv'
  BY WorkStep, QuietStep
<1>3. WakeupInv /\ WorkInv /\ QuietInv => QuietWhenStopped
  <2> SUFFICES ASSUME WakeupInv, WorkInv, QuietInv, ~running, ctl # "started"
               PROVE  /\ pc[Sender] = "off"
                      /\ strm = "off"
                      /\ OwnedBuffers = {}
                      /\ hold = <<>>
    BY DEF QuietWhenStopped
  <2>1. pc[Sender] = "off" /\ strm = "off"
    BY DEF WakeupInv, SessionInv, SendThreadExists, StreamThreadExists
  <2>2. work = NoBuffer /\ reusable = <<>> /\ inflight = <<>> /\ hold = <<>>
    BY <2>1 DEF WorkInv, QuietInv
  <2>3. ImageIds(<<>>) = {}
    BY DEF ImageIds
  <2>4. QED
    BY <2>1, <2>2, <2>3 DEF OwnedBuffers
<1>4. QED
  BY <1>1, <1>2, <1>3, TypeCorrect, WakeupInvariant, PTL DEF Spec

-----------------------------------------------------------------------------
(* The staging images: who owns which, and how many there are.             *)

(***************************************************************************)
(* No two images are cut from one buffer.  Fits says it of the pool and    *)
(* the image in preparation, beside the images in the window, and bounds   *)
(* their number: of the target size, two more than the window holds; of a  *)
(* host frame's size, one, which is always in the pool between two steps.  *)
(***************************************************************************)
Distinct(images) == \A i, j \in DOMAIN images : images[i].id = images[j].id => i = j

Disjoint(pool, owned) == Distinct(pool) /\ \A i \in DOMAIN pool : pool[i].id \notin owned

Count(images, d) == Cardinality({i \in DOMAIN images : images[i].desc = d})

Fits(pool, image, window) ==
  /\ Disjoint(pool, ImageIds(window))
  /\ image # NoBuffer =>
       /\ image.desc = "target"
       /\ image.id \notin ImageIds(window) \union ImageIds(pool)
  /\ Count(pool, "target") + Len(window) + (IF image = NoBuffer THEN 0 ELSE 1) <= StagingDepth + 2
  /\ Count(pool, "source") <= 1

WindowInv ==
  /\ Distinct(inflight)
  /\ \A i \in DOMAIN inflight : inflight[i].desc = "target"
  /\ Len(inflight) <= StagingDepth
  /\ Len(hold) <= HoldDepth

StagingInv == Fits(reusable, work, inflight) /\ WindowInv

LEMMA Depths ==
  /\ StagingDepth \in Nat /\ StagingDepth > 0
  /\ HoldDepth \in Nat /\ HoldDepth > 0
  /\ NoBuffer \notin Buffers
  /\ Descriptors = {"target", "source"}
BY EncoderAssumption DEF Descriptors

LEMMA CountType ==
  ASSUME NEW images \in Seq(Images), NEW d
  PROVE  Count(images, d) \in Nat /\ IsFiniteSet({i \in DOMAIN images : images[i].desc = d})
<1>1. DOMAIN images = 1 .. Len(images) /\ Len(images) \in Nat
  OBVIOUS
<1>2. IsFiniteSet(1 .. Len(images))
  BY <1>1, FS_Interval
<1>3. {i \in DOMAIN images : images[i].desc = d} \in SUBSET (1 .. Len(images))
  BY <1>1
<1>4. IsFiniteSet({i \in DOMAIN images : images[i].desc = d})
  BY <1>2, <1>3, FS_Subset
<1>5. QED
  BY <1>4, FS_CardinalityType DEF Count

LEMMA CountEmpty == \A d : Count(<<>>, d) = 0
<1>1. \A d : {i \in DOMAIN <<>> : <<>>[i].desc = d} = {}
  OBVIOUS
<1>2. QED
  BY <1>1, FS_EmptySet DEF Count

LEMMA EmptyFits ==
  /\ Fits(<<>>, NoBuffer, <<>>)
  /\ Distinct(<<>>) /\ \A i \in DOMAIN <<>> : <<>>[i].desc = "target"
  /\ Len(<<>>) <= StagingDepth /\ Len(<<>>) <= HoldDepth
<1>1. DOMAIN <<>> = {} /\ Len(<<>>) = 0
  OBVIOUS
<1>2. Distinct(<<>>) /\ Disjoint(<<>>, ImageIds(<<>>))
  BY <1>1 DEF Distinct, Disjoint
<1>3. Count(<<>>, "target") + Len(<<>>) + 0 <= StagingDepth + 2 /\ Count(<<>>, "source") <= 1
  BY <1>1, CountEmpty, Depths
<1>4. QED
  BY <1>1, <1>2, <1>3, Depths DEF Fits

LEMMA CountAppend ==
  ASSUME NEW images \in Seq(Images), NEW image \in Images, NEW d
  PROVE  Count(Append(images, image), d) = Count(images, d) + (IF image.desc = d THEN 1 ELSE 0)
<1> DEFINE new == Append(images, image)
           old == {i \in DOMAIN images : images[i].desc = d}
           end == Len(images) + 1
<1>1. /\ DOMAIN new = 1 .. end /\ DOMAIN images = 1 .. Len(images) /\ Len(images) \in Nat
      /\ new[end] = image /\ \A i \in DOMAIN images : new[i] = images[i]
  OBVIOUS
<1>2. {i \in DOMAIN new : new[i].desc = d} = IF image.desc = d THEN old \union {end} ELSE old
  <2> HIDE DEF new
  <2>1. QED
    BY <1>1
<1>3. IsFiniteSet(old) /\ Cardinality(old) \in Nat /\ end \notin old
  <2>1. IsFiniteSet(old) /\ Cardinality(old) \in Nat
    BY CountType DEF Count
  <2>2. end \notin DOMAIN images
    BY <1>1
  <2>3. QED
    BY <2>1, <2>2
<1> HIDE DEF new, old, end
<1>4. Cardinality(old \union {end}) = Cardinality(old) + 1
  BY <1>3, FS_AddElement
<1>5. Count(new, d) = Cardinality(IF image.desc = d THEN old \union {end} ELSE old)
  BY <1>2 DEF Count
<1>6. Count(images, d) = Cardinality(old)
  BY DEF Count, old
<1>7. Count(new, d) = Count(images, d) + (IF image.desc = d THEN 1 ELSE 0)
  <2>1. CASE image.desc = d
    BY <1>4, <1>5, <1>6, <2>1
  <2>2. CASE image.desc # d
    BY <1>3, <1>5, <1>6, <2>2
  <2>3. QED
    BY <2>1, <2>2
<1>8. QED
  BY <1>7 DEF new

LEMMA ConcatType ==
  ASSUME NEW S, NEW s \in Seq(S), NEW t \in Seq(S)
  PROVE  s \o t \in Seq(S) /\ Len(s \o t) = Len(s) + Len(t)
OBVIOUS

(***************************************************************************)
(* What RemoveAt leaves at each place.                                     *)
(***************************************************************************)
LEMMA RemoveAtElements ==
  ASSUME NEW S, NEW s \in Seq(S), NEW i \in DOMAIN s
  PROVE  /\ RemoveAt(s, i) \in Seq(S) /\ Len(RemoveAt(s, i)) = Len(s) - 1
         /\ \A j \in DOMAIN RemoveAt(s, i) :
              LET k == IF j < i THEN j ELSE j + 1
              IN  /\ i \in Nat /\ j \in Nat
                  /\ k \in DOMAIN s /\ k # i /\ RemoveAt(s, i)[j] = s[k]
<1> DEFINE front == SubSeq(s, 1, i - 1)
           back == SubSeq(s, i + 1, Len(s))
<1>1. i \in 1 .. Len(s) /\ Len(s) \in Nat /\ DOMAIN s = 1 .. Len(s)
  OBVIOUS
<1>2. front \in Seq(S) /\ Len(front) = i - 1 /\ \A j \in 1 .. i - 1 : front[j] = s[j]
  BY <1>1
<1>3. back \in Seq(S) /\ Len(back) = Len(s) - i /\ \A j \in 1 .. Len(s) - i : back[j] = s[j + i]
  BY <1>1
<1> HIDE DEF front, back
<1>4. RemoveAt(s, i) = front \o back
  BY DEF RemoveAt, front, back
<1>5. front \o back \in Seq(S) /\ Len(front \o back) = Len(s) - 1
  <2>1. front \o back \in Seq(S) /\ Len(front \o back) = Len(front) + Len(back)
    BY <1>2, <1>3, ConcatType
  <2>2. QED
    BY <1>1, <1>2, <1>3, <2>1
<1>6. ASSUME NEW j \in DOMAIN (front \o back)
      PROVE  LET k == IF j < i THEN j ELSE j + 1
             IN  /\ i \in Nat /\ j \in Nat
                 /\ k \in DOMAIN s /\ k # i /\ (front \o back)[j] = s[k]
  <2>1. j \in 1 .. Len(s) - 1
    BY <1>1, <1>5
  <2>2. CASE j < i
    BY <1>1, <1>2, <1>3, <2>1, <2>2
  <2>3. CASE ~(j < i)
    <3>1. (front \o back)[j] = back[j - (i - 1)]
      BY <1>1, <1>2, <1>3, <2>1, <2>3
    <3>2. j - (i - 1) \in 1 .. Len(s) - i
      BY <1>1, <2>1, <2>3
    <3>3. back[j - (i - 1)] = s[j + 1]
      <4>1. back[j - (i - 1)] = s[j - (i - 1) + i]
        BY <1>3, <3>2
      <4>2. j - (i - 1) + i = j + 1
        BY <1>1, <2>1
      <4>3. QED
        BY <4>1, <4>2
    <3>4. QED
      BY <1>1, <2>1, <2>3, <3>1, <3>3
  <2>4. QED
    BY <2>2, <2>3
<1>7. QED
  BY <1>4, <1>5, <1>6

LEMMA CountRemove ==
  ASSUME NEW pool \in Seq(Images), NEW i \in DOMAIN pool, NEW d
  PROVE  /\ Count(RemoveAt(pool, i), d) <= Count(pool, d)
         /\ pool[i].desc = d => Count(RemoveAt(pool, i), d) + 1 <= Count(pool, d)
<1> DEFINE rest == RemoveAt(pool, i)
           left == {j \in DOMAIN rest : rest[j].desc = d}
           all == {j \in DOMAIN pool : pool[j].desc = d}
           place == [j \in left |-> IF j < i THEN j ELSE j + 1]
<1>1. /\ rest \in Seq(Images)
      /\ \A j \in DOMAIN rest :
           LET k == IF j < i THEN j ELSE j + 1
           IN  i \in Nat /\ j \in Nat /\ k \in DOMAIN pool /\ k # i /\ rest[j] = pool[k]
  BY RemoveAtElements
<1> HIDE DEF rest
<1>2. ASSUME NEW j \in left
      PROVE  place[j] \in all \ {i} /\ place[j] = IF j < i THEN j ELSE j + 1
  BY <1>1
<1>3. ASSUME NEW j \in left, NEW k \in left, place[j] = place[k]
      PROVE  j = k
  BY <1>1, <1>2, <1>3
<1>4. IsFiniteSet(all) /\ Cardinality(all) \in Nat /\ IsFiniteSet(left) /\ Cardinality(left) \in Nat
  BY <1>1, CountType DEF Count
<1> HIDE DEF left, all
<1>5. place \in [left -> all \ {i}]
  BY <1>2
<1> HIDE DEF place
<1>6. place \in Injection(left, all \ {i})
  BY <1>3, <1>5, Fun_IsInj
<1>7. /\ IsFiniteSet(all \ {i})
      /\ Cardinality(all \ {i}) = IF i \in all THEN Cardinality(all) - 1 ELSE Cardinality(all)
  BY <1>4, FS_RemoveElement
<1>8. Cardinality(left) <= Cardinality(all \ {i})
  BY <1>6, <1>7, FS_Injection
<1>9. Cardinality(left) <= Cardinality(all) /\ (i \in all => Cardinality(left) + 1 <= Cardinality(all))
  BY <1>4, <1>7, <1>8
<1>10. QED
  BY <1>9 DEF Count, left, all, rest

(***************************************************************************)
(* A set of numbers that is not empty has a least element, so a pool with  *)
(* an image of the kind has a first one.                                   *)
(***************************************************************************)
LEMMA Least ==
  ASSUME NEW S \in SUBSET Nat, S # {}
  PROVE  \E m \in S : \A k \in S : m <= k
<1> DEFINE Less == {p \in Nat \X Nat : p[1] < p[2]}
<1>1. IsWellFoundedOn(Less, Nat)
  BY NatLessThanWellFounded DEF OpToRel
<1> HIDE DEF Less
<1>2. PICK m \in S : \A k \in S : <<k, m>> \notin Less
  BY <1>1, WFMin
<1>3. ASSUME NEW k \in S
      PROVE  m <= k
  <2>1. k \in Nat /\ m \in Nat /\ ~(k < m)
    BY <1>2 DEF Less
  <2>2. QED
    BY <2>1
<1>4. QED
  BY <1>3

LEMMA NoMatch ==
  ASSUME NEW pool \in Seq(Images), NEW d, FirstMatch(pool, d) = {}
  PROVE  {i \in DOMAIN pool : pool[i].desc = d} = {}
<1> DEFINE matches == {i \in DOMAIN pool : pool[i].desc = d}
<1>1. SUFFICES ASSUME matches # {} PROVE FALSE
  OBVIOUS
<1>2. DOMAIN pool = 1 .. Len(pool) /\ Len(pool) \in Nat
  OBVIOUS
<1>3. PICK m \in matches : \A k \in matches : m <= k
  <2>1. matches \in SUBSET Nat
    BY <1>2
  <2> HIDE DEF matches
  <2>2. QED
    BY <1>1, <2>1, Least
<1>4. m \in DOMAIN pool /\ pool[m].desc = d /\ m \in Nat /\ m <= Len(pool)
  BY <1>2
<1>5. ASSUME NEW j \in 1 .. m - 1
      PROVE  pool[j].desc # d
  <2>1. j \in DOMAIN pool /\ j < m
    BY <1>2, <1>4
  <2>2. j \in Nat /\ m \in Nat
    BY <1>4
  <2>3. j \notin matches
    BY <1>3, <2>1, <2>2
  <2>4. QED
    BY <2>1, <2>3
<1>6. m \in FirstMatch(pool, d)
  BY <1>4, <1>5 DEF FirstMatch
<1>7. QED
  BY <1>6

(***************************************************************************)
(* AcquireReusableFrame hands out an image nobody owns, and makes one only *)
(* when the pool has none of the kind: a taking is an image of kind d and   *)
(* what is left of the pool.                                               *)
(***************************************************************************)
TakenFrom(taking, pool, others, d) ==
  /\ taking.image \in Images /\ taking.rest \in Seq(Images)
  /\ taking.image.desc = d /\ taking.image.id \notin others
  /\ Disjoint(taking.rest, others \union {taking.image.id})
  /\ ImageIds(taking.rest) \subseteq ImageIds(pool)
  /\ \A e \in Descriptors : Count(taking.rest, e) <= Count(pool, e)
  /\ Count(taking.rest, d) = 0 \/ Count(taking.rest, d) + 1 <= Count(pool, d)

\* Everything of the pool and of the other owners is known to be owned.
Known(pool, others, owned) ==
  /\ pool \in Seq(Images)
  /\ Disjoint(pool, others)
  /\ ImageIds(pool) \union others \subseteq owned

LEMMA AcquireOwned ==
  ASSUME NEW pool, NEW others, NEW owned, Known(pool, others, owned),
         NEW d \in Descriptors, NEW a \in Acquire(pool, owned, d)
  PROVE  TakenFrom(a, pool, others, d)
<1>0. /\ pool \in Seq(Images) /\ Disjoint(pool, others)
      /\ ImageIds(pool) \union others \subseteq owned
  BY DEF Known
<1>1. a.image \in Images /\ a.rest \in Seq(Images)
  BY <1>0, AcquireType
<1>2. CASE FirstMatch(pool, d) # {}
  <2>1. PICK i \in FirstMatch(pool, d) : a = [image |-> pool[i], rest |-> RemoveAt(pool, i)]
    BY <1>2 DEF Acquire
  <2>2. i \in DOMAIN pool /\ pool[i].desc = d /\ Disjoint(pool, others)
    BY <1>0 DEF FirstMatch
  <2>3. \A j \in DOMAIN a.rest :
          LET k == IF j < i THEN j ELSE j + 1
          IN  i \in Nat /\ j \in Nat /\ k \in DOMAIN pool /\ k # i /\ a.rest[j] = pool[k]
    <3>1. a.rest = RemoveAt(pool, i)
      BY <2>1
    <3>2. QED
      BY <1>0, <2>2, <3>1, RemoveAtElements
  <2>4. Disjoint(a.rest, others \union {a.image.id})
    <3>1. ASSUME NEW j \in DOMAIN a.rest
          PROVE  a.rest[j].id \notin others \union {a.image.id}
      <4>1. PICK k \in DOMAIN pool : k # i /\ a.rest[j] = pool[k]
        BY <2>3
      <4>2. QED
        BY <2>1, <2>2, <4>1 DEF Disjoint, Distinct
    <3>2. ASSUME NEW j \in DOMAIN a.rest, NEW k \in DOMAIN a.rest, a.rest[j].id = a.rest[k].id
          PROVE  j = k
      <4> DEFINE J == IF j < i THEN j ELSE j + 1
                 K == IF k < i THEN k ELSE k + 1
      <4>1. /\ j \in Nat /\ k \in Nat /\ i \in Nat
            /\ J \in DOMAIN pool /\ K \in DOMAIN pool /\ pool[J].id = pool[K].id
        BY <2>2, <2>3, <3>2
      <4>2. J = K
        BY <1>0, <4>1 DEF Disjoint, Distinct
      <4>3. QED
        BY <4>1, <4>2
    <3>3. QED
      BY <3>1, <3>2 DEF Disjoint, Distinct
  <2>5. ImageIds(a.rest) \subseteq ImageIds(pool)
    BY <2>3 DEF ImageIds
  <2>6. QED
    BY <1>0, <1>1, <2>1, <2>2, <2>4, <2>5, CountRemove DEF Disjoint, TakenFrom
<1>3. CASE FirstMatch(pool, d) = {}
  <2>1. PICK b \in Buffers \ owned : a = [image |-> [id |-> b, desc |-> d], rest |-> pool]
    BY <1>3 DEF Acquire
  <2>2. b \notin ImageIds(pool) /\ b \notin others
    BY <1>0, <2>1
  <2>3. Disjoint(a.rest, others \union {a.image.id})
    BY <1>0, <2>1, <2>2 DEF Disjoint, ImageIds
  <2>4. {i \in DOMAIN pool : pool[i].desc = d} = {}
    BY <1>0, <1>3, NoMatch
  <2>5. Count(pool, d) = 0
    BY <2>4, FS_EmptySet DEF Count
  <2>6. ASSUME NEW e \in Descriptors
        PROVE  Count(pool, e) <= Count(pool, e)
    <3>1. Count(pool, e) \in Nat
      BY <1>0, CountType
    <3>2. QED
      BY <3>1
  <2>7. QED
    BY <1>1, <2>1, <2>2, <2>3, <2>5, <2>6 DEF TakenFrom
<1>4. QED
  BY <1>2, <1>3

LEMMA AppendOwned ==
  ASSUME NEW pool \in Seq(Images), NEW others, NEW image \in Images, image.id \notin others,
         Disjoint(pool, others \union {image.id})
  PROVE  Disjoint(Append(pool, image), others)
<1> DEFINE new == Append(pool, image)
           end == Len(pool) + 1
<1>1. /\ DOMAIN new = DOMAIN pool \union {end} /\ new[end] = image
      /\ \A i \in DOMAIN pool : new[i] = pool[i]
  OBVIOUS
<1> HIDE DEF new, end
<1>2. ASSUME NEW i \in DOMAIN new, NEW j \in DOMAIN new, new[i].id = new[j].id
      PROVE  i = j
  BY <1>1, <1>2 DEF Disjoint, Distinct
<1>3. \A i \in DOMAIN new : new[i].id \notin others
  BY <1>1 DEF Disjoint
<1>4. QED
  BY <1>2, <1>3 DEF Disjoint, Distinct, new

-----------------------------------------------------------------------------
(* The steps of the send thread.                                           *)

LEMMA StagingTypes ==
  ASSUME TypeOK
  PROVE  /\ reusable \in Seq(Images) /\ inflight \in Seq(Images) /\ hold \in Seq(Nat)
         /\ hw \in Seq(HwEntries) /\ taken \in Nat
         /\ work # NoBuffer => work \in Images /\ work.id \in Buffers
         /\ Len(inflight) \in Nat /\ Len(hold) \in Nat
BY DEF TypeOK, Images

(***************************************************************************)
(* What PrepareInputFrame makes of the pool: an image for the hardware, or *)
(* none, and nothing is lost or owned twice.                               *)
(***************************************************************************)
LEMMA PrepareFits ==
  ASSUME TypeOK, WakeupInv, WorkInv, StagingInv, PrepareInputFrame
  PROVE  Fits(reusable', work', inflight)
<1> DEFINE others == ImageIds(inflight)
           Took(pool, image) == /\ pool \in Seq(Images) /\ image \in Images /\ image.desc = "target"
                                /\ image.id \notin others /\ Disjoint(pool, others \union {image.id})
<1>1. /\ reusable \in Seq(Images) /\ Len(inflight) \in Nat /\ Len(inflight) <= StagingDepth
      /\ Disjoint(reusable, others) /\ Count(reusable, "source") <= 1
  BY StagingTypes DEF StagingInv, Fits, WindowInv
<1>2. work = NoBuffer
  BY DEF WorkInv, PrepareInputFrame
<1>3. Count(reusable, "target") + Len(inflight) <= StagingDepth + 2
  <2>1. Count(reusable, "target") \in Nat
    BY <1>1, CountType
  <2>2. Count(reusable, "target") + Len(inflight) + 0 <= StagingDepth + 2
    BY <1>2 DEF StagingInv, Fits
  <2>3. QED
    BY <1>1, <2>1, <2>2, Depths
<1>4. OwnedBuffers = ImageIds(reusable) \union others
  BY <1>2 DEF OwnedBuffers
<1> HIDE DEF others
<1>5. ASSUME NEW pool \in Seq(Images), Disjoint(pool, others),
             Count(pool, "target") + Len(inflight) <= StagingDepth + 2, Count(pool, "source") <= 1
      PROVE  Fits(pool, NoBuffer, inflight)
  <2>1. Count(pool, "target") \in Nat
    BY CountType
  <2>2. Count(pool, "target") + Len(inflight) + 0 <= StagingDepth + 2
    BY <1>1, <1>5, <2>1, Depths
  <2>3. QED
    BY <1>5, <2>2 DEF Fits, others
<1>6. ASSUME NEW pool, NEW image, Took(pool, image),
             Count(pool, "target") + Len(inflight) + 1 <= StagingDepth + 2, Count(pool, "source") <= 1
      PROVE  Fits(pool, image, inflight)
  <2>1. Count(pool, "target") \in Nat
    BY <1>6, CountType
  <2>2. image.id \notin ImageIds(pool)
    BY <1>6 DEF Disjoint, ImageIds
  <2>3. Disjoint(pool, others)
    BY <1>6 DEF Disjoint
  <2>4. Count(pool, "target") + Len(inflight) + (IF image = NoBuffer THEN 0 ELSE 1) <= StagingDepth + 2
    BY <1>1, <1>6, <2>1, Depths
  <2>5. QED
    BY <1>6, <2>2, <2>3, <2>4 DEF Fits, others
<1>7. CASE PrepareAlias \/ PrepareFails
  BY <1>1, <1>3, <1>5, <1>7 DEF PrepareAlias, PrepareFails, Prepared, Lost
<1>8. CASE PrepareStage
  <2>1. PICK target \in Acquire(reusable, OwnedBuffers, "target") :
          Prepared(target.image, target.rest) \/ Lost(target.rest)
    BY <1>8 DEF PrepareStage
  <2>2. /\ Took(target.rest, target.image)
        /\ Count(target.rest, "target") <= Count(reusable, "target")
        /\ Count(target.rest, "source") <= Count(reusable, "source")
        /\ \/ Count(target.rest, "target") = 0
           \/ Count(target.rest, "target") + 1 <= Count(reusable, "target")
    <3>1. "target" \in Descriptors /\ "source" \in Descriptors
      BY Depths
    <3>2. Known(reusable, others, OwnedBuffers)
      BY <1>1, <1>4 DEF Known
    <3>3. TakenFrom(target, reusable, others, "target")
      BY <3>1, <3>2, AcquireOwned
    <3>4. QED
      BY <3>1, <3>3 DEF TakenFrom
  <2>3. /\ Count(target.rest, "target") \in Nat /\ Count(target.rest, "source") \in Nat
        /\ Count(reusable, "target") \in Nat /\ Count(reusable, "source") \in Nat
    BY <1>1, <2>2, CountType
  <2>4. /\ Count(target.rest, "target") + Len(inflight) + 1 <= StagingDepth + 2
        /\ Count(target.rest, "target") + Len(inflight) <= StagingDepth + 2
        /\ Count(target.rest, "source") <= 1
    BY <1>1, <1>3, <2>2, <2>3, Depths
  <2>5. Disjoint(target.rest, others)
    BY <2>2 DEF Disjoint
  <2>6. Fits(target.rest, target.image, inflight) /\ Fits(target.rest, NoBuffer, inflight)
    BY <1>5, <1>6, <2>2, <2>4, <2>5
  <2>7. QED
    BY <2>1, <2>6 DEF Prepared, Lost
<1>9. CASE PrepareHost
  <2>1. PICK d \in Descriptors : \E source \in Acquire(reusable, OwnedBuffers, d) :
          \/ Lost(source.rest)
          \/ Lost(Append(source.rest, source.image))
          \/ \E target \in Acquire(source.rest, OwnedBuffers \union {source.image.id}, "target") :
               \/ Prepared(target.image, Append(target.rest, source.image))
               \/ Lost(Append(target.rest, source.image))
    BY <1>9 DEF PrepareHost
  <2>0. PICK source \in Acquire(reusable, OwnedBuffers, d) :
          \/ Lost(source.rest)
          \/ Lost(Append(source.rest, source.image))
          \/ \E target \in Acquire(source.rest, OwnedBuffers \union {source.image.id}, "target") :
               \/ Prepared(target.image, Append(target.rest, source.image))
               \/ Lost(Append(target.rest, source.image))
    BY <2>1
  <2> DEFINE left == source.rest
             image == source.image
             own == others \union {image.id}
  <2>2. /\ image \in Images /\ left \in Seq(Images) /\ image.desc = d /\ image.id \notin others
        /\ Disjoint(left, own) /\ ImageIds(left) \subseteq ImageIds(reusable)
        /\ Count(left, "target") <= Count(reusable, "target")
        /\ Count(left, "source") <= Count(reusable, "source")
        /\ Count(left, d) = 0 \/ Count(left, d) + 1 <= Count(reusable, d)
    <3>1. "target" \in Descriptors /\ "source" \in Descriptors
      BY Depths
    <3>2. Known(reusable, others, OwnedBuffers)
      BY <1>1, <1>4 DEF Known
    <3>3. TakenFrom(source, reusable, others, d)
      BY <2>0, <3>1, <3>2, AcquireOwned
    <3>4. QED
      BY <3>1, <3>3 DEF TakenFrom
  <2>3. \A pool \in Seq(Images) : Count(pool, "target") \in Nat /\ Count(pool, "source") \in Nat
    BY CountType
  <2>4. ASSUME NEW pool \in Seq(Images)
        PROVE  /\ Append(pool, image) \in Seq(Images)
               /\ Count(Append(pool, image), "target") = Count(pool, "target") + (IF d = "target" THEN 1 ELSE 0)
               /\ Count(Append(pool, image), "source") = Count(pool, "source") + (IF d = "source" THEN 1 ELSE 0)
    BY <2>2, AppendType, CountAppend
  <2>5. Disjoint(left, others)
    BY <2>2 DEF Disjoint
  <2>6. Fits(left, NoBuffer, inflight)
    <3>1. /\ Count(left, "target") + Len(inflight) <= StagingDepth + 2
          /\ Count(left, "source") <= 1
      BY <1>1, <1>3, <2>2, <2>3, Depths
    <3>2. QED
      BY <1>5, <2>2, <2>5, <3>1
  <2>7. Fits(Append(left, image), NoBuffer, inflight)
    <3>1. /\ Count(Append(left, image), "target") + Len(inflight) <= StagingDepth + 2
          /\ Count(Append(left, image), "source") <= 1
      BY <1>1, <1>3, <2>2, <2>3, <2>4, Depths, SMTT(60)
    <3>2. Disjoint(Append(left, image), others)
      BY <2>2, AppendOwned
    <3>3. QED
      BY <1>5, <2>2, <2>4, <3>1, <3>2
  <2>8. ASSUME NEW target \in Acquire(left, OwnedBuffers \union {image.id}, "target")
        PROVE  /\ Fits(Append(target.rest, image), target.image, inflight)
               /\ Fits(Append(target.rest, image), NoBuffer, inflight)
    <3>1. ImageIds(left) \union own \subseteq OwnedBuffers \union {image.id}
      BY <1>4, <2>2
    <3>2. /\ target.image \in Images /\ target.rest \in Seq(Images) /\ target.image.desc = "target"
          /\ target.image.id \notin own /\ Disjoint(target.rest, own \union {target.image.id})
          /\ Count(target.rest, "target") <= Count(left, "target")
          /\ Count(target.rest, "source") <= Count(left, "source")
          /\ Count(target.rest, "target") = 0 \/ Count(target.rest, "target") + 1 <= Count(left, "target")
      <4>1. "target" \in Descriptors /\ "source" \in Descriptors
        BY Depths
      <4>2. Known(left, own, OwnedBuffers \union {image.id})
        BY <2>2, <3>1 DEF Known
      <4>3. TakenFrom(target, left, own, "target")
        <5> HIDE DEF left, own
        <5>1. QED
          BY <4>1, <4>2, <2>8, AcquireOwned
      <4>4. QED
        BY <4>1, <4>3 DEF TakenFrom
    <3> DEFINE pool == Append(target.rest, image)
    <3>3. pool \in Seq(Images)
      BY <2>4, <3>2
    <3>4. Disjoint(pool, others \union {target.image.id})
      <4>1. own \union {target.image.id} = (others \union {target.image.id}) \union {image.id}
        OBVIOUS
      <4>2. image.id \notin others \union {target.image.id}
        BY <2>2, <3>2
      <4>3. QED
        BY <2>2, <3>2, <4>1, <4>2, AppendOwned
    <3>5. Disjoint(pool, others)
      BY <3>4 DEF Disjoint
    <3>6. /\ Count(pool, "target") + Len(inflight) + 1 <= StagingDepth + 2
          /\ Count(pool, "target") + Len(inflight) <= StagingDepth + 2
          /\ Count(pool, "source") <= 1
      <4>1. /\ Count(pool, "target") = Count(target.rest, "target") + (IF d = "target" THEN 1 ELSE 0)
            /\ Count(pool, "source") = Count(target.rest, "source") + (IF d = "source" THEN 1 ELSE 0)
        BY <2>4, <3>2
      <4>2. /\ Count(target.rest, "target") \in Nat /\ Count(target.rest, "source") \in Nat
            /\ Count(left, "target") \in Nat /\ Count(left, "source") \in Nat
            /\ Count(reusable, "target") \in Nat /\ Count(reusable, "source") \in Nat
        BY <1>1, <2>2, <2>3, <3>2
      <4> HIDE DEF pool, left, image
      <4>3. CASE d = "target"
        <5>1. /\ Count(left, "target") = 0 \/ Count(left, "target") + 1 <= Count(reusable, "target")
              /\ Count(pool, "target") = Count(target.rest, "target") + 1
              /\ Count(pool, "source") = Count(target.rest, "source")
          BY <2>2, <4>1, <4>2, <4>3
        <5>2. Count(pool, "target") + Len(inflight) + 1 <= StagingDepth + 2
          <6>1. Count(left, "target") + Len(inflight) + 1 <= StagingDepth + 2
            BY <1>1, <1>3, <4>2, <5>1, Depths
          <6>2. CASE Count(target.rest, "target") = 0
            BY <1>1, <4>2, <5>1, <6>2, Depths
          <6>3. CASE Count(target.rest, "target") + 1 <= Count(left, "target")
            BY <1>1, <4>2, <5>1, <6>1, <6>3, Depths, SMTT(60)
          <6>4. QED
            BY <3>2, <6>2, <6>3
        <5>3. Count(pool, "target") \in Nat /\ Count(pool, "source") <= 1
          BY <1>1, <2>2, <3>2, <4>2, <5>1
        <5>4. QED
          BY <1>1, <5>2, <5>3, Depths
      <4>4. CASE d = "source"
        BY <1>1, <1>3, <2>2, <3>2, <4>1, <4>2, <4>4, Depths, SMTT(60)
      <4>5. QED
        BY <4>3, <4>4, Depths
    <3>7. Took(pool, target.image)
      BY <2>2, <3>2, <3>3, <3>4
    <3> HIDE DEF pool
    <3>8. Fits(pool, target.image, inflight) /\ Fits(pool, NoBuffer, inflight)
      BY <1>5, <1>6, <3>3, <3>5, <3>6, <3>7
    <3>9. QED
      BY <3>8 DEF pool
  <2>9. QED
    BY <2>0, <2>6, <2>7, <2>8 DEF Prepared, Lost
<1>10. QED
  BY <1>7, <1>8, <1>9 DEF PrepareInputFrame

(***************************************************************************)
(* The images of a window that gains one at its end or loses its first.    *)
(***************************************************************************)
LEMMA ImagesAppended ==
  ASSUME NEW images \in Seq(Images), NEW image \in Images
  PROVE  ImageIds(Append(images, image)) = ImageIds(images) \union {image.id}
<1> DEFINE new == Append(images, image)
           end == Len(images) + 1
<1>1. /\ DOMAIN new = DOMAIN images \union {end} /\ new[end] = image
      /\ \A i \in DOMAIN images : new[i] = images[i]
  OBVIOUS
<1> HIDE DEF new, end
<1>2. ImageIds(new) = ImageIds(images) \union {image.id}
  BY <1>1 DEF ImageIds
<1>3. QED
  BY <1>2 DEF new

LEMMA WindowAppended ==
  ASSUME NEW images \in Seq(Images), NEW image \in Images,
         Distinct(images), image.id \notin ImageIds(images)
  PROVE  Distinct(Append(images, image))
<1> DEFINE new == Append(images, image)
           end == Len(images) + 1
<1>1. /\ DOMAIN new = DOMAIN images \union {end} /\ new[end] = image
      /\ \A i \in DOMAIN images : new[i] = images[i]
  OBVIOUS
<1> HIDE DEF new, end
<1>2. \A i \in DOMAIN images : images[i].id # image.id
  BY DEF ImageIds
<1>3. Distinct(new)
  BY <1>1, <1>2 DEF Distinct
<1>4. QED
  BY <1>3 DEF new

LEMMA WindowTail ==
  ASSUME NEW images \in Seq(Images), images # <<>>, Distinct(images)
  PROVE  /\ Distinct(Tail(images))
         /\ ImageIds(images) = ImageIds(Tail(images)) \union {Head(images).id}
         /\ Head(images).id \notin ImageIds(Tail(images))
<1> DEFINE rest == Tail(images)
<1>1. /\ Len(images) \in Nat /\ Len(images) > 0 /\ DOMAIN images = 1 .. Len(images)
      /\ DOMAIN rest = 1 .. Len(images) - 1 /\ Head(images) = images[1]
      /\ \A i \in DOMAIN rest : rest[i] = images[i + 1]
  OBVIOUS
<1> HIDE DEF rest
<1>2. 1 \in DOMAIN images /\ \A i \in DOMAIN rest : i \in Nat /\ i + 1 \in DOMAIN images /\ i + 1 # 1
  BY <1>1
<1>3. \A i \in DOMAIN images : i = 1 \/ (i - 1 \in DOMAIN rest /\ i = (i - 1) + 1)
  BY <1>1
<1>4. Distinct(rest)
  <2>1. ASSUME NEW i \in DOMAIN rest, NEW j \in DOMAIN rest, rest[i].id = rest[j].id
        PROVE  i = j
    <3>1. i \in Nat /\ j \in Nat /\ i + 1 = j + 1
      BY <1>1, <1>2, <2>1 DEF Distinct
    <3>2. QED
      BY <3>1
  <2>2. QED
    BY <2>1 DEF Distinct
<1>5. ImageIds(images) = ImageIds(rest) \union {Head(images).id}
  <2>1. ASSUME NEW x \in ImageIds(images)
        PROVE  x \in ImageIds(rest) \union {Head(images).id}
    <3>1. PICK i \in DOMAIN images : x = images[i].id
      BY DEF ImageIds
    <3>2. CASE i = 1
      BY <1>1, <3>1, <3>2
    <3>3. CASE i - 1 \in DOMAIN rest /\ i = (i - 1) + 1
      BY <1>1, <3>1, <3>3 DEF ImageIds
    <3>4. QED
      BY <1>3, <3>2, <3>3
  <2>2. ASSUME NEW x \in ImageIds(rest)
        PROVE  x \in ImageIds(images)
    BY <1>1, <1>2 DEF ImageIds
  <2>3. Head(images).id \in ImageIds(images)
    BY <1>1, <1>2 DEF ImageIds
  <2>4. QED
    BY <2>1, <2>2, <2>3
<1>6. Head(images).id \notin ImageIds(rest)
  BY <1>1, <1>2 DEF Distinct, ImageIds
<1>7. QED
  BY <1>4, <1>5, <1>6 DEF rest

(***************************************************************************)
(* ReleaseOldInflightFrame gives the pool the image that falls out of the  *)
(* window, and no other.                                                   *)
(***************************************************************************)
LEMMA ReleaseFits ==
  ASSUME NEW images \in Seq(Images), NEW frames \in Seq(Nat), reusable \in Seq(Images),
         Distinct(images), \A i \in DOMAIN images : images[i].desc = "target",
         Len(images) <= StagingDepth + 1,
         Disjoint(reusable, ImageIds(images)),
         Count(reusable, "target") + Len(images) <= StagingDepth + 2,
         Count(reusable, "source") <= 1,
         ReleaseOldInflightFrame(images, frames)
  PROVE  Fits(reusable', NoBuffer, inflight') /\ WindowInv'
<1>1. /\ Len(images) \in Nat /\ Len(frames) \in Nat
      /\ Count(reusable, "target") \in Nat /\ Count(reusable, "source") \in Nat
  <2>1. Count(reusable, "target") \in Nat /\ Count(reusable, "source") \in Nat
    BY CountType
  <2>2. Len(images) \in Nat /\ Len(frames) \in Nat
    OBVIOUS
  <2>3. QED
    BY <2>1, <2>2
<1>2. Len(hold') <= HoldDepth
  <2>1. CASE Len(frames) > HoldDepth
    <3>1. Len(frames) - HoldDepth + 1 \in 1 .. Len(frames) + 1
      BY <1>1, <2>1, Depths
    <3>2. Len(SubSeq(frames, Len(frames) - HoldDepth + 1, Len(frames))) = HoldDepth
      <4> DEFINE first == Len(frames) - HoldDepth + 1
      <4>1. Len(SubSeq(frames, first, Len(frames))) = Len(frames) - first + 1
        BY <3>1, SuffixType
      <4>2. QED
        BY <1>1, <4>1, Depths
    <3>3. QED
      BY <2>1, <3>2, Depths DEF ReleaseOldInflightFrame
  <2>2. CASE ~(Len(frames) > HoldDepth)
    BY <1>1, <2>2, Depths DEF ReleaseOldInflightFrame
  <2>3. QED
    BY <2>1, <2>2
<1>3. CASE Len(images) > StagingDepth
  <2> DEFINE first == Head(images)
             rest == Tail(images)
  <2>1. inflight' = rest /\ reusable' = Append(reusable, first)
    BY <1>3 DEF ReleaseOldInflightFrame
  <2>2. images # <<>>
    BY <1>1, <1>3, Depths
  <2>3. first \in Images /\ rest \in Seq(Images) /\ Len(rest) = Len(images) - 1
    BY <2>2, TailType
  <2>4. /\ Distinct(rest) /\ ImageIds(images) = ImageIds(rest) \union {first.id}
        /\ first.id \notin ImageIds(rest)
    BY <2>2, WindowTail
  <2>5. first.desc = "target" /\ \A i \in DOMAIN rest : rest[i].desc = "target"
    <3>1. /\ first = images[1] /\ 1 \in DOMAIN images
          /\ \A i \in DOMAIN rest : i + 1 \in DOMAIN images /\ rest[i] = images[i + 1]
      BY <2>2
    <3> HIDE DEF first, rest
    <3>2. QED
      BY <3>1
  <2> HIDE DEF first, rest
  <2>6. Disjoint(Append(reusable, first), ImageIds(rest))
    BY <2>3, <2>4, AppendOwned
  <2>7. /\ Count(Append(reusable, first), "target") = Count(reusable, "target") + 1
        /\ Count(Append(reusable, first), "source") = Count(reusable, "source")
    <3>1. /\ Count(Append(reusable, first), "target")
               = Count(reusable, "target") + (IF first.desc = "target" THEN 1 ELSE 0)
          /\ Count(Append(reusable, first), "source")
               = Count(reusable, "source") + (IF first.desc = "source" THEN 1 ELSE 0)
      BY <2>3, CountAppend
    <3>2. QED
      BY <1>1, <2>5, <3>1
  <2>8. Count(Append(reusable, first), "target") + Len(rest) + 0 <= StagingDepth + 2
    BY <1>1, <2>3, <2>7, Depths
  <2>9. Fits(Append(reusable, first), NoBuffer, rest)
    BY <2>6, <2>7, <2>8 DEF Fits
  <2>10. Len(rest) <= StagingDepth
    BY <1>1, <2>3, Depths
  <2>11. QED
    BY <1>2, <2>1, <2>4, <2>5, <2>9, <2>10 DEF WindowInv
<1>4. CASE ~(Len(images) > StagingDepth)
  <2>1. inflight' = images /\ reusable' = reusable
    BY <1>4 DEF ReleaseOldInflightFrame
  <2>2. Count(reusable, "target") + Len(images) + 0 <= StagingDepth + 2
    BY <1>1, Depths
  <2>3. Len(images) <= StagingDepth
    BY <1>1, <1>4, Depths
  <2>4. Fits(reusable, NoBuffer, images)
    BY <2>2 DEF Fits
  <2>5. QED
    BY <1>2, <2>1, <2>3, <2>4 DEF WindowInv
<1>5. QED
  BY <1>3, <1>4

(***************************************************************************)
(* No step makes two owners of one image, or one image too many.           *)
(***************************************************************************)
LEMMA StagingStep ==
  ASSUME TypeOK, WakeupInv, WorkInv, StagingInv, [Next]_vars
  PROVE  StagingInv'
<1>0. /\ reusable \in Seq(Images) /\ inflight \in Seq(Images) /\ hold \in Seq(Nat)
      /\ taken \in Nat /\ Len(inflight) \in Nat /\ Len(hold) \in Nat
      /\ work # NoBuffer => work \in Images /\ work.id \in Buffers
      /\ Count(reusable, "target") \in Nat /\ Count(reusable, "source") \in Nat
  BY StagingTypes, CountType
<1>1. CASE UNCHANGED stagingVars
  BY <1>1 DEF stagingVars, StagingInv, WindowInv
<1>2. CASE PrepareInputFrame
  <2>1. UNCHANGED <<inflight, hold>>
    BY <1>2 DEF PrepareInputFrame
  <2>2. Fits(reusable', work', inflight)
    BY <1>2, PrepareFits
  <2>3. QED
    BY <2>1, <2>2 DEF StagingInv, WindowInv
<1>3. CASE SendAccepted /\ work # NoBuffer
  <2> DEFINE images == Append(inflight, work)
  <2>1. images \in Seq(Images) /\ Len(images) = Len(inflight) + 1
    BY <1>0, <1>3, AppendType
  <2>2. work.desc = "target" /\ work.id \notin ImageIds(inflight) \union ImageIds(reusable)
    BY <1>3 DEF StagingInv, Fits
  <2>3. Distinct(images)
    BY <1>0, <1>3, <2>2, WindowAppended DEF StagingInv, WindowInv
  <2>4. \A i \in DOMAIN images : images[i].desc = "target"
    <3>1. \A i \in DOMAIN images : images[i] = work \/ (i \in DOMAIN inflight /\ images[i] = inflight[i])
      BY <1>0, <1>3
    <3>2. QED
      BY <2>2, <3>1 DEF StagingInv, WindowInv
  <2>5. ImageIds(images) = ImageIds(inflight) \union {work.id}
    BY <1>0, <1>3, ImagesAppended
  <2>6. Disjoint(reusable, ImageIds(images))
    BY <2>2, <2>5 DEF StagingInv, Fits, Disjoint, ImageIds
  <2>7. /\ Len(images) <= StagingDepth + 1
        /\ Count(reusable, "target") + Len(images) <= StagingDepth + 2
        /\ Count(reusable, "source") <= 1
    <3>1. /\ Len(inflight) <= StagingDepth /\ Count(reusable, "source") <= 1
          /\ Count(reusable, "target") + Len(inflight) + 1 <= StagingDepth + 2
      BY <1>3 DEF StagingInv, WindowInv, Fits
    <3>2. QED
      BY <1>0, <2>1, <3>1, Depths
  <2>8. ReleaseOldInflightFrame(images, hold) /\ work' = NoBuffer
    BY <1>3 DEF SendAccepted
  <2> HIDE DEF images
  <2>9. Fits(reusable', NoBuffer, inflight') /\ WindowInv'
    BY <1>0, <2>1, <2>3, <2>4, <2>6, <2>7, <2>8, ReleaseFits
  <2>10. QED
    BY <2>8, <2>9 DEF StagingInv
<1>4. CASE SendAccepted /\ work = NoBuffer
  <2>1. Append(hold, taken) \in Seq(Nat)
    BY <1>0, AppendType
  <2>2. /\ Distinct(inflight) /\ \A i \in DOMAIN inflight : inflight[i].desc = "target"
        /\ Disjoint(reusable, ImageIds(inflight)) /\ Count(reusable, "source") <= 1
        /\ Len(inflight) <= StagingDepth
        /\ Count(reusable, "target") + Len(inflight) + 0 <= StagingDepth + 2
    BY <1>4 DEF StagingInv, WindowInv, Fits
  <2>3. /\ Len(inflight) <= StagingDepth + 1
        /\ Count(reusable, "target") + Len(inflight) <= StagingDepth + 2
    BY <1>0, <2>2, Depths
  <2>4. ReleaseOldInflightFrame(inflight, Append(hold, taken)) /\ work' = NoBuffer
    BY <1>4 DEF SendAccepted
  <2>5. Fits(reusable', NoBuffer, inflight') /\ WindowInv'
    BY <1>0, <2>1, <2>2, <2>3, <2>4, ReleaseFits
  <2>6. QED
    BY <2>4, <2>5 DEF StagingInv
<1>5. CASE SendRefused
  <2>1. /\ work' = NoBuffer /\ reusable' = Recycle(reusable, work)
        /\ UNCHANGED <<inflight, hold>>
    BY <1>5 DEF SendRefused, Lost
  <2>2. CASE work = NoBuffer
    BY <2>1, <2>2 DEF StagingInv, WindowInv, Recycle
  <2>3. CASE work # NoBuffer
    <3> DEFINE pool == Append(reusable, work)
    <3>1. reusable' = pool
      BY <2>1, <2>3 DEF Recycle
    <3>2. /\ work.desc = "target" /\ work.id \notin ImageIds(inflight) \union ImageIds(reusable)
          /\ Disjoint(reusable, ImageIds(inflight)) /\ Count(reusable, "source") <= 1
          /\ Count(reusable, "target") + Len(inflight) + 1 <= StagingDepth + 2
      BY <2>3 DEF StagingInv, Fits
    <3>3. Disjoint(pool, ImageIds(inflight))
      <4>1. Disjoint(reusable, ImageIds(inflight) \union {work.id})
        BY <3>2 DEF Disjoint, ImageIds
      <4>2. QED
        BY <1>0, <2>3, <3>2, <4>1, AppendOwned
    <3>4. /\ Count(pool, "target") = Count(reusable, "target") + 1
          /\ Count(pool, "source") = Count(reusable, "source")
      <4>1. /\ Count(pool, "target")
                 = Count(reusable, "target") + (IF work.desc = "target" THEN 1 ELSE 0)
            /\ Count(pool, "source")
                 = Count(reusable, "source") + (IF work.desc = "source" THEN 1 ELSE 0)
        BY <1>0, <2>3, CountAppend
      <4> HIDE DEF pool
      <4>2. QED
        BY <1>0, <3>2, <4>1
    <3> HIDE DEF pool
    <3>5. Count(pool, "target") + Len(inflight) + 0 <= StagingDepth + 2
      BY <1>0, <3>2, <3>4, Depths
    <3>6. Fits(pool, NoBuffer, inflight)
      BY <3>2, <3>3, <3>4, <3>5 DEF Fits
    <3>7. QED
      BY <2>1, <3>1, <3>6 DEF StagingInv, WindowInv
  <2>4. QED
    BY <2>2, <2>3
<1>6. CASE StopReturns \/ CloseReturns
  <2>1. reusable' = <<>> /\ inflight' = <<>> /\ hold' = <<>> /\ work' = work
    BY <1>6 DEF StopReturns, CloseReturns
  <2>2. work = NoBuffer
    <3>1. ctl \in {"stop_staging", "close"}
      BY <1>6 DEF StopReturns, CloseReturns
    <3>2. ~SendThreadExists
      BY <3>1 DEF WakeupInv, SessionInv, SendThreadExists, StopPhases
    <3>3. QED
      BY <3>2 DEF WakeupInv, SessionInv, WorkInv
  <2>3. StagingInv'
    BY <2>1, <2>2, EmptyFits DEF StagingInv, WindowInv
  <2>4. QED
    BY <2>3
<1>7. QED
  BY <1>1, <1>2, <1>3, <1>4, <1>5, <1>6, StagingUntouched DEF vars

(***************************************************************************)
(* Whatever fails on the way, an encoder owns at most StagingDepth + 2     *)
(* images of the target size and one of a host frame's size: every image   *)
(* taken from the pool goes back to it, or is freed, or follows its frame  *)
(* into the window.                                                        *)
(***************************************************************************)
THEOREM StagingStaysBounded == Spec => []StagingBounded
<1>1. Init => WorkInv /\ StagingInv
  BY EmptyFits DEF Init, WorkInv, StagingInv, WindowInv
<1>2. TypeOK /\ WakeupInv /\ WorkInv /\ StagingInv /\ [Next]_vars => WorkInv' /\ StagingInv'
  BY WorkStep, StagingStep
<1>3. TypeOK /\ StagingInv => StagingBounded
  <2> SUFFICES ASSUME TypeOK, StagingInv
               PROVE  OwnedImages("target") <= StagingDepth + 2 /\ OwnedImages("source") <= 1
    BY DEF StagingBounded
  <2>1. /\ reusable \in Seq(Images) /\ inflight \in Seq(Images) /\ Len(inflight) \in Nat
        /\ Count(reusable, "target") \in Nat /\ Count(reusable, "source") \in Nat
        /\ Count(inflight, "target") \in Nat /\ Count(inflight, "source") \in Nat
    BY StagingTypes, CountType
  <2>2. Count(inflight, "source") = 0
    <3>1. {i \in DOMAIN inflight : inflight[i].desc = "source"} = {}
      BY DEF StagingInv, WindowInv
    <3>2. QED
      BY <3>1, FS_EmptySet DEF Count
  <2>3. Count(inflight, "target") <= Len(inflight)
    <3>1. DOMAIN inflight = 1 .. Len(inflight)
      BY <2>1
    <3>2. IsFiniteSet(1 .. Len(inflight)) /\ Cardinality(1 .. Len(inflight)) = Len(inflight)
      <4>1. \A b \in Int : /\ IsFiniteSet(1 .. b)
                          /\ Cardinality(1 .. b) = IF 1 > b THEN 0 ELSE b - 1 + 1
        BY FS_Interval
      <4> DEFINE len == Len(inflight)
      <4>2. len \in Nat
        BY <2>1
      <4> HIDE DEF len
      <4>3. IsFiniteSet(1 .. len) /\ Cardinality(1 .. len) = len
        BY <4>1, <4>2
      <4>4. QED
        BY <4>3 DEF len
    <3>3. {i \in DOMAIN inflight : inflight[i].desc = "target"} \in SUBSET (1 .. Len(inflight))
      BY <3>1
    <3>4. QED
      BY <3>2, <3>3, FS_Subset DEF Count
  <2>4. /\ Count(reusable, "target") + Len(inflight) + (IF work = NoBuffer THEN 0 ELSE 1)
             <= StagingDepth + 2
        /\ Count(reusable, "source") <= 1
        /\ work # NoBuffer => work.desc = "target"
    BY DEF StagingInv, Fits
  <2>5. \A d : OwnedImages(d) = Count(reusable, d) + Count(inflight, d)
                                  + (IF work # NoBuffer /\ work.desc = d THEN 1 ELSE 0)
    BY DEF OwnedImages, Count
  <2>6. OwnedImages("source") <= 1
    BY <2>1, <2>2, <2>4, <2>5
  <2>7. OwnedImages("target") <= StagingDepth + 2
    <3>1. CASE work = NoBuffer
      <4>1. OwnedImages("target") = Count(reusable, "target") + Count(inflight, "target")
        BY <2>1, <2>5, <3>1
      <4>2. QED
        BY <2>1, <2>3, <2>4, <3>1, <4>1, Depths
    <3>2. CASE work # NoBuffer
      <4>1. OwnedImages("target") = Count(reusable, "target") + Count(inflight, "target") + 1
        BY <2>1, <2>4, <2>5, <3>2
      <4>2. QED
        BY <2>1, <2>3, <2>4, <3>2, <4>1, Depths
    <3>3. QED
      BY <3>1, <3>2
  <2>8. QED
    BY <2>6, <2>7
<1>4. QED
  BY <1>1, <1>2, <1>3, TypeCorrect, WakeupInvariant, PTL DEF Spec

-----------------------------------------------------------------------------
(* What the hardware is reading stays in the inflight windows.             *)

(***************************************************************************)
(* An entry with fewer than `depth` entries of its kind behind it has its  *)
(* buffer in the window of its kind, as many places from the end.          *)
(***************************************************************************)
Kind(entry) == IF entry.image = NoBuffer THEN "aliased" ELSE "staged"

Serves(entry, kept) ==
  IF entry.image = NoBuffer THEN kept = entry.frame ELSE kept.id = entry.image

Later(h, i, kind) == {j \in i + 1 .. Len(h) : Kind(h[j]) = kind}

Rank(h, i, kind) == Cardinality(Later(h, i, kind))

KeptIn(h, window, depth, kind) ==
  \A i \in DOMAIN h :
    Kind(h[i]) = kind /\ Rank(h, i, kind) < depth =>
      /\ Rank(h, i, kind) < Len(window)
      /\ Serves(h[i], window[Len(window) - Rank(h, i, kind)])

KeptInv ==
  strm # "off" =>
    /\ KeptIn(hw, inflight, StagingDepth, "staged")
    /\ KeptIn(hw, hold, HoldDepth, "aliased")

(***************************************************************************)
(* The last `depth` of the items are in the window.                        *)
(***************************************************************************)
Keeps(window, items, depth) ==
  \A k \in Nat :
    k < Len(items) /\ k < depth =>
      k < Len(window) /\ window[Len(window) - k] = items[Len(items) - k]

LEMMA RankType ==
  ASSUME NEW h \in Seq(HwEntries), NEW i \in Nat, NEW kind
  PROVE  IsFiniteSet(Later(h, i, kind)) /\ Rank(h, i, kind) \in Nat
<1>1. IsFiniteSet(i + 1 .. Len(h))
  <2>1. i + 1 \in Int /\ Len(h) \in Int
    OBVIOUS
  <2>2. QED
    BY <2>1, FS_Interval
<1>2. Later(h, i, kind) \in SUBSET (i + 1 .. Len(h))
  BY DEF Later
<1>3. IsFiniteSet(Later(h, i, kind))
  BY <1>1, <1>2, FS_Subset
<1>4. QED
  BY <1>3, FS_CardinalityType DEF Rank

LEMMA RankAppend ==
  ASSUME NEW h \in Seq(HwEntries), NEW e \in HwEntries, NEW kind, NEW i \in DOMAIN h
  PROVE  Rank(Append(h, e), i, kind) = Rank(h, i, kind) + (IF Kind(e) = kind THEN 1 ELSE 0)
<1> DEFINE new == Append(h, e)
           end == Len(h) + 1
<1>1. /\ Len(new) = end /\ Len(h) \in Nat /\ i \in Nat /\ i < end
      /\ new[end] = e /\ \A j \in 1 .. Len(h) : new[j] = h[j]
  OBVIOUS
<1>2. IsFiniteSet(Later(h, i, kind)) /\ Rank(h, i, kind) \in Nat /\ end \notin Later(h, i, kind)
  <2>1. end \notin i + 1 .. Len(h)
    BY <1>1
  <2>2. QED
    BY <1>1, <2>1, RankType DEF Later
<1> HIDE DEF new
<1>3. Later(new, i, kind)
        = IF Kind(e) = kind THEN Later(h, i, kind) \union {end} ELSE Later(h, i, kind)
  <2>1. i + 1 .. Len(new) = (i + 1 .. Len(h)) \union {end} /\ end \notin i + 1 .. Len(h)
    BY <1>1
  <2>2. \A j \in i + 1 .. Len(h) : new[j] = h[j]
    BY <1>1
  <2> HIDE DEF end
  <2>3. QED
    BY <1>1, <2>1, <2>2 DEF Later
<1>4. CASE Kind(e) = kind
  <2>1. Cardinality(Later(h, i, kind) \union {end}) = Rank(h, i, kind) + 1
    BY <1>2, FS_AddElement DEF Rank
  <2>2. QED
    BY <1>3, <1>4, <2>1 DEF Rank, new
<1>5. CASE Kind(e) # kind
  BY <1>2, <1>3, <1>5 DEF Rank, new
<1>6. QED
  BY <1>4, <1>5

LEMMA RankEnd ==
  ASSUME NEW h \in Seq(HwEntries), NEW kind
  PROVE  Rank(h, Len(h), kind) = 0
<1>1. Len(h) + 1 .. Len(h) = {}
  OBVIOUS
<1>2. Later(h, Len(h), kind) = {}
  BY <1>1 DEF Later
<1>3. QED
  BY <1>2, FS_EmptySet DEF Rank

LEMMA RankTail ==
  ASSUME NEW h \in Seq(HwEntries), h # <<>>, NEW kind, NEW i \in DOMAIN Tail(h)
  PROVE  Rank(Tail(h), i, kind) = Rank(h, i + 1, kind)
<1> DEFINE rest == Tail(h)
           S == Later(rest, i, kind)
           T == Later(h, i + 1, kind)
           f == [j \in S |-> j + 1]
<1>1. /\ Len(h) \in Nat /\ Len(rest) = Len(h) - 1 /\ i \in Nat /\ rest \in Seq(HwEntries)
      /\ \A j \in 1 .. Len(rest) : rest[j] = h[j + 1]
  OBVIOUS
<1>2. IsFiniteSet(S)
  BY <1>1, RankType
<1> HIDE DEF rest
<1>3. \A j \in S : j \in Nat /\ j \in i + 1 .. Len(rest) /\ Kind(rest[j]) = kind
  BY <1>1 DEF Later
<1>4. \A j \in S : j + 1 \in T
  <2>1. ASSUME NEW j \in S PROVE j + 1 \in T
    <3>1. j \in Nat /\ j \in i + 1 .. Len(rest) /\ Kind(rest[j]) = kind
      BY <1>3
    <3>2. j \in 1 .. Len(rest) /\ j + 1 \in i + 1 + 1 .. Len(h)
      BY <1>1, <3>1
    <3>3. QED
      BY <1>1, <3>1, <3>2 DEF Later
  <2>2. QED
    BY <2>1
<1>5. \A m \in T : m \in Nat /\ m - 1 \in S /\ m = (m - 1) + 1
  <2>1. ASSUME NEW m \in T PROVE m \in Nat /\ m - 1 \in S /\ m = (m - 1) + 1
    <3>1. m \in i + 1 + 1 .. Len(h) /\ Kind(h[m]) = kind
      BY DEF Later
    <3>2. m \in Nat /\ m - 1 \in i + 1 .. Len(rest) /\ m - 1 \in 1 .. Len(rest) /\ m = (m - 1) + 1
      BY <1>1, <3>1
    <3>3. QED
      BY <1>1, <3>1, <3>2 DEF Later
  <2>2. QED
    BY <2>1
<1> HIDE DEF S, T
<1>6. f \in Bijection(S, T)
  <2>1. f \in [S -> T]
    BY <1>4
  <2>2. \A a, b \in S : f[a] = f[b] => a = b
    BY <1>3
  <2>3. \A t \in T : \E s \in S : f[s] = t
    BY <1>5
  <2>4. QED
    BY <2>1, <2>2, <2>3, Fun_IsBij
<1>7. ExistsBijection(S, T)
  BY <1>6 DEF ExistsBijection
<1>8. Cardinality(T) = Cardinality(S)
  BY <1>2, <1>7, FS_Bijection
<1>9. QED
  BY <1>8 DEF Rank, S, T, rest

(***************************************************************************)
(* The windows keep what they should of what is sent.                      *)
(***************************************************************************)
LEMMA KeptEmpty == \A window, depth, kind : KeptIn(<<>>, window, depth, kind)
<1>1. DOMAIN <<>> = {}
  OBVIOUS
<1>2. QED
  BY <1>1 DEF KeptIn

LEMMA KeptAppended ==
  ASSUME NEW h \in Seq(HwEntries), NEW e \in HwEntries, NEW kind, Kind(e) = kind,
         NEW window, NEW new, NEW items, NEW depth \in Nat, depth > 0,
         Len(window) \in Nat, Len(new) \in Nat, Len(items) = Len(window) + 1,
         Serves(e, items[Len(items)]),
         \A k \in 1 .. Len(window) : items[k] = window[k],
         Keeps(new, items, depth),
         KeptIn(h, window, depth, kind)
  PROVE  KeptIn(Append(h, e), new, depth, kind)
<1> DEFINE next == Append(h, e)
<1>1. /\ next \in Seq(HwEntries) /\ DOMAIN next = DOMAIN h \union {Len(next)}
      /\ next[Len(next)] = e /\ \A i \in DOMAIN h : next[i] = h[i] /\ i \in Nat
  OBVIOUS
<1>2. ASSUME NEW i \in DOMAIN h, Kind(h[i]) = kind, Rank(next, i, kind) < depth
      PROVE  /\ Rank(next, i, kind) < Len(new)
             /\ Serves(h[i], new[Len(new) - Rank(next, i, kind)])
  <2> DEFINE r == Rank(h, i, kind)
             s == Rank(next, i, kind)
  <2>1. r \in Nat
    BY <1>1, RankType
  <2>2. s = r + 1
    BY RankAppend
  <2>3. s < depth
    BY <1>2
  <2> HIDE DEF r, s
  <2>4. r < depth
    BY <2>1, <2>2, <2>3
  <2>5. r < Len(window) /\ Serves(h[i], window[Len(window) - r])
    BY <1>2, <2>4 DEF KeptIn, r
  <2>6. /\ s \in Nat /\ s < Len(items) /\ Len(items) - s = Len(window) - r
        /\ Len(window) - r \in 1 .. Len(window)
    BY <2>1, <2>2, <2>5
  <2>7. s < Len(new) /\ new[Len(new) - s] = window[Len(window) - r]
    BY <2>3, <2>6 DEF Keeps
  <2>8. QED
    BY <2>5, <2>7 DEF s
<1>3. Rank(next, Len(next), kind) = 0
  BY <1>1, RankEnd
<1>4. 0 < Len(new) /\ Serves(e, new[Len(new) - 0])
  <2>1. 0 \in Nat /\ 0 < Len(items) /\ 0 < depth /\ Len(items) - 0 = Len(items)
    OBVIOUS
  <2>2. QED
    BY <2>1 DEF Keeps
<1> HIDE DEF next
<1>5. ASSUME NEW i \in DOMAIN next, Kind(next[i]) = kind, Rank(next, i, kind) < depth
      PROVE  /\ Rank(next, i, kind) < Len(new)
             /\ Serves(next[i], new[Len(new) - Rank(next, i, kind)])
  <2>1. CASE i \in DOMAIN h
    BY <1>1, <1>2, <1>5, <2>1
  <2>2. CASE i = Len(next)
    BY <1>1, <1>3, <1>4, <2>2
  <2>3. QED
    BY <1>1, <2>1, <2>2
<1>6. QED
  BY <1>5 DEF KeptIn, next

LEMMA KeptBeside ==
  ASSUME NEW h \in Seq(HwEntries), NEW e \in HwEntries, NEW kind, Kind(e) # kind,
         NEW window, NEW depth, KeptIn(h, window, depth, kind)
  PROVE  KeptIn(Append(h, e), window, depth, kind)
<1> DEFINE next == Append(h, e)
<1>1. /\ DOMAIN next = DOMAIN h \union {Len(next)}
      /\ next[Len(next)] = e /\ \A i \in DOMAIN h : next[i] = h[i] /\ i \in Nat
  OBVIOUS
<1>2. ASSUME NEW i \in DOMAIN h
      PROVE  Rank(next, i, kind) = Rank(h, i, kind)
  <2>1. Rank(h, i, kind) \in Nat
    BY <1>1, RankType
  <2>2. Rank(next, i, kind) = Rank(h, i, kind) + 0
    BY RankAppend
  <2> HIDE DEF next
  <2>3. QED
    BY <2>1, <2>2
<1> HIDE DEF next
<1>3. KeptIn(next, window, depth, kind)
  BY <1>1, <1>2 DEF KeptIn
<1>4. QED
  BY <1>3 DEF next

LEMMA KeptTail ==
  ASSUME NEW h \in Seq(HwEntries), h # <<>>, NEW kind,
         NEW window, NEW depth, KeptIn(h, window, depth, kind)
  PROVE  KeptIn(Tail(h), window, depth, kind)
<1> DEFINE rest == Tail(h)
<1>1. \A i \in DOMAIN rest : i + 1 \in DOMAIN h /\ rest[i] = h[i + 1]
  OBVIOUS
<1>2. \A i \in DOMAIN rest : Rank(rest, i, kind) = Rank(h, i + 1, kind)
  BY RankTail
<1> HIDE DEF rest
<1>3. KeptIn(rest, window, depth, kind)
  BY <1>1, <1>2 DEF KeptIn
<1>4. QED
  BY <1>3 DEF rest

(***************************************************************************)
(* ReleaseOldInflightFrame drops nothing but what lies beyond the windows' *)
(* depths.                                                                 *)
(***************************************************************************)
LEMMA ReleaseKeeps ==
  ASSUME NEW images \in Seq(Images), NEW frames \in Seq(Nat),
         Len(images) <= StagingDepth + 1,
         ReleaseOldInflightFrame(images, frames)
  PROVE  /\ Keeps(inflight', images, StagingDepth) /\ Len(inflight') \in Nat
         /\ Keeps(hold', frames, HoldDepth) /\ Len(hold') \in Nat
<1>1. Len(images) \in Nat /\ Len(frames) \in Nat
  OBVIOUS
<1>2. ASSUME NEW s, NEW depth PROVE Keeps(s, s, depth)
  BY DEF Keeps
<1>3. Keeps(inflight', images, StagingDepth) /\ Len(inflight') \in Nat
  <2>1. CASE Len(images) > StagingDepth
    <3> DEFINE rest == Tail(images)
    <3>1. inflight' = rest
      BY <2>1 DEF ReleaseOldInflightFrame
    <3>2. images # <<>>
      BY <1>1, <2>1, Depths
    <3>3. /\ Len(rest) = Len(images) - 1 /\ Len(rest) \in Nat
          /\ \A j \in 1 .. Len(rest) : rest[j] = images[j + 1]
      BY <1>1, <3>2
    <3> HIDE DEF rest
    <3>4. ASSUME NEW k \in Nat, k < Len(images), k < StagingDepth
          PROVE  k < Len(rest) /\ rest[Len(rest) - k] = images[Len(images) - k]
      <4>1. /\ k < Len(rest) /\ Len(rest) - k \in 1 .. Len(rest)
            /\ (Len(rest) - k) + 1 = Len(images) - k
        BY <1>1, <2>1, <3>3, <3>4, Depths
      <4>2. QED
        BY <3>3, <4>1
    <3>5. QED
      BY <3>1, <3>3, <3>4 DEF Keeps
  <2>2. CASE ~(Len(images) > StagingDepth)
    BY <1>1, <1>2, <2>2 DEF ReleaseOldInflightFrame
  <2>3. QED
    BY <2>1, <2>2
<1>4. Keeps(hold', frames, HoldDepth) /\ Len(hold') \in Nat
  <2>1. CASE Len(frames) > HoldDepth
    <3> DEFINE first == Len(frames) - HoldDepth + 1
               rest == SubSeq(frames, first, Len(frames))
    <3>1. hold' = rest
      BY <2>1 DEF ReleaseOldInflightFrame
    <3>2. first \in 1 .. Len(frames) + 1 /\ first \in Nat /\ Len(frames) - first + 1 = HoldDepth
      BY <1>1, <2>1, Depths
    <3>3. Len(rest) = HoldDepth /\ \A j \in 1 .. HoldDepth : rest[j] = frames[first + j - 1]
      <4> HIDE DEF first
      <4>1. Len(rest) = Len(frames) - first + 1
        BY <3>2, SuffixType
      <4>2. \A j \in 1 .. Len(frames) - first + 1 : rest[j] = frames[first + j - 1]
        BY <1>1, <3>2
      <4>3. QED
        BY <3>2, <4>1, <4>2
    <3> HIDE DEF rest
    <3>4. ASSUME NEW k \in Nat, k < Len(frames), k < HoldDepth
          PROVE  k < Len(rest) /\ rest[Len(rest) - k] = frames[Len(frames) - k]
      <4>1. /\ k < Len(rest) /\ HoldDepth - k \in 1 .. HoldDepth
            /\ first + (HoldDepth - k) - 1 = Len(frames) - k
        BY <1>1, <3>3, <3>4, Depths
      <4> HIDE DEF first
      <4>2. QED
        BY <3>3, <4>1
    <3>5. QED
      BY <3>1, <3>3, <3>4, Depths DEF Keeps
  <2>2. CASE ~(Len(frames) > HoldDepth)
    BY <1>1, <1>2, <2>2 DEF ReleaseOldInflightFrame
  <2>3. QED
    BY <2>1, <2>2
<1>5. QED
  BY <1>3, <1>4

(***************************************************************************)
(* Sending a frame puts it, or its staging image, at the end of its window.*)
(***************************************************************************)
LEMMA KeptSent ==
  ASSUME TypeOK, StagingInv, KeptInv, SendAccepted
  PROVE  KeptInv'
<1> DEFINE e == [frame |-> taken, image |-> IF work = NoBuffer THEN NoBuffer ELSE work.id]
<1>0. /\ inflight \in Seq(Images) /\ hold \in Seq(Nat) /\ hw \in Seq(HwEntries) /\ taken \in Nat
      /\ Len(inflight) \in Nat /\ Len(hold) \in Nat
      /\ Len(inflight) <= StagingDepth /\ Len(hold) <= HoldDepth
      /\ work # NoBuffer => work \in Images /\ work.id \in Buffers
      /\ StagingDepth \in Nat /\ StagingDepth > 0 /\ HoldDepth \in Nat /\ HoldDepth > 0
      /\ NoBuffer \notin Buffers
  BY StagingTypes, Depths DEF StagingInv, WindowInv
<1>1. hw' = Append(hw, e) /\ strm' = strm /\ e \in HwEntries
  BY <1>0 DEF SendAccepted, streamVars, HwEntries
<1> SUFFICES ASSUME strm # "off"
             PROVE  /\ KeptIn(hw', inflight', StagingDepth, "staged")
                    /\ KeptIn(hw', hold', HoldDepth, "aliased")
  BY <1>1 DEF KeptInv
<1>2. KeptIn(hw, inflight, StagingDepth, "staged") /\ KeptIn(hw, hold, HoldDepth, "aliased")
  BY DEF KeptInv
<1>3. CASE work # NoBuffer
  <2> DEFINE images == Append(inflight, work)
  <2>1. ReleaseOldInflightFrame(images, hold)
    BY <1>3 DEF SendAccepted
  <2>2. /\ images \in Seq(Images) /\ Len(images) = Len(inflight) + 1
        /\ images[Len(images)] = work /\ \A k \in 1 .. Len(inflight) : images[k] = inflight[k]
    BY <1>0, <1>3
  <2>3. Kind(e) = "staged" /\ Serves(e, work)
    BY <1>0, <1>3 DEF Kind, Serves
  <2> HIDE DEF images, e
  <2>4. Len(images) <= StagingDepth + 1
    BY <1>0, <2>2
  <2>5. Keeps(inflight', images, StagingDepth) /\ Len(inflight') \in Nat
    BY <1>0, <2>1, <2>2, <2>4, ReleaseKeeps
  <2>6. KeptIn(Append(hw, e), inflight', StagingDepth, "staged")
    BY <1>0, <1>1, <1>2, <2>2, <2>3, <2>5, KeptAppended
  <2>7. hold' = hold
    BY <1>0, <2>1 DEF ReleaseOldInflightFrame
  <2>8. KeptIn(Append(hw, e), hold, HoldDepth, "aliased")
    <3>1. Kind(e) # "aliased"
      BY <2>3
    <3>2. QED
      BY <1>0, <1>1, <1>2, <3>1, KeptBeside
  <2>9. QED
    BY <1>1, <2>6, <2>7, <2>8
<1>4. CASE work = NoBuffer
  <2> DEFINE frames == Append(hold, taken)
  <2>1. ReleaseOldInflightFrame(inflight, frames)
    BY <1>4 DEF SendAccepted
  <2>2. /\ frames \in Seq(Nat) /\ Len(frames) = Len(hold) + 1
        /\ frames[Len(frames)] = taken /\ \A k \in 1 .. Len(hold) : frames[k] = hold[k]
    BY <1>0
  <2>3. Kind(e) = "aliased" /\ Serves(e, taken)
    BY <1>4 DEF Kind, Serves
  <2> HIDE DEF frames, e
  <2>4. Len(inflight) <= StagingDepth + 1
    BY <1>0
  <2>5. Keeps(hold', frames, HoldDepth) /\ Len(hold') \in Nat
    BY <1>0, <2>1, <2>2, <2>4, ReleaseKeeps
  <2>6. KeptIn(Append(hw, e), hold', HoldDepth, "aliased")
    BY <1>0, <1>1, <1>2, <2>2, <2>3, <2>5, KeptAppended
  <2>7. inflight' = inflight
    BY <1>0, <2>1 DEF ReleaseOldInflightFrame
  <2>8. KeptIn(Append(hw, e), inflight, StagingDepth, "staged")
    <3>1. Kind(e) # "staged"
      BY <2>3
    <3>2. QED
      BY <1>0, <1>1, <1>2, <3>1, KeptBeside
  <2>9. QED
    BY <1>1, <2>6, <2>7, <2>8
<1>5. QED
  BY <1>3, <1>4

(***************************************************************************)
(* Every other step takes from the hardware's front at most, or empties    *)
(* it; the windows are emptied only when the stream thread is gone or the  *)
(* hardware is reset.                                                      *)
(***************************************************************************)
LEMMA HwShrinks ==
  ASSUME TypeOK, WakeupInv, [Next]_vars, ~SendAccepted
  PROVE  \/ hw' = <<>>
         \/ strm' = "off"
         \/ /\ hw' = hw \/ (hw # <<>> /\ hw' = Tail(hw))
            /\ strm # "off"
            /\ UNCHANGED <<inflight, hold>>
<1> USE DEF sessionVars, queueVars, stagingVars, streamVars
<1>1. CASE UNCHANGED vars
  BY <1>1 DEF vars
<1>2. CASE StreamStep
  BY <1>2 DEF StreamStep, StreamPacket, StreamCallbackReturns, StreamIdlePoll, StreamFlowEnd
<1>3. CASE SessionActions
  <2>1. CASE StopReturns
    <3>1. strm = "off" /\ strm' = strm
      BY <2>1 DEF StopReturns, WakeupInv, SessionInv, StreamThreadExists
    <3>2. QED
      BY <3>1
  <2>2. CASE StopBackend
    BY <2>2 DEF StopBackend
  <2>3. QED
    BY <1>3, <2>1, <2>2
       DEF SessionActions, CreateBackend, SetPacketCallback, Start, StartBackendFails,
           StartThreads, StartReturns, Stop, CloseStopped, StopClear, StopNotify, JoinSend,
           JoinStream, CloseReturns
<1>4. ASSUME NEW p \in Producers, SubmitFrame(p) \/ SubmitLocked(p) \/ SubmitWoken(p)
      PROVE  UNCHANGED <<hw, strm, inflight, hold>>
  BY <1>4 DEF SubmitFrame, SubmitLocked, SubmitWoken
<1>5. CASE SendLoopTop \/ PrepareInputFrame \/ SendRefused
  BY <1>5 DEF SendLoopTop, PrepareInputFrame, SendRefused
<1>6. ASSUME NEW t \in Threads, FallAsleep(t) \/ SpuriousWakeup(t)
      PROVE  UNCHANGED <<hw, strm, inflight, hold>>
  BY <1>6 DEF FallAsleep, SpuriousWakeup
<1>7. QED
  BY <1>1, <1>2, <1>3, <1>4, <1>5, <1>6, NextCases

LEMMA KeptStep ==
  ASSUME TypeOK, WakeupInv, StagingInv, KeptInv, [Next]_vars
  PROVE  KeptInv'
<1>0. hw \in Seq(HwEntries)
  BY DEF TypeOK
<1>1. CASE SendAccepted
  BY <1>1, KeptSent
<1>2. CASE hw' = <<>> \/ strm' = "off"
  BY <1>2, KeptEmpty DEF KeptInv
<1>3. CASE /\ hw' = hw \/ (hw # <<>> /\ hw' = Tail(hw))
           /\ strm # "off"
           /\ UNCHANGED <<inflight, hold>>
  <2>1. KeptIn(hw, inflight, StagingDepth, "staged") /\ KeptIn(hw, hold, HoldDepth, "aliased")
    BY <1>3 DEF KeptInv
  <2>2. /\ KeptIn(hw', inflight, StagingDepth, "staged")
        /\ KeptIn(hw', hold, HoldDepth, "aliased")
    <3>1. CASE hw' = hw
      BY <2>1, <3>1
    <3>2. CASE hw # <<>> /\ hw' = Tail(hw)
      BY <1>0, <2>1, <3>2, KeptTail
    <3>3. QED
      BY <1>3, <3>1, <3>2
  <2>3. QED
    BY <1>3, <2>2 DEF KeptInv
<1>4. QED
  BY <1>1, <1>2, <1>3, HwShrinks

(***************************************************************************)
(* A buffer the hardware may still be reading is not overwritten, and an   *)
(* aliased frame not released, before as many frames of its kind as its    *)
(* window holds were sent after it.                                        *)
(***************************************************************************)
THEOREM HardwareInputsStayKept == Spec => []HardwareInputsKept
<1>1. Init => WorkInv /\ StagingInv /\ KeptInv
  BY EmptyFits DEF Init, WorkInv, StagingInv, WindowInv, KeptInv
<1>2. TypeOK /\ WakeupInv /\ WorkInv /\ StagingInv /\ KeptInv /\ [Next]_vars
        => WorkInv' /\ StagingInv' /\ KeptInv'
  BY WorkStep, StagingStep, KeptStep
<1>3. TypeOK /\ StagingInv /\ KeptInv => HardwareInputsKept
  <2> SUFFICES ASSUME TypeOK, StagingInv, KeptInv, strm # "off", NEW i \in DOMAIN hw
               PROVE  IF hw[i].image # NoBuffer
                      THEN Cardinality(StagedAfter(i)) < StagingDepth =>
                             /\ hw[i].image \notin ImageIds(reusable)
                             /\ work # NoBuffer => work.id # hw[i].image
                      ELSE Cardinality(AliasedAfter(i)) < HoldDepth =>
                             \E j \in DOMAIN hold : hold[j] = hw[i].frame
    BY DEF HardwareInputsKept
  <2>1. /\ hw \in Seq(HwEntries) /\ inflight \in Seq(Images) /\ hold \in Seq(Nat)
        /\ Len(inflight) \in Nat /\ Len(hold) \in Nat /\ i \in Nat
    <3>1. hw \in Seq(HwEntries)
      BY StagingTypes
    <3>2. i \in Nat
      BY <3>1
    <3>3. QED
      BY <3>1, <3>2, StagingTypes
  <2>2. CASE hw[i].image # NoBuffer
    <3> DEFINE r == Rank(hw, i, "staged")
    <3>1. StagedAfter(i) = Later(hw, i, "staged")
      BY DEF StagedAfter, Later, Kind
    <3>2. Kind(hw[i]) = "staged" /\ r \in Nat
      BY <2>1, <2>2, RankType DEF Kind
    <3> SUFFICES ASSUME r < StagingDepth
                 PROVE  /\ hw[i].image \notin ImageIds(reusable)
                        /\ work # NoBuffer => work.id # hw[i].image
      BY <2>2, <3>1 DEF Rank
    <3>3. r < Len(inflight) /\ Serves(hw[i], inflight[Len(inflight) - r])
      BY <3>2 DEF KeptInv, KeptIn
    <3> HIDE DEF r
    <3>4. Len(inflight) - r \in DOMAIN inflight
      BY <2>1, <3>2, <3>3
    <3>5. hw[i].image \in ImageIds(inflight)
      BY <2>2, <3>3, <3>4 DEF Serves, ImageIds
    <3>6. QED
      BY <3>5 DEF StagingInv, Fits, Disjoint, ImageIds
  <2>3. CASE hw[i].image = NoBuffer
    <3> DEFINE r == Rank(hw, i, "aliased")
    <3>1. AliasedAfter(i) = Later(hw, i, "aliased")
      BY DEF AliasedAfter, Later, Kind
    <3>2. Kind(hw[i]) = "aliased" /\ r \in Nat
      BY <2>1, <2>3, RankType DEF Kind
    <3> SUFFICES ASSUME r < HoldDepth
                 PROVE  \E j \in DOMAIN hold : hold[j] = hw[i].frame
      BY <2>3, <3>1 DEF Rank
    <3>3. r < Len(hold) /\ Serves(hw[i], hold[Len(hold) - r])
      BY <3>2 DEF KeptInv, KeptIn
    <3> HIDE DEF r
    <3>4. Len(hold) - r \in DOMAIN hold
      BY <2>1, <3>2, <3>3
    <3>5. QED
      BY <2>3, <3>3, <3>4 DEF Serves
  <2>4. QED
    BY <2>2, <2>3
<1>4. QED
  BY <1>1, <1>2, <1>3, TypeCorrect, WakeupInvariant, PTL DEF Spec
=============================================================================
