--------------------------- MODULE PipelineProofs ---------------------------
(***************************************************************************)
(* Theorems about Pipeline, for all outputs, overflow policies, queue      *)
(* depths, overlays and numbers of frames.                                 *)
(***************************************************************************)
EXTENDS Pipeline, FiniteSetTheorems, TLAPS

(***************************************************************************)
(* The inductive invariant.  The application thread's position says which  *)
(* parts of the pipeline Stop has already dealt with.                      *)
(***************************************************************************)
StopPhases ==
  {"stop_decoder", "join_decoder", "join_demux", "clear", "lock", "stop_encoders",
   "join_encoder", "stop_callback", "notify_callback", "join_callback"}

OutputPhases == {"add", "remove", "remove_stop", "remove_join"}

DecoderStopped == ~running \/ ctl \in StopPhases \ {"stop_decoder", "join_decoder"}
DemuxStopped ==
  ~running \/ ctl \in StopPhases \ {"stop_decoder", "join_decoder", "join_demux"}
Cleared ==
  ~running \/ ctl \in StopPhases \ {"stop_decoder", "join_decoder", "join_demux", "clear"}
OutputsStopped == ~running \/ ctl \in {"stop_callback", "notify_callback", "join_callback"}
CallbackTold == ~running \/ ctl \in {"notify_callback", "join_callback"}

ControlInv ==
  /\ running => open
  /\ ctl \in StopPhases => running
  /\ ctl \in OutputPhases => open
  /\ ctl = "close" => open /\ ~running
  /\ goal = "close" => ctl = "close" \/ ctl \in StopPhases
  /\ lock = "app" <=> ctl \in {"stop_encoders", "join_encoder"}
  /\ lock = "fan" <=> fan = "submit"

InputInv ==
  /\ dec = IF ~open THEN "none" ELSE IF DecoderStopped THEN "open"
           ELSE IF ctl = "join_decoder" THEN "stopping" ELSE "running"
  /\ DecoderStopped => input = 0 /\ outq = <<>> /\ fan = "idle"
  /\ demux = "off" <=> DemuxStopped
  /\ fan = "idle" => picture = NoPicture
  /\ Cleared => latest = 0

(***************************************************************************)
(* The encoder of the i-th branch, and of a branch that is not (yet, or no *)
(* longer) in branches_.                                                   *)
(***************************************************************************)
EncoderAt(i) ==
  IF OutputsStopped THEN "open"
  ELSE IF ctl \in {"stop_encoders", "join_encoder"} /\ i < index THEN "open"
  ELSE IF ctl = "join_encoder" /\ i = index THEN "stopping"
  ELSE "running"

EncoderApart(b) ==
  IF b # subject THEN "none"
  ELSE IF ~running THEN "open"
  ELSE IF ctl = "remove_join" THEN "stopping"
  ELSE "running"

OutputInv ==
  /\ ctl \in {"remove", "join_encoder"} => index \in 1 .. Len(branches)
  /\ ctl = "stop_encoders" => index \in 1 .. Len(branches) + 1
  /\ subject # NoBranch <=> ctl \in {"add", "remove_stop", "remove_join"}
  /\ subject \notin ToSet(branches)
  /\ ~open => branches = <<>>
  /\ \A i \in 1 .. Len(branches) : enc[branches[i]] = EncoderAt(i)
  /\ \A b \in Branches \ ToSet(branches) : enc[b] = EncoderApart(b)
  /\ fan = "submit" => at \in 1 .. Len(branches) + 1

(***************************************************************************)
(* What an encoder may be doing, and when its muxer is open.               *)
(***************************************************************************)
StreamInv ==
  \A b \in Branches :
    /\ mux[b] = "none" <=> enc[b] = "none"
    /\ enc[b] # "running" => inq[b] = <<>>
    /\ strm[b] # "idle" => enc[b] \in {"running", "stopping"}
    /\ strm[b] # "encode" => coding[b] = NoPicture

(***************************************************************************)
(* The frame callback thread holds the mutex of its predicate until it     *)
(* waits, so that nothing can be put into the slot, and no Stop announced, *)
(* in between.                                                             *)
(***************************************************************************)
CallbackInv ==
  /\ caller = "off" <=> ~running
  /\ running => (callbackStop <=> ctl \in {"notify_callback", "join_callback"})
  /\ CallbackTold => slot = 0
  /\ caller \in {"sleep", "wait"} => slot = 0
  /\ caller = "sleep" => ~callbackStop
  /\ ctl = "join_callback" => caller # "wait"

(***************************************************************************)
(* The counter holds the frames that an overlay is still to be drawn on.   *)
(***************************************************************************)
OverlayInv ==
  /\ drawn.frames <= drawn.hold
  /\ left = drawn.hold - drawn.frames
  /\ drawn.hold > 0 => activeOsd = IF left = 0 THEN NoOverlay ELSE drawn.hold
  /\ drawn.hold = 0 => activeOsd \in {NoOverlay, 0}

(***************************************************************************)
(* What every picture shows, on its way from the decoder to the encoders.  *)
(***************************************************************************)
Kept(p) == p.image > 0 => p.image \in 1 .. Len(pool) /\ pool[p.image] = p.frame

PictureInv ==
  /\ fan # "idle" => picture.frame > 0
  /\ picture.image > 0 => fan \in {"lock", "submit"}
  /\ Kept(picture)
  /\ \A b \in Branches : Kept(coding[b]) /\ \A k \in 1 .. Len(inq[b]) : Kept(inq[b][k])

(***************************************************************************)
(* Frames are numbered as they are decoded; each place on their way to the *)
(* frame callback has an older one than the place before it.               *)
(***************************************************************************)
OrderInv ==
  /\ decoded + input + (IF demux = "submit" THEN 1 ELSE 0) <= MaxFrames
  /\ ~open => holding = 0
  /\ holding <= decoded /\ slot <= decoded /\ picture.frame <= decoded
  /\ slot # 0 => holding < slot
  /\ fan = "offer" => holding < picture.frame /\ slot < picture.frame
  /\ \A k \in 1 .. Len(outq) :
       /\ holding < outq[k] /\ slot < outq[k] /\ picture.frame < outq[k]
       /\ outq[k] <= decoded
  /\ \A k, l \in 1 .. Len(outq) : k < l => outq[k] < outq[l]

PipelineInv ==
  /\ TypeOK /\ ControlInv /\ InputInv /\ OutputInv /\ StreamInv /\ CallbackInv
  /\ OverlayInv /\ PictureInv /\ OrderInv

-----------------------------------------------------------------------------
(* The phases of Stop.                                                     *)

(***************************************************************************)
(* The application's calls, the lock and the phases of Stop fit together.  *)
(***************************************************************************)
LEMMA ControlStep == PipelineInv /\ [Next]_vars => ControlInv'
<1> SUFFICES ASSUME PipelineInv, [Next]_vars PROVE ControlInv'
  OBVIOUS
<1> USE DEF PipelineInv, ControlInv, StopPhases, OutputPhases, flagVars, ctlVars, encVars, decVars,
            fanVars, callVars, osdVars, outputVars
<1>1. CASE DemuxStep
  BY <1>1 DEF DemuxStep
<1>2. CASE DecodeStep
  BY <1>2 DEF DecodeStep
<1>3. CASE FanStep
  BY <1>3 DEF FanStep, FanPublish, FanOffer, FanCheck, FanOsd, FanLock, FanSubmit, FanUnlock, TypeOK
<1>4. CASE CallbackStep
  BY <1>4 DEF CallbackStep
<1>5. ASSUME NEW b \in Branches, StreamStep(b) PROVE ControlInv'
  BY <1>5 DEF StreamStep
<1>6. CASE AppCall
  <2>1. CASE Open
    BY <2>1 DEF Open
  <2>5. CASE Start
    BY <2>5 DEF Start
  <2>7. CASE StartFails
    BY <2>7 DEF StartFails
  <2>8. CASE CloseStopped
    BY <2>8 DEF CloseStopped
  <2>6. CASE Stop("stop") \/ Stop("close")
    BY <2>6 DEF Stop
  <2>2. CASE SetFrameCallback \/ ClearOsd \/ \E hold \in Holds : SetOsd(hold)
    BY <1>6, <2>2 DEF SetFrameCallback, ClearOsd, SetOsd
  <2>3. CASE OutputCall
    BY <1>6, <2>3 DEF OutputCall, AddOutput, RemoveOutput, OutputInv
  <2>4. QED
    BY <1>6, <2>1, <2>2, <2>3, <2>5, <2>6, <2>7, <2>8 DEF AppCall
<1>7. CASE AppStep
  <2>1. CASE StopStep
    <3>1. CASE StopInput
      BY <2>1, <3>1 DEF StopStep, StopInput, StopDecoder, JoinDecoder, JoinDemux
    <3>2. CASE StopClears
      BY <2>1, <3>2 DEF StopStep, StopClears
    <3>3. CASE StopOutputs
      BY <2>1, <3>3 DEF StopStep, StopOutputs, StopLocks, StopEncoder, JoinEncoder, StopUnlocks, TypeOK
    <3>4. CASE StopCallbacks
      BY <2>1, <3>4 DEF StopStep, StopCallbacks, StopCallback, NotifyCallback, StopReturns, TypeOK
    <3>5. QED
      BY <2>1, <3>1, <3>2, <3>3, <3>4 DEF StopStep
  <2>2. CASE CloseReturns
    BY <2>2 DEF CloseReturns
  <2>3. CASE OutputStep
    BY <2>3 DEF OutputStep, AddOutputReturns, RemoveErases, RemoveStops, RemoveOutputReturns
  <2>4. QED
    BY <1>7, <2>1, <2>2, <2>3 DEF AppStep
<1>8. CASE UNCHANGED vars
  BY <1>8 DEF vars
<1>9. QED
  BY <1>1, <1>2, <1>3, <1>4, <1>5, <1>6, <1>7, <1>8 DEF Next

(***************************************************************************)
(* Decoder, demux thread and callback queue follow the phases of Stop.     *)
(***************************************************************************)
LEMMA InputStep == PipelineInv /\ [Next]_vars => InputInv'
<1> SUFFICES ASSUME PipelineInv, [Next]_vars PROVE InputInv'
  OBVIOUS
<1> USE DEF PipelineInv, ControlInv, InputInv, StopPhases, OutputPhases, DecoderStopped, DemuxStopped,
            Cleared, flagVars, ctlVars, encVars, decVars, fanVars, callVars, osdVars, outputVars
<1>1. CASE DemuxStep
  BY <1>1 DEF DemuxStep, DemuxReads, DemuxReadFails, DemuxSubmits, DemuxSubmitFails
<1>2. CASE DecodeStep
  BY <1>2 DEF DecodeStep, Decode, DecodeNothing, TypeOK
<1>3. CASE FanStep
  BY <1>3 DEF FanStep, FanPublish, FanOffer, FanCheck, FanOsd, FanLock, FanSubmit, FanUnlock
<1>4. CASE CallbackStep
  BY <1>4 DEF CallbackStep
<1>5. ASSUME NEW b \in Branches, StreamStep(b) PROVE InputInv'
  BY <1>5 DEF StreamStep
<1>6. CASE AppCall
  <2>1. CASE Open
    BY <2>1 DEF Open
  <2>2. CASE Start
    BY <2>2 DEF Start
  <2>3. CASE StartFails
    BY <2>3 DEF StartFails
  <2>4. CASE Stop("stop") \/ Stop("close")
    BY <2>4 DEF Stop
  <2>5. CASE CloseStopped
    BY <2>5 DEF CloseStopped
  <2>6. CASE SetFrameCallback \/ ClearOsd \/ \E hold \in Holds : SetOsd(hold)
    BY <2>6 DEF SetFrameCallback, ClearOsd, SetOsd
  <2>7. CASE OutputCall
    BY <2>7 DEF OutputCall, AddOutput, RemoveOutput
  <2>8. QED
    BY <1>6, <2>1, <2>2, <2>3, <2>4, <2>5, <2>6, <2>7 DEF AppCall
<1>7. CASE AppStep
  <2>1. CASE StopStep
    <3>1. CASE StopInput
      BY <2>1, <3>1 DEF StopStep, StopInput, StopDecoder, JoinDecoder, JoinDemux
    <3>2. CASE StopClears
      BY <2>1, <3>2 DEF StopStep, StopClears
    <3>3. CASE StopOutputs
      BY <2>1, <3>3 DEF StopStep, StopOutputs, StopLocks, StopEncoder, JoinEncoder, StopUnlocks
    <3>4. CASE StopCallbacks
      BY <2>1, <3>4 DEF StopStep, StopCallbacks, StopCallback, NotifyCallback, StopReturns
    <3>5. QED
      BY <2>1, <3>1, <3>2, <3>3, <3>4 DEF StopStep
  <2>2. CASE CloseReturns
    BY <2>2 DEF CloseReturns
  <2>3. CASE OutputStep
    BY <2>3 DEF OutputStep, AddOutputReturns, RemoveErases, RemoveStops, RemoveOutputReturns
  <2>4. QED
    BY <1>7, <2>1, <2>2, <2>3 DEF AppStep
<1>8. CASE UNCHANGED vars
  BY <1>8 DEF vars
<1>9. QED
  BY <1>1, <1>2, <1>3, <1>4, <1>5, <1>6, <1>7, <1>8 DEF Next

(***************************************************************************)
(* Every step leaves the frame callback thread told what it has to know.   *)
(***************************************************************************)
LEMMA CallbackInvStep == PipelineInv /\ [Next]_vars => CallbackInv'
<1> SUFFICES ASSUME PipelineInv, [Next]_vars PROVE CallbackInv'
  OBVIOUS
<1> USE DEF PipelineInv, ControlInv, CallbackInv, StopPhases, OutputPhases, CallbackTold, Wake,
            CallbackMutexFree,
            flagVars, ctlVars, encVars, decVars, fanVars, callVars, osdVars, outputVars
<1>1. CASE DemuxStep
  BY <1>1 DEF DemuxStep
<1>2. CASE DecodeStep
  BY <1>2 DEF DecodeStep
<1>3. CASE FanStep
  BY <1>3 DEF FanStep, FanPublish, FanOffer, FanCheck, FanOsd, FanLock, FanSubmit, FanUnlock,
              InputInv, DecoderStopped
<1>4. CASE CallbackStep
  BY <1>4 DEF CallbackStep, CallbackWaits, CallbackBlocks, CallbackEnds, CallbackTakes, CallbackReturns
<1>5. ASSUME NEW b \in Branches, StreamStep(b) PROVE CallbackInv'
  BY <1>5 DEF StreamStep
<1>6. CASE AppCall
  <2>1. CASE Open
    BY <2>1 DEF Open
  <2>2. CASE Start
    BY <2>2 DEF Start
  <2>3. CASE StartFails
    BY <2>3 DEF StartFails
  <2>4. CASE Stop("stop") \/ Stop("close")
    BY <2>4 DEF Stop
  <2>5. CASE CloseStopped
    BY <2>5 DEF CloseStopped
  <2>6. CASE SetFrameCallback \/ ClearOsd \/ \E hold \in Holds : SetOsd(hold)
    BY <2>6 DEF SetFrameCallback, ClearOsd, SetOsd
  <2>7. CASE OutputCall
    BY <2>7 DEF OutputCall, AddOutput, RemoveOutput
  <2>8. QED
    BY <1>6, <2>1, <2>2, <2>3, <2>4, <2>5, <2>6, <2>7 DEF AppCall
<1>7. CASE AppStep
  <2>1. CASE StopStep
    <3>1. CASE StopInput
      BY <2>1, <3>1 DEF StopStep, StopInput, StopDecoder, JoinDecoder, JoinDemux
    <3>2. CASE StopClears
      BY <2>1, <3>2 DEF StopStep, StopClears
    <3>3. CASE StopOutputs
      BY <2>1, <3>3 DEF StopStep, StopOutputs, StopLocks, StopEncoder, JoinEncoder, StopUnlocks
    <3>4. CASE StopCallbacks
      BY <2>1, <3>4 DEF StopStep, StopCallbacks, StopCallback, NotifyCallback, StopReturns
    <3>5. QED
      BY <2>1, <3>1, <3>2, <3>3, <3>4 DEF StopStep
  <2>2. CASE CloseReturns
    BY <2>2 DEF CloseReturns
  <2>3. CASE OutputStep
    BY <2>3 DEF OutputStep, AddOutputReturns, RemoveErases, RemoveStops, RemoveOutputReturns
  <2>4. QED
    BY <1>7, <2>1, <2>2, <2>3 DEF AppStep
<1>8. CASE UNCHANGED vars
  BY <1>8 DEF vars
<1>9. QED
  BY <1>1, <1>2, <1>3, <1>4, <1>5, <1>6, <1>7, <1>8 DEF Next

-----------------------------------------------------------------------------
(* Overlays.                                                               *)

(***************************************************************************)
(* A hold is a number of frames.                                           *)
(***************************************************************************)
LEMMA HoldType == \A h \in Holds : h \in Nat
BY PipelineAssumption

LEMMA OverlayType ==
  ASSUME NEW d \in [hold : Holds \union {0}, frames : Nat]
  PROVE  d.hold \in Nat /\ d.frames \in Nat
<1>1. d.hold \in Holds \union {0} /\ d.frames \in Nat
  OBVIOUS
<1>2. QED
  BY <1>1, HoldType

(***************************************************************************)
(* Every frame drawn on takes one from what is left of the overlay.        *)
(***************************************************************************)
LEMMA OverlayStep == PipelineInv /\ [Next]_vars => OverlayInv'
<1> SUFFICES ASSUME PipelineInv, [Next]_vars PROVE OverlayInv'
  OBVIOUS
<1> USE DEF PipelineInv, OverlayInv, NoOverlay,
            flagVars, ctlVars, encVars, decVars, fanVars, callVars, osdVars, outputVars
<1>1. CASE DemuxStep
  BY <1>1 DEF DemuxStep
<1>2. CASE DecodeStep
  BY <1>2 DEF DecodeStep
<1>3. CASE FanStep
  <2>1. CASE FanOsd /\ TakeOverlay
    <3>1. /\ drawn \in [hold : Holds \union {0}, frames : Nat]
          /\ pendingOsd \in Nat \union {NoOverlay} /\ left \in Nat
      BY HoldType DEF TypeOK
    <3>2. drawn.hold \in Nat /\ drawn.frames \in Nat
      BY OverlayType DEF TypeOK
    <3>3. CASE pendingOsd # NoOverlay
      <4>1. /\ pendingOsd \in Nat
            /\ drawn'.hold = pendingOsd
            /\ drawn'.frames = IF pendingOsd = 0 THEN 0 ELSE 1
        BY <2>1, <3>1, <3>3 DEF TakeOverlay, OverlayDrawn
      <4>2. /\ left' = IF pendingOsd > 0 THEN pendingOsd - 1 ELSE pendingOsd
            /\ activeOsd' = IF pendingOsd = 1 THEN NoOverlay ELSE pendingOsd
        BY <2>1, <3>3 DEF TakeOverlay, CountOverlay, Overlay, OverlayLeft
      <4>3. QED
        BY <4>1, <4>2
    <3>4. CASE pendingOsd = NoOverlay
      <4>1. /\ drawn'.hold = drawn.hold
            /\ drawn'.frames = IF drawn.hold = 0 THEN drawn.frames ELSE drawn.frames + 1
        BY <2>1, <3>1, <3>2, <3>4 DEF TakeOverlay, OverlayDrawn
      <4>2. /\ activeOsd # NoOverlay
            /\ left' = IF left > 0 THEN left - 1 ELSE left
            /\ activeOsd' = IF left = 1 THEN NoOverlay ELSE activeOsd
        BY <2>1, <3>4 DEF TakeOverlay, CountOverlay, Overlay, OverlayLeft
      <4>3. QED
        BY <3>1, <3>2, <4>1, <4>2
    <3>5. QED
      BY <3>3, <3>4
  <2>2. CASE UNCHANGED osdVars
    BY <2>2
  <2>3. QED
    BY <1>3, <2>1, <2>2 DEF FanStep, FanPublish, FanOffer, FanCheck, FanOsd, FanLock, FanSubmit, FanUnlock
<1>4. CASE CallbackStep
  BY <1>4 DEF CallbackStep
<1>5. ASSUME NEW b \in Branches, StreamStep(b) PROVE OverlayInv'
  BY <1>5 DEF StreamStep
<1>6. CASE AppCall
  <2>1. CASE Open
    BY <2>1 DEF Open
  <2>2. CASE Start
    BY <2>2 DEF Start
  <2>3. CASE StartFails
    BY <2>3 DEF StartFails
  <2>4. CASE Stop("stop") \/ Stop("close")
    BY <2>4 DEF Stop
  <2>5. CASE CloseStopped
    BY <2>5 DEF CloseStopped
  <2>6. CASE SetFrameCallback \/ ClearOsd \/ \E hold \in Holds : SetOsd(hold)
    BY <2>6 DEF SetFrameCallback, ClearOsd, SetOsd
  <2>7. CASE OutputCall
    BY <2>7 DEF OutputCall
  <2>8. QED
    BY <1>6, <2>1, <2>2, <2>3, <2>4, <2>5, <2>6, <2>7 DEF AppCall
<1>7. CASE AppStep
  BY <1>7 DEF AppStep, StopStep, StopInput, StopClears, StopOutputs, StopCallbacks, CloseReturns, OutputStep
<1>8. CASE UNCHANGED vars
  BY <1>8 DEF vars
<1>9. QED
  BY <1>1, <1>2, <1>3, <1>4, <1>5, <1>6, <1>7, <1>8 DEF Next

-----------------------------------------------------------------------------
(* Branches and their encoders.                                            *)

(***************************************************************************)
(* The elements of a sequence, and of one with an element removed.         *)
(***************************************************************************)
LEMMA ToSetElements ==
  ASSUME NEW S, NEW s \in Seq(S)
  PROVE  /\ ToSet(s) \subseteq S
         /\ \A x : x \in ToSet(s) <=> \E i \in 1 .. Len(s) : s[i] = x
BY DEF ToSet

LEMMA RemoveAtElements ==
  ASSUME NEW S, NEW s \in Seq(S), NEW i \in 1 .. Len(s)
  PROVE  /\ RemoveAt(s, i) \in Seq(S)
         /\ Len(RemoveAt(s, i)) = Len(s) - 1
         /\ \A k \in 1 .. Len(s) - 1 :
              RemoveAt(s, i)[k] = IF k < i THEN s[k] ELSE s[k + 1]
<1> DEFINE front == SubSeq(s, 1, i - 1)
           rest == SubSeq(s, i + 1, Len(s))
<1>1. front \in Seq(S) /\ Len(front) = i - 1 /\ \A k \in 1 .. i - 1 : front[k] = s[k]
  OBVIOUS
<1>2. rest \in Seq(S) /\ Len(rest) = Len(s) - i /\ \A k \in 1 .. Len(s) - i : rest[k] = s[i + k]
  OBVIOUS
<1>3. RemoveAt(s, i) = front \o rest
  BY DEF RemoveAt
<1> HIDE DEF front, rest
<1>4. /\ front \o rest \in Seq(S) /\ Len(front \o rest) = Len(s) - 1
      /\ \A k \in 1 .. Len(s) - 1 :
           (front \o rest)[k] = IF k <= i - 1 THEN front[k] ELSE rest[k - (i - 1)]
  BY <1>1, <1>2
<1>5. ASSUME NEW k \in 1 .. Len(s) - 1
      PROVE  (front \o rest)[k] = IF k < i THEN s[k] ELSE s[k + 1]
  <2>1. CASE k < i
    BY <2>1, <1>1, <1>4
  <2>2. CASE ~(k < i)
    <3>1. k - (i - 1) \in 1 .. Len(s) - i /\ i + (k - (i - 1)) = k + 1
      BY <2>2
    <3>2. QED
      BY <2>2, <3>1, <1>2, <1>4
  <2>3. QED
    BY <2>1, <2>2
<1>6. QED
  BY <1>3, <1>4, <1>5

(***************************************************************************)
(* The branches Open creates are distinct.                                 *)
(***************************************************************************)
LEMMA PermutationType ==
  ASSUME NEW s \in SetToAllKPermutations(Branches)
  PROVE  s \in Seq(Branches) /\ IsInjective(s)
<1>1. PICK B \in SUBSET Branches : s \in SetToSeqs(B)
  BY DEF SetToAllKPermutations
<1>2. Cardinality(B) \in Nat
  BY FS_Subset, FS_CardinalityType, PipelineAssumption
<1>3. s \in [1 .. Cardinality(B) -> B] /\ \A i, j \in 1 .. Cardinality(B) : i # j => s[i] # s[j]
  BY <1>1 DEF SetToSeqs
<1>4. QED
  BY <1>2, <1>3 DEF IsInjective

(***************************************************************************)
(* What TypeOK says of branches_, element by element.                      *)
(***************************************************************************)
LEMMA BranchesType ==
  ASSUME TypeOK
  PROVE  /\ branches \in Seq(Branches)
         /\ \A i \in 1 .. Len(branches) : branches[i] \in Branches /\ branches[i] \in ToSet(branches)
         /\ \A i, j \in 1 .. Len(branches) : branches[i] = branches[j] => i = j
         /\ \A b \in ToSet(branches) : \E i \in 1 .. Len(branches) : branches[i] = b
         /\ enc \in [Branches -> {"none", "open", "running", "stopping"}]
         /\ index \in Nat /\ at \in Nat
<1>1. branches \in Seq(Branches) /\ IsInjective(branches)
  BY DEF TypeOK
<1>2. DOMAIN branches = 1 .. Len(branches)
  BY <1>1
<1>3. \A i \in 1 .. Len(branches) : branches[i] \in Branches
  BY <1>1
<1>4. \A i, j \in 1 .. Len(branches) : branches[i] = branches[j] => i = j
  BY <1>1, <1>2 DEF IsInjective
<1>5. QED
  BY <1>1, <1>3, <1>4, ToSetElements DEF TypeOK

(***************************************************************************)
(* Steps that change none of its variables preserve OutputInv.             *)
(***************************************************************************)
LEMMA OutputUntouched ==
  ASSUME OutputInv, UNCHANGED <<open, running, ctl, index, subject, branches, enc, fan, at>>
  PROVE  OutputInv'
BY DEF OutputInv, EncoderAt, EncoderApart, OutputsStopped

(***************************************************************************)
(* Every encoder is in the state its branch's place asks for: AddOutput and*)
(* RemoveOutput move one branch, Stop goes through them in order.          *)
(***************************************************************************)
LEMMA OutputInvStep == PipelineInv /\ [Next]_vars => OutputInv'
<1> SUFFICES ASSUME PipelineInv, [Next]_vars PROVE OutputInv'
  OBVIOUS
<1> USE DEF flagVars, ctlVars, encVars, decVars, fanVars, callVars, osdVars, outputVars
<1>a. TypeOK /\ OutputInv /\ ControlInv /\ InputInv
  BY DEF PipelineInv
<1>b. NoBranch \notin Branches
  BY PipelineAssumption
<1>1. CASE DemuxStep \/ DecodeStep \/ CallbackStep \/ SetFrameCallback \/ StartFails \/ ClearOsd
  BY <1>1, <1>a, OutputUntouched
     DEF DemuxStep, DecodeStep, CallbackStep, SetFrameCallback, StartFails, ClearOsd
<1>2. ASSUME NEW b \in Branches, StreamStep(b) PROVE OutputInv'
  BY <1>2, <1>a, OutputUntouched DEF StreamStep
<1>3. ASSUME NEW hold \in Holds, SetOsd(hold) PROVE OutputInv'
  BY <1>3, <1>a, OutputUntouched DEF SetOsd
<1>4. CASE FanStep
  <2>1. UNCHANGED <<open, running, ctl, index, subject, branches, enc>>
    BY <1>4 DEF FanStep
  <2>2. fan' = "submit" => at' \in 1 .. Len(branches) + 1
    BY <1>4, <1>a, BranchesType
       DEF FanStep, FanPublish, FanOffer, FanCheck, FanOsd, FanLock, FanSubmit, FanUnlock, OutputInv
  <2>3. QED
    BY <1>a, <2>1, <2>2 DEF OutputInv, EncoderAt, EncoderApart, OutputsStopped
<1>5. CASE Open
  <2>1. PICK outputs \in SetToAllKPermutations(Branches) :
          /\ branches' = outputs
          /\ enc' = [b \in Branches |-> IF b \in ToSet(outputs) THEN "open" ELSE "none"]
    BY <1>5 DEF Open
  <2>2. /\ ctl = "idle" /\ ~open /\ ~running /\ fan = "idle" /\ subject = NoBranch
        /\ open' = TRUE /\ UNCHANGED <<running, ctl, index, subject, fan, at>>
    BY <1>5, <1>a DEF Open, ControlInv, InputInv, OutputInv, DecoderStopped
  <2>3. /\ branches' \in Seq(Branches) /\ ToSet(branches') \subseteq Branches
        /\ \A i \in 1 .. Len(branches') : branches'[i] \in ToSet(branches')
    BY <2>1, PermutationType, ToSetElements
  <2>4. NoBranch \notin ToSet(branches')
    BY <2>3, PipelineAssumption
  <2>5. \A i \in 1 .. Len(branches') : enc'[branches'[i]] = "open"
    BY <2>1, <2>3
  <2>6. \A b \in Branches \ ToSet(branches') : enc'[b] = "none"
    BY <2>1
  <2>7. \A b \in Branches : b # NoBranch
    BY PipelineAssumption
  <2>8. QED
    BY <2>2, <2>3, <2>4, <2>5, <2>6, <2>7 DEF OutputInv, EncoderAt, EncoderApart, OutputsStopped
<1>6. CASE Start
  <2>1. /\ ctl = "idle" /\ ~running /\ open /\ subject = NoBranch /\ fan = "idle"
        /\ running' = TRUE /\ UNCHANGED <<open, ctl, index, subject, branches, fan, at>>
        /\ enc' = [b \in Branches |-> IF b \in ToSet(branches) THEN "running" ELSE enc[b]]
    BY <1>6, <1>a DEF Start, InputInv, OutputInv, DecoderStopped
  <2>2. \A i \in 1 .. Len(branches) : enc'[branches[i]] = "running"
    BY <1>a, <2>1, BranchesType
  <2>3. \A b \in Branches \ ToSet(branches) : enc'[b] = "none"
    <3>1. \A b \in Branches : b # NoBranch
      BY PipelineAssumption
    <3>2. QED
      BY <1>a, <2>1, <3>1 DEF OutputInv, EncoderApart
  <2>4. \A b \in Branches : b # NoBranch
    BY PipelineAssumption
  <2>5. QED
    BY <1>a, <2>1, <2>2, <2>3, <2>4 DEF OutputInv, EncoderAt, EncoderApart, OutputsStopped
<1>7. CASE Stop("stop") \/ Stop("close") \/ CloseStopped
  BY <1>7, <1>a DEF Stop, CloseStopped, OutputInv, EncoderAt, EncoderApart, OutputsStopped
<1>8. CASE OutputCall
  <2>1. ASSUME NEW b \in Branches, AddOutput(b) PROVE OutputInv'
    <3>1. /\ ctl = "idle" /\ enc[b] = "none" /\ subject = NoBranch
          /\ enc' = [enc EXCEPT ![b] = IF running THEN "running" ELSE "open"]
          /\ subject' = b /\ ctl' = "add"
          /\ UNCHANGED <<open, running, index, branches, fan, at>>
      BY <1>8, <2>1, <1>a DEF OutputCall, AddOutput, OutputInv
    <3>2. b \notin ToSet(branches) /\ b # NoBranch
      BY <1>a, <3>1, BranchesType, PipelineAssumption DEF OutputInv, EncoderAt
    <3>3. \A c \in Branches : enc'[c] = IF c = b THEN (IF running THEN "running" ELSE "open") ELSE enc[c]
      BY <1>a, <3>1, BranchesType
    <3>4. QED
      BY <1>a, <1>b, <3>1, <3>2, <3>3, BranchesType DEF OutputInv, EncoderAt, EncoderApart, OutputsStopped
  <2>2. ASSUME NEW i \in 1 .. Len(branches), RemoveOutput(i) PROVE OutputInv'
    BY <1>8, <2>2, <1>a
       DEF OutputCall, RemoveOutput, OutputInv, EncoderAt, EncoderApart, OutputsStopped
  <2>3. QED
    BY <1>8, <2>1, <2>2 DEF OutputCall
<1>9. CASE UNCHANGED vars
  BY <1>9, <1>a, OutputUntouched DEF vars
<1>10. CASE CloseReturns
  <2>1. /\ ctl' = "idle" /\ open' = FALSE /\ UNCHANGED <<running, subject, index, fan, at>>
        /\ branches' = <<>> /\ enc' = [b \in Branches |-> "none"]
    BY <1>10 DEF CloseReturns
  <2>2. ~running /\ subject = NoBranch /\ fan = "idle"
    BY <1>10, <1>a DEF CloseReturns, ControlInv, InputInv, OutputInv, DecoderStopped
  <2>3. ToSet(branches') = {} /\ Len(branches') = 0
    BY <2>1 DEF ToSet
  <2>4. \A b \in Branches : enc'[b] = "none" /\ b # NoBranch
    BY <2>1, PipelineAssumption
  <2>5. QED
    BY <2>1, <2>2, <2>3, <2>4 DEF OutputInv, EncoderAt, EncoderApart, OutputsStopped
<1>11. CASE StopStep
  <2>1. UNCHANGED <<open, subject, branches, fan, at>>
    BY <1>11 DEF StopStep
  <2>2. CASE StopInput \/ StopClears
    BY <1>a, <2>1, <2>2
       DEF StopInput, StopDecoder, JoinDecoder, JoinDemux, StopClears, OutputInv, EncoderAt,
           EncoderApart, OutputsStopped
  <2>3. CASE StopLocks /\ StopOutputs
    BY <1>a, <2>1, <2>3, BranchesType
       DEF StopOutputs, StopLocks, OutputInv, EncoderAt, EncoderApart, OutputsStopped
  <2>4. CASE StopEncoder /\ StopOutputs
    <3>1. /\ ctl = "stop_encoders" /\ index \in 1 .. Len(branches) /\ ctl' = "join_encoder"
          /\ UNCHANGED <<index, running>> /\ running
          /\ enc' = [enc EXCEPT ![branches[index]] = IF @ = "running" THEN "stopping" ELSE @]
      BY <1>a, <2>4 DEF StopOutputs, StopEncoder, HaltEncoder, OutputInv, ControlInv, StopPhases
    <3>2. enc[branches[index]] = "running"
      BY <1>a, <3>1 DEF OutputInv, EncoderAt, OutputsStopped
    <3>3. \A b \in Branches : enc'[b] = IF b = branches[index] THEN "stopping" ELSE enc[b]
      BY <1>a, <3>1, <3>2, BranchesType
    <3>4. QED
      BY <1>a, <2>1, <3>1, <3>3, BranchesType DEF OutputInv, EncoderAt, EncoderApart, OutputsStopped
  <2>5. CASE JoinEncoder /\ StopOutputs
    <3>1. /\ ctl = "join_encoder" /\ index \in 1 .. Len(branches) /\ ctl' = "stop_encoders"
          /\ index' = index + 1 /\ UNCHANGED running /\ running
          /\ enc' = [enc EXCEPT ![branches[index]] = "open"]
      BY <1>a, <2>5 DEF StopOutputs, JoinEncoder, OutputInv, ControlInv, StopPhases
    <3>2. \A b \in Branches : enc'[b] = IF b = branches[index] THEN "open" ELSE enc[b]
      BY <1>a, <3>1, BranchesType
    <3>3. QED
      BY <1>a, <2>1, <3>1, <3>2, BranchesType DEF OutputInv, EncoderAt, EncoderApart, OutputsStopped
  <2>6. CASE StopUnlocks /\ StopOutputs
    BY <1>a, <2>1, <2>6, BranchesType
       DEF StopOutputs, StopUnlocks, OutputInv, EncoderAt, EncoderApart, OutputsStopped
  <2>7. CASE StopCallbacks
    BY <1>a, <1>b, <2>1, <2>7
       DEF StopCallbacks, StopCallback, NotifyCallback, StopReturns, OutputInv, EncoderAt,
           EncoderApart, OutputsStopped
  <2>8. QED
    BY <1>11, <2>2, <2>3, <2>4, <2>5, <2>6, <2>7 DEF StopStep, StopOutputs
<1>12. CASE OutputStep
  <2>1. UNCHANGED <<open, running, fan, at>>
    BY <1>12 DEF OutputStep
  <2>2. CASE AddOutputReturns
    <3>1. /\ ctl = "add" /\ ctl' = "idle" /\ lock = "free"
          /\ branches' = Append(branches, subject) /\ subject' = NoBranch /\ UNCHANGED <<index, enc>>
      BY <2>2 DEF AddOutputReturns
    <3>2. subject \in Branches
      BY <1>a, <3>1 DEF OutputInv, TypeOK
    <3>3. /\ branches' \in Seq(Branches) /\ Len(branches') = Len(branches) + 1
          /\ branches'[Len(branches) + 1] = subject
          /\ \A i \in 1 .. Len(branches) : branches'[i] = branches[i]
      BY <1>a, <3>1, <3>2, BranchesType
    <3>4. \A b : b \in ToSet(branches') <=> b \in ToSet(branches) \/ b = subject
      BY <1>a, <3>3, ToSetElements, BranchesType, SMTT(60)
    <3>5. enc[subject] = IF running THEN "running" ELSE "open"
      BY <1>a, <3>1, <3>2 DEF OutputInv, EncoderApart
    <3>6. NoBranch \notin ToSet(branches') /\ \A b \in Branches : b # NoBranch
      BY <1>a, <3>2, <3>4, BranchesType, PipelineAssumption
    <3>7. fan # "submit" /\ open
      BY <1>a, <3>1 DEF ControlInv, OutputPhases
    <3>8. \A i \in 1 .. Len(branches') : enc[branches'[i]] = IF running THEN "running" ELSE "open"
      BY <1>a, <3>1, <3>3, <3>5, BranchesType DEF OutputInv, EncoderAt, OutputsStopped
    <3>9. \A b \in Branches \ ToSet(branches') : enc[b] = "none"
      BY <1>a, <3>4 DEF OutputInv, EncoderApart
    <3>10. QED
      BY <2>1, <3>1, <3>6, <3>7, <3>8, <3>9 DEF OutputInv, EncoderAt, EncoderApart, OutputsStopped
  <2>3. CASE RemoveErases
    <3>1. /\ ctl = "remove" /\ ctl' = "remove_stop" /\ lock = "free"
          /\ index \in 1 .. Len(branches) /\ index' = 0 /\ subject = NoBranch
          /\ branches' = RemoveAt(branches, index) /\ subject' = branches[index] /\ UNCHANGED enc
      BY <1>a, <2>3 DEF RemoveErases, OutputInv
    <3>2. /\ branches' \in Seq(Branches) /\ Len(branches') = Len(branches) - 1
          /\ \A k \in 1 .. Len(branches) - 1 :
               branches'[k] = IF k < index THEN branches[k] ELSE branches[k + 1]
      BY <1>a, <3>1, RemoveAtElements, BranchesType, ZenonT(60)
    <3>3. \A b : b \in ToSet(branches') <=> b \in ToSet(branches) /\ b # branches[index]
      <4>1. ASSUME NEW b \in ToSet(branches') PROVE b \in ToSet(branches) /\ b # branches[index]
        <5>1. PICK k \in 1 .. Len(branches) - 1 : branches'[k] = b
          BY <3>2, ToSetElements
        <5>2. PICK j \in 1 .. Len(branches) : b = branches[j] /\ j # index
          BY <3>1, <3>2, <5>1
        <5>3. QED
          BY <1>a, <3>1, <5>2, BranchesType
      <4>2. ASSUME NEW b \in ToSet(branches), b # branches[index] PROVE b \in ToSet(branches')
        <5>1. PICK j \in 1 .. Len(branches) : branches[j] = b
          BY <1>a, BranchesType
        <5>2. j # index
          BY <4>2, <5>1
        <5>3. PICK k \in 1 .. Len(branches) - 1 : j = IF k < index THEN k ELSE k + 1
          <6>1. CASE j < index
            BY <6>1, <3>1
          <6>2. CASE j > index
            <7>1. j - 1 \in 1 .. Len(branches) - 1 /\ ~(j - 1 < index) /\ j = (j - 1) + 1
              BY <6>2, <3>1
            <7>2. QED
              BY <7>1
          <6>3. QED
            BY <5>2, <6>1, <6>2, <3>1
        <5>4. branches'[k] = b
          BY <3>2, <5>1, <5>3
        <5>5. QED
          BY <3>2, <5>4, ToSetElements
      <4>3. QED
        BY <4>1, <4>2
    <3>4. branches[index] \in Branches /\ branches[index] # NoBranch
      BY <1>a, <3>1, BranchesType, PipelineAssumption
    <3>5. fan # "submit" /\ open
      BY <1>a, <3>1 DEF ControlInv, OutputPhases
    <3>6. \A i \in 1 .. Len(branches) : enc[branches[i]] = IF running THEN "running" ELSE "open"
      BY <1>a, <3>1 DEF OutputInv, EncoderAt, OutputsStopped
    <3>7. \A i \in 1 .. Len(branches') : enc[branches'[i]] = IF running THEN "running" ELSE "open"
      BY <3>1, <3>2, <3>6
    <3>8. \A b \in Branches \ ToSet(branches') :
            enc[b] = IF b = branches[index] THEN (IF running THEN "running" ELSE "open") ELSE "none"
      BY <1>a, <1>b, <3>1, <3>3, <3>6 DEF OutputInv, EncoderApart
    <3>9. QED
      BY <2>1, <3>1, <3>3, <3>4, <3>5, <3>7, <3>8
         DEF OutputInv, EncoderAt, EncoderApart, OutputsStopped
  <2>4. CASE RemoveStops
    <3>1. /\ ctl = "remove_stop" /\ ctl' = "remove_join" /\ UNCHANGED <<index, branches, subject>>
          /\ enc' = [enc EXCEPT ![subject] = IF @ = "running" THEN "stopping" ELSE @]
          /\ subject \in Branches /\ subject \notin ToSet(branches)
      BY <1>a, <2>4 DEF RemoveStops, HaltEncoder, OutputInv, TypeOK
    <3>2. enc[subject] = IF running THEN "running" ELSE "open"
      BY <1>a, <3>1 DEF OutputInv, EncoderApart
    <3>3. \A b \in Branches :
            enc'[b] = IF b = subject THEN (IF running THEN "stopping" ELSE "open") ELSE enc[b]
      BY <1>a, <3>1, <3>2, BranchesType
    <3>4. QED
      BY <1>a, <2>1, <3>1, <3>3, BranchesType DEF OutputInv, EncoderAt, EncoderApart, OutputsStopped
  <2>5. CASE RemoveOutputReturns
    <3>1. /\ ctl = "remove_join" /\ ctl' = "idle" /\ UNCHANGED <<index, branches>>
          /\ subject' = NoBranch /\ enc' = [enc EXCEPT ![subject] = "none"]
          /\ subject \in Branches /\ subject \notin ToSet(branches)
      BY <1>a, <2>5 DEF RemoveOutputReturns, OutputInv, TypeOK
    <3>2. \A b \in Branches : enc'[b] = IF b = subject THEN "none" ELSE enc[b]
      BY <1>a, <3>1, BranchesType
    <3>3. NoBranch \notin ToSet(branches) /\ \A b \in Branches : b # NoBranch
      BY <1>a, BranchesType, PipelineAssumption
    <3>4. \A i \in 1 .. Len(branches) : enc'[branches[i]] = enc[branches[i]]
      BY <1>a, <3>1, <3>2, BranchesType
    <3>5. \A b \in Branches \ ToSet(branches) : enc'[b] = "none"
      BY <1>a, <3>1, <3>2 DEF OutputInv, EncoderApart
    <3>6. QED
      BY <1>a, <2>1, <3>1, <3>3, <3>4, <3>5 DEF OutputInv, EncoderAt, EncoderApart, OutputsStopped
  <2>6. QED
    BY <1>12, <2>2, <2>3, <2>4, <2>5 DEF OutputStep
<1>13. QED
  BY <1>1, <1>2, <1>3, <1>4, <1>5, <1>6, <1>7, <1>8, <1>9, <1>10, <1>11, <1>12
     DEF Next, AppCall, AppStep

(***************************************************************************)
(* Steps that change none of its variables preserve StreamInv.             *)
(***************************************************************************)
LEMMA StreamUntouched ==
  ASSUME StreamInv, UNCHANGED <<enc, inq, strm, coding, mux>>
  PROVE  StreamInv'
BY DEF StreamInv

(***************************************************************************)
(* What TypeOK says of the encoders.                                       *)
(***************************************************************************)
LEMMA QueuesType ==
  ASSUME TypeOK
  PROVE  /\ enc \in [Branches -> {"none", "open", "running", "stopping"}]
         /\ mux \in [Branches -> {"none", "open"}]
         /\ strm \in [Branches -> {"idle", "encode", "packet"}]
         /\ inq \in [Branches -> Seq(Pictures)]
         /\ coding \in [Branches -> Pictures]
BY DEF TypeOK

(***************************************************************************)
(* No encoder runs in a pipeline that does not.                            *)
(***************************************************************************)
LEMMA EncodersAtRest ==
  ASSUME OutputInv, TypeOK, ~running
  PROVE  \A b \in Branches : enc[b] \in {"none", "open"}
<1> TAKE b \in Branches
<1>1. CASE b \in ToSet(branches)
  BY <1>1, BranchesType DEF OutputInv, EncoderAt, OutputsStopped
<1>2. CASE b \notin ToSet(branches)
  BY <1>2 DEF OutputInv, EncoderApart
<1>3. QED
  BY <1>1, <1>2

(***************************************************************************)
(* A stream thread works only while its encoder runs or is being stopped.  *)
(***************************************************************************)
LEMMA StreamInvStep == PipelineInv /\ [Next]_vars => StreamInv'
<1> SUFFICES ASSUME PipelineInv, [Next]_vars PROVE StreamInv'
  OBVIOUS
<1> USE DEF flagVars, ctlVars, encVars, decVars, fanVars, callVars, osdVars, outputVars
<1>a. TypeOK /\ OutputInv /\ ControlInv /\ InputInv /\ StreamInv
  BY DEF PipelineInv
<1>b. NoBranch \notin Branches
  BY PipelineAssumption
<1>1. CASE DemuxStep \/ DecodeStep \/ CallbackStep \/ SetFrameCallback \/ StartFails \/ ClearOsd
  BY <1>1, <1>a, StreamUntouched
     DEF DemuxStep, DecodeStep, CallbackStep, SetFrameCallback, StartFails, ClearOsd
<1>2. ASSUME NEW b \in Branches, StreamStep(b) PROVE StreamInv'
  <2>1. UNCHANGED <<enc, mux>> /\ enc[b] \in {"running", "stopping"} /\ strm[b] \in {"idle", "encode", "packet"}
    BY <1>2, <1>a, QueuesType DEF StreamStep, StreamTakes, StreamEncodes, StreamCallbackReturns, StreamInv
  <2>2. \A c \in Branches : c # b => inq'[c] = inq[c] /\ strm'[c] = strm[c] /\ coding'[c] = coding[c]
    BY <1>2, <1>a, QueuesType DEF StreamStep, StreamTakes, StreamEncodes, StreamCallbackReturns
  <2>3. strm'[b] # "encode" => coding'[b] = NoPicture
    BY <1>2, <1>a, QueuesType DEF StreamStep, StreamTakes, StreamEncodes, StreamCallbackReturns, StreamInv
  <2>4. enc[b] # "running" => inq'[b] = <<>>
    BY <1>2, <1>a, QueuesType DEF StreamStep, StreamTakes, StreamEncodes, StreamCallbackReturns, StreamInv
  <2>5. QED
    BY <1>a, <2>1, <2>2, <2>3, <2>4 DEF StreamInv
<1>3. ASSUME NEW hold \in Holds, SetOsd(hold) PROVE StreamInv'
  BY <1>3, <1>a, StreamUntouched DEF SetOsd
<1>4. CASE FanStep
  <2>1. UNCHANGED <<enc, strm, coding, mux>>
    BY <1>4 DEF FanStep
  <2>2. \A b \in Branches : enc[b] # "running" => inq'[b] = inq[b]
    <3>1. CASE inq' = inq
      BY <3>1
    <3>2. CASE FanSubmit
      <4>1. branches[at] \in Branches
        BY <1>a, <3>2, BranchesType DEF FanSubmit, OutputInv
      <4>2. QED
        BY <1>a, <3>2, <4>1, QueuesType DEF FanSubmit, SubmitFrame
    <3>3. QED
      BY <1>4, <3>1, <3>2 DEF FanStep, FanPublish, FanOffer, FanCheck, FanOsd, FanLock, FanUnlock
  <2>3. QED
    BY <1>a, <2>1, <2>2 DEF StreamInv
<1>5. CASE Open
  <2>1. PICK outputs :
          /\ enc' = [b \in Branches |-> IF b \in ToSet(outputs) THEN "open" ELSE "none"]
          /\ mux' = [b \in Branches |-> IF b \in ToSet(outputs) THEN "open" ELSE "none"]
    BY <1>5 DEF Open
  <2>2. ~running /\ UNCHANGED <<inq, strm, coding>>
    BY <1>5, <1>a DEF Open, ControlInv
  <2>3. QED
    BY <1>a, <2>1, <2>2, EncodersAtRest DEF StreamInv
<1>6. CASE Start
  <2>1. /\ ~running /\ UNCHANGED <<inq, strm, coding, mux, branches>>
        /\ enc' = [b \in Branches |-> IF b \in ToSet(branches) THEN "running" ELSE enc[b]]
    BY <1>6 DEF Start
  <2>2. \A b \in ToSet(branches) : enc[b] = "open"
    BY <1>a, <2>1, BranchesType DEF OutputInv, EncoderAt, OutputsStopped
  <2>3. QED
    BY <1>a, <2>1, <2>2 DEF StreamInv
<1>7. CASE Stop("stop") \/ Stop("close") \/ CloseStopped
  BY <1>7, <1>a, StreamUntouched DEF Stop, CloseStopped
<1>8. CASE OutputCall
  <2>1. ASSUME NEW b \in Branches, AddOutput(b) PROVE StreamInv'
    <3>1. /\ enc[b] = "none" /\ UNCHANGED <<inq, strm, coding>>
          /\ enc' = [enc EXCEPT ![b] = IF running THEN "running" ELSE "open"]
          /\ mux' = [mux EXCEPT ![b] = "open"]
      BY <1>8, <2>1 DEF OutputCall, AddOutput
    <3>2. QED
      BY <1>a, <3>1, QueuesType DEF StreamInv
  <2>2. ASSUME NEW i \in 1 .. Len(branches), RemoveOutput(i) PROVE StreamInv'
    BY <1>8, <2>2, <1>a, StreamUntouched DEF OutputCall, RemoveOutput
  <2>3. QED
    BY <1>8, <2>1, <2>2 DEF OutputCall
<1>9. CASE UNCHANGED vars
  BY <1>9, <1>a, StreamUntouched DEF vars
<1>10. CASE CloseReturns
  <2>1. /\ enc' = [b \in Branches |-> "none"] /\ mux' = [b \in Branches |-> "none"]
        /\ UNCHANGED <<inq, strm, coding>> /\ ~running
    BY <1>a, <1>10 DEF CloseReturns, ControlInv
  <2>2. QED
    BY <1>a, <2>1, EncodersAtRest DEF StreamInv
<1>11. CASE StopStep
  <2>1. UNCHANGED <<strm, coding, mux>>
    BY <1>11 DEF StopStep
  <2>2. CASE UNCHANGED <<enc, inq>>
    BY <1>a, <2>1, <2>2, StreamUntouched
  <2>3. CASE StopEncoder \/ JoinEncoder
    <3>1. index \in 1 .. Len(branches) /\ branches[index] \in Branches
      BY <1>a, <2>3, BranchesType DEF StopEncoder, JoinEncoder, OutputInv
    <3>2. CASE StopEncoder
      BY <1>a, <2>1, <3>1, <3>2, QueuesType DEF StopEncoder, HaltEncoder, StreamInv
    <3>3. CASE JoinEncoder
      <4>1. enc[branches[index]] = "stopping" /\ strm[branches[index]] = "idle"
        BY <1>a, <3>1, <3>3 DEF JoinEncoder, OutputInv, EncoderAt, OutputsStopped, ControlInv, StopPhases
      <4>2. inq' = inq /\ enc' = [enc EXCEPT ![branches[index]] = "open"]
        BY <3>3 DEF JoinEncoder
      <4>3. QED
        BY <1>a, <2>1, <3>1, <4>1, <4>2, QueuesType DEF StreamInv
    <3>4. QED
      BY <2>3, <3>2, <3>3
  <2>4. QED
    BY <1>11, <2>2, <2>3
       DEF StopStep, StopInput, StopClears, StopOutputs, StopCallbacks, StopLocks, StopUnlocks
<1>12. CASE OutputStep
  <2>1. UNCHANGED <<strm, coding>>
    BY <1>12 DEF OutputStep
  <2>2. CASE AddOutputReturns \/ RemoveErases
    BY <1>a, <2>1, <2>2, StreamUntouched DEF AddOutputReturns, RemoveErases
  <2>3. CASE RemoveStops
    <3>1. subject \in Branches /\ UNCHANGED mux
      BY <1>a, <2>3 DEF RemoveStops, OutputInv, TypeOK
    <3>2. QED
      BY <1>a, <2>1, <2>3, <3>1, QueuesType DEF RemoveStops, HaltEncoder, StreamInv
  <2>4. CASE RemoveOutputReturns
    <3>1. /\ subject \in Branches /\ subject \notin ToSet(branches) /\ strm[subject] = "idle"
          /\ enc' = [enc EXCEPT ![subject] = "none"] /\ mux' = [mux EXCEPT ![subject] = "none"]
          /\ UNCHANGED inq /\ ctl = "remove_join"
      BY <1>a, <2>4 DEF RemoveOutputReturns, OutputInv, TypeOK
    <3>2. enc[subject] # "running"
      BY <1>a, <3>1 DEF OutputInv, EncoderApart
    <3>3. QED
      BY <1>a, <2>1, <3>1, <3>2, QueuesType DEF StreamInv
  <2>5. QED
    BY <1>12, <2>2, <2>3, <2>4 DEF OutputStep
<1>13. QED
  BY <1>1, <1>2, <1>3, <1>4, <1>5, <1>6, <1>7, <1>8, <1>9, <1>10, <1>11, <1>12
     DEF Next, AppCall, AppStep

-----------------------------------------------------------------------------
(* Pictures.                                                               *)

(***************************************************************************)
(* The elements of a sequence one longer, and of one without its head.     *)
(***************************************************************************)
LEMMA AppendElements ==
  ASSUME NEW S, NEW s \in Seq(S), NEW e \in S
  PROVE  /\ Append(s, e) \in Seq(S) /\ Len(Append(s, e)) = Len(s) + 1
         /\ Append(s, e)[Len(s) + 1] = e
         /\ \A k \in 1 .. Len(s) : Append(s, e)[k] = s[k]
OBVIOUS

LEMMA TailElements ==
  ASSUME NEW S, NEW s \in Seq(S), s # <<>>
  PROVE  /\ Len(s) \in Nat \ {0} /\ Head(s) = s[1] /\ Head(s) \in S
         /\ Tail(s) \in Seq(S) /\ Len(Tail(s)) = Len(s) - 1
         /\ \A k \in 1 .. Len(s) - 1 : Tail(s)[k] = s[k + 1]
OBVIOUS

(***************************************************************************)
(* The fields of a picture.                                                *)
(***************************************************************************)
LEMMA PictureType ==
  ASSUME NEW p \in Pictures
  PROVE  p.frame \in 0 .. MaxFrames /\ p.image \in Nat
BY DEF Pictures

(***************************************************************************)
(* Steps that change none of its variables preserve PictureInv.            *)
(***************************************************************************)
LEMMA PictureUntouched ==
  ASSUME PictureInv, UNCHANGED <<fan, picture, pool, coding, inq>>
  PROVE  PictureInv'
BY DEF PictureInv, Kept

(***************************************************************************)
(* Every picture still shows its frame: AcquireOsdFrame takes an image that*)
(* no encoder refers to, and the picture drawn before was submitted or dropped.*)
(***************************************************************************)
LEMMA PictureInvStep == PipelineInv /\ [Next]_vars => PictureInv'
<1> SUFFICES ASSUME PipelineInv, [Next]_vars PROVE PictureInv'
  OBVIOUS
<1> USE DEF flagVars, ctlVars, encVars, decVars, fanVars, callVars, osdVars, outputVars
<1>a. TypeOK /\ OutputInv /\ PictureInv
  BY DEF PipelineInv
<1>b. /\ outq \in Seq(1 .. MaxFrames) /\ pool \in Seq(1 .. MaxFrames) /\ picture \in Pictures
      /\ MaxFrames \in Nat
  BY <1>a, PipelineAssumption DEF TypeOK
<1>1. CASE DemuxStep \/ DecodeStep \/ CallbackStep \/ SetFrameCallback \/ StartFails \/ ClearOsd
  BY <1>1, <1>a, PictureUntouched
     DEF DemuxStep, DecodeStep, CallbackStep, SetFrameCallback, StartFails, ClearOsd
<1>2. CASE Open \/ Start \/ CloseStopped \/ Stop("stop") \/ Stop("close") \/ CloseReturns
  BY <1>2, <1>a, PictureUntouched DEF Open, Start, CloseStopped, Stop, CloseReturns
<1>3. ASSUME NEW hold \in Holds, SetOsd(hold) PROVE PictureInv'
  BY <1>3, <1>a, PictureUntouched DEF SetOsd
<1>4. ASSUME NEW b \in Branches, StreamStep(b) PROVE PictureInv'
  <2>1. UNCHANGED <<fan, picture, pool>>
    BY <1>4 DEF StreamStep
  <2>2. CASE StreamTakes(b)
    <3>1. /\ inq[b] \in Seq(Pictures) /\ inq[b] # <<>>
          /\ inq' = [inq EXCEPT ![b] = Tail(@)] /\ coding' = [coding EXCEPT ![b] = Head(inq[b])]
      BY <1>a, <2>2, QueuesType DEF StreamTakes
    <3>2. /\ inq'[b] = Tail(inq[b]) /\ coding'[b] = Head(inq[b])
          /\ \A c \in Branches \ {b} : inq'[c] = inq[c] /\ coding'[c] = coding[c]
      BY <1>a, <3>1, QueuesType
    <3>3. Kept(coding'[b])
      BY <1>a, <3>1, <3>2, TailElements DEF PictureInv
    <3>4. \A k \in 1 .. Len(inq'[b]) : Kept(inq'[b][k])
      BY <1>a, <3>1, <3>2, TailElements DEF PictureInv
    <3>5. ASSUME NEW c \in Branches
          PROVE  (Kept(coding[c]) /\ \A k \in 1 .. Len(inq[c]) : Kept(inq[c][k]))'
      <4>1. CASE c = b
        BY <2>1, <3>3, <3>4, <4>1 DEF Kept
      <4>2. CASE c # b
        BY <1>a, <2>1, <3>2, <4>2 DEF PictureInv, Kept
      <4>3. QED
        BY <4>1, <4>2
    <3>6. (fan # "idle" => picture.frame > 0)' /\ (picture.image > 0 => fan \in {"lock", "submit"})'
      BY <1>a, <2>1 DEF PictureInv
    <3>7. Kept(picture)'
      BY <1>a, <2>1 DEF PictureInv, Kept
    <3>8. QED
      BY <3>5, <3>6, <3>7 DEF PictureInv
  <2>3. CASE StreamEncodes(b)
    <3>1. /\ UNCHANGED inq
          /\ \A c \in Branches : coding'[c] = IF c = b THEN NoPicture ELSE coding[c]
      BY <1>a, <2>3, QueuesType DEF StreamEncodes
    <3>2. QED
      BY <1>a, <2>1, <3>1 DEF PictureInv, Kept, NoPicture
  <2>4. CASE StreamCallbackReturns(b)
    BY <1>a, <2>1, <2>4, PictureUntouched DEF StreamCallbackReturns
  <2>5. QED
    BY <1>4, <2>2, <2>3, <2>4 DEF StreamStep
<1>5. CASE FanStep
  <2>1. UNCHANGED coding
    BY <1>5 DEF FanStep
  <2>2. CASE FanPublish
    <3>1. /\ Head(outq) \in 1 .. MaxFrames /\ fan' = "offer" /\ UNCHANGED <<pool, inq>>
          /\ picture' = [frame |-> Head(outq), image |-> 0]
      BY <1>b, <2>2, TailElements DEF FanPublish
    <3>2. picture'.frame > 0 /\ picture'.image = 0
      BY <3>1
    <3>3. QED
      BY <1>a, <2>1, <3>1, <3>2 DEF PictureInv, Kept
  <2>3. CASE FanOffer
    BY <1>a, <2>1, <2>3 DEF FanOffer, PictureInv, Kept
  <2>4. CASE FanCheck
    BY <1>a, <2>1, <2>4 DEF FanCheck, PictureInv, Kept, NoPicture
  <2>5. CASE FanOsd
    <3>1. fan = "osd" /\ fan' = "lock" /\ UNCHANGED inq
      BY <2>5 DEF FanOsd
    <3>2. CASE UNCHANGED <<picture, pool>>
      BY <1>a, <2>1, <3>1, <3>2 DEF PictureInv, Kept
    <3>3. CASE DrawOverlay
      <4>1. PICK i \in 1 .. Len(pool) + 1 :
              /\ ~InUse(i)
              /\ pool' = IF i > Len(pool) THEN Append(pool, picture.frame)
                         ELSE [pool EXCEPT ![i] = picture.frame]
              /\ picture' = [picture EXCEPT !.image = i]
        BY <3>3 DEF DrawOverlay, AcquireOsdFrame
      <4>2. picture'.image = i /\ picture'.frame = picture.frame
        BY <1>b, <4>1 DEF Pictures
      <4>3. picture.frame \in 1 .. MaxFrames
        BY <1>a, <1>b, <3>1, PictureType DEF PictureInv
      <4>4. /\ Len(pool') >= Len(pool) /\ i \in 1 .. Len(pool') /\ pool'[i] = picture.frame
            /\ \A k \in 1 .. Len(pool) : k # i => pool'[k] = pool[k]
            /\ Len(pool') \in Nat /\ Len(pool) \in Nat
        BY <1>b, <4>1, <4>3, AppendElements
      <4>5. ASSUME NEW p \in Pictures, Kept(p), p.image # i PROVE Kept(p)'
        BY <4>4, <4>5, PictureType DEF Kept
      <4>6. ASSUME NEW b \in Branches
            PROVE  Kept(coding[b])' /\ \A k \in 1 .. Len(inq[b]) : Kept(inq[b][k])'
        <5>1. coding[b] \in Pictures /\ Kept(coding[b]) /\ coding[b].image # i
          BY <1>a, <4>1, QueuesType DEF PictureInv, InUse
        <5>2. Kept(coding[b])'
          BY <2>1, <4>5, <5>1
        <5>3. ASSUME NEW k \in 1 .. Len(inq[b]) PROVE Kept(inq[b][k])'
          <6>1. inq[b][k] \in Pictures /\ Kept(inq[b][k]) /\ inq[b][k].image # i
            BY <1>a, <4>1, QueuesType DEF PictureInv, InUse
          <6>2. QED
            BY <3>1, <4>5, <6>1
        <5>4. QED
          BY <5>2, <5>3
      <4>7. Kept(picture)'
        BY <4>2, <4>4 DEF Kept
      <4>8. QED
        BY <1>a, <2>1, <3>1, <4>2, <4>3, <4>6, <4>7 DEF PictureInv
    <3>4. QED
      BY <2>5, <3>2, <3>3 DEF FanOsd
  <2>6. CASE FanLock
    BY <1>a, <2>1, <2>6 DEF FanLock, PictureInv, Kept
  <2>7. CASE FanSubmit
    <3>1. fan = "submit" /\ UNCHANGED <<fan, picture, pool>>
      BY <2>7 DEF FanSubmit
    <3>2. PICK b \in Branches : SubmitFrame(b)
      BY <1>a, <2>7, BranchesType DEF FanSubmit, OutputInv
    <3>3. CASE inq' = inq
      BY <1>a, <2>1, <3>1, <3>3, PictureUntouched
    <3>4. CASE inq' # inq
      <4>1. inq[b] \in Seq(Pictures)
        BY <1>a, QueuesType
      <4>2. PICK s \in {inq[b], Tail(inq[b])} :
              (s # inq[b] => inq[b] # <<>>) /\ inq' = [inq EXCEPT ![b] = Append(s, picture)]
        <5>1. Len(inq[b]) >= Depth => inq[b] # <<>>
          BY <4>1, PipelineAssumption
        <5>2. QED
          BY <3>2, <3>4, <5>1 DEF SubmitFrame
      <4>3. s \in Seq(Pictures) /\ \A k \in 1 .. Len(s) : Kept(s[k])
        <5>1. CASE s = inq[b]
          BY <1>a, <4>1, <5>1 DEF PictureInv
        <5>2. CASE s = Tail(inq[b]) /\ inq[b] # <<>>
          <6>1. /\ s \in Seq(Pictures) /\ Len(s) = Len(inq[b]) - 1
                /\ \A k \in 1 .. Len(inq[b]) - 1 : s[k] = inq[b][k + 1]
            BY <4>1, <5>2, TailElements
          <6>2. \A k \in 1 .. Len(inq[b]) - 1 : Kept(inq[b][k + 1])
            BY <1>a, <4>1 DEF PictureInv
          <6>3. QED
            BY <6>1, <6>2
        <5>3. QED
          BY <4>2, <5>1, <5>2
      <4>4. /\ inq'[b] = Append(s, picture)
            /\ \A c \in Branches \ {b} : inq'[c] = inq[c]
        BY <1>a, <4>2, QueuesType
      <4>5. \A k \in 1 .. Len(inq'[b]) : Kept(inq'[b][k])
        BY <1>a, <1>b, <4>3, <4>4, AppendElements DEF PictureInv
      <4>6. ASSUME NEW c \in Branches
            PROVE  (Kept(coding[c]) /\ \A k \in 1 .. Len(inq[c]) : Kept(inq[c][k]))'
        <5>1. Kept(coding[c])'
          BY <1>a, <2>1, <3>1 DEF PictureInv, Kept
        <5>2. CASE c = b
          BY <3>1, <4>5, <5>1, <5>2 DEF Kept
        <5>3. CASE c # b
          BY <1>a, <3>1, <4>4, <5>1, <5>3 DEF PictureInv, Kept
        <5>4. QED
          BY <5>2, <5>3
      <4>7. (fan # "idle" => picture.frame > 0)' /\ (picture.image > 0 => fan \in {"lock", "submit"})'
        BY <1>a, <3>1 DEF PictureInv
      <4>8. Kept(picture)'
        BY <1>a, <3>1 DEF PictureInv, Kept
      <4>9. QED
        BY <4>6, <4>7, <4>8 DEF PictureInv
    <3>5. QED
      BY <3>3, <3>4
  <2>8. CASE FanUnlock
    BY <1>a, <2>1, <2>8 DEF FanUnlock, PictureInv, Kept, NoPicture
  <2>9. QED
    BY <1>5, <2>2, <2>3, <2>4, <2>5, <2>6, <2>7, <2>8 DEF FanStep
<1>6. CASE OutputCall
  BY <1>6, <1>a, PictureUntouched DEF OutputCall, AddOutput, RemoveOutput
<1>7. ASSUME NEW b \in Branches, HaltEncoder(b), UNCHANGED <<fan, picture, pool, coding>>
      PROVE  PictureInv'
  <2>1. \A c \in Branches : inq'[c] = IF c = b THEN <<>> ELSE inq[c]
    BY <1>7, <1>a, QueuesType DEF HaltEncoder
  <2>2. QED
    BY <1>7, <1>a, <2>1 DEF PictureInv, Kept
<1>8. CASE StopStep
  <2>1. UNCHANGED <<fan, picture, pool, coding>>
    BY <1>8 DEF StopStep
  <2>2. CASE UNCHANGED inq
    BY <1>a, <2>1, <2>2, PictureUntouched
  <2>3. CASE StopEncoder
    BY <1>a, <1>7, <2>1, <2>3, BranchesType DEF StopEncoder, OutputInv
  <2>4. QED
    BY <1>8, <2>2, <2>3
       DEF StopStep, StopInput, StopClears, StopOutputs, StopCallbacks, StopLocks, JoinEncoder, StopUnlocks
<1>9. CASE OutputStep
  <2>1. UNCHANGED <<fan, picture, pool, coding>>
    BY <1>9 DEF OutputStep
  <2>2. CASE RemoveStops
    BY <1>a, <1>7, <2>1, <2>2 DEF RemoveStops, OutputInv, TypeOK
  <2>3. QED
    BY <1>9, <1>a, <2>1, <2>2, PictureUntouched
       DEF OutputStep, AddOutputReturns, RemoveErases, RemoveOutputReturns
<1>10. CASE UNCHANGED vars
  BY <1>10, <1>a, PictureUntouched DEF vars
<1>11. QED
  BY <1>1, <1>2, <1>3, <1>4, <1>5, <1>6, <1>8, <1>9, <1>10 DEF Next, AppCall, AppStep

-----------------------------------------------------------------------------
(* The order of frames.                                                    *)

(***************************************************************************)
(* What TypeOK says of the frames, number by number.                       *)
(***************************************************************************)
LEMMA FrameTypes ==
  ASSUME TypeOK
  PROVE  /\ outq \in Seq(1 .. MaxFrames) /\ Len(outq) \in Nat
         /\ \A k \in 1 .. Len(outq) : outq[k] \in 1 .. MaxFrames
         /\ decoded \in Nat /\ input \in Nat /\ slot \in Nat /\ holding \in Nat /\ latest \in Nat
         /\ picture.frame \in Nat /\ MaxFrames \in Nat /\ OutputDepth \in Nat \ {0}
         /\ InputDepth \in Nat \ {0}
<1>1. picture.frame \in Nat
  BY PictureType, PipelineAssumption DEF TypeOK
<1>2. MaxFrames \in Nat /\ OutputDepth \in Nat \ {0} /\ InputDepth \in Nat \ {0}
  BY PipelineAssumption
<1>3. decoded \in 0 .. MaxFrames /\ latest \in 0 .. MaxFrames /\ slot \in 0 .. MaxFrames
      /\ holding \in 0 .. MaxFrames /\ input \in 0 .. InputDepth
  BY DEF TypeOK
<1>4. outq \in Seq(1 .. MaxFrames)
  BY DEF TypeOK
<1>5. Len(outq) \in Nat /\ \A k \in 1 .. Len(outq) : outq[k] \in 1 .. MaxFrames
  BY <1>2, <1>4
<1>6. QED
  BY <1>1, <1>2, <1>3, <1>4, <1>5

(***************************************************************************)
(* Forgetting the frame in the slot, or the packets not decoded yet,       *)
(* leaves the others in order.                                             *)
(***************************************************************************)
LEMMA OrderKept ==
  ASSUME TypeOK, OrderInv, slot' \in {0, slot}, input' \in {0, input},
         demux' \in {demux, "read", "done", "off"},
         demux' = "read" => demux \in {"read", "off"},
         open' \/ ~open,
         UNCHANGED <<decoded, holding, fan, picture, outq>>
  PROVE  OrderInv'
<1>1. slot' \in Nat /\ (slot' # 0 => slot' = slot) /\ slot' <= slot /\ (open' \/ ~open)
  BY FrameTypes
<1>2. decoded' + input' + (IF demux' = "submit" THEN 1 ELSE 0) <= MaxFrames
  BY FrameTypes, SMTT(60) DEF OrderInv
<1>3. \A k \in 1 .. Len(outq) : slot' < outq[k]
  BY <1>1, FrameTypes, SMTT(60) DEF OrderInv
<1>4. slot' <= decoded /\ (slot' # 0 => holding < slot') /\ (fan = "offer" => slot' < picture.frame)
  BY <1>1, FrameTypes DEF OrderInv
<1>5. QED
  BY <1>1, <1>2, <1>3, <1>4 DEF OrderInv

(***************************************************************************)
(* Frames stay in order from the decoder to the frame callback.            *)
(***************************************************************************)
LEMMA OrderInvStep == PipelineInv /\ [Next]_vars => OrderInv'
<1> SUFFICES ASSUME PipelineInv, [Next]_vars PROVE OrderInv'
  OBVIOUS
<1> USE DEF flagVars, ctlVars, encVars, decVars, fanVars, callVars, osdVars, outputVars
<1>a. TypeOK /\ OrderInv /\ InputInv /\ PictureInv /\ ControlInv /\ CallbackInv
  BY DEF PipelineInv
<1>b. /\ Len(outq) \in Nat /\ \A k \in 1 .. Len(outq) : outq[k] \in Nat
      /\ decoded \in Nat /\ input \in Nat /\ slot \in Nat /\ holding \in Nat
      /\ picture.frame \in Nat /\ MaxFrames \in Nat
  BY <1>a, FrameTypes
<1>c. /\ \A k \in 1 .. Len(outq) :
           /\ holding < outq[k] /\ slot < outq[k] /\ picture.frame < outq[k] /\ outq[k] <= decoded
      /\ \A k, l \in 1 .. Len(outq) : k < l => outq[k] < outq[l]
  BY <1>a DEF OrderInv
<1>1. CASE DemuxStep
  <2>1. UNCHANGED <<open, slot, decoded, holding, fan, picture, outq>>
    BY <1>1 DEF DemuxStep, DemuxReads, DemuxReadFails, DemuxSubmits, DemuxSubmitFails
  <2>2. decoded + input' + (IF demux' = "submit" THEN 1 ELSE 0) <= MaxFrames
    BY <1>1, <1>a, FrameTypes
       DEF DemuxStep, DemuxReads, DemuxReadFails, DemuxSubmits, DemuxSubmitFails, OrderInv
  <2>3. QED
    BY <1>a, <2>1, <2>2 DEF OrderInv
<1>2. CASE DecodeStep
  <2>1. /\ UNCHANGED <<open, slot, holding, fan, picture, demux>>
        /\ input' = input - 1 /\ input > 0
    BY <1>2 DEF DecodeStep
  <2>2. CASE DecodeNothing
    BY <1>a, <2>1, <2>2, <1>b DEF DecodeNothing, OrderInv
  <2>3. CASE Decode
    <3>1. PICK s \in Seq(1 .. MaxFrames) :
            /\ outq' = Append(s, decoded + 1)
            /\ s = outq \/ (outq # <<>> /\ s = Tail(outq))
      <4>1. CASE Len(outq) < OutputDepth
        BY <1>a, <2>3, <4>1, FrameTypes DEF Decode
      <4>2. CASE ~(Len(outq) < OutputDepth)
        <5>1. outq # <<>>
          BY <1>a, <4>2, FrameTypes
        <5>2. Tail(outq) \in Seq(1 .. MaxFrames)
          BY <1>a, <5>1, FrameTypes, TailElements
        <5>3. QED
          BY <2>3, <4>2, <5>1, <5>2 DEF Decode
      <4>3. QED
        BY <4>1, <4>2
    <3>2. \E d \in {0, 1} : Len(s) = Len(outq) - d /\ \A k \in 1 .. Len(s) : s[k] = outq[k + d]
      <4>1. CASE s = outq
        BY <1>a, <4>1, FrameTypes
      <4>2. CASE outq # <<>> /\ s = Tail(outq)
        BY <1>a, <4>2, FrameTypes, TailElements
      <4>3. QED
        BY <3>1, <4>1, <4>2
    <3>3. /\ \A k \in 1 .. Len(s) :
               /\ holding < s[k] /\ slot < s[k] /\ picture.frame < s[k] /\ s[k] <= decoded
          /\ \A k, l \in 1 .. Len(s) : k < l => s[k] < s[l]
      <4>1. PICK d \in {0, 1} : Len(s) = Len(outq) - d /\ \A k \in 1 .. Len(s) : s[k] = outq[k + d]
        BY <3>2
      <4>2. \A k \in 1 .. Len(s) : k + d \in 1 .. Len(outq)
        BY <1>b, <4>1
      <4>3. \A k, l \in 1 .. Len(s) : k < l => k + d < l + d
        OBVIOUS
      <4>4. QED
        BY <1>c, <4>1, <4>2, <4>3
    <3>4. decoded' = decoded + 1 /\ decoded + 1 \in 1 .. MaxFrames
      BY <1>a, <2>1, <2>3, <1>b DEF Decode, OrderInv
    <3>5. /\ Len(outq') = Len(s) + 1 /\ Len(s) \in Nat /\ outq'[Len(s) + 1] = decoded + 1
          /\ \A k \in 1 .. Len(s) : outq'[k] = s[k]
      BY <3>1, <3>4, AppendElements
    <3>6. ASSUME NEW k \in 1 .. Len(outq')
          PROVE  /\ holding < outq'[k] /\ slot < outq'[k] /\ picture.frame < outq'[k]
                 /\ outq'[k] <= decoded + 1
      <4>1. CASE k \in 1 .. Len(s)
        <5>1. outq'[k] = s[k] /\ s[k] <= decoded /\ s[k] \in 1 .. MaxFrames
          BY <1>b, <3>1, <3>3, <3>5, <4>1, SMTT(60)
        <5>2. QED
          BY <1>b, <3>3, <4>1, <5>1
      <4>2. CASE k = Len(s) + 1
        BY <1>a, <1>b, <3>5, <4>2 DEF OrderInv
      <4>3. QED
        BY <3>5, <4>1, <4>2
    <3>7. ASSUME NEW k \in 1 .. Len(outq'), NEW l \in 1 .. Len(outq'), k < l
          PROVE  outq'[k] < outq'[l]
      <4>1. k \in 1 .. Len(s) /\ outq'[k] = s[k] /\ s[k] <= decoded /\ s[k] \in 1 .. MaxFrames
        BY <1>b, <3>1, <3>3, <3>5, <3>7, SMTT(60)
      <4>2. CASE l \in 1 .. Len(s)
        BY <3>3, <3>5, <3>7, <4>1, <4>2
      <4>3. CASE l = Len(s) + 1
        BY <1>b, <3>5, <4>1, <4>3
      <4>4. QED
        BY <3>5, <4>2, <4>3
    <3>8. QED
      BY <1>a, <2>1, <3>4, <3>6, <3>7, <1>b DEF OrderInv
  <2>4. QED
    BY <1>2, <2>2, <2>3 DEF DecodeStep
<1>3. CASE FanStep
  <2>1. UNCHANGED <<open, holding, demux, input, decoded>>
    BY <1>3 DEF FanStep
  <2>2. CASE FanPublish
    <3>1. /\ outq # <<>> /\ outq' = Tail(outq) /\ fan' = "offer" /\ UNCHANGED slot
          /\ picture' = [frame |-> Head(outq), image |-> 0]
      BY <2>2 DEF FanPublish
    <3>2. /\ Len(outq) >= 1 /\ picture'.frame = outq[1] /\ Len(outq') = Len(outq) - 1
          /\ \A k \in 1 .. Len(outq) - 1 : outq'[k] = outq[k + 1]
      BY <1>a, <3>1, FrameTypes, TailElements
    <3>3. ASSUME NEW k \in 1 .. Len(outq')
          PROVE  /\ holding < outq'[k] /\ slot < outq'[k] /\ outq[1] < outq'[k]
                 /\ outq'[k] <= decoded
      <4>1. k + 1 \in 1 .. Len(outq) /\ 1 \in 1 .. Len(outq) /\ 1 < k + 1 /\ outq'[k] = outq[k + 1]
        BY <1>b, <3>2
      <4>2. QED
        BY <1>c, <4>1
    <3>4. ASSUME NEW k \in 1 .. Len(outq'), NEW l \in 1 .. Len(outq'), k < l
          PROVE  outq'[k] < outq'[l]
      <4>1. k + 1 \in 1 .. Len(outq) /\ l + 1 \in 1 .. Len(outq) /\ k + 1 < l + 1
        BY <1>b, <3>2, <3>4
      <4>2. outq'[k] = outq[k + 1] /\ outq'[l] = outq[l + 1]
        BY <1>b, <3>2
      <4>3. QED
        BY <1>c, <4>1, <4>2
    <3>5. holding < outq[1] /\ slot < outq[1] /\ outq[1] <= decoded
      BY <1>a, <3>2, <1>b DEF OrderInv
    <3>6. QED
      BY <1>a, <2>1, <3>1, <3>2, <3>3, <3>4, <3>5 DEF OrderInv
  <2>3. CASE FanOffer
    BY <1>a, <2>1, <2>3, <1>b DEF FanOffer, OrderInv
  <2>4. CASE fan' # "offer" /\ UNCHANGED <<slot, outq>> /\ picture'.frame \in {0, picture.frame}
    BY <1>a, <2>1, <2>4, <1>b DEF OrderInv
  <2>5. CASE FanCheck \/ FanUnlock
    <3>1. picture' \in {NoPicture, picture}
      BY <2>5 DEF FanCheck, FanUnlock
    <3>2. picture'.frame \in {0, picture.frame}
      BY <3>1 DEF NoPicture
    <3>3. QED
      BY <2>4, <2>5, <3>2 DEF FanCheck, FanUnlock
  <2>6. CASE FanOsd
    <3>1. picture' = picture \/ \E i : picture' = [picture EXCEPT !.image = i]
      BY <2>6 DEF FanOsd, DrawOverlay
    <3>2. picture'.frame = picture.frame
      BY <1>a, <3>1 DEF TypeOK, Pictures
    <3>3. QED
      BY <2>4, <2>6, <3>2 DEF FanOsd
  <2>7. CASE FanLock \/ FanSubmit
    BY <2>4, <2>7 DEF FanLock, FanSubmit
  <2>8. QED
    BY <1>3, <2>2, <2>3, <2>5, <2>6, <2>7 DEF FanStep
<1>4. CASE CallbackStep
  <2>1. UNCHANGED <<open, demux, input, decoded, fan, picture, outq>>
    BY <1>4 DEF CallbackStep
  <2>2. CASE UNCHANGED <<slot, holding>>
    BY <1>a, <2>1, <2>2, OrderKept
  <2>3. CASE CallbackTakes
    <3>1. slot' = 0 /\ holding' \in {holding, slot} /\ slot # 0 /\ open
      BY <1>a, <2>3 DEF CallbackTakes, CallbackInv, ControlInv
    <3>2. QED
      BY <1>a, <2>1, <3>1, <1>b DEF OrderInv
  <2>4. QED
    BY <1>4, <2>2, <2>3 DEF CallbackStep, CallbackWaits, CallbackBlocks, CallbackEnds, CallbackReturns
<1>5. ASSUME NEW b \in Branches, StreamStep(b) PROVE OrderInv'
  BY <1>5, <1>a, OrderKept DEF StreamStep
<1>6. CASE Open
  <2>1. /\ holding = 0 /\ outq = <<>> /\ input = 0 /\ demux = "off" /\ picture.frame = 0 /\ fan = "idle"
    BY <1>6, <1>a DEF Open, OrderInv, InputInv, ControlInv, DecoderStopped, DemuxStopped, NoPicture
  <2>2. slot' = 0 /\ decoded' = 0 /\ UNCHANGED <<holding, outq, input, demux, picture, fan>>
    BY <1>6 DEF Open
  <2>3. Len(outq) = 0 /\ MaxFrames \in Nat
    BY <2>1, PipelineAssumption
  <2>4. QED
    BY <2>1, <2>2, <2>3 DEF OrderInv
<1>7. CASE Start \/ StartFails \/ Stop("stop") \/ Stop("close") \/ CloseStopped \/ SetFrameCallback
  <2>1. CASE Start
    <3>1. /\ slot' = 0 /\ demux = "off" /\ demux' = "read"
          /\ UNCHANGED <<open, input, decoded, holding, fan, picture, outq>>
      BY <1>a, <2>1 DEF Start, InputInv, DemuxStopped
    <3>2. QED
      BY <1>a, <3>1, OrderKept
  <2>2. CASE StartFails \/ SetFrameCallback
    <3>1. slot' \in {0, slot} /\ UNCHANGED <<open, input, demux, decoded, holding, fan, picture, outq>>
      BY <2>2 DEF StartFails, SetFrameCallback
    <3>2. QED
      BY <1>a, <3>1, OrderKept
  <2>3. CASE Stop("stop") \/ Stop("close") \/ CloseStopped
    <3>1. UNCHANGED <<slot, open, input, demux, decoded, holding, fan, picture, outq>>
      BY <2>3 DEF Stop, CloseStopped
    <3>2. QED
      BY <1>a, <3>1, OrderKept
  <2>4. QED
    BY <1>7, <2>1, <2>2, <2>3
<1>8. CASE ClearOsd \/ OutputCall \/ OutputStep \/ UNCHANGED vars
  BY <1>8, <1>a, OrderKept DEF ClearOsd, OutputCall, OutputStep, vars
<1>9. ASSUME NEW hold \in Holds, SetOsd(hold) PROVE OrderInv'
  BY <1>9, <1>a, OrderKept DEF SetOsd
<1>10. CASE CloseReturns
  <2>1. /\ outq = <<>> /\ input = 0 /\ demux = "off" /\ picture.frame = 0 /\ fan = "idle"
    BY <1>10, <1>a DEF CloseReturns, InputInv, ControlInv, DecoderStopped, DemuxStopped, NoPicture
  <2>2. slot' = 0 /\ decoded' = 0 /\ holding' = 0 /\ UNCHANGED <<outq, input, demux, picture, fan>>
    BY <1>10 DEF CloseReturns
  <2>3. Len(outq) = 0 /\ MaxFrames \in Nat
    BY <2>1, PipelineAssumption
  <2>4. QED
    BY <2>1, <2>2, <2>3 DEF OrderInv
<1>11. CASE StopStep
  <2>1. UNCHANGED <<open, decoded, holding, fan, picture, outq>>
    BY <1>11 DEF StopStep
  <2>2. slot' \in {0, slot} /\ input' \in {0, input} /\ demux' \in {demux, "off"}
    BY <1>11 DEF StopStep, StopInput, StopDecoder, JoinDecoder, JoinDemux, StopClears, StopOutputs,
                 StopCallbacks, StopCallback, NotifyCallback, StopReturns
  <2>3. QED
    BY <1>a, <2>1, <2>2, OrderKept
<1>12. QED
  BY <1>1, <1>2, <1>3, <1>4, <1>5, <1>6, <1>7, <1>8, <1>9, <1>10, <1>11 DEF Next, AppCall, AppStep

-----------------------------------------------------------------------------
(* Types.                                                                  *)

(***************************************************************************)
(* TypeOK in parts: few steps change more than one of them.                *)
(***************************************************************************)
FlagType ==
  /\ open \in BOOLEAN /\ running \in BOOLEAN /\ demuxStop \in BOOLEAN
  /\ callback \in BOOLEAN /\ callbackStop \in BOOLEAN

ControlType ==
  /\ ctl \in {"idle", "close"} \union StopPhases \union OutputPhases
  /\ goal \in {"none", "stop", "close"}
  /\ subject \in Branches \union {NoBranch}
  /\ index \in Nat /\ at \in Nat
  /\ lock \in {"free", "app", "fan"}
  /\ branches \in Seq(Branches) /\ IsInjective(branches)
  /\ demux \in {"off", "read", "submit", "done"}
  /\ fan \in {"idle", "offer", "check", "osd", "lock", "submit"}
  /\ caller \in {"off", "test", "sleep", "wait", "call", "done"}
  /\ dec \in {"none", "open", "running", "stopping"}

EncoderType ==
  /\ enc \in [Branches -> {"none", "open", "running", "stopping"}]
  /\ inq \in [Branches -> Seq(Pictures)]
  /\ \A b \in Branches : Len(inq[b]) <= Depth
  /\ strm \in [Branches -> {"idle", "encode", "packet"}]
  /\ coding \in [Branches -> Pictures]
  /\ mux \in [Branches -> {"none", "open"}]

FrameType ==
  /\ input \in 0 .. InputDepth
  /\ outq \in Seq(1 .. MaxFrames) /\ Len(outq) <= OutputDepth
  /\ decoded \in 0 .. MaxFrames /\ latest \in 0 .. MaxFrames
  /\ slot \in 0 .. MaxFrames /\ holding \in 0 .. MaxFrames
  /\ picture \in Pictures
  /\ pendingOsd \in Holds \union {NoOverlay} /\ activeOsd \in Holds \union {NoOverlay}
  /\ left \in Nat
  /\ pool \in Seq(1 .. MaxFrames)
  /\ drawn \in [hold : Holds \union {0}, frames : Nat]

(***************************************************************************)
(* TypeOK is the conjunction of its parts, before and after a step.        *)
(***************************************************************************)
LEMMA TypeParts == TypeOK <=> FlagType /\ ControlType /\ EncoderType /\ FrameType
BY SMTT(60) DEF TypeOK, FlagType, ControlType, EncoderType, FrameType, StopPhases, OutputPhases

LEMMA TypePartsNext == FlagType' /\ ControlType' /\ EncoderType' /\ FrameType' => TypeOK'
BY SMTT(60) DEF TypeOK, FlagType, ControlType, EncoderType, FrameType, StopPhases, OutputPhases

(***************************************************************************)
(* Every step preserves each part of TypeOK.                               *)
(***************************************************************************)
LEMMA FlagTypeStep == PipelineInv /\ [Next]_vars => FlagType'
<1> SUFFICES ASSUME FlagType, [Next]_vars PROVE FlagType'
  BY TypeParts DEF PipelineInv
<1> USE DEF FlagType, flagVars, callVars, outputVars
<1>1. CASE DemuxStep \/ DecodeStep \/ FanStep \/ CallbackStep
  BY <1>1 DEF DemuxStep, DecodeStep, FanStep, CallbackStep
<1>2. ASSUME NEW b \in Branches, StreamStep(b) PROVE FlagType'
  BY <1>2 DEF StreamStep
<1>3. CASE Open \/ Start
  BY <1>3 DEF Open, Start
<1>4. CASE StartFails
  BY <1>4 DEF StartFails
<1>5. CASE Stop("stop") \/ Stop("close") \/ CloseStopped \/ CloseReturns
  BY <1>5 DEF Stop, CloseStopped, CloseReturns
<1>6. CASE SetFrameCallback \/ ClearOsd \/ OutputCall \/ OutputStep \/ UNCHANGED vars
  BY <1>6 DEF SetFrameCallback, ClearOsd, OutputCall, OutputStep, vars
<1>7. ASSUME NEW hold \in Holds, SetOsd(hold) PROVE FlagType'
  BY <1>7 DEF SetOsd
<1>8. CASE StopStep
  BY <1>8 DEF StopStep, StopInput, StopClears, StopOutputs, StopCallbacks, StopCallback, NotifyCallback,
              StopReturns
<1>9. QED
  BY <1>1, <1>2, <1>3, <1>4, <1>5, <1>6, <1>7, <1>8 DEF Next, AppCall, AppStep

LEMMA ControlTypeStep == PipelineInv /\ [Next]_vars => ControlType'
<1> SUFFICES ASSUME PipelineInv, [Next]_vars PROVE ControlType'
  OBVIOUS
<1> USE DEF flagVars, ctlVars, encVars, decVars, fanVars, callVars, osdVars, outputVars
<1>a. ControlType /\ OutputInv /\ TypeOK
  BY TypeParts DEF PipelineInv
<1> USE DEF ControlType, StopPhases, OutputPhases
<1>1. CASE DemuxStep
  BY <1>a, <1>1 DEF DemuxStep, DemuxReads, DemuxReadFails, DemuxSubmits, DemuxSubmitFails
<1>2. CASE DecodeStep
  BY <1>a, <1>2 DEF DecodeStep
<1>3. CASE FanStep
  BY <1>a, <1>3
     DEF FanStep, FanPublish, FanOffer, FanCheck, FanOsd, FanLock, FanSubmit, FanUnlock, Wake
<1>4. CASE CallbackStep
  BY <1>a, <1>4
     DEF CallbackStep, CallbackWaits, CallbackBlocks, CallbackEnds, CallbackTakes, CallbackReturns
<1>5. ASSUME NEW b \in Branches, StreamStep(b) PROVE ControlType'
  BY <1>a, <1>5 DEF StreamStep
<1>6. CASE Open
  <2>1. branches' \in Seq(Branches) /\ IsInjective(branches')
    BY <1>6, PermutationType DEF Open
  <2>2. /\ dec' = "open"
        /\ UNCHANGED <<ctl, goal, subject, index, at, lock, demux,
                       fan, caller>>
    BY <1>6 DEF Open
  <2>3. QED
    BY <1>a, <2>1, <2>2
<1>7. CASE Start
  BY <1>a, <1>7 DEF Start
<1>8. CASE StartFails
  BY <1>a, <1>8 DEF StartFails
<1>9. CASE Stop("stop") \/ Stop("close") \/ CloseStopped
  BY <1>a, <1>9 DEF Stop, CloseStopped
<1>10. CASE SetFrameCallback
  BY <1>a, <1>10 DEF SetFrameCallback
<1>11. CASE ClearOsd \/ UNCHANGED vars
  BY <1>a, <1>11 DEF ClearOsd, vars
<1>12. ASSUME NEW hold \in Holds, SetOsd(hold) PROVE ControlType'
  BY <1>a, <1>12 DEF SetOsd
<1>13. CASE OutputCall
  BY <1>a, <1>13 DEF OutputCall, AddOutput, RemoveOutput
<1>14. CASE CloseReturns
  <2>1. branches' \in Seq(Branches) /\ IsInjective(branches')
    BY <1>14 DEF CloseReturns, IsInjective
  <2>2. /\ ctl' = "idle" /\ goal' = "none" /\ dec' = "none"
        /\ UNCHANGED <<subject, index, at, lock, demux, fan, caller>>
    BY <1>14 DEF CloseReturns
  <2>3. QED
    BY <1>a, <2>1, <2>2
<1>15. CASE StopStep
  <2>1. CASE StopInput
    BY <1>a, <1>15, <2>1 DEF StopStep, StopInput, StopDecoder, JoinDecoder, JoinDemux
  <2>2. CASE StopClears
    BY <1>a, <1>15, <2>2 DEF StopStep, StopClears
  <2>3. CASE StopOutputs
    BY <1>a, <1>15, <2>3 DEF StopStep, StopOutputs, StopLocks, StopEncoder, JoinEncoder, StopUnlocks
  <2>4. CASE StopCallbacks
    <3>1. CASE StopCallback
      BY <1>a, <1>15, <2>4, <3>1 DEF StopStep, StopCallbacks, StopCallback
    <3>2. CASE NotifyCallback
      BY <1>a, <1>15, <2>4, <3>2 DEF StopStep, StopCallbacks, NotifyCallback, Wake
    <3>3. CASE StopReturns
      <4>1. ctl' \in {"close", "idle"} /\ goal' \in {"close", "none"}
        BY <3>3 DEF StopReturns
      <4>2. /\ caller' = "off"
            /\ UNCHANGED <<subject, index, at, lock, branches, demux, fan, dec>>
        BY <1>15, <2>4, <3>3 DEF StopStep, StopCallbacks, StopReturns
      <4>3. QED
        BY <1>a, <4>1, <4>2
    <3>4. QED
      BY <2>4, <3>1, <3>2, <3>3 DEF StopCallbacks
  <2>5. QED
    BY <1>15, <2>1, <2>2, <2>3, <2>4 DEF StopStep
<1>16. CASE OutputStep
  <2>1. CASE AddOutputReturns
    <3>1. subject \in Branches /\ subject \notin ToSet(branches)
      BY <1>a, <2>1 DEF AddOutputReturns, OutputInv
    <3>2. branches' = Append(branches, subject) /\ branches \in Seq(Branches)
      BY <1>a, <2>1 DEF AddOutputReturns
    <3>3. /\ branches' \in Seq(Branches) /\ DOMAIN branches' = 1 .. Len(branches) + 1
          /\ branches'[Len(branches) + 1] = subject
          /\ \A i \in 1 .. Len(branches) : branches'[i] = branches[i]
      BY <3>1, <3>2, AppendElements
    <3>4. \A i, j \in 1 .. Len(branches) + 1 : branches'[i] = branches'[j] => i = j
      BY <1>a, <3>1, <3>3, BranchesType
    <3>5. QED
      BY <1>a, <1>16, <2>1, <3>3, <3>4 DEF OutputStep, AddOutputReturns, IsInjective
  <2>2. CASE RemoveErases
    <3>1. index \in 1 .. Len(branches) /\ branches' = RemoveAt(branches, index)
      BY <1>a, <2>2 DEF RemoveErases, OutputInv
    <3>2. /\ branches' \in Seq(Branches) /\ Len(branches') = Len(branches) - 1
          /\ \A k \in 1 .. Len(branches) - 1 :
               branches'[k] = IF k < index THEN branches[k] ELSE branches[k + 1]
      BY <1>a, <3>1, RemoveAtElements
    <3>3. DOMAIN branches' = 1 .. Len(branches) - 1
      BY <3>2
    <3>4. ASSUME NEW i \in 1 .. Len(branches) - 1, NEW j \in 1 .. Len(branches) - 1,
                 branches'[i] = branches'[j]
          PROVE  i = j
      <4>1. PICK u \in 1 .. Len(branches) : u = (IF i < index THEN i ELSE i + 1) /\ branches'[i] = branches[u]
        BY <1>a, <3>1, <3>2
      <4>2. PICK v \in 1 .. Len(branches) : v = (IF j < index THEN j ELSE j + 1) /\ branches'[j] = branches[v]
        BY <1>a, <3>1, <3>2
      <4>3. u = v
        BY <1>a, <3>4, <4>1, <4>2, BranchesType
      <4>4. QED
        BY <3>1, <4>1, <4>2, <4>3
    <3>5. IsInjective(branches')
      BY <3>3, <3>4 DEF IsInjective
    <3>6. branches[index] \in Branches
      BY <1>a, <3>1, BranchesType
    <3>7. QED
      BY <1>a, <1>16, <2>2, <3>2, <3>5, <3>6 DEF OutputStep, RemoveErases
  <2>3. CASE RemoveStops \/ RemoveOutputReturns
    BY <1>a, <1>16, <2>3 DEF OutputStep, RemoveStops, RemoveOutputReturns
  <2>4. QED
    BY <1>16, <2>1, <2>2, <2>3 DEF OutputStep
<1>17. QED
  BY <1>1, <1>2, <1>3, <1>4, <1>5, <1>6, <1>7, <1>8, <1>9, <1>10, <1>11, <1>12, <1>13, <1>14,
     <1>15, <1>16 DEF Next, AppCall, AppStep

(***************************************************************************)
(* Steps that change no encoder and no muxer preserve EncoderType.         *)
(***************************************************************************)
LEMMA EncoderUntouched ==
  ASSUME EncoderType, UNCHANGED encVars, UNCHANGED mux PROVE EncoderType'
BY DEF EncoderType, encVars

(***************************************************************************)
(* Encoders keep their types, and no queue outgrows its depth.             *)
(***************************************************************************)
LEMMA EncoderTypeStep == PipelineInv /\ [Next]_vars => EncoderType'
<1> SUFFICES ASSUME PipelineInv, [Next]_vars PROVE EncoderType'
  OBVIOUS
<1> USE DEF flagVars, ctlVars, encVars, decVars, fanVars, callVars, osdVars, outputVars
<1>a. EncoderType /\ OutputInv /\ TypeOK
  BY TypeParts DEF PipelineInv
<1>b. Depth \in Nat \ {0} /\ NoPicture \in Pictures /\ picture \in Pictures
  BY <1>a, PipelineAssumption DEF NoPicture, Pictures, TypeOK
<1>1. CASE DemuxStep \/ DecodeStep \/ CallbackStep \/ SetFrameCallback \/ StartFails \/ ClearOsd
  BY <1>1, <1>a, EncoderUntouched
     DEF DemuxStep, DecodeStep, CallbackStep, SetFrameCallback, StartFails, ClearOsd
<1>2. CASE Stop("stop") \/ Stop("close") \/ CloseStopped \/ UNCHANGED vars
  BY <1>2, <1>a, EncoderUntouched DEF Stop, CloseStopped, vars
<1>3. ASSUME NEW hold \in Holds, SetOsd(hold) PROVE EncoderType'
  BY <1>3, <1>a, EncoderUntouched DEF SetOsd
<1>4. ASSUME NEW b \in Branches, StreamStep(b) PROVE EncoderType'
  <2>1. UNCHANGED <<enc, mux>> /\ strm' \in [Branches -> {"idle", "encode", "packet"}]
    BY <1>4, <1>a
       DEF StreamStep, StreamTakes, StreamEncodes, StreamCallbackReturns, EncoderType
  <2>2. CASE StreamTakes(b)
    <3>1. /\ inq[b] \in Seq(Pictures) /\ inq[b] # <<>> /\ Len(inq[b]) <= Depth
          /\ inq' = [inq EXCEPT ![b] = Tail(@)] /\ coding' = [coding EXCEPT ![b] = Head(inq[b])]
      BY <1>a, <2>2 DEF StreamTakes, EncoderType
    <3>2. Head(inq[b]) \in Pictures /\ Tail(inq[b]) \in Seq(Pictures) /\ Len(Tail(inq[b])) <= Depth
      BY <1>b, <3>1, TailElements
    <3>3. QED
      BY <1>a, <2>1, <3>1, <3>2 DEF EncoderType
  <2>3. CASE StreamEncodes(b)
    BY <1>a, <1>b, <2>1, <2>3 DEF StreamEncodes, EncoderType
  <2>4. CASE StreamCallbackReturns(b)
    BY <1>a, <2>1, <2>4 DEF StreamCallbackReturns, EncoderType
  <2>5. QED
    BY <1>4, <2>2, <2>3, <2>4 DEF StreamStep
<1>5. CASE FanStep
  <2>1. UNCHANGED <<enc, strm, coding, mux>>
    BY <1>5 DEF FanStep
  <2>2. CASE FanSubmit
    <3>1. PICK b \in Branches : SubmitFrame(b)
      BY <1>a, <2>2, BranchesType DEF FanSubmit, OutputInv
    <3>2. CASE inq' = inq
      BY <1>a, <2>1, <3>2, EncoderUntouched
    <3>3. CASE Len(inq[b]) >= Depth /\ inq' = [inq EXCEPT ![b] = Append(Tail(@), picture)]
      <4>1. inq[b] \in Seq(Pictures) /\ inq[b] # <<>> /\ Len(inq[b]) <= Depth
        BY <1>a, <1>b, <3>3 DEF EncoderType
      <4>2. Tail(inq[b]) \in Seq(Pictures) /\ Len(Tail(inq[b])) < Depth
        BY <1>b, <4>1, TailElements
      <4>3. /\ Append(Tail(inq[b]), picture) \in Seq(Pictures)
            /\ Len(Append(Tail(inq[b]), picture)) <= Depth
        BY <1>b, <4>2, AppendElements
      <4>4. QED
        BY <1>a, <2>1, <3>3, <4>3 DEF EncoderType
    <3>4. CASE ~(Len(inq[b]) >= Depth) /\ inq' = [inq EXCEPT ![b] = Append(@, picture)]
      <4>1. inq[b] \in Seq(Pictures)
        BY <1>a DEF EncoderType
      <4>2. /\ Append(inq[b], picture) \in Seq(Pictures)
            /\ Len(Append(inq[b], picture)) <= Depth
        BY <1>b, <3>4, <4>1, AppendElements
      <4>3. QED
        BY <1>a, <2>1, <3>4, <4>2 DEF EncoderType
    <3>5. QED
      BY <3>1, <3>2, <3>3, <3>4 DEF SubmitFrame
  <2>3. CASE UNCHANGED inq
    BY <1>a, <2>1, <2>3, EncoderUntouched
  <2>4. QED
    BY <1>5, <2>2, <2>3 DEF FanStep, FanPublish, FanOffer, FanCheck, FanOsd, FanLock, FanUnlock
<1>6. CASE Open
  BY <1>a, <1>6 DEF Open, EncoderType
<1>7. CASE Start
  BY <1>a, <1>7 DEF Start, EncoderType
<1>8. CASE CloseReturns
  BY <1>a, <1>8 DEF CloseReturns, EncoderType
<1>9. CASE OutputCall
  BY <1>a, <1>9 DEF OutputCall, AddOutput, RemoveOutput, EncoderType
<1>10. ASSUME NEW b \in Branches, HaltEncoder(b), UNCHANGED <<strm, coding, mux>> PROVE EncoderType'
  <2>1. enc' \in [Branches -> {"none", "open", "running", "stopping"}]
    BY <1>a, <1>10 DEF HaltEncoder, EncoderType
  <2>2. inq' = [inq EXCEPT ![b] = <<>>] /\ <<>> \in Seq(Pictures) /\ Len(<<>>) <= Depth
    BY <1>b, <1>10 DEF HaltEncoder
  <2>3. QED
    BY <1>a, <1>10, <2>1, <2>2 DEF EncoderType
<1>11. CASE StopStep
  <2>1. UNCHANGED <<strm, coding, mux>>
    BY <1>11 DEF StopStep
  <2>2. CASE StopEncoder
    BY <1>a, <1>10, <2>1, <2>2, BranchesType DEF StopEncoder, OutputInv
  <2>3. CASE JoinEncoder
    BY <1>a, <2>1, <2>3 DEF JoinEncoder, EncoderType
  <2>4. CASE UNCHANGED <<enc, inq>>
    BY <1>a, <2>1, <2>4, EncoderUntouched
  <2>5. QED
    BY <1>11, <2>2, <2>3, <2>4
       DEF StopStep, StopInput, StopClears, StopOutputs, StopCallbacks, StopLocks, StopUnlocks
<1>12. CASE OutputStep
  <2>1. UNCHANGED <<strm, coding>>
    BY <1>12 DEF OutputStep
  <2>2. CASE AddOutputReturns \/ RemoveErases
    BY <1>a, <2>1, <2>2, EncoderUntouched DEF AddOutputReturns, RemoveErases
  <2>3. CASE RemoveStops
    BY <1>a, <1>10, <2>1, <2>3 DEF RemoveStops, OutputInv, TypeOK
  <2>4. CASE RemoveOutputReturns
    BY <1>a, <2>1, <2>4 DEF RemoveOutputReturns, EncoderType
  <2>5. QED
    BY <1>12, <2>2, <2>3, <2>4 DEF OutputStep
<1>13. QED
  BY <1>1, <1>2, <1>3, <1>4, <1>5, <1>6, <1>7, <1>8, <1>9, <1>11, <1>12 DEF Next, AppCall, AppStep

(***************************************************************************)
(* A sequence with one element replaced.                                   *)
(***************************************************************************)
LEMMA ExceptType ==
  ASSUME NEW S, NEW s \in Seq(S), NEW i \in 1 .. Len(s), NEW e \in S
  PROVE  [s EXCEPT ![i] = e] \in Seq(S)
OBVIOUS

(***************************************************************************)
(* Steps that at most clear the slot preserve FrameType.                   *)
(***************************************************************************)
LEMMA FrameUntouched ==
  ASSUME FrameType, slot' \in {0, slot},
         UNCHANGED <<input, outq, decoded, latest, holding, picture, osdVars, pool>>
  PROVE  FrameType'
BY PipelineAssumption DEF FrameType, osdVars

(***************************************************************************)
(* Frame numbers, pictures, overlays and the pool keep their types.        *)
(***************************************************************************)
LEMMA FrameTypeStep == PipelineInv /\ [Next]_vars => FrameType'
<1> SUFFICES ASSUME PipelineInv, [Next]_vars PROVE FrameType'
  OBVIOUS
<1> USE DEF flagVars, ctlVars, encVars, decVars, fanVars, callVars, osdVars, outputVars
<1>a. FrameType /\ OutputInv /\ TypeOK /\ PictureInv /\ OrderInv
  BY TypeParts DEF PipelineInv
<1>b. /\ MaxFrames \in Nat /\ InputDepth \in Nat \ {0} /\ OutputDepth \in Nat \ {0}
      /\ NoPicture \in Pictures /\ \A f \in 0 .. MaxFrames : [frame |-> f, image |-> 0] \in Pictures
      /\ [hold |-> 0, frames |-> 0] \in [hold : Holds \union {0}, frames : Nat]
  BY PipelineAssumption DEF NoPicture, Pictures
<1>1. CASE DemuxStep
  <2>1. UNCHANGED <<outq, decoded, latest, slot, holding, picture, osdVars, pool>>
    BY <1>1 DEF DemuxStep, DemuxReads, DemuxReadFails, DemuxSubmits, DemuxSubmitFails
  <2>2. input' \in 0 .. InputDepth
    BY <1>1, <1>a, <1>b
       DEF DemuxStep, DemuxReads, DemuxReadFails, DemuxSubmits, DemuxSubmitFails, FrameType
  <2>3. QED
    BY <1>a, <2>1, <2>2 DEF FrameType
<1>2. CASE DecodeStep
  <2>1. /\ UNCHANGED <<latest, slot, holding, picture, osdVars, pool>>
        /\ input' = input - 1 /\ input > 0
    BY <1>2 DEF DecodeStep
  <2>2. input' \in 0 .. InputDepth
    BY <1>a, <1>b, <2>1 DEF FrameType
  <2>3. CASE DecodeNothing
    BY <1>a, <2>1, <2>2, <2>3 DEF DecodeNothing, FrameType
  <2>4. CASE Decode
    <3>1. decoded' = decoded + 1 /\ decoded + 1 \in 1 .. MaxFrames
      <4>1. decoded + input <= MaxFrames /\ decoded \in Nat /\ input \in Nat
        BY <1>a, FrameTypes DEF OrderInv
      <4>2. QED
        BY <1>b, <2>1, <2>4, <4>1 DEF Decode
    <3>2. outq \in Seq(1 .. MaxFrames) /\ Len(outq) \in Nat /\ Len(outq) <= OutputDepth
      BY <1>a DEF FrameType
    <3>3. outq' \in Seq(1 .. MaxFrames) /\ Len(outq') <= OutputDepth
      <4>1. CASE Len(outq) < OutputDepth
        BY <1>b, <2>4, <3>1, <3>2, <4>1, AppendElements DEF Decode
      <4>2. CASE ~(Len(outq) < OutputDepth)
        <5>1. outq # <<>>
          BY <1>b, <3>2, <4>2
        <5>2. Tail(outq) \in Seq(1 .. MaxFrames) /\ Len(Tail(outq)) = Len(outq) - 1
          BY <3>2, <5>1, TailElements
        <5>3. outq' = Append(Tail(outq), decoded + 1)
          BY <2>4, <4>2 DEF Decode
        <5>4. QED
          BY <1>b, <3>1, <3>2, <5>2, <5>3, AppendElements
      <4>3. QED
        BY <4>1, <4>2
    <3>4. QED
      BY <1>a, <1>b, <2>1, <2>2, <3>1, <3>3 DEF FrameType
  <2>5. QED
    BY <1>2, <2>3, <2>4 DEF DecodeStep
<1>3. CASE FanStep
  <2>1. UNCHANGED <<input, decoded, holding>>
    BY <1>3 DEF FanStep
  <2>2. CASE FanPublish
    <3>1. /\ Tail(outq) \in Seq(1 .. MaxFrames) /\ Len(Tail(outq)) <= OutputDepth
          /\ Head(outq) \in 1 .. MaxFrames
      BY <1>a, <1>b, <2>2, TailElements DEF FanPublish, FrameType
    <3>2. /\ outq' = Tail(outq) /\ latest' = Head(outq) /\ UNCHANGED <<slot, osdVars, pool>>
          /\ picture' = [frame |-> Head(outq), image |-> 0]
      BY <2>2 DEF FanPublish
    <3>3. Head(outq) \in 0 .. MaxFrames /\ picture' \in Pictures
      BY <1>b, <3>1, <3>2
    <3>4. QED
      BY <1>a, <2>1, <3>1, <3>2, <3>3 DEF FrameType
  <2>3. CASE FanOffer
    <3>1. slot' \in {slot, picture.frame} /\ UNCHANGED <<outq, latest, picture, osdVars, pool>>
      BY <2>3 DEF FanOffer
    <3>2. picture.frame \in 0 .. MaxFrames
      BY <1>a, PictureType DEF FrameType
    <3>3. QED
      BY <1>a, <2>1, <3>1, <3>2 DEF FrameType
  <2>4. CASE FanCheck \/ FanLock \/ FanSubmit \/ FanUnlock
    <3>1. picture' \in {picture, NoPicture} /\ UNCHANGED <<outq, latest, slot, osdVars, pool>>
      BY <2>4 DEF FanCheck, FanLock, FanSubmit, FanUnlock
    <3>2. QED
      BY <1>a, <1>b, <2>1, <3>1 DEF FrameType
  <2>5. CASE FanOsd
    <3>1. UNCHANGED <<outq, latest, slot>>
      BY <2>5 DEF FanOsd
    <3>2. /\ pendingOsd' \in Holds \union {NoOverlay} /\ activeOsd' \in Holds \union {NoOverlay}
          /\ left' \in Nat /\ drawn' \in [hold : Holds \union {0}, frames : Nat]
      <4>1. CASE UNCHANGED osdVars
        BY <1>a, <4>1 DEF FrameType
      <4>2. CASE TakeOverlay
        <5>1. OverlayLeft \in Nat /\ Overlay \in Holds \union {NoOverlay}
          BY <1>a, HoldType DEF FrameType, OverlayLeft, Overlay
        <5>2. OverlayDrawn \in [hold : Holds \union {0}, frames : Nat]
          BY <1>a DEF FrameType, OverlayDrawn
        <5>3. OverlayDrawn.frames + 1 \in Nat
          BY <5>2, OverlayType
        <5>4. [OverlayDrawn EXCEPT !.frames = @ + 1] \in [hold : Holds \union {0}, frames : Nat]
          BY <5>2, <5>3
        <5>5. drawn' \in [hold : Holds \union {0}, frames : Nat]
          BY <4>2, <5>2, <5>4 DEF TakeOverlay
        <5>6. QED
          BY <4>2, <5>1, <5>5 DEF TakeOverlay, CountOverlay
      <4>3. QED
        BY <2>5, <4>1, <4>2 DEF FanOsd
    <3>3. picture' \in Pictures /\ pool' \in Seq(1 .. MaxFrames)
      <4>1. CASE UNCHANGED <<picture, pool>>
        BY <1>a, <4>1 DEF FrameType
      <4>2. CASE DrawOverlay
        <5>1. PICK i \in 1 .. Len(pool) + 1 :
                /\ pool' = IF i > Len(pool) THEN Append(pool, picture.frame)
                           ELSE [pool EXCEPT ![i] = picture.frame]
                /\ picture' = [picture EXCEPT !.image = i]
          BY <4>2 DEF DrawOverlay
        <5>2. pool \in Seq(1 .. MaxFrames) /\ picture \in Pictures /\ Len(pool) \in Nat /\ i \in Nat
          BY <1>a DEF FrameType
        <5>3. picture.frame \in 1 .. MaxFrames
          BY <1>a, <1>b, <2>5, <5>2, PictureType DEF FanOsd, PictureInv
        <5>4. picture' \in Pictures
          BY <5>1, <5>2 DEF Pictures
        <5>5. pool' \in Seq(1 .. MaxFrames)
          <6>1. CASE i > Len(pool)
            BY <5>1, <5>2, <5>3, <6>1, AppendElements
          <6>2. CASE i \in 1 .. Len(pool)
            <7>1. pool' = [pool EXCEPT ![i] = picture.frame]
              BY <5>1, <5>2, <6>2
            <7>2. QED
              BY <5>2, <5>3, <6>2, <7>1, ExceptType
          <6>3. QED
            BY <5>2, <6>1, <6>2
        <5>6. QED
          BY <5>4, <5>5
      <4>3. QED
        BY <2>5, <4>1, <4>2 DEF FanOsd
    <3>4. QED
      BY <1>a, <2>1, <3>1, <3>2, <3>3 DEF FrameType
  <2>6. QED
    BY <1>3, <2>2, <2>3, <2>4, <2>5 DEF FanStep
<1>4. CASE CallbackStep
  <2>1. UNCHANGED <<input, outq, decoded, latest, picture, osdVars, pool>>
    BY <1>4 DEF CallbackStep
  <2>2. slot' \in {0, slot} /\ holding' \in {holding, slot}
    BY <1>4 DEF CallbackStep, CallbackWaits, CallbackBlocks, CallbackEnds, CallbackTakes, CallbackReturns
  <2>3. QED
    BY <1>a, <1>b, <2>1, <2>2 DEF FrameType
<1>5. ASSUME NEW b \in Branches, StreamStep(b) PROVE FrameType'
  BY <1>5, <1>a, FrameUntouched DEF StreamStep
<1>6. CASE Open
  <2>1. /\ latest' = 0 /\ slot' = 0 /\ pendingOsd' = NoOverlay /\ activeOsd' = NoOverlay /\ left' = 0
        /\ drawn' = [hold |-> 0, frames |-> 0] /\ decoded' = 0
        /\ UNCHANGED <<input, outq, holding, picture, pool>>
    BY <1>6 DEF Open
  <2>2. QED
    BY <1>a, <1>b, <2>1 DEF FrameType
<1>7. CASE Start \/ StartFails \/ Stop("stop") \/ Stop("close") \/ CloseStopped \/ SetFrameCallback
  <2>1. /\ slot' \in {0, slot}
        /\ UNCHANGED <<input, outq, decoded, latest, holding, picture, osdVars, pool>>
    BY <1>7 DEF Start, StartFails, Stop, CloseStopped, SetFrameCallback
  <2>2. QED
    BY <1>a, <2>1, FrameUntouched
<1>8. CASE OutputCall \/ OutputStep \/ UNCHANGED vars
  BY <1>8, <1>a, FrameUntouched DEF OutputCall, OutputStep, vars
<1>9. ASSUME NEW hold \in Holds, SetOsd(hold) PROVE FrameType'
  BY <1>9, <1>a DEF SetOsd, FrameType
<1>10. CASE ClearOsd
  BY <1>10, <1>a, <1>b DEF ClearOsd, FrameType
<1>11. CASE CloseReturns
  <2>1. /\ latest' = 0 /\ slot' = 0 /\ pendingOsd' = NoOverlay /\ activeOsd' = NoOverlay /\ left' = 0
        /\ drawn' = [hold |-> 0, frames |-> 0] /\ decoded' = 0 /\ holding' = 0
        /\ UNCHANGED <<input, outq, picture, pool>>
    BY <1>11 DEF CloseReturns
  <2>2. QED
    BY <1>a, <1>b, <2>1 DEF FrameType
<1>12. CASE StopStep
  <2>1. UNCHANGED <<outq, decoded, holding, picture, pool>>
    BY <1>12 DEF StopStep
  <2>2. CASE StopClears
    <3>1. /\ latest' = 0 /\ slot' = 0 /\ pendingOsd' = NoOverlay /\ activeOsd' = NoOverlay /\ left' = 0
          /\ drawn' = [hold |-> 0, frames |-> 0] /\ UNCHANGED input
      BY <2>2 DEF StopClears
    <3>2. QED
      BY <1>a, <1>b, <2>1, <3>1 DEF FrameType
  <2>3. CASE StopInput \/ StopOutputs \/ StopCallbacks
    <3>1. slot' \in {0, slot} /\ input' \in {0, input} /\ UNCHANGED <<latest, osdVars>>
      BY <2>3 DEF StopInput, StopDecoder, JoinDecoder, JoinDemux, StopOutputs, StopCallbacks,
                  StopCallback, NotifyCallback, StopReturns
    <3>2. QED
      BY <1>a, <1>b, <2>1, <3>1 DEF FrameType
  <2>4. QED
    BY <1>12, <2>2, <2>3 DEF StopStep
<1>13. QED
  BY <1>1, <1>2, <1>3, <1>4, <1>5, <1>6, <1>7, <1>8, <1>9, <1>10, <1>11, <1>12
     DEF Next, AppCall, AppStep

-----------------------------------------------------------------------------
(* The theorems.                                                           *)

(***************************************************************************)
(* The inductive invariant holds initially.                                *)
(***************************************************************************)
LEMMA PipelineInit == Init => PipelineInv
<1> SUFFICES ASSUME Init PROVE PipelineInv
  OBVIOUS
<1>1. MaxFrames \in Nat /\ InputDepth \in Nat \ {0} /\ OutputDepth \in Nat \ {0} /\ Depth \in Nat \ {0}
      /\ NoBranch \notin Branches
  BY PipelineAssumption
<1>2. NoPicture \in Pictures
  BY <1>1 DEF NoPicture, Pictures
<1>3. FlagType
  BY DEF Init, FlagType
<1>4. ControlType
  BY DEF Init, ControlType, IsInjective
<1>5. EncoderType
  BY <1>1, <1>2 DEF Init, EncoderType
<1>6. FrameType
  BY <1>1, <1>2 DEF Init, FrameType
<1>7. ControlInv /\ CallbackInv
  BY DEF Init, ControlInv, CallbackInv, StopPhases, OutputPhases
<1>8. InputInv /\ PictureInv
  BY DEF Init, InputInv, PictureInv, Kept, NoPicture, DecoderStopped, DemuxStopped, Cleared
<1>9. OutputInv
  <2>1. ToSet(branches) = {} /\ Len(branches) = 0 /\ branches = <<>>
    BY DEF Init, ToSet
  <2>2. QED
    BY <1>1, <2>1 DEF Init, OutputInv, EncoderApart
<1>10. StreamInv /\ OverlayInv
  BY DEF Init, StreamInv, OverlayInv
<1>11. OrderInv
  BY <1>1 DEF Init, OrderInv, NoPicture
<1>12. QED
  BY <1>3, <1>4, <1>5, <1>6, <1>7, <1>8, <1>9, <1>10, <1>11, TypeParts DEF PipelineInv

(***************************************************************************)
(* The inductive invariant holds in every reachable state, and with it     *)
(* every variable has its type.                                            *)
(***************************************************************************)
THEOREM PipelineInvariant == Spec => []PipelineInv
<1>1. PipelineInv /\ [Next]_vars => PipelineInv'
  <2> SUFFICES ASSUME PipelineInv, [Next]_vars PROVE PipelineInv'
    OBVIOUS
  <2>1. TypeOK'
    BY TypePartsNext, FlagTypeStep, ControlTypeStep, EncoderTypeStep, FrameTypeStep
  <2>2. ControlInv' /\ InputInv' /\ OutputInv' /\ StreamInv' /\ CallbackInv' /\ OverlayInv'
        /\ PictureInv' /\ OrderInv'
    BY ControlStep, InputStep, OutputInvStep, StreamInvStep, CallbackInvStep, OverlayStep,
       PictureInvStep, OrderInvStep
  <2>3. QED
    BY <2>1, <2>2 DEF PipelineInv
<1>2. QED
  BY <1>1, PipelineInit, PTL DEF Spec

(***************************************************************************)
(* Every variable of the pipeline keeps its type.                          *)
(***************************************************************************)
THEOREM TypeCorrect == Spec => []TypeOK
<1>1. PipelineInv => TypeOK
  BY DEF PipelineInv
<1>2. QED
  BY <1>1, PipelineInvariant, PTL

(***************************************************************************)
(* No stream thread is inside the packet callback of a branch whose muxer  *)
(* is closed, in whatever order AddOutput, RemoveOutput, Stop and Close    *)
(* meet the threads.                                                       *)
(***************************************************************************)
THEOREM MuxersStayOpen == Spec => []MuxerOpenWhileUsed
<1>1. PipelineInv => MuxerOpenWhileUsed
  <2> SUFFICES ASSUME PipelineInv, NEW b \in Branches, strm[b] = "packet" PROVE mux[b] = "open"
    BY DEF MuxerOpenWhileUsed
  <2>1. mux[b] # "none" /\ mux[b] \in {"none", "open"}
    BY DEF PipelineInv, StreamInv, TypeOK
  <2>2. QED
    BY <2>1
<1>2. QED
  BY <1>1, PipelineInvariant, PTL

(***************************************************************************)
(* Between two calls exactly the encoders of the branches run, if the      *)
(* pipeline does, and FanoutFrame meets running encoders only.             *)
(***************************************************************************)
THEOREM OutputsAlwaysFollow == Spec => []OutputsFollowPipeline
<1>1. PipelineInv => OutputsFollowPipeline
  <2> SUFFICES ASSUME PipelineInv PROVE OutputsFollowPipeline
    OBVIOUS
  <2>a. TypeOK /\ OutputInv /\ InputInv /\ ControlInv
    BY DEF PipelineInv
  <2>1. ASSUME ctl = "idle", NEW b \in Branches
        PROVE  enc[b] = IF b \notin ToSet(branches) THEN "none"
                        ELSE IF running THEN "running" ELSE "open"
    <3>1. CASE b \in ToSet(branches)
      BY <2>a, <2>1, <3>1, BranchesType DEF OutputInv, EncoderAt, OutputsStopped
    <3>2. CASE b \notin ToSet(branches)
      BY <2>a, <2>1, <3>2, PipelineAssumption DEF OutputInv, EncoderApart
    <3>3. QED
      BY <3>1, <3>2
  <2>2. ASSUME fan = "submit", NEW i \in at .. Len(branches)
        PROVE  enc[branches[i]] = "running"
    <3>1. i \in 1 .. Len(branches)
      BY <2>a, <2>2, BranchesType DEF OutputInv
    <3>2. running /\ ~DecoderStopped
      BY <2>a, <2>2 DEF InputInv, DecoderStopped
    <3>3. EncoderAt(i) = "running"
      BY <3>2 DEF EncoderAt, OutputsStopped, DecoderStopped, StopPhases
    <3>4. QED
      BY <2>a, <3>1, <3>3 DEF OutputInv
  <2>3. QED
    BY <2>1, <2>2 DEF OutputsFollowPipeline
<1>2. QED
  BY <1>1, PipelineInvariant, PTL

(***************************************************************************)
(* When Stop has returned every thread is gone and every queue is empty,   *)
(* although the decoder hands over what it had queued while it stops.      *)
(***************************************************************************)
THEOREM QuietAfterStop == Spec => []QuietWhenStopped
<1>1. PipelineInv => QuietWhenStopped
  <2> SUFFICES ASSUME PipelineInv, ctl = "idle", ~running
      PROVE  /\ latest = 0 /\ slot = 0 /\ outq = <<>> /\ input = 0
             /\ fan = "idle" /\ demux = "off" /\ caller = "off" /\ lock = "free"
             /\ \A b \in Branches : strm[b] = "idle" /\ inq[b] = <<>>
    BY DEF QuietWhenStopped
  <2>a. TypeOK /\ OutputInv /\ InputInv /\ ControlInv /\ CallbackInv /\ StreamInv
    BY DEF PipelineInv
  <2>1. latest = 0 /\ slot = 0 /\ outq = <<>> /\ input = 0 /\ fan = "idle" /\ demux = "off" /\ caller = "off"
    BY <2>a DEF InputInv, CallbackInv, DecoderStopped, DemuxStopped, Cleared, CallbackTold
  <2>2. lock = "free"
    BY <2>a, <2>1 DEF ControlInv, TypeOK
  <2>3. \A b \in Branches : strm[b] = "idle" /\ inq[b] = <<>>
    BY <2>a, EncodersAtRest DEF StreamInv
  <2>4. QED
    BY <2>1, <2>2, <2>3
<1>2. QED
  BY <1>1, PipelineInvariant, PTL

(***************************************************************************)
(* An overlay set for n frames is applied to n frames, those on which      *)
(* drawing failed included, and then gone, for every n, unless it is       *)
(* replaced or cleared.                                                    *)
(***************************************************************************)
THEOREM OverlaysHold == Spec => []OverlayHolds
<1>1. PipelineInv => OverlayHolds
  <2> SUFFICES ASSUME PipelineInv, drawn.hold > 0
      PROVE  drawn.frames <= drawn.hold /\ (activeOsd = NoOverlay <=> drawn.frames = drawn.hold)
    BY DEF OverlayHolds
  <2>1. drawn.hold \in Nat /\ drawn.frames \in Nat
    BY OverlayType DEF PipelineInv, TypeOK
  <2>2. QED
    BY <2>1 DEF PipelineInv, OverlayInv, NoOverlay
<1>2. QED
  BY <1>1, PipelineInvariant, PTL

(***************************************************************************)
(* The image of a picture is not drawn on again while any encoder has it   *)
(* queued or is encoding it, however many outputs share it.                *)
(***************************************************************************)
THEOREM PicturesStayKept == Spec => []PicturesKept
<1>1. PipelineInv => PicturesKept
  <2> SUFFICES ASSUME PipelineInv, NEW b \in Branches, NEW p \in ToSet(inq[b]) \union {coding[b]},
                      p.image > 0
      PROVE  pool[p.image] = p.frame
    BY DEF PicturesKept
  <2>a. TypeOK /\ PictureInv
    BY DEF PipelineInv
  <2>1. Kept(p)
    <3>1. CASE p = coding[b]
      BY <2>a, <3>1 DEF PictureInv
    <3>2. CASE p \in ToSet(inq[b])
      <4>1. inq[b] \in Seq(Pictures)
        BY <2>a, QueuesType
      <4>2. \E k \in 1 .. Len(inq[b]) : inq[b][k] = p
        BY <3>2, <4>1, ToSetElements
      <4>3. QED
        BY <2>a, <4>2 DEF PictureInv
    <3>3. QED
      BY <3>1, <3>2
  <2>2. QED
    BY <2>1 DEF Kept
<1>2. QED
  BY <1>1, PipelineInvariant, PTL

(***************************************************************************)
(* The frame callback thread is never blocked beside a frame to show or a  *)
(* Stop it was told of.                                                    *)
(***************************************************************************)
THEOREM CallbackThreadAlwaysTold == Spec => []CallbackThreadTold
<1>1. PipelineInv => CallbackThreadTold
  BY DEF PipelineInv, CallbackInv, CallbackThreadTold
<1>2. QED
  BY <1>1, PipelineInvariant, PTL

(***************************************************************************)
(* The frame callback sees frames in the order they were decoded, each at  *)
(* most once, across Stop and Start.                                       *)
(***************************************************************************)
THEOREM FramesAlwaysShownOnce == Spec => FramesShownOnce
<1>1. PipelineInv /\ [Next]_vars => [caller = "test" /\ caller' = "call" => holding' > holding]_caller
  <2> SUFFICES ASSUME PipelineInv, Next, caller = "test", caller' = "call" PROVE holding' > holding
    BY DEF vars, callVars
  <2>a. TypeOK /\ OrderInv
    BY DEF PipelineInv
  <2> USE DEF flagVars, ctlVars, callVars, outputVars
  <2>1. CallbackStep
    <3>1. ~FanStep
      BY DEF FanStep, FanPublish, FanOffer, FanCheck, FanOsd, FanLock, FanSubmit, FanUnlock, Wake
    <3>2. ~(DemuxStep \/ DecodeStep \/ \E b \in Branches : StreamStep(b))
      BY DEF DemuxStep, DecodeStep, StreamStep
    <3>3. ~AppCall
      BY DEF AppCall, Open, Start, StartFails, Stop, CloseStopped, SetFrameCallback, ClearOsd,
             OutputCall, SetOsd
    <3>4. ~AppStep
      BY DEF AppStep, StopStep, StopInput, StopClears, StopOutputs, StopCallbacks, StopCallback,
             NotifyCallback, StopReturns, Wake, CloseReturns, OutputStep
    <3>5. QED
      BY <3>1, <3>2, <3>3, <3>4 DEF Next
  <2>2. CallbackTakes
    BY <2>1 DEF CallbackStep, CallbackWaits, CallbackBlocks, CallbackEnds, CallbackReturns
  <2>3. slot # 0 /\ holding' = slot
    BY <2>2 DEF CallbackTakes
  <2>4. QED
    BY <2>a, <2>3, FrameTypes DEF OrderInv
<1>2. QED
  BY <1>1, PipelineInvariant, PTL DEF Spec, FramesShownOnce
=============================================================================
