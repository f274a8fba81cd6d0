------------------------------ MODULE Pipeline ------------------------------
(***************************************************************************)
(* AxPipeline: one input decoded once, drawn on, and encoded by any number *)
(* of outputs (branches) that come and go while it runs.                   *)
(*                                                                         *)
(* The demux thread reads packets and submits them to the decoder.  The    *)
(* decoder's callback thread runs FanoutFrame: it publishes the frame,     *)
(* offers it to the pipeline's own frame callback thread, applies the      *)
(* overlay and, under branches_mutex_, submits the picture to the encoder  *)
(* of each branch.  The stream thread of an encoder passes its packets to  *)
(* the muxer of the branch.  One application thread calls Open, Start,     *)
(* Stop, Close, AddOutput, RemoveOutput and SetFrameCallback; SetOsd and   *)
(* ClearOsd may come from any thread.                                      *)
(*                                                                         *)
(* Encoder and decoder appear as what they promise: a bounded queue in     *)
(* front of a thread (FrameFifo, which VideoEncoder and VideoDecoder       *)
(* implement), nothing left after Stop (QuietWhenStopped of both), and a   *)
(* decoder whose Stop hands over what it has queued for the callback.      *)
(*                                                                         *)
(* branches_mutex_ is held over several steps and is a variable that names *)
(* its owner.  The other mutexes are held within one step, except for      *)
(* frame_callback_mutex_ while the callback thread tests its predicate     *)
(* ("sleep").  Every branch has a muxer.                                   *)
(*                                                                         *)
(* Definitions introduced as "a plausible error" are not part of the       *)
(* specification: each stands before the definition it is a faulty version *)
(* of, and serves to show that a property notices the fault.               *)
(***************************************************************************)
EXTENDS Integers, Sequences, SequencesExt, FiniteSets

CONSTANTS
  Branches,     \* the outputs that may be configured
  NoBranch,     \* none of them
  Blocking,     \* those with overflow_policy kBlock
  Displacing,   \* those with kDropOldest; the others have kDropNewest
  Depth,        \* input_queue_depth of every encoder
  InputDepth,   \* packets the decoder's input queue holds
  OutputDepth,  \* frames the decoder's callback queue holds
  Holds,        \* values of hold_frames: frames an overlay stays, 0 for ever
  MaxFrames     \* bound: frames decoded between Open and Close

ASSUME PipelineAssumption ==
  /\ IsFiniteSet(Branches) /\ NoBranch \notin Branches
  /\ Blocking \subseteq Branches
  /\ Displacing \subseteq Branches \ Blocking
  /\ {Depth, InputDepth, OutputDepth} \subseteq Nat \ {0}
  /\ Holds \subseteq Nat
  /\ MaxFrames \in Nat

VARIABLES
  open, running,         \* open_, running_
  demuxStop,             \* demux_stop_
  ctl, goal,             \* where the application thread is, and in which call
  subject,               \* the branch AddOutput or RemoveOutput is about
  index,                 \* the position of Stop in branches_
  lock,                  \* owner of branches_mutex_: "free", "app", "fan"
  branches,              \* branches_
  enc,                   \* the encoder of each branch, "none" if it has none
  inq,                   \* the pictures queued in it
  strm, coding,          \* where its stream thread is, the picture it encodes
  mux,                   \* the muxer of each branch
  dec,                   \* the decoder
  input,                 \* packets queued in it
  outq,                  \* frames queued for its callback
  decoded,               \* history: frames decoded so far
  demux,                 \* where the demux thread is
  fan, picture, at,      \* where FanoutFrame is, what it submits, to whom next
  latest,                \* latest_source_frame_, 0 for none
  slot,                  \* pending_callback_source_frame_, 0 for none
  callback, callbackStop,\* whether frame_callback_ is set; callback_stop_
  caller, holding,       \* where the callback thread is, the frame it took
  pendingOsd, activeOsd, \* pending_osd_, active_osd_ by their hold_frames
  left,                  \* active_osd_remaining_frames_
  pool,                  \* osd_pool_: the frame last drawn into each image
  drawn                  \* history: of the overlay activated last, its
                         \* hold_frames and the frames it was applied to

ctlVars == <<ctl, goal, subject, index>>
flagVars == <<open, running, demuxStop>>
encVars == <<enc, inq, strm, coding>>
decVars == <<dec, input, outq, decoded>>
fanVars == <<fan, picture, at>>
callVars == <<callback, callbackStop, caller, holding>>
osdVars == <<pendingOsd, activeOsd, left, drawn>>
vars == <<flagVars, ctlVars, lock, branches, encVars, mux, decVars, demux, fanVars,
          latest, slot, callVars, osdVars, pool>>

NoOverlay == -1
NoPicture == [frame |-> 0, image |-> 0]

\* A picture is a frame, either as it was decoded (image 0) or in an image
\* of osd_pool_ that an overlay was drawn on.
Pictures == [frame : 0 .. MaxFrames, image : Nat]

-----------------------------------------------------------------------------
(* The demux thread.                                                       *)

\* ReadPacket returns a packet, or fails at the end of the input, on an
\* error and once Interrupt was called; a live source may also just wait.
DemuxReads ==
  /\ demux = "read"
  /\ ~demuxStop
  /\ decoded + input < MaxFrames
  /\ demux' = "submit"
  /\ UNCHANGED decVars

DemuxReadFails ==
  /\ demux = "read"
  /\ demux' = "done"
  /\ UNCHANGED decVars

\* SubmitPacket of the decoder blocks while its queue is full.
DemuxSubmits ==
  /\ demux = "submit"
  /\ dec = "running"
  /\ input < InputDepth
  /\ input' = input + 1
  /\ demux' = "read"
  /\ UNCHANGED <<dec, outq, decoded>>

DemuxSubmitFails ==
  /\ demux = "submit"
  /\ dec # "running"
  /\ demux' = "done"
  /\ UNCHANGED decVars

DemuxStep ==
  /\ DemuxReads \/ DemuxReadFails \/ DemuxSubmits \/ DemuxSubmitFails
  /\ UNCHANGED <<flagVars, ctlVars, lock, branches, encVars, mux, fanVars, latest, slot,
                 callVars, osdVars, pool>>

(* The decoder turns a packet into a frame, which displaces the oldest of  *)
(* a full callback queue, or into nothing.  It may go on with that until   *)
(* its Stop has joined its threads.                                        *)

\* A plausible error: the callback queue grows.
DecodeUntrimmed ==
  /\ decoded' = decoded + 1
  /\ outq' = Append(outq, decoded + 1)

Decode ==
  /\ decoded' = decoded + 1
  /\ outq' = Append(IF Len(outq) < OutputDepth THEN outq ELSE Tail(outq), decoded + 1)

DecodeNothing == UNCHANGED <<decoded, outq>>

DecodeStep ==
  /\ dec \in {"running", "stopping"}
  /\ input > 0
  /\ input' = input - 1
  /\ Decode \/ DecodeNothing
  /\ UNCHANGED <<flagVars, ctlVars, lock, branches, encVars, mux, dec, demux, fanVars,
                 latest, slot, callVars, osdVars, pool>>

-----------------------------------------------------------------------------
(* FanoutFrame, in the callback thread of the decoder.                     *)

FanPublish ==
  /\ fan = "idle"
  /\ outq # <<>>
  /\ outq' = Tail(outq)
  /\ latest' = Head(outq)
  /\ picture' = [frame |-> Head(outq), image |-> 0]
  /\ fan' = "offer"
  /\ UNCHANGED <<lock, at, slot, caller, osdVars, pool, inq>>

CallbackMutexFree == caller # "sleep"

\* notify_one and notify_all: only the callback thread waits here.
Wake(c) == IF c = "wait" THEN "test" ELSE c

\* A plausible error: the callback thread is not told.
FanOfferSilently ==
  /\ fan = "offer"
  /\ CallbackMutexFree
  /\ IF callback THEN slot' = picture.frame ELSE UNCHANGED slot
  /\ fan' = "check"
  /\ UNCHANGED <<lock, picture, at, latest, caller, osdVars, pool, inq, outq>>

FanOffer ==
  /\ fan = "offer"
  /\ CallbackMutexFree
  /\ IF callback
       THEN slot' = picture.frame /\ caller' = Wake(caller)
       ELSE UNCHANGED <<slot, caller>>
  /\ fan' = "check"
  /\ UNCHANGED <<lock, picture, at, latest, osdVars, pool, inq, outq>>

FanCheck ==
  /\ fan = "check"
  /\ lock = "free"
  /\ fan' = IF branches = <<>> THEN "idle" ELSE "osd"
  /\ picture' = IF branches = <<>> THEN NoPicture ELSE picture
  /\ UNCHANGED <<lock, at, latest, slot, caller, osdVars, pool, inq, outq>>

\* ApplyPendingOsdUpdateLocked: the overlay in force and what is left of it.
Overlay == IF pendingOsd # NoOverlay THEN pendingOsd ELSE activeOsd
OverlayLeft == IF pendingOsd # NoOverlay THEN pendingOsd ELSE left
OverlayDrawn ==
  IF pendingOsd # NoOverlay THEN [hold |-> pendingOsd, frames |-> 0] ELSE drawn

\* A plausible error: the last frame does not end the overlay, and 0 frames
\* left mean for ever.
CountOverlayForever ==
  /\ left' = IF OverlayLeft > 0 THEN OverlayLeft - 1 ELSE OverlayLeft
  /\ activeOsd' = Overlay

CountOverlay ==
  /\ left' = IF OverlayLeft > 0 THEN OverlayLeft - 1 ELSE OverlayLeft
  /\ activeOsd' = IF OverlayLeft = 1 THEN NoOverlay ELSE Overlay

\* The first part of ApplyOsdIfNeeded, under osd_mutex_.
TakeOverlay ==
  /\ Overlay # NoOverlay
  /\ pendingOsd' = NoOverlay
  /\ CountOverlay
  /\ drawn' = IF OverlayDrawn.hold = 0 THEN OverlayDrawn
              ELSE [OverlayDrawn EXCEPT !.frames = @ + 1]

\* use_count() of an image in the pool, as far as encoders hold it.
InUse(i) ==
  \E b \in Branches : coding[b].image = i \/ \E k \in 1 .. Len(inq[b]) : inq[b][k].image = i

\* A plausible error: images are taken in the order of the pool, used or not.
AcquireAny(i) == i = 1

\* AcquireOsdFrame: the first image nobody else refers to, or a new one.
AcquireOsdFrame(i) ==
  /\ i \in 1 .. Len(pool) + 1
  /\ ~InUse(i)
  /\ \A j \in 1 .. i - 1 : InUse(j)

DrawOverlay ==
  \E i \in 1 .. Len(pool) + 1 :
    /\ AcquireOsdFrame(i)
    /\ pool' = IF i > Len(pool) THEN Append(pool, picture.frame)
               ELSE [pool EXCEPT ![i] = picture.frame]
    /\ picture' = [picture EXCEPT !.image = i]

FanOsd ==
  /\ fan = "osd"
  /\ \/ /\ Overlay = NoOverlay
        /\ UNCHANGED <<picture, osdVars, pool>>
     \/ /\ TakeOverlay
        /\ DrawOverlay \/ UNCHANGED <<picture, pool>>
  /\ fan' = "lock"
  /\ UNCHANGED <<lock, at, latest, slot, caller, inq, outq>>

FanLock ==
  /\ fan = "lock"
  /\ lock = "free"
  /\ lock' = "fan"
  /\ at' = 1
  /\ fan' = "submit"
  /\ UNCHANGED <<picture, latest, slot, caller, osdVars, pool, inq, outq>>

\* SubmitFrame of an encoder: it refuses when it is not running, waits or
\* drops a frame when its queue is full.
SubmitFrame(b) ==
  LET full == Len(inq[b]) >= Depth
  IN  /\ enc[b] = "running" /\ b \in Blocking => ~full
      /\ inq' = IF enc[b] # "running" \/ (full /\ b \notin Displacing) THEN inq
                ELSE [inq EXCEPT ![b] = Append(IF full THEN Tail(@) ELSE @, picture)]

FanSubmit ==
  /\ fan = "submit"
  /\ at <= Len(branches)
  /\ SubmitFrame(branches[at])
  /\ at' = at + 1
  /\ UNCHANGED <<lock, fan, picture, latest, slot, caller, osdVars, pool, outq>>

FanUnlock ==
  /\ fan = "submit"
  /\ at > Len(branches)
  /\ lock' = "free"
  /\ at' = 0
  /\ picture' = NoPicture
  /\ fan' = "idle"
  /\ UNCHANGED <<latest, slot, caller, osdVars, pool, inq, outq>>

FanStep ==
  /\ FanPublish \/ FanOffer \/ FanCheck \/ FanOsd \/ FanLock \/ FanSubmit \/ FanUnlock
  /\ UNCHANGED <<flagVars, ctlVars, branches, enc, strm, coding, mux, dec, input, decoded,
                 demux, callback, callbackStop, holding>>

-----------------------------------------------------------------------------
(* The stream thread of an encoder.                                        *)

StreamTakes(b) ==
  /\ strm[b] = "idle"
  /\ enc[b] = "running"
  /\ inq[b] # <<>>
  /\ inq' = [inq EXCEPT ![b] = Tail(@)]
  /\ coding' = [coding EXCEPT ![b] = Head(inq[b])]
  /\ strm' = [strm EXCEPT ![b] = "encode"]

\* The hardware yields a packet or, on a failure, nothing; then it is done
\* with the picture.
StreamEncodes(b) ==
  /\ strm[b] = "encode"
  /\ coding' = [coding EXCEPT ![b] = NoPicture]
  /\ \E s \in {"packet", "idle"} : strm' = [strm EXCEPT ![b] = s]
  /\ UNCHANGED inq

\* The packet callback calls the application, then the muxer's SubmitPacket.
StreamCallbackReturns(b) ==
  /\ strm[b] = "packet"
  /\ strm' = [strm EXCEPT ![b] = "idle"]
  /\ UNCHANGED <<inq, coding>>

StreamStep(b) ==
  /\ StreamTakes(b) \/ StreamEncodes(b) \/ StreamCallbackReturns(b)
  /\ UNCHANGED <<flagVars, ctlVars, lock, branches, enc, mux, decVars, demux, fanVars, latest,
                 slot, callVars, osdVars, pool>>

-----------------------------------------------------------------------------
(* FrameCallbackLoop.                                                      *)

\* The predicate is false: block, mutex held until the thread is blocked.
CallbackWaits ==
  /\ caller = "test"
  /\ ~callbackStop
  /\ slot = 0
  /\ caller' = "sleep"
  /\ UNCHANGED <<slot, holding>>

CallbackBlocks ==
  /\ caller = "sleep"
  /\ caller' = "wait"
  /\ UNCHANGED <<slot, holding>>

CallbackEnds ==
  /\ caller = "test"
  /\ callbackStop
  /\ slot = 0
  /\ caller' = "done"
  /\ UNCHANGED <<slot, holding>>

\* A plausible error: the frame is copied from the slot, not moved.
CallbackCopies ==
  /\ caller = "test"
  /\ slot # 0
  /\ IF callback THEN caller' = "call" /\ holding' = slot ELSE UNCHANGED <<caller, holding>>
  /\ UNCHANGED slot

\* The frame is moved out of the slot; without a callback it is dropped.
CallbackTakes ==
  /\ caller = "test"
  /\ slot # 0
  /\ slot' = 0
  /\ IF callback THEN caller' = "call" /\ holding' = slot ELSE UNCHANGED <<caller, holding>>

CallbackReturns ==
  /\ caller = "call"
  /\ caller' = "test"
  /\ UNCHANGED <<slot, holding>>

CallbackStep ==
  /\ \/ CallbackWaits \/ CallbackBlocks \/ CallbackEnds
     \/ CallbackTakes \/ CallbackReturns
  /\ UNCHANGED <<flagVars, ctlVars, lock, branches, encVars, mux, decVars, demux, fanVars,
                 latest, callback, callbackStop, osdVars, pool>>

-----------------------------------------------------------------------------
(* The application thread: Open and Start.                                 *)

\* Open on an open pipeline closes it first, which Close models.  A failed
\* Open closes what it had opened and changes nothing.
Open ==
  /\ ctl = "idle"
  /\ ~open
  /\ \E outputs \in SetToAllKPermutations(Branches) :
       /\ branches' = outputs
       /\ enc' = [b \in Branches |-> IF b \in ToSet(outputs) THEN "open" ELSE "none"]
       /\ mux' = [b \in Branches |-> IF b \in ToSet(outputs) THEN "open" ELSE "none"]
  /\ latest' = 0
  /\ slot' = 0
  /\ pendingOsd' = NoOverlay /\ activeOsd' = NoOverlay /\ left' = 0
  /\ drawn' = [hold |-> 0, frames |-> 0]
  /\ decoded' = 0
  /\ dec' = "open"
  /\ demuxStop' = FALSE
  /\ open' = TRUE
  /\ UNCHANGED <<running, ctlVars, lock, inq, strm, coding, input, outq, demux, fanVars,
                 callVars, pool>>

SetFrameCallback ==
  /\ ctl = "idle"
  /\ open
  /\ CallbackMutexFree
  /\ callback' = ~callback
  /\ slot' = IF callback THEN 0 ELSE slot
  /\ UNCHANGED <<flagVars, ctlVars, lock, branches, encVars, mux, decVars, demux, fanVars,
                 latest, callbackStop, caller, holding, osdVars, pool>>

\* Every thread but the demux thread still waits when Start returns, so
\* that nothing is seen between its steps.
Start ==
  /\ ctl = "idle"
  /\ open
  /\ ~running
  /\ slot' = 0
  /\ callbackStop' = FALSE
  /\ caller' = "test"
  /\ enc' = [b \in Branches |-> IF b \in ToSet(branches) THEN "running" ELSE enc[b]]
  /\ dec' = "running"
  /\ demuxStop' = FALSE
  /\ demux' = "read"
  /\ running' = TRUE
  /\ UNCHANGED <<open, ctlVars, lock, branches, inq, strm, coding, mux, input, outq, decoded,
                 fanVars, latest, callback, holding, osdVars, pool>>

\* An encoder, the decoder or the demuxer fails: Start stops what it had
\* started, before any frame was decoded.
StartFails ==
  /\ ctl = "idle"
  /\ open
  /\ ~running
  /\ slot' = 0
  /\ callbackStop' = TRUE
  /\ \E halted \in {demuxStop, TRUE} : demuxStop' = halted
  /\ UNCHANGED <<open, running, ctlVars, lock, branches, encVars, mux, decVars, demux, fanVars,
                 latest, callback, caller, holding, osdVars, pool>>

-----------------------------------------------------------------------------
(* The application thread: Stop and Close.                                 *)

\* Stop of one encoder: it refuses frames and forgets the queued ones at
\* once; what its thread is in the middle of is waited for.
HaltEncoder(b) ==
  /\ enc' = [enc EXCEPT ![b] = IF @ = "running" THEN "stopping" ELSE @]
  /\ inq' = [inq EXCEPT ![b] = <<>>]

\* A plausible error: Stop takes branches_mutex_ before it stops the decoder.
StopLocksFirst(g) ==
  /\ ctl = "idle"
  /\ running
  /\ lock = "free"
  /\ lock' = "app"
  /\ demuxStop' = TRUE
  /\ goal' = g
  /\ ctl' = "stop_decoder"
  /\ UNCHANGED <<open, running, subject, index, branches, encVars, mux, decVars, demux, fanVars,
                 latest, slot, callVars, osdVars, pool>>

Stop(g) ==
  /\ ctl = "idle"
  /\ running
  /\ demuxStop' = TRUE
  /\ goal' = g
  /\ ctl' = "stop_decoder"
  /\ UNCHANGED <<open, running, subject, index, lock, branches, encVars, mux, decVars, demux,
                 fanVars, latest, slot, callVars, osdVars, pool>>

StopDecoder ==
  /\ ctl = "stop_decoder"
  /\ dec' = "stopping"
  /\ ctl' = "join_decoder"
  /\ UNCHANGED <<input, demux>>

\* A plausible error: what the callback queue still holds is not waited for.
JoinDecoderEarly ==
  /\ ctl = "join_decoder"
  /\ dec' = "open"
  /\ input' = 0
  /\ ctl' = "join_demux"
  /\ UNCHANGED demux

\* The decoder's Stop joins its callback thread, which first hands over the
\* frames in the callback queue, and forgets packets not yet decoded.  That
\* it returns is assumed here: VideoDecoder shows the case in which it may not.
JoinDecoder ==
  /\ ctl = "join_decoder"
  /\ outq = <<>>
  /\ fan = "idle"
  /\ dec' = "open"
  /\ input' = 0
  /\ ctl' = "join_demux"
  /\ UNCHANGED demux

JoinDemux ==
  /\ ctl = "join_demux"
  /\ demux = "done"
  /\ demux' = "off"
  /\ ctl' = "clear"
  /\ UNCHANGED <<dec, input>>

StopInput ==
  /\ StopDecoder \/ JoinDecoder \/ JoinDemux
  /\ UNCHANGED <<running, goal, index, lock, enc, inq, latest, slot, caller, callbackStop,
                 osdVars>>

\* The overlay, the latest frame and the slot, each under its mutex.
StopClears ==
  /\ ctl = "clear"
  /\ CallbackMutexFree
  /\ pendingOsd' = NoOverlay /\ activeOsd' = NoOverlay /\ left' = 0
  /\ drawn' = [hold |-> 0, frames |-> 0]
  /\ latest' = 0
  /\ slot' = 0
  /\ ctl' = "lock"
  /\ UNCHANGED <<running, goal, index, lock, enc, inq, dec, input, demux, caller, callbackStop>>

\* The encoders are stopped one by one, branches_mutex_ held.
StopLocks ==
  /\ ctl = "lock"
  /\ lock # "fan"
  /\ lock' = "app"
  /\ index' = 1
  /\ ctl' = "stop_encoders"
  /\ UNCHANGED <<enc, inq>>

StopEncoder ==
  /\ ctl = "stop_encoders"
  /\ index <= Len(branches)
  /\ HaltEncoder(branches[index])
  /\ ctl' = "join_encoder"
  /\ UNCHANGED <<index, lock>>

JoinEncoder ==
  /\ ctl = "join_encoder"
  /\ strm[branches[index]] = "idle"
  /\ enc' = [enc EXCEPT ![branches[index]] = "open"]
  /\ index' = index + 1
  /\ ctl' = "stop_encoders"
  /\ UNCHANGED <<inq, lock>>

StopUnlocks ==
  /\ ctl = "stop_encoders"
  /\ index > Len(branches)
  /\ lock' = "free"
  /\ index' = 0
  /\ ctl' = "stop_callback"
  /\ UNCHANGED <<enc, inq>>

StopOutputs ==
  /\ StopLocks \/ StopEncoder \/ JoinEncoder \/ StopUnlocks
  /\ UNCHANGED <<running, goal, dec, input, demux, latest, slot, caller, callbackStop, osdVars>>

\* StopFrameCallbackThread, and the end of Stop.
StopCallback ==
  /\ ctl = "stop_callback"
  /\ CallbackMutexFree
  /\ slot' = 0
  /\ callbackStop' = TRUE
  /\ ctl' = "notify_callback"
  /\ UNCHANGED <<running, goal, caller>>

NotifyCallback ==
  /\ ctl = "notify_callback"
  /\ caller' = Wake(caller)
  /\ ctl' = "join_callback"
  /\ UNCHANGED <<running, goal, slot, callbackStop>>

StopReturns ==
  /\ ctl = "join_callback"
  /\ caller = "done"
  /\ caller' = "off"
  /\ running' = FALSE
  /\ ctl' = IF goal = "close" THEN "close" ELSE "idle"
  /\ goal' = IF goal = "close" THEN "close" ELSE "none"
  /\ UNCHANGED <<slot, callbackStop>>

StopCallbacks ==
  /\ StopCallback \/ NotifyCallback \/ StopReturns
  /\ UNCHANGED <<index, lock, enc, inq, dec, input, demux, latest, osdVars>>

StopStep ==
  /\ StopInput \/ StopClears \/ StopOutputs \/ StopCallbacks
  /\ UNCHANGED <<open, demuxStop, subject, branches, strm, coding, mux, outq, decoded, fanVars,
                 callback, holding, pool>>

\* Close of a pipeline that does not run; Close of one that does calls Stop.
CloseStopped ==
  /\ ctl = "idle"
  /\ open
  /\ ~running
  /\ ctl' = "close"
  /\ goal' = "close"
  /\ UNCHANGED <<flagVars, subject, index, lock, branches, encVars, mux, decVars, demux, fanVars,
                 latest, slot, callVars, osdVars, pool>>

\* osd_pool_ keeps its images.
CloseReturns ==
  /\ ctl = "close"
  /\ branches' = <<>>
  /\ enc' = [b \in Branches |-> "none"]
  /\ mux' = [b \in Branches |-> "none"]
  /\ dec' = "none"
  /\ decoded' = 0
  /\ latest' = 0
  /\ slot' = 0
  /\ callback' = FALSE
  /\ holding' = 0
  /\ pendingOsd' = NoOverlay /\ activeOsd' = NoOverlay /\ left' = 0
  /\ drawn' = [hold |-> 0, frames |-> 0]
  /\ open' = FALSE
  /\ ctl' = "idle"
  /\ goal' = "none"
  /\ UNCHANGED <<running, demuxStop, subject, index, lock, inq, strm, coding, input, outq, demux,
                 fanVars, callbackStop, caller, pool>>

-----------------------------------------------------------------------------
(* The application thread: AddOutput and RemoveOutput.                     *)

\* A plausible error: the new encoder is not started.
AddOutputOpened(b) ==
  /\ ctl = "idle"
  /\ open
  /\ enc[b] = "none"
  /\ enc' = [enc EXCEPT ![b] = "open"]
  /\ mux' = [mux EXCEPT ![b] = "open"]
  /\ subject' = b
  /\ ctl' = "add"
  /\ UNCHANGED <<index, branches, inq>>

\* The branch is created, and its encoder started, before anybody sees it;
\* a failure on the way closes both again and changes nothing.
AddOutput(b) ==
  /\ ctl = "idle"
  /\ open
  /\ enc[b] = "none"
  /\ enc' = [enc EXCEPT ![b] = IF running THEN "running" ELSE "open"]
  /\ mux' = [mux EXCEPT ![b] = "open"]
  /\ subject' = b
  /\ ctl' = "add"
  /\ UNCHANGED <<index, branches, inq>>

AddOutputReturns ==
  /\ ctl = "add"
  /\ lock = "free"
  /\ branches' = Append(branches, subject)
  /\ subject' = NoBranch
  /\ ctl' = "idle"
  /\ UNCHANGED <<index, enc, inq, mux>>

RemoveOutput(i) ==
  /\ ctl = "idle"
  /\ i \in 1 .. Len(branches)
  /\ index' = i
  /\ ctl' = "remove"
  /\ UNCHANGED <<subject, branches, enc, inq, mux>>

RemoveErases ==
  /\ ctl = "remove"
  /\ lock = "free"
  /\ subject' = branches[index]
  /\ branches' = RemoveAt(branches, index)
  /\ index' = 0
  /\ ctl' = "remove_stop"
  /\ UNCHANGED <<enc, inq, mux>>

\* A plausible error: the muxer is closed before the encoder has stopped.
RemoveClosesMuxer ==
  /\ ctl = "remove_stop"
  /\ HaltEncoder(subject)
  /\ mux' = [mux EXCEPT ![subject] = "none"]
  /\ ctl' = "remove_join"
  /\ UNCHANGED <<subject, index, branches>>

RemoveStops ==
  /\ ctl = "remove_stop"
  /\ HaltEncoder(subject)
  /\ ctl' = "remove_join"
  /\ UNCHANGED <<subject, index, branches, mux>>

\* The encoder's Stop has joined its threads; muxer and encoder are closed.
RemoveOutputReturns ==
  /\ ctl = "remove_join"
  /\ strm[subject] = "idle"
  /\ enc' = [enc EXCEPT ![subject] = "none"]
  /\ mux' = [mux EXCEPT ![subject] = "none"]
  /\ subject' = NoBranch
  /\ ctl' = "idle"
  /\ UNCHANGED <<index, branches, inq>>

outputVars == <<flagVars, goal, lock, strm, coding, decVars, demux, fanVars, latest, slot,
                callVars, osdVars, pool>>

OutputCall ==
  /\ \/ \E b \in Branches : AddOutput(b)
     \/ \E i \in 1 .. Len(branches) : RemoveOutput(i)
  /\ UNCHANGED outputVars

OutputStep ==
  /\ AddOutputReturns \/ RemoveErases \/ RemoveStops \/ RemoveOutputReturns
  /\ UNCHANGED outputVars

-----------------------------------------------------------------------------
(* SetOsd and ClearOsd, from any thread.                                   *)

SetOsd(hold) ==
  /\ open
  /\ pendingOsd' = hold
  /\ UNCHANGED <<flagVars, ctlVars, lock, branches, encVars, mux, decVars, demux, fanVars,
                 latest, slot, callVars, activeOsd, left, drawn, pool>>

ClearOsd ==
  /\ <<pendingOsd, activeOsd>> # <<NoOverlay, NoOverlay>>
  /\ pendingOsd' = NoOverlay /\ activeOsd' = NoOverlay /\ left' = 0
  /\ drawn' = [hold |-> 0, frames |-> 0]
  /\ UNCHANGED <<flagVars, ctlVars, lock, branches, encVars, mux, decVars, demux, fanVars,
                 latest, slot, callVars, pool>>

-----------------------------------------------------------------------------
Init ==
  /\ open = FALSE /\ running = FALSE /\ demuxStop = FALSE
  /\ ctl = "idle" /\ goal = "none" /\ subject = NoBranch /\ index = 0
  /\ lock = "free"
  /\ branches = <<>>
  /\ enc = [b \in Branches |-> "none"]
  /\ inq = [b \in Branches |-> <<>>]
  /\ strm = [b \in Branches |-> "idle"]
  /\ coding = [b \in Branches |-> NoPicture]
  /\ mux = [b \in Branches |-> "none"]
  /\ dec = "none" /\ input = 0 /\ outq = <<>> /\ decoded = 0
  /\ demux = "off"
  /\ fan = "idle" /\ picture = NoPicture /\ at = 0
  /\ latest = 0 /\ slot = 0
  /\ callback = FALSE /\ callbackStop = FALSE /\ caller = "off" /\ holding = 0
  /\ pendingOsd = NoOverlay /\ activeOsd = NoOverlay /\ left = 0
  /\ drawn = [hold |-> 0, frames |-> 0]
  /\ pool = <<>>

AppStep == StopStep \/ CloseReturns \/ OutputStep

AppCall ==
  \/ Open \/ Start \/ StartFails \/ Stop("stop") \/ Stop("close") \/ CloseStopped
  \/ SetFrameCallback \/ ClearOsd
  \/ OutputCall
  \/ \E hold \in Holds : SetOsd(hold)

Next ==
  \/ AppCall \/ AppStep
  \/ DemuxStep \/ DecodeStep \/ FanStep \/ CallbackStep
  \/ \E b \in Branches : StreamStep(b)

Spec == Init /\ [][Next]_vars

(***************************************************************************)
(* Weaker than that every thread runs when it can: one of them does, of    *)
(* which the decoder and, until Stop, the demux thread do not count.  This *)
(* is enough because their work is finite without new frames.  Callbacks   *)
(* return, and so does ReadPacket once Interrupt was called.  Nobody has to*)
(* call anything, and a source may never deliver its next packet.          *)
(***************************************************************************)
Fairness ==
  WF_vars(\/ AppStep
          \/ FanStep
          \/ CallbackStep
          \/ \E b \in Branches : StreamStep(b)
          \/ demuxStop /\ DemuxStep)

FairSpec == Spec /\ Fairness

-----------------------------------------------------------------------------
(* Every variable has its type.                                            *)
TypeOK ==
  /\ {open, running, demuxStop, callback, callbackStop} \subseteq BOOLEAN
  /\ ctl \in {"idle", "stop_decoder", "join_decoder", "join_demux", "clear", "lock",
              "stop_encoders", "join_encoder", "stop_callback", "notify_callback",
              "join_callback", "close", "add", "remove", "remove_stop", "remove_join"}
  /\ goal \in {"none", "stop", "close"}
  /\ subject \in Branches \union {NoBranch}
  /\ index \in Nat /\ at \in Nat
  /\ lock \in {"free", "app", "fan"}
  /\ branches \in Seq(Branches) /\ IsInjective(branches)
  /\ enc \in [Branches -> {"none", "open", "running", "stopping"}]
  /\ inq \in [Branches -> Seq(Pictures)]
  /\ \A b \in Branches : Len(inq[b]) <= Depth
  /\ strm \in [Branches -> {"idle", "encode", "packet"}]
  /\ coding \in [Branches -> Pictures]
  /\ mux \in [Branches -> {"none", "open"}]
  /\ dec \in {"none", "open", "running", "stopping"}
  /\ input \in 0 .. InputDepth
  /\ outq \in Seq(1 .. MaxFrames) /\ Len(outq) <= OutputDepth
  /\ {decoded, latest, slot, holding} \subseteq 0 .. MaxFrames
  /\ demux \in {"off", "read", "submit", "done"}
  /\ fan \in {"idle", "offer", "check", "osd", "lock", "submit"}
  /\ picture \in Pictures
  /\ caller \in {"off", "test", "sleep", "wait", "call", "done"}
  /\ {pendingOsd, activeOsd} \subseteq Holds \union {NoOverlay}
  /\ left \in Nat
  /\ pool \in Seq(1 .. MaxFrames)
  /\ drawn \in [hold : Holds \union {0}, frames : Nat]

\* A stream thread never passes a packet to a muxer that was closed: who
\* closes a muxer has stopped its encoder, whatever the encoder was doing.
MuxerOpenWhileUsed == \A b \in Branches : strm[b] = "packet" => mux[b] = "open"

\* Between two calls an encoder runs exactly if the pipeline does, and only
\* branches have one; FanoutFrame never offers a frame to one that does not
\* run, however AddOutput, RemoveOutput and Stop interleave with it.
OutputsFollowPipeline ==
  /\ ctl = "idle" =>
       \A b \in Branches :
         enc[b] = IF b \notin ToSet(branches) THEN "none"
                  ELSE IF running THEN "running" ELSE "open"
  /\ fan = "submit" => \A i \in at .. Len(branches) : enc[branches[i]] = "running"

\* When Stop has returned no thread is left, no frame waits anywhere, and
\* GetLatestFrame and the frame callback have none.
QuietWhenStopped ==
  ctl = "idle" /\ ~running =>
    /\ latest = 0 /\ slot = 0 /\ outq = <<>> /\ input = 0
    /\ fan = "idle" /\ demux = "off" /\ caller = "off" /\ lock = "free"
    /\ \A b \in Branches : strm[b] = "idle" /\ inq[b] = <<>>

\* An overlay set for a number of frames is applied to that many, failed
\* draws included, and is gone after them and not before, unless it is
\* replaced or cleared.
OverlayHolds ==
  drawn.hold > 0 =>
    /\ drawn.frames <= drawn.hold
    /\ activeOsd = NoOverlay <=> drawn.frames = drawn.hold

\* The picture an encoder has queued or is encoding still shows the frame it
\* was submitted for: no overlay image is drawn on again while it is used.
PicturesKept ==
  \A b \in Branches :
    \A p \in ToSet(inq[b]) \union {coding[b]} : p.image > 0 => pool[p.image] = p.frame

\* The frame callback sees each frame once at most, and none after a newer.
FramesShownOnce ==
  [][caller = "test" /\ caller' = "call" => holding' > holding]_caller

\* Every call returns, although Stop and RemoveOutput wait for threads that
\* wait for queues, callbacks and branches_mutex_.
CallsReturn == ctl # "idle" ~> ctl = "idle"

\* Whenever the frame callback thread is blocked, there is no frame for it
\* and no Stop it was to be told about: neither an offer of FanoutFrame nor
\* StopFrameCallbackThread leaves it asleep.
CallbackThreadTold ==
  caller = "wait" => slot = 0 /\ (callbackStop => ctl = "notify_callback")
=============================================================================
