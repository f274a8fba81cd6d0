----------------------------- MODULE FrameFifo -----------------------------
(***************************************************************************)
(* What a bounded frame queue of the SDK promises to its two sides,        *)
(* whatever threads, locks and condition variables implement it.           *)
(*                                                                         *)
(* Frames are numbered 1, 2, 3, ... in the order the queue accepted them.  *)
(* The queue never holds more than Depth frames; when it is full an        *)
(* arriving frame may displace the oldest queued one, never another; a     *)
(* frame leaves towards the consumer from the front only; the owner may    *)
(* empty the queue, and may restart the numbering of an empty one.         *)
(*                                                                         *)
(* The input queue of VideoEncoder and the packet queue of VideoDecoder    *)
(* are shown to implement this specification.                              *)
(***************************************************************************)
EXTENDS Naturals, Sequences

CONSTANT Depth      \* the most frames the queue holds, at least one

VARIABLES
  fifo,             \* the frames held, oldest first
  accepted,         \* how many frames the queue has accepted
  taken             \* the frame the consumer took last, 0 for none

fifoVars == <<fifo, accepted, taken>>

Init ==
  /\ fifo = <<>>
  /\ accepted = 0
  /\ taken = 0

(***************************************************************************)
(* A new frame arrives while there is room.                                *)
(***************************************************************************)
Accept ==
  /\ Len(fifo) < Depth
  /\ accepted' = accepted + 1
  /\ fifo' = Append(fifo, accepted + 1)
  /\ UNCHANGED taken

(***************************************************************************)
(* A new frame arrives at a full queue and displaces the oldest one.       *)
(***************************************************************************)
Displace ==
  /\ Len(fifo) = Depth
  /\ accepted' = accepted + 1
  /\ fifo' = Append(Tail(fifo), accepted + 1)
  /\ UNCHANGED taken

(***************************************************************************)
(* The consumer takes the oldest frame.                                    *)
(***************************************************************************)
Take ==
  /\ fifo # <<>>
  /\ taken' = Head(fifo)
  /\ fifo' = Tail(fifo)
  /\ UNCHANGED accepted

(***************************************************************************)
(* The owner throws away what is queued (Stop).                            *)
(***************************************************************************)
Discard ==
  /\ fifo' = <<>>
  /\ UNCHANGED <<accepted, taken>>

(***************************************************************************)
(* The owner starts over (Close).                                          *)
(***************************************************************************)
Reset ==
  /\ fifo' = <<>>
  /\ accepted' = 0
  /\ taken' = 0

Next == Accept \/ Displace \/ Take \/ Discard \/ Reset

Spec == Init /\ [][Next]_fifoVars
=============================================================================
