--------------------------- MODULE MCVideoDecoder ---------------------------
(***************************************************************************)
(* VideoDecoder on small instances.                                        *)
(***************************************************************************)
EXTENDS VideoDecoder, TLC

CONSTANTS p1, p2, send, receive, deliver

MCSymmetry == Permutations(Producers)

(***************************************************************************)
(* The client of the liveness runs: it opens the decoder once, gives it a  *)
(* callback before Start, which succeeds, submits packets without end of   *)
(* stream, and may stop the decoder once.  This bounds the runs; no fair   *)
(* action is ever kept from happening.                                     *)
(***************************************************************************)
OneSession ==
  /\ open => open'
  /\ SetFrameCallback => ~running /\ callback'
  /\ Start => callback
  /\ ctl = "start" => ctl' # "idle"
  /\ \A p \in Producers : pc'[p] # "eos"
  /\ stop => stop'

SessionSpec == Init /\ [][Next /\ OneSession]_vars /\ Fairness
=============================================================================
