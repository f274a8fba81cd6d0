----------------------------- MODULE MCPipeline -----------------------------
(***************************************************************************)
(* Pipeline on small instances.                                            *)
(***************************************************************************)
EXTENDS Pipeline

CONSTANTS b1, b2

(***************************************************************************)
(* The client, to bound the run.  It opens the pipeline with one output    *)
(* (it may add the other later), draws overlays or takes frames by         *)
(* callback but not both (which share no state but the frame they are      *)
(* about), and starts over only if it drew none.  It changes the overlay   *)
(* just before something reads or clears it, and the callback when there is*)
(* a frame in the slot: at other times the change commutes with the steps  *)
(* of the threads.  It disables no action of Fairness.                     *)
(***************************************************************************)
Client ==
  /\ Open => branches' = <<b1>> /\ ~callbackStop
  /\ Start => pool = <<>>
  /\ SetFrameCallback => ~running \/ slot # 0
  /\ callback' => <<pendingOsd', activeOsd', pool'>> = <<NoOverlay, NoOverlay, <<>>>>
  /\ pendingOsd' # NoOverlay /\ pendingOsd = NoOverlay => fan = "osd" \/ ctl = "clear" \/ ~running
  /\ ClearOsd => fan = "osd"

ClientSpec == Init /\ [][Next /\ Client]_vars /\ Fairness
=============================================================================
