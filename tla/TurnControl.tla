---------------------------- MODULE TurnControl ----------------------------
(***************************************************************************)
(* What the parts of a turn share: the turns themselves and the cancel     *)
(* check handed down to every one of them                                  *)
(* (orchestration/run_control.py).  A cancel is a request somebody makes   *)
(* of the run; the turn learns of it where the code asks.                  *)
(***************************************************************************)

CONSTANT Turn   \* turns of one project, each executed by a worker thread

VARIABLE cancelAsked   \* turns whose run somebody asked to cancel

ControlTypeOK == cancelAsked \subseteq Turn

ControlInit == cancelAsked = {}

(* invoke_cancel_check: raises RunCancelledError once the run is to stop.  *)
CancelSeen(t) == t \in cancelAsked

AskCancel(t) ==
  /\ ~ CancelSeen(t)
  /\ cancelAsked' = cancelAsked \cup {t}

=============================================================================
