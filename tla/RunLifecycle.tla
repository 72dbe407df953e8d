---------------------------- MODULE RunLifecycle ----------------------------
(***************************************************************************)
(* What a chat run promises to the chat it belongs to, and nothing of how  *)
(* the run table and its workers keep the promise: a request is accepted,  *)
(* executed, perhaps suspended for the user's input and executed again,    *)
(* and ends once.  Only the end "completed" adds the user and assistant    *)
(* messages to the chat, and it adds them once.  RunStore implements this  *)
(* specification under the mapping it defines.                             *)
(***************************************************************************)
EXTENDS Naturals

CONSTANTS
  Run,        \* the requests, one per (chat, client_request_id)
  ChatOf,     \* the chat a run belongs to
  Kind        \* "message" or "auto_name"

VARIABLES
  phase,      \* where each run is
  delivered   \* how often its exchange was added to the chat

vars == <<phase, delivered>>

Live == {"waiting", "executing", "suspended"}
Phase == Live \cup {"absent", "completed", "abandoned"}

Init ==
  /\ phase = [r \in Run |-> "absent"]
  /\ delivered = [r \in Run |-> 0]

Move(r, from, to) ==
  /\ phase[r] \in from
  /\ phase' = [phase EXCEPT ![r] = to]

(* Only one message run of a chat is live at a time.                       *)
ChatIsFree(r) ==
  Kind[r] = "message" =>
    \A q \in Run : (Kind[q] = "message" /\ ChatOf[q] = ChatOf[r]) => phase[q] \notin Live

Accept(r) == Move(r, {"absent"}, "waiting") /\ ChatIsFree(r) /\ UNCHANGED delivered

Start(r) == Move(r, {"waiting"}, "executing") /\ UNCHANGED delivered

Suspend(r) == Move(r, {"executing"}, "suspended") /\ UNCHANGED delivered

Resume(r) == Move(r, {"suspended"}, "waiting") /\ UNCHANGED delivered

Complete(r) ==
  /\ Move(r, {"executing"}, "completed")
  /\ delivered' = [delivered EXCEPT ![r] = IF Kind[r] = "message" THEN 1 ELSE 0]

Abandon(r) == Move(r, Live, "abandoned") /\ UNCHANGED delivered

Next ==
  \E r \in Run :
    Accept(r) \/ Start(r) \/ Suspend(r) \/ Resume(r) \/ Complete(r) \/ Abandon(r)

Spec == Init /\ [][Next]_vars
=============================================================================
