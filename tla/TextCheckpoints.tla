--------------------------- MODULE TextCheckpoints --------------------------
(***************************************************************************)
(* How one run's assistant text becomes durable while it is being          *)
(* written (_DeltaBuffer in Back-end/app/chat_run_worker.py).  Two threads *)
(* of the slot that holds the run share one buffer: the router's thread    *)
(* pushes deltas, the heartbeat thread ticks.  Whoever drains the buffer   *)
(* does so under its lock and appends the drained chunk to the log after   *)
(* releasing it; whoever appends to the log publishes the event after the  *)
(* commit.  Between drain, append and publication any other thread may     *)
(* act.  The run itself may pause before its answer, resume, lose its slot *)
(* to a crash, or be taken over by another slot.                           *)
(*                                                                         *)
(* A delta is known by its number: 1, 2, ... in the order of the pushes.   *)
(***************************************************************************)
EXTENDS Naturals, Sequences, FiniteSets, Functions

CONSTANTS
  Bounds,    \* model bounds: how many deltas, other events of the router
             \* and pause requests one behaviour may have
  MaxFaults  \* model bound: faults in one behaviour

ASSUME BoundsAssumption ==
  /\ Bounds \subseteq [deltas : Nat, events : Nat, pauses : Nat]
  /\ MaxFaults \in Nat

VARIABLES
  bound,    \* the member of Bounds this behaviour keeps to
  log,      \* chat_run_events: the sequence number of an event is its index
  status,   \* of the run's row
  owned,    \* does the row still name the slot whose threads run here?
  partial,  \* partial_assistant_text of the row
  rpc,      \* where the router's thread is
  verdict,  \* how the router's thread is about to end the run
  pushed,   \* deltas written so far
  first,    \* the deltas up to this one belong to earlier claims
  buffer,   \* _buffer
  window,   \* _window
  hand,     \* the chunk each thread has drained and not yet appended
  lost,     \* ownership_lost_event
  outbox,   \* the event each thread has committed and not yet published
  faults    \* faults so far

textVars == <<log, status, owned, partial, rpc, verdict, pushed, first, buffer,
              window, hand, lost, outbox, faults, bound>>
rowVars == <<log, status, owned, partial>>
bufferVars == <<pushed, first, buffer, window, bound>>
slotVars == <<rpc, verdict, bufferVars, hand, lost, outbox>>

Writer == {"router", "ticker"}
Thread == Writer \cup {"api", "other"}  \* "other": another worker slot
Executing == {"running", "pause_requested"}
Verdicts == {"completed", "failed"}
Settled == Verdicts \cup {"paused"}

Empty == [text |-> <<>>, window |-> 0]
Text == Seq(Nat)
Chunk == [text : Text, window : Nat]
Event(type) == [type |-> type, text |-> <<>>, window |-> 0]

EventType == {"event", "text_checkpoint", "magi_pause_requested", "paused", "magi_resumed",
              "completed", "failed"}

TextTypeOK ==
  /\ log \in Seq([type : EventType, text : Text, window : Nat])
  /\ status \in {"queued"} \cup Executing \cup Settled
  /\ owned \in BOOLEAN
  /\ partial \in Text
  /\ rpc \in {"off", "deliberating", "answering", "pushing", "flushing", "ending"}
  /\ verdict \in {"none"} \cup Settled
  /\ bound \in Bounds
  /\ pushed \in 0..bound.deltas /\ first \in 0..pushed
  /\ buffer \in Text /\ window \in Nat
  /\ hand \in [Writer -> Chunk]
  /\ lost \in BOOLEAN
  /\ outbox \in [Thread -> 0..Len(log)]
  /\ faults \in 0..MaxFaults

TextInit ==
  /\ bound \in Bounds
  /\ log = <<>> /\ status = "queued" /\ owned = FALSE /\ partial = <<>>
  /\ rpc = "off" /\ verdict = "none"
  /\ pushed = 0 /\ first = 0 /\ buffer = <<>> /\ window = 0
  /\ hand = [t \in Writer |-> Empty]
  /\ lost = FALSE
  /\ outbox = [t \in Thread |-> 0]
  /\ faults = 0

-----------------------------------------------------------------------------
(* Helpers.                                                                *)

Count(type) == Cardinality({i \in DOMAIN log : log[i].type = type})
Logged(type) == \E i \in DOMAIN log : log[i].type = type

(* A thread takes its next step only when it has nothing left to append or *)
(* to publish.                                                             *)
Free(t) == outbox[t] = 0 /\ (t \in Writer => hand[t] = Empty)

(* One transaction appends one event; its thread publishes it afterwards.  *)
Commit(t, event) ==
  /\ log' = Append(log, event)
  /\ outbox' = [outbox EXCEPT ![t] = Len(log) + 1]

Fault == faults < MaxFaults /\ faults' = faults + 1

(* Faulty: the chunk stays in the buffer.                                  *)
DrainKeepsBuffer(t, text) ==
  /\ hand' = [hand EXCEPT ![t] = [text |-> text, window |-> window]]
  /\ buffer' = text
  /\ window' = window + 1

(* _drain_locked: the chunk leaves the buffer and closes its window.       *)
Drain(t, text) ==
  /\ hand' = [hand EXCEPT ![t] = [text |-> text, window |-> window]]
  /\ buffer' = <<>>
  /\ window' = window + 1

(* The handler returns, or its slot dies: the buffer and the ownership     *)
(* event go with it.  The heartbeat thread is told to stop; a chunk it     *)
(* still holds it will try to append.                                      *)
LeaveRun ==
  /\ rpc' = "off" /\ verdict' = "none"
  /\ first' = pushed /\ buffer' = <<>> /\ window' = 0
  /\ lost' = FALSE
  /\ UNCHANGED <<pushed, bound>>

-----------------------------------------------------------------------------
(* Claims.                                                                 *)

(* Work an earlier claim left behind that no snapshot can continue.        *)
Stale == status \in {"queued", "running"} /\ log # <<>> /\ ~Logged("paused")

(* The slot claims a new run, a resumed one, or one whose slot has died,   *)
(* and handles it with a new buffer: windows start again at zero, while    *)
(* partial_assistant_text is kept.                                         *)
Claim ==
  /\ ~owned /\ status \in {"queued"} \cup Executing /\ ~Stale
  /\ rpc = "off" /\ Free("ticker")
  /\ owned' = TRUE
  /\ status' = IF status = "queued" THEN "running" ELSE status
  /\ rpc' = "deliberating"
  /\ UNCHANGED <<log, partial, verdict, bufferVars, hand, lost, outbox, faults>>

(* Another slot claims a run whose slot stalled through its lease ...      *)
TakeOver ==
  /\ Fault
  /\ owned /\ Stale
  /\ owned' = FALSE
  /\ UNCHANGED <<log, status, partial, rpc, verdict, bufferVars, hand, lost, outbox>>

(* ... or has died, and fails it: the run lease expired before completion. *)
FailStale ==
  /\ ~owned /\ Stale /\ status = "running"
  /\ Commit("other", Event("failed"))
  /\ status' = "failed"
  /\ UNCHANGED <<owned, partial, rpc, verdict, bufferVars, hand, lost, faults>>

(* Both threads die with what they hold in memory.                         *)
Crash ==
  /\ Fault
  /\ rpc # "off"
  /\ owned' = FALSE
  /\ LeaveRun
  /\ hand' = [t \in Writer |-> Empty]
  /\ outbox' = [t \in Thread |-> IF t \in Writer THEN 0 ELSE outbox[t]]
  /\ UNCHANGED <<log, status, partial>>

-----------------------------------------------------------------------------
(* Appending and publishing, by either thread.                             *)

(* append_text_checkpoint_for_worker: the chunk is concatenated to the     *)
(* row's text, and the event carries the whole of it.                      *)
AppendCheckpoint(t) ==
  /\ hand[t] # Empty /\ owned
  /\ partial' = partial \o hand[t].text
  /\ Commit(t, [type |-> "text_checkpoint", text |-> partial', window |-> hand[t].window])
  /\ hand' = [hand EXCEPT ![t] = Empty]
  /\ UNCHANGED <<status, owned, rpc, verdict, bufferVars, lost, faults>>

(* The row names another slot or none: RunOwnershipLostError ends the      *)
(* thread, and with it the chunk is gone.                                  *)
AppendRaises(t) ==
  /\ hand[t] # Empty /\ ~owned
  /\ hand' = [hand EXCEPT ![t] = Empty]
  /\ \/ t = "router" /\ LeaveRun
     \/ t = "ticker" /\ lost' = (rpc # "off") /\ UNCHANGED <<rpc, verdict, bufferVars>>
  /\ UNCHANGED <<rowVars, outbox, faults>>

(* _publish, after the commit; whether the event arrives is up to Redis.   *)
Publish(t) ==
  /\ outbox[t] # 0
  /\ outbox' = [outbox EXCEPT ![t] = 0]
  /\ UNCHANGED <<rowVars, rpc, verdict, bufferVars, hand, lost>>

-----------------------------------------------------------------------------
(* The router's thread.                                                    *)

(* A state or an event of the turn.                                        *)
EmitEvent ==
  /\ rpc \in {"deliberating", "answering"} /\ Free("router")
  /\ Count("event") < bound.events /\ owned
  /\ Commit("router", Event("event"))
  /\ UNCHANGED <<status, owned, partial, rpc, verdict, bufferVars, hand, lost, faults>>

(* push, first half: the delta is published live, labelled with a window   *)
(* number that is read outside the lock; Redis may lose it.                *)
PushLive ==
  /\ rpc \in {"deliberating", "answering"} /\ Free("router")
  /\ pushed < bound.deltas /\ ~lost
  /\ rpc' = "pushing"
  /\ pushed' = pushed + 1
  /\ UNCHANGED <<rowVars, verdict, first, buffer, window, hand, lost, outbox, bound>>

(* push, second half, under the lock: the delta joins the buffer, which is *)
(* drained if it has grown enough or its interval has elapsed.             *)
PushBuffer ==
  /\ rpc = "pushing"
  /\ rpc' = "answering"
  /\ \/ Drain("router", Append(buffer, pushed))
     \/ buffer' = Append(buffer, pushed) /\ UNCHANGED <<window, hand>>
  /\ UNCHANGED <<rowVars, verdict, pushed, first, lost, outbox, faults, bound>>

(* The turn is over, or a MAGI checkpoint before the answer finds a pause  *)
(* request.                                                                *)
EndTurn ==
  /\ rpc \in {"deliberating", "answering"} /\ Free("router")
  /\ rpc' = "flushing"
  /\ \/ verdict' \in Verdicts
     \/ verdict' = "paused" /\ rpc = "deliberating" /\ status = "pause_requested"
  /\ UNCHANGED <<rowVars, bufferVars, hand, lost, outbox, faults>>

(* Faulty: the flush waits for the interval like a tick.                   *)
FlushIfDue ==
  /\ rpc = "flushing" /\ ~lost
  /\ rpc' = "ending"
  /\ \/ buffer # <<>> /\ Drain("router", buffer)
     \/ UNCHANGED <<buffer, window, hand>>
  /\ UNCHANGED <<rowVars, verdict, pushed, first, lost, outbox, faults, bound>>

(* flush before the terminal write: whatever the buffer holds is drained.  *)
Flush ==
  /\ rpc = "flushing" /\ ~lost
  /\ rpc' = "ending"
  /\ \/ buffer # <<>> /\ Drain("router", buffer)
     \/ buffer = <<>> /\ UNCHANGED <<buffer, window, hand>>
  /\ UNCHANGED <<rowVars, verdict, pushed, first, lost, outbox, faults, bound>>

(* complete_run_with_messages, mark_failed, mark_paused.                   *)
Terminalize ==
  /\ rpc = "ending" /\ Free("router") /\ owned
  /\ Commit("router", Event(verdict))
  /\ status' = verdict
  /\ owned' = FALSE
  /\ LeaveRun
  /\ UNCHANGED <<partial, hand, faults>>

(* push and flush find the event set that says that ownership is lost;     *)
(* an append or a terminal write finds the row owned by somebody else.     *)
RouterRaises ==
  /\ rpc # "off" /\ Free("router")
  /\ \/ lost /\ rpc # "pushing"
     \/ ~owned /\ rpc \in {"deliberating", "answering", "ending"}
  /\ LeaveRun
  /\ UNCHANGED <<rowVars, hand, outbox, faults>>

-----------------------------------------------------------------------------
(* The heartbeat thread.                                                   *)

(* tick: the interval has elapsed and the buffer is not empty.             *)
Tick ==
  /\ rpc # "off" /\ ~lost /\ Free("ticker")
  /\ buffer # <<>>
  /\ Drain("ticker", buffer)
  /\ UNCHANGED <<rowVars, rpc, verdict, pushed, first, lost, outbox, faults, bound>>

(* heartbeat() returns False: the thread sets the event and ends.          *)
NoticeLoss ==
  /\ rpc # "off" /\ ~lost /\ Free("ticker")
  /\ ~owned
  /\ lost' = TRUE
  /\ UNCHANGED <<rowVars, rpc, verdict, bufferVars, hand, outbox, faults>>

-----------------------------------------------------------------------------
(* The user, through the API.                                              *)

RequestPause ==
  /\ status = "running" /\ log # <<>>
  /\ Free("api") /\ Count("magi_pause_requested") < bound.pauses
  /\ Commit("api", Event("magi_pause_requested"))
  /\ status' = "pause_requested"
  /\ UNCHANGED <<owned, partial, rpc, verdict, bufferVars, hand, lost, faults>>

ResumeRun ==
  /\ status = "paused" /\ Free("api")
  /\ Commit("api", Event("magi_resumed"))
  /\ status' = "queued"
  /\ UNCHANGED <<owned, partial, rpc, verdict, bufferVars, hand, lost, faults>>

-----------------------------------------------------------------------------
(* Every step but the two publications, which the composition delivers.    *)
TextStep ==
  \/ Claim \/ TakeOver \/ FailStale \/ Crash
  \/ \E t \in Writer : AppendCheckpoint(t) \/ AppendRaises(t)
  \/ EmitEvent \/ PushBuffer \/ EndTurn \/ Flush \/ Terminalize \/ RouterRaises
  \/ Tick \/ NoticeLoss
  \/ RequestPause

-----------------------------------------------------------------------------
(* Properties.                                                             *)

(* While the slot owns the run, every delta of its claim is in exactly one *)
(* place: saved in the row, in a thread's hand, in the buffer, or on its   *)
(* way into it; nothing is saved twice, whoever drains when.               *)
InMemory == hand["router"].text \o hand["ticker"].text \o buffer
OnItsWay == IF rpc = "pushing" THEN {pushed} ELSE {}

TextIsConserved ==
  /\ IsInjective(partial \o InMemory)
  /\ OnItsWay \cap Range(InMemory) = {}
  /\ owned => (first + 1)..pushed \subseteq Range(partial \o InMemory) \cup OnItsWay

(* RUNS.md: buffered text is flushed before any terminal transition.  When *)
(* the slot writes its verdict, what it has not saved yet is a chunk the   *)
(* heartbeat thread holds at that moment, and nothing else.                *)
FlushedBeforeVerdict ==
  [][Terminalize => (first + 1)..pushed \subseteq Range(partial \o hand["ticker"].text)]_textVars

=============================================================================
