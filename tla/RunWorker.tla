------------------------------ MODULE RunWorker -----------------------------
(***************************************************************************)
(* The chat-run workers (Back-end/app/chat_run_worker.py) and the control  *)
(* plane (the run routes of Back-end/app/api.py) at work on the run table. *)
(* A worker slot claims a run, executes its turn while a second thread     *)
(* renews the lease, and ends it with one terminal write; the router's     *)
(* turn is abstracted to the events it appends and the checkpoints at      *)
(* which it looks at the cancel flag and at the pause request.             *)
(*                                                                         *)
(* Every transaction is an action of RunStore, so between any two steps of *)
(* a slot another slot, a client or an operator may change the row.        *)
(***************************************************************************)
EXTENDS RunStore

CONSTANTS
  Magi,       \* the message runs with magi "full" or "lite": they can pause
  FollowUp,   \* the auto_name run a run may schedule, or NoRun
  NoRun,
  MaxFaults   \* model bound: crashes and missed leases in one behaviour

ASSUME NoRunAssumption == NoRun \notin Run
ASSUME FollowUpAssumption == FollowUp \in [Run -> Run \cup {NoRun}]
ASSUME MagiAssumption == \A r \in Magi : r \in Run /\ Kind[r] = "message"
ASSUME FaultsAssumption == MaxFaults \in Nat

VARIABLES
  pc,         \* where each slot's loop is
  job,        \* the run a slot handles
  plan,       \* what the row it claimed told the slot to do
  outcome,    \* the terminal write a slot is heading for
  beating,    \* is the slot's heartbeat thread running?
  lost,       \* ownership_lost_event, set by the heartbeat thread
  superseded, \* has another slot claimed the slot's run since? (history)
  cancelCall, \* a cancel request that has read the row and not yet acted
  faults      \* crashes and missed leases so far

slotVars == <<pc, job, plan, outcome, beating, lost, superseded>>
workerVars == <<storeVars, slotVars, cancelCall, faults>>

Handling == {"claimed", "executing", "erroring", "flushing", "terminalizing",
             "finishing", "completing"}

WorkerTypeOK ==
  /\ TypeOK
  /\ pc \in [Worker -> Handling \cup {"idle", "dead"}]
  /\ job \in [Worker -> Run \cup {NoRun}]
  /\ plan \in [Worker -> {"none", "cancel", "stale", "fresh", "resume"}]
  /\ outcome \in [Worker -> {"none", "cancelled", "failed", "paused"}]
  /\ beating \in [Worker -> BOOLEAN]
  /\ lost \in [Worker -> BOOLEAN]
  /\ superseded \in [Worker -> BOOLEAN]
  /\ cancelCall \in [Run -> {"none", "queued", "paused", "executing"}]
  /\ faults \in 0..MaxFaults

WorkerInit ==
  /\ Init
  /\ pc = [w \in Worker |-> "idle"]
  /\ job = [w \in Worker |-> NoRun]
  /\ plan = [w \in Worker |-> "none"]
  /\ outcome = [w \in Worker |-> "none"]
  /\ beating = [w \in Worker |-> FALSE]
  /\ lost = [w \in Worker |-> FALSE]
  /\ superseded = [w \in Worker |-> FALSE]
  /\ cancelCall = [r \in Run |-> "none"]
  /\ faults = 0

-----------------------------------------------------------------------------
(* Helpers.                                                                *)

Transition(w, from, to) ==
  pc[w] \in from /\ pc' = [pc EXCEPT ![w] = to]

Holds(w, r) == pc[w] \in Handling /\ job[w] = r

(* The handler returns or its slot dies: its finally clause stops the      *)
(* heartbeat thread and the slot forgets the run.                          *)
Leave(w, from, to) ==
  /\ Transition(w, from, to)
  /\ job' = [job EXCEPT ![w] = NoRun]
  /\ plan' = [plan EXCEPT ![w] = "none"]
  /\ outcome' = [outcome EXCEPT ![w] = "none"]
  /\ beating' = [beating EXCEPT ![w] = FALSE]
  /\ lost' = [lost EXCEPT ![w] = FALSE]
  /\ superseded' = [superseded EXCEPT ![w] = FALSE]
  /\ UNCHANGED <<cancelCall, faults>>

(* A worker-owned event that the model's bound on the log may swallow.     *)
Emit(w) ==
  IF HasRoom(job[w]) THEN AppendEvent(job[w], w)
                     ELSE Owns(job[w], w) /\ UNCHANGED storeVars

-----------------------------------------------------------------------------
(* _worker_loop and the head of _handle_claimed_run.                       *)

(* Faulty: a resumed run, which has a log, is taken for stale work.        *)
PlanForStaleFirst(r) ==
  IF status[r] = "cancel_requested" THEN "cancel"
  ELSE IF status[r] \in {"queued", "running"} /\ events[r] # <<>> THEN "stale"
  ELSE IF snapshot[r] /\ r \in Magi THEN "resume"
  ELSE "fresh"

(* What the claimed row tells the handler to do: cancel at once, give up   *)
(* work that an earlier claimant left half done, resume a paused           *)
(* deliberation, or run the turn from its start.                           *)
PlanFor(r) ==
  IF status[r] = "cancel_requested" THEN "cancel"
  ELSE IF snapshot[r] /\ r \in Magi THEN "resume"
  ELSE IF status[r] \in {"queued", "running"} /\ events[r] # <<>> THEN "stale"
  ELSE "fresh"

Claim(w, r) ==
  /\ Transition(w, {"idle"}, "claimed")
  /\ ClaimRun(r, w)
  /\ job' = [job EXCEPT ![w] = r]
  /\ plan' = [plan EXCEPT ![w] = PlanFor(r)]
  /\ superseded' = [t \in Worker |->
       IF t = w THEN FALSE ELSE superseded[t] \/ Holds(t, r)]
  /\ UNCHANGED <<outcome, beating, lost, cancelCall, faults>>

BeginTurn(w) ==
  /\ plan[w] \in {"fresh", "resume"}
  /\ Transition(w, {"claimed"}, "executing")
  /\ beating' = [beating EXCEPT ![w] = TRUE]
  /\ UNCHANGED <<storeVars, job, plan, outcome, lost, superseded, cancelCall, faults>>

RefuseTurn(w) ==
  /\ plan[w] \in {"cancel", "stale"}
  /\ Transition(w, {"claimed"}, "terminalizing")
  /\ outcome' = [outcome EXCEPT ![w] = IF plan[w] = "cancel" THEN "cancelled" ELSE "failed"]
  /\ UNCHANGED <<storeVars, job, plan, beating, lost, superseded, cancelCall, faults>>

-----------------------------------------------------------------------------
(* The turn.                                                               *)

(* The router's listeners append states and events; the heartbeat thread's *)
(* tick appends text checkpoints until the handler has left.               *)
Work(w) ==
  /\ pc[w] = "executing" \/ beating[w]
  /\ AppendEvent(job[w], w)
  /\ UNCHANGED <<slotVars, cancelCall, faults>>

LeaveTurn(w, ending) ==
  /\ Transition(w, {"executing"}, "flushing")
  /\ outcome' = [outcome EXCEPT ![w] = ending]
  /\ UNCHANGED <<storeVars, job, plan, beating, lost, superseded, cancelCall, faults>>

(* A checkpoint finds the cancel flag set: RunCancelledError.              *)
ObserveCancel(w) == LeaveTurn(w, "cancelled") /\ cancelFlag[job[w]]

(* A MAGI checkpoint finds no cancel flag and a pause request:             *)
(* RunPausedError carries the deliberation out of the router.              *)
ObservePause(w) ==
  /\ LeaveTurn(w, "paused")
  /\ job[w] \in Magi
  /\ status[job[w]] = "pause_requested" /\ ~cancelFlag[job[w]]

(* A model call, a tool or an append raises inside a router state.         *)
RouterFails(w) ==
  /\ Transition(w, {"executing"}, "erroring")
  /\ UNCHANGED <<storeVars, job, plan, outcome, beating, lost, superseded, cancelCall, faults>>

(* The router announces its ERROR state before it raises, and the worker   *)
(* fails the run; without ownership the announcement raises instead, and   *)
(* the handler leaves the run alone.                                       *)
ReportError(w) ==
  /\ Transition(w, {"erroring"}, "flushing")
  /\ Emit(w)
  /\ outcome' = [outcome EXCEPT ![w] = "failed"]
  /\ UNCHANGED <<job, plan, beating, lost, superseded, cancelCall, faults>>

(* Faulty: the handler tries the turn again.                               *)
ErrorUnownedRetries(w) ==
  /\ Transition(w, {"erroring"}, "executing")
  /\ ~Owns(job[w], w)
  /\ UNCHANGED <<storeVars, job, plan, outcome, beating, lost, superseded, cancelCall, faults>>

ErrorUnowned(w) ==
  /\ Leave(w, {"erroring"}, "idle")
  /\ ~Owns(job[w], w)
  /\ UNCHANGED storeVars

(* The router is done and the last look at the cancel flag finds it unset. *)
FinishTurn(w) ==
  /\ Transition(w, {"executing"}, "finishing")
  /\ ~cancelFlag[job[w]]
  /\ UNCHANGED <<storeVars, job, plan, outcome, beating, lost, superseded, cancelCall, faults>>

-----------------------------------------------------------------------------
(* Ending the run.                                                         *)

(* delta_buffer.flush() before every terminal write: it raises when the    *)
(* heartbeat thread has seen the lease go, or when it has text to append   *)
(* and the append finds the lease gone.                                    *)
Flush(w) ==
  /\ \/ Transition(w, {"flushing"}, "terminalizing")
     \/ Transition(w, {"finishing"}, "completing")
  /\ ~lost[w]
  /\ Emit(w) \/ UNCHANGED storeVars
  /\ UNCHANGED <<job, plan, outcome, beating, lost, superseded, cancelCall, faults>>

FlushRaises(w) ==
  /\ Leave(w, {"flushing", "finishing"}, "idle")
  /\ lost[w] \/ ~Owns(job[w], w)
  /\ UNCHANGED storeVars

(* The auto_name follow-up is created before its parent is completed.      *)
QueueAutoName(w) ==
  /\ pc[w] = "completing"
  /\ FollowUp[job[w]] # NoRun
  /\ CreateRun(FollowUp[job[w]])
  /\ UNCHANGED <<slotVars, cancelCall, faults>>

Complete(w) ==
  /\ Leave(w, {"completing"}, "idle")
  /\ CompleteRun(job[w], w)

(* Inside the try block RunOwnershipLostError is caught.                   *)
CompleteRaises(w) ==
  /\ Leave(w, {"completing"}, "idle")
  /\ ~Owns(job[w], w)
  /\ UNCHANGED storeVars

Terminalize(w) ==
  /\ Leave(w, {"terminalizing"}, "idle")
  /\ \/ outcome[w] = "cancelled" /\ MarkCancelled(job[w], w)
     \/ outcome[w] = "failed" /\ MarkFailed(job[w], w)
     \/ outcome[w] = "paused" /\ MarkPaused(job[w], w)

(* Outside it nothing catches: _cancel_run, _fail_run and mark_paused are  *)
(* called from the except clauses, so the exception ends the slot's loop.  *)
TerminalizeRaises(w) ==
  /\ Leave(w, {"terminalizing"}, "dead")
  /\ ~Owns(job[w], w)
  /\ UNCHANGED storeVars

-----------------------------------------------------------------------------
(* The heartbeat thread.                                                   *)

Beat(w) ==
  /\ beating[w]
  /\ Heartbeat(job[w], w)
  /\ UNCHANGED <<slotVars, cancelCall, faults>>

(* heartbeat() returned False, or a tick had text and found no lease.      *)
NoticeLoss(w) ==
  /\ beating[w]
  /\ ~Owns(job[w], w)
  /\ beating' = [beating EXCEPT ![w] = FALSE]
  /\ lost' = [lost EXCEPT ![w] = TRUE]
  /\ UNCHANGED <<storeVars, pc, job, plan, outcome, superseded, cancelCall, faults>>

-----------------------------------------------------------------------------
(* Faults: a process dies; a slot stalls through its lease.  The lease of  *)
(* a run nobody handles simply runs out.                                   *)

Crash(w) ==
  /\ faults < MaxFaults
  /\ pc[w] # "dead"
  /\ pc' = [pc EXCEPT ![w] = "dead"]
  /\ job' = [job EXCEPT ![w] = NoRun]
  /\ plan' = [plan EXCEPT ![w] = "none"]
  /\ outcome' = [outcome EXCEPT ![w] = "none"]
  /\ beating' = [beating EXCEPT ![w] = FALSE]
  /\ lost' = [lost EXCEPT ![w] = FALSE]
  /\ superseded' = [superseded EXCEPT ![w] = FALSE]
  /\ faults' = faults + 1
  /\ UNCHANGED <<storeVars, cancelCall>>

(* ChatRunWorkerService.run: when it meets the exception of a slot it sets *)
(* the stop event, and the other slots of the process leave their loops    *)
(* once they have handled the run they hold.                               *)
Stop(w) ==
  /\ Transition(w, {"idle"}, "dead")
  /\ \E t \in Worker : pc[t] = "dead"
  /\ UNCHANGED <<storeVars, job, plan, outcome, beating, lost, superseded, cancelCall, faults>>

(* A process is started again under the same CHAT_RUN_WORKER_ID.           *)
Restart(w) ==
  /\ Transition(w, {"dead"}, "idle")
  /\ UNCHANGED <<storeVars, job, plan, outcome, beating, lost, superseded, cancelCall, faults>>

Stall(w) ==
  /\ faults < MaxFaults
  /\ pc[w] \in Handling /\ owner[job[w]] = w
  /\ ExpireLease(job[w])
  /\ faults' = faults + 1
  /\ UNCHANGED <<slotVars, cancelCall>>

LeaseRunsOut(r) ==
  /\ ExpireLease(r)
  /\ ~Holds(owner[r], r)
  /\ UNCHANGED <<slotVars, cancelCall, faults>>

-----------------------------------------------------------------------------
(* The control plane.                                                      *)

Submit(r) ==
  /\ Kind[r] = "message"
  /\ CreateRun(r)
  /\ UNCHANGED <<slotVars, cancelCall, faults>>

(* Faulty: the request keeps the status it read as it is.                  *)
CancelReadsRaw(r) ==
  /\ cancelCall[r] = "none"
  /\ status[r] \in Active
  /\ cancelCall' = [cancelCall EXCEPT ![r] = status[r]]
  /\ UNCHANGED <<storeVars, slotVars, faults>>

(* _cancel_run_explicitly reads the row in one transaction ...             *)
CancelReads(r) ==
  /\ cancelCall[r] = "none"
  /\ status[r] \in Active
  /\ cancelCall' = [cancelCall EXCEPT ![r] =
       IF status[r] \in Executing THEN "executing" ELSE status[r]]
  /\ UNCHANGED <<storeVars, slotVars, faults>>

(* ... and acts on what it read in another.                                *)
CancelActs(r) ==
  /\ \/ cancelCall[r] = "queued" /\ CancelQueuedRun(r)
     \/ cancelCall[r] = "paused" /\ MarkCancelled(r, NoWorker)
     \/ cancelCall[r] = "executing" /\ RequestRunningCancel(r)
  /\ cancelCall' = [cancelCall EXCEPT ![r] = "none"]
  /\ UNCHANGED <<slotVars, faults>>

(* The row is terminal by now, or RunStateConflictError starts the request *)
(* over (at most three times: then the caller must ask again).  A paused   *)
(* row is cancelled without a guard, so only a completed one is missed.    *)
CancelMisses(r) ==
  /\ \/ cancelCall[r] = "queued" /\ status[r] # "queued"
     \/ cancelCall[r] = "paused" /\ status[r] = "completed"
     \/ cancelCall[r] = "executing" /\ status[r] \notin Executing
  /\ cancelCall' = [cancelCall EXCEPT ![r] = "none"]
  /\ UNCHANGED <<storeVars, slotVars, faults>>

(* _pause_run_explicitly: the latest magi_state event says that the run is *)
(* deliberating, so there are events.                                      *)
Pause(r) ==
  /\ r \in Magi
  /\ events[r] # <<>>
  /\ RequestPause(r)
  /\ UNCHANGED <<slotVars, cancelCall, faults>>

Resume(r) ==
  /\ \E withInput \in BOOLEAN : ResumePausedRun(r, withInput)
  /\ UNCHANGED <<slotVars, cancelCall, faults>>

OperatorFails(r) ==
  /\ MarkFailed(r, NoWorker)
  /\ UNCHANGED <<slotVars, cancelCall, faults>>

OperatorRequeues(r) ==
  /\ RequeueRun(r)
  /\ UNCHANGED <<slotVars, cancelCall, faults>>

-----------------------------------------------------------------------------
(* Steps a live slot takes by itself, without ever waiting.                *)
SlotStep(w) ==
  \/ BeginTurn(w) \/ RefuseTurn(w)
  \/ ObserveCancel(w) \/ ObservePause(w) \/ RouterFails(w) \/ FinishTurn(w)
  \/ ReportError(w) \/ ErrorUnowned(w)
  \/ Flush(w) \/ FlushRaises(w)
  \/ Complete(w) \/ CompleteRaises(w)
  \/ Terminalize(w) \/ TerminalizeRaises(w)

WorkerStep(w) ==
  \/ \E r \in Run : Claim(w, r)
  \/ SlotStep(w) \/ Work(w) \/ QueueAutoName(w)
  \/ Beat(w) \/ NoticeLoss(w)
  \/ Crash(w) \/ Stop(w) \/ Restart(w) \/ Stall(w)

ControlStep(r) ==
  \/ Submit(r)
  \/ CancelReads(r) \/ CancelActs(r) \/ CancelMisses(r)
  \/ Pause(r) \/ Resume(r)
  \/ OperatorFails(r) \/ OperatorRequeues(r)
  \/ LeaseRunsOut(r)

WorkerNext ==
  \/ \E w \in Worker : WorkerStep(w)
  \/ \E r \in Run : ControlStep(r)

WorkerSpec == WorkerInit /\ [][WorkerNext]_workerVars

(* A live slot polls the table and drives its handler; leases of runs that *)
(* nobody handles run out.  Nothing is asked of users, operators, faults   *)
(* or restarts.                                                            *)
FairWorkerSpec ==
  /\ WorkerSpec
  /\ \A w \in Worker : WF_workerVars(SlotStep(w))
  /\ \A w \in Worker : WF_workerVars(\E r \in Run : Claim(w, r))
  /\ \A r \in Run : WF_workerVars(LeaseRunsOut(r))

-----------------------------------------------------------------------------
(* Properties.                                                             *)

(* A slot whose run another slot has claimed writes nothing durable to it  *)
(* any more: no event, no verdict, no messages.                            *)
DurableWrite(w) == Work(w) \/ ReportError(w) \/ Terminalize(w) \/ Complete(w)

SupersededWritesNothing ==
  [][\A w \in Worker : superseded[w] => ~DurableWrite(w)]_workerVars

(* A deliberation that was paused is continued from its snapshot: no claim *)
(* of such a run restarts the turn or gives it up as stale, even when the  *)
(* slot that resumed it died.                                              *)
PausedWorkIsKept ==
  [][\A w \in Worker, r \in Run :
       (Claim(w, r) /\ \E i \in 1..Len(events[r]) : events[r][i] = "paused")
         => plan'[w] \in {"resume", "cancel"}]_workerVars

Settled(r) == status[r] \in Terminal \cup {"paused"}
AllSlotsDead == \A w \in Worker : pc[w] = "dead"

(* Every accepted run ends, or waits for its user, as long as one slot     *)
(* survives: whatever crashes, missed leases, cancellations and pauses     *)
(* happen on the way.                                                      *)
EveryRunSettles ==
  \A r \in Run : status[r] \in Active ~> Settled(r) \/ AllSlotsDead

(* A slot that has lost its run lets go of it, so it can serve others.     *)
SupersededSlotLetsGo ==
  \A w \in Worker : superseded[w] ~> ~superseded[w]
=============================================================================
