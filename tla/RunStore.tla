------------------------------ MODULE RunStore ------------------------------
(***************************************************************************)
(* The durable run table, Back-end/app/persistence/postgres_run_store.py.  *)
(* Each action is one committed transaction: every method locks the row it *)
(* changes (SELECT ... FOR UPDATE), so its reads and writes are atomic.  A *)
(* call that raises, or that returns without writing, is a stuttering      *)
(* step: the exception it raises is the business of the caller (RunWorker).*)
(*                                                                         *)
(* The actions are open: any worker may call any worker method for any run *)
(* at any time, as a worker that has stalled through its lease does.  What *)
(* holds here therefore rests on the fencing in the store alone.           *)
(***************************************************************************)
EXTENDS Naturals, Sequences, FiniteSets

CONSTANTS
  Run,        \* (chat, client_request_id) pairs, the idempotency key of a run
  Worker,     \* claimant ids, one per worker slot
  NoWorker,   \* the empty worker_id
  ChatOf,     \* chat_session_id of a run
  UserOf,     \* user_id of a run
  Kind,       \* run_kind: "message" or "auto_name"
  MaxActive,  \* MAX_ACTIVE_RUNS_PER_USER_DEFAULT, a setting: any integer
  MaxEvents   \* model bound: appends that a caller may choose to make stop here

ASSUME NoWorkerAssumption == NoWorker \notin Worker
ASSUME KindAssumption == Kind \in [Run -> {"message", "auto_name"}]
ASSUME BoundsAssumption == MaxActive \in Nat /\ MaxEvents \in Nat
ASSUME FiniteRunsAssumption == IsFiniteSet(Run)

VARIABLES
  status,     \* ChatRun.status, "absent" before the row exists
  owner,      \* ChatRun.worker_id
  lease,      \* ChatRun.lease_expires_at: null, in the future, or past
  cancelFlag, \* ChatRun.cancel_requested
  snapshot,   \* is ChatRun.pause_state_json set?
  events,     \* the ChatRunEvent rows by seq; latest_event_seq is the length
  exchanges   \* how many (user, assistant) message pairs the run has inserted

rowVars == <<status, owner, lease, cancelFlag, snapshot>>
storeVars == <<status, owner, lease, cancelFlag, snapshot, events, exchanges>>

Executing == {"running", "cancel_requested", "pause_requested"}
Active == Executing \cup {"queued", "paused"}
Terminal == {"completed", "failed", "cancelled"}
TerminalEvent == {"done", "error", "cancelled"}
EventKind == TerminalEvent \cup
  {"work", "pause_requested", "paused", "intervention", "resumed"}

TypeOK ==
  /\ status \in [Run -> Active \cup Terminal \cup {"absent"}]
  /\ owner \in [Run -> Worker \cup {NoWorker}]
  /\ lease \in [Run -> {"null", "live", "expired"}]
  /\ cancelFlag \in [Run -> BOOLEAN]
  /\ snapshot \in [Run -> BOOLEAN]
  /\ events \in [Run -> Seq(EventKind)]
  /\ exchanges \in [Run -> Nat]

Init ==
  /\ status = [r \in Run |-> "absent"]
  /\ owner = [r \in Run |-> NoWorker]
  /\ lease = [r \in Run |-> "null"]
  /\ cancelFlag = [r \in Run |-> FALSE]
  /\ snapshot = [r \in Run |-> FALSE]
  /\ events = [r \in Run |-> <<>>]
  /\ exchanges = [r \in Run |-> 0]

-----------------------------------------------------------------------------
(* Helpers.                                                                *)

Exists(r) == status[r] # "absent"
HasRoom(r) == Len(events[r]) < MaxEvents
Record(r, kinds) == events' = [events EXCEPT ![r] = @ \o kinds]
SetStatus(r, s) == status' = [status EXCEPT ![r] = s]
ReleaseLease(r) == lease' = [lease EXCEPT ![r] = "null"]
ClearOwner(r) == owner' = [owner EXCEPT ![r] = NoWorker]

(* Faulty: any worker may write to a run that somebody leases.             *)
OwnsAnybody(r, w) == status[r] \in Active /\ lease[r] = "live"

(* _load_run_for_update: the row as a worker's write finds it.  A worker   *)
(* that fails this test gets RunOwnershipLostError and writes nothing.     *)
Owns(r, w) == owner[r] = w /\ status[r] \in Active /\ lease[r] = "live"

(* The control plane passes no worker id and only needs the row to exist.  *)
MayWrite(r, w) == IF w = NoWorker THEN Exists(r) ELSE Owns(r, w)

(* Faulty: a paused run does not count as active.                          *)
UnpausedMessageRuns(S) ==
  {r \in S : Kind[r] = "message" /\ status[r] \in Active \ {"paused"}}

ActiveMessageRuns(S) == {r \in S : Kind[r] = "message" /\ status[r] \in Active}
RunsOfChat(c) == {r \in Run : ChatOf[r] = c}
RunsOfUser(u) == {r \in Run : UserOf[r] = u}
ActiveCap == IF MaxActive = 0 THEN 1 ELSE MaxActive

-----------------------------------------------------------------------------
(* Faulty: no look at the other runs of the chat.                          *)
CreateRunInBusyChat(r) ==
  /\ ~Exists(r)
  /\ Kind[r] = "message" =>
       Cardinality(ActiveMessageRuns(RunsOfUser(UserOf[r]))) < ActiveCap
  /\ SetStatus(r, "queued")
  /\ UNCHANGED <<owner, lease, cancelFlag, snapshot, events, exchanges>>

(* Creation.  The user and chat rows are locked before the checks, so two  *)
(* creations for one user run one after the other.  A repeated client      *)
(* request id returns the existing row: no step.                           *)
CreateRun(r) ==
  /\ ~Exists(r)
  /\ Kind[r] = "message" =>
       /\ ActiveMessageRuns(RunsOfChat(ChatOf[r])) = {}
       /\ Cardinality(ActiveMessageRuns(RunsOfUser(UserOf[r]))) < ActiveCap
  /\ SetStatus(r, "queued")
  /\ UNCHANGED <<owner, lease, cancelFlag, snapshot, events, exchanges>>

(* Faulty: an expired lease matters only to a run that is plainly running. *)
ClaimableIfRunning(r) ==
  status[r] = "queued" \/ (status[r] = "running" /\ lease[r] = "expired")

(* claim_next_run takes the oldest claimable row that no other transaction *)
(* has locked (SKIP LOCKED), which may be any claimable row.               *)
Claimable(r) ==
  \/ status[r] = "queued"
  \/ status[r] \in Executing /\ lease[r] = "expired"

ClaimRun(r, w) ==
  /\ Claimable(r)
  /\ owner' = [owner EXCEPT ![r] = w]
  /\ lease' = [lease EXCEPT ![r] = "live"]
  /\ SetStatus(r, IF status[r] = "queued" THEN "running" ELSE status[r])
  /\ UNCHANGED <<cancelFlag, snapshot, events, exchanges>>

(* heartbeat: the owner of an active row renews its lease, even one that   *)
(* has already expired, as long as nobody else has claimed the row.        *)
HeartbeatHits(r, w) == owner[r] = w /\ status[r] \in Active

Heartbeat(r, w) ==
  /\ HeartbeatHits(r, w)
  /\ lease' = [lease EXCEPT ![r] = "live"]
  /\ UNCHANGED <<status, owner, cancelFlag, snapshot, events, exchanges>>

(* The clock passes lease_expires_at.                                      *)
ExpireLease(r) ==
  /\ lease[r] = "live"
  /\ lease' = [lease EXCEPT ![r] = "expired"]
  /\ UNCHANGED <<status, owner, cancelFlag, snapshot, events, exchanges>>

(* append_event_for_worker and the *_checkpoint_for_worker methods.        *)
AppendEvent(r, w) ==
  /\ Owns(r, w)
  /\ HasRoom(r)
  /\ Record(r, <<"work">>)
  /\ UNCHANGED <<rowVars, exchanges>>

-----------------------------------------------------------------------------
(* Requests of the control plane.                                          *)

(* Faulty: the guard of the older request_cancel, which only spares        *)
(* finished runs.                                                          *)
RequestCancelUnguarded(r) ==
  /\ status[r] \in Active
  /\ cancelFlag' = [cancelFlag EXCEPT ![r] = TRUE]
  /\ SetStatus(r, "cancel_requested")
  /\ UNCHANGED <<owner, lease, snapshot, events, exchanges>>

(* request_running_cancel: raises RunStateConflictError for a queued or    *)
(* paused row.                                                             *)
RequestRunningCancel(r) ==
  /\ status[r] \in Executing
  /\ cancelFlag' = [cancelFlag EXCEPT ![r] = TRUE]
  /\ SetStatus(r, "cancel_requested")
  /\ UNCHANGED <<owner, lease, snapshot, events, exchanges>>

(* Faulty: a pause of whatever exists.                                     *)
RequestPauseAnyTime(r) ==
  /\ Exists(r)
  /\ HasRoom(r)
  /\ SetStatus(r, "pause_requested")
  /\ Record(r, <<"pause_requested">>)
  /\ UNCHANGED <<owner, lease, cancelFlag, snapshot, exchanges>>

(* request_pause: only a running run can be asked to pause.                *)
RequestPause(r) ==
  /\ status[r] = "running"
  /\ HasRoom(r)
  /\ SetStatus(r, "pause_requested")
  /\ Record(r, <<"pause_requested">>)
  /\ UNCHANGED <<owner, lease, cancelFlag, snapshot, exchanges>>

(* Faulty: the row is cancelled and its stream is not told.                *)
CancelQueuedRunSilently(r) ==
  /\ status[r] = "queued"
  /\ SetStatus(r, "cancelled")
  /\ snapshot' = [snapshot EXCEPT ![r] = FALSE]
  /\ cancelFlag' = [cancelFlag EXCEPT ![r] = TRUE]
  /\ ReleaseLease(r)
  /\ ClearOwner(r)
  /\ UNCHANGED <<events, exchanges>>

(* cancel_queued_run: cancels at once what no worker has claimed yet.      *)
CancelQueuedRun(r) ==
  /\ status[r] = "queued"
  /\ SetStatus(r, "cancelled")
  /\ snapshot' = [snapshot EXCEPT ![r] = FALSE]
  /\ cancelFlag' = [cancelFlag EXCEPT ![r] = TRUE]
  /\ ReleaseLease(r)
  /\ ClearOwner(r)
  /\ Record(r, <<"cancelled">>)
  /\ UNCHANGED exchanges

(* Faulty: the run goes back to the worker that paused it.                 *)
ResumePausedRunDirectly(r, withInput) ==
  /\ status[r] = "paused"
  /\ HasRoom(r)
  /\ SetStatus(r, "running")
  /\ Record(r, IF withInput THEN <<"intervention", "resumed">> ELSE <<"resumed">>)
  /\ UNCHANGED <<owner, lease, cancelFlag, snapshot, exchanges>>

(* resume_paused_run, with or without the user's intervention.             *)
ResumePausedRun(r, withInput) ==
  /\ status[r] = "paused"
  /\ HasRoom(r)
  /\ SetStatus(r, "queued")
  /\ ClearOwner(r)
  /\ ReleaseLease(r)
  /\ Record(r, IF withInput THEN <<"intervention", "resumed">> ELSE <<"resumed">>)
  /\ UNCHANGED <<cancelFlag, snapshot, exchanges>>

(* Faulty: any queued run can be reset, a resumed one as well.             *)
RequeueRunResumed(r) ==
  /\ status[r] = "queued"
  /\ ClearOwner(r)
  /\ ReleaseLease(r)
  /\ cancelFlag' = [cancelFlag EXCEPT ![r] = FALSE]
  /\ UNCHANGED <<status, snapshot, events, exchanges>>

(* requeue_run: an operator resets a queued run that has done nothing yet. *)
RequeueRun(r) ==
  /\ status[r] = "queued"
  /\ events[r] = <<>>
  /\ ClearOwner(r)
  /\ ReleaseLease(r)
  /\ cancelFlag' = [cancelFlag EXCEPT ![r] = FALSE]
  /\ UNCHANGED <<status, snapshot, events, exchanges>>

-----------------------------------------------------------------------------
(* The ways a run stops.                                                   *)

(* Faulty: the deliberation is not saved.                                  *)
MarkPausedUnsaved(r, w) ==
  /\ Owns(r, w)
  /\ SetStatus(r, "paused")
  /\ ReleaseLease(r)
  /\ ClearOwner(r)
  /\ Record(r, <<"paused">>)
  /\ UNCHANGED <<cancelFlag, snapshot, exchanges>>

(* mark_paused: whatever the active status was, it becomes "paused".       *)
MarkPaused(r, w) ==
  /\ Owns(r, w)
  /\ SetStatus(r, "paused")
  /\ snapshot' = [snapshot EXCEPT ![r] = TRUE]
  /\ ReleaseLease(r)
  /\ ClearOwner(r)
  /\ Record(r, <<"paused">>)
  /\ UNCHANGED <<cancelFlag, exchanges>>

(* Faulty: a verdict also overwrites a completed run.                      *)
AbortCompleted(r, w, outcome, kind) ==
  /\ MayWrite(r, w)
  /\ status[r] \in Terminal => HasRoom(r)
  /\ SetStatus(r, outcome)
  /\ snapshot' = [snapshot EXCEPT ![r] = FALSE]
  /\ owner' = [owner EXCEPT ![r] = IF w = NoWorker THEN @ ELSE w]
  /\ ReleaseLease(r)
  /\ Record(r, <<kind>>)
  /\ UNCHANGED exchanges

(* mark_failed and mark_cancelled refuse only a completed run: without a   *)
(* worker id they overwrite any other status, a terminal one included.     *)
Abort(r, w, outcome, kind) ==
  /\ MayWrite(r, w)
  /\ status[r] # "completed"
  /\ status[r] \in Terminal => HasRoom(r)
  /\ SetStatus(r, outcome)
  /\ snapshot' = [snapshot EXCEPT ![r] = FALSE]
  /\ owner' = [owner EXCEPT ![r] = IF w = NoWorker THEN @ ELSE w]
  /\ ReleaseLease(r)
  /\ Record(r, <<kind>>)
  /\ UNCHANGED exchanges

(* Faulty: status and event swapped.                                       *)
MarkFailedSwapped(r, w) ==
  Abort(r, w, "error", "failed") /\ UNCHANGED cancelFlag

MarkFailed(r, w) ==
  Abort(r, w, "failed", "error") /\ UNCHANGED cancelFlag

MarkCancelled(r, w) ==
  /\ Abort(r, w, "cancelled", "cancelled")
  /\ cancelFlag' = [cancelFlag EXCEPT ![r] = TRUE]

(* complete_run_with_messages and complete_run_without_messages.  A run    *)
(* whose final messages are already recorded is only marked completed.     *)
AlreadyDelivered(r) == Kind[r] = "message" /\ exchanges[r] > 0

(* Faulty: an auto_name run delivers messages too.                         *)
CompleteRunAnyKind(r, w) ==
  /\ Owns(r, w)
  /\ SetStatus(r, "completed")
  /\ ReleaseLease(r)
  /\ owner' = [owner EXCEPT ![r] = w]
  /\ snapshot' = [snapshot EXCEPT ![r] = FALSE]
  /\ Record(r, <<"done">>)
  /\ exchanges' = [exchanges EXCEPT ![r] = @ + 1]
  /\ UNCHANGED cancelFlag

CompleteRun(r, w) ==
  /\ Owns(r, w)
  /\ SetStatus(r, "completed")
  /\ ReleaseLease(r)
  /\ owner' = [owner EXCEPT ![r] = w]
  /\ snapshot' = [snapshot EXCEPT ![r] = AlreadyDelivered(r) /\ @]
  /\ Record(r, IF AlreadyDelivered(r) THEN <<>> ELSE <<"done">>)
  /\ exchanges' = [exchanges EXCEPT ![r] =
       IF Kind[r] = "message" /\ ~AlreadyDelivered(r) THEN @ + 1 ELSE @]
  /\ UNCHANGED cancelFlag

-----------------------------------------------------------------------------
WorkerCall(r, w) ==
  \/ ClaimRun(r, w)
  \/ Heartbeat(r, w)
  \/ AppendEvent(r, w)
  \/ MarkPaused(r, w)
  \/ MarkFailed(r, w)
  \/ MarkCancelled(r, w)
  \/ CompleteRun(r, w)

ControlCall(r) ==
  \/ CreateRun(r)
  \/ RequestRunningCancel(r)
  \/ RequestPause(r)
  \/ CancelQueuedRun(r)
  \/ \E withInput \in BOOLEAN : ResumePausedRun(r, withInput)
  \/ RequeueRun(r)
  \/ MarkFailed(r, NoWorker)
  \/ MarkCancelled(r, NoWorker)

Next ==
  \E r \in Run :
    \/ ControlCall(r)
    \/ ExpireLease(r)
    \/ \E w \in Worker : WorkerCall(r, w)

Spec == Init /\ [][Next]_storeVars

-----------------------------------------------------------------------------
(* Properties.                                                             *)

(* No run is stranded: a run that is neither finished nor waiting for the  *)
(* user can be claimed, now or once its lease runs out.  The claim query   *)
(* finds queued rows and leased executing rows only, so an executing row   *)
(* with a null lease would block its chat for ever.                        *)
LeaseFollowsStatus ==
  \A r \in Run :
    /\ status[r] \in Executing <=> lease[r] # "null"
    /\ status[r] \in Executing => owner[r] \in Worker
    /\ status[r] \in {"queued", "paused"} => owner[r] = NoWorker

(* The chat receives a run's exchange exactly when the run is completed,   *)
(* once, whatever workers, operators and cancellations interleave: never   *)
(* for a failed or cancelled run, never twice.                             *)
ExchangeIffCompleted ==
  \A r \in Run :
    exchanges[r] = IF status[r] = "completed" /\ Kind[r] = "message" THEN 1 ELSE 0

(* Nothing but another verdict of the control plane follows a terminal     *)
(* event in a run's log, and nothing at all follows "done": a client that  *)
(* stops reading at the first terminal event misses no work.               *)
LogEndsAtTerminalEvent ==
  \A r \in Run : \A i \in 1..Len(events[r]) :
    /\ events[r][i] = "done" => i = Len(events[r])
    /\ events[r][i] \in TerminalEvent =>
         \A j \in i..Len(events[r]) : events[r][j] \in TerminalEvent

(* The verdict in the row and the last event of the log agree.             *)
StatusMatchesLog ==
  \A r \in Run :
    LET last == events[r][Len(events[r])] IN
    /\ status[r] \in Terminal => events[r] # <<>>
    /\ status[r] = "completed" => last = "done"
    /\ status[r] = "failed" => last = "error"
    /\ status[r] = "cancelled" => last = "cancelled"
    /\ status[r] \in Active =>
         \A i \in 1..Len(events[r]) : events[r][i] \notin TerminalEvent

(* A chat has at most one active message run, through every race between   *)
(* creating, resuming, reclaiming and finishing.                           *)
OneActiveRunPerChat ==
  \A q, r \in Run :
    (/\ ChatOf[q] = ChatOf[r]
     /\ Kind[q] = "message" /\ status[q] \in Active
     /\ Kind[r] = "message" /\ status[r] \in Active) => q = r

(* No user has more active message runs than the configured cap.           *)
ActiveCapHolds ==
  \A u \in {UserOf[r] : r \in Run} :
    Cardinality({r \in Run : /\ UserOf[r] = u
                             /\ Kind[r] = "message"
                             /\ status[r] \in Active}) <= ActiveCap

(* The pause snapshot is there whenever a run waits to be resumed, so that *)
(* the resumed run continues its deliberation and is not started afresh.   *)
PausedRunHasSnapshot ==
  \A r \in Run : status[r] = "paused" => snapshot[r]

(* An accepted cancellation is never forgotten: not by a pause, a resume,  *)
(* a reclaim or an operator's requeue of the same run.                     *)
CancelIsNotForgotten ==
  [][\A r \in Run : cancelFlag[r] => cancelFlag'[r]]_storeVars

(* Abstraction: the phase of a run as its chat sees it.                    *)
PhaseOf(s) ==
  CASE s = "absent" -> "absent"
    [] s = "queued" -> "waiting"
    [] s \in Executing -> "executing"
    [] s = "paused" -> "suspended"
    [] s = "completed" -> "completed"
    [] OTHER -> "abandoned"

phaseOf == [r \in Run |-> PhaseOf(status[r])]

Lifecycle == INSTANCE RunLifecycle WITH phase <- phaseOf, delivered <- exchanges

(* Every behaviour of the run table is a run lifecycle: a suspended run    *)
(* resumes by being queued again, an ended run never moves, and completion *)
(* is the only step that delivers.                                         *)
ImplementsLifecycle == Lifecycle!Spec
=============================================================================
