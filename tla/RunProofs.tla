----------------------------- MODULE RunProofs ------------------------------
(***************************************************************************)
(* Proofs about the run table, for any set of runs, any number of workers  *)
(* calling at any time, any cap and any bound on the log; and about the    *)
(* workers, for any number of slots, runs and faults.  Every step of the   *)
(* system is a transaction of the run table, so what is proved of the      *)
(* table holds of the system; and the table's ownership test keeps a slot  *)
(* that has lost its run from writing to it.                               *)
(***************************************************************************)
EXTENDS RunWorker, SequenceTheorems, FiniteSetTheorems, TLAPS

-----------------------------------------------------------------------------
(* The log.                                                                *)

(* Event rows are only ever added behind the others.                       *)
LEMMA RecordKeepsType ==
  ASSUME TypeOK, NEW r \in Run, NEW kinds \in Seq(EventKind), Record(r, kinds)
  PROVE  events' \in [Run -> Seq(EventKind)]
<1>1. events[r] \o kinds \in Seq(EventKind)
  BY DEF TypeOK
<1>2. QED
  BY <1>1 DEF TypeOK, Record

(* The sequences the transactions append are sequences of events.          *)
LEMMA EventSequences ==
  /\ <<>> \in Seq(EventKind)
  /\ \A k \in EventKind : <<k>> \in Seq(EventKind)
  /\ <<"intervention", "resumed">> \in Seq(EventKind)
BY DEF EventKind

-----------------------------------------------------------------------------
(* No transaction breaks the types of the columns.                         *)
LEMMA TypeIsKept == ASSUME TypeOK, [Next]_storeVars PROVE TypeOK'
<1> USE DEF Active, Executing, Terminal, SetStatus, ReleaseLease, ClearOwner, rowVars
<1>0. \A k \in {"done", "error", "cancelled", "work", "pause_requested",
                "paused", "intervention", "resumed"} : <<k>> \in Seq(EventKind)
  BY EventSequences DEF EventKind, TerminalEvent
<1>1. CASE UNCHANGED storeVars
  BY <1>1 DEF storeVars, TypeOK
<1>2. ASSUME NEW r \in Run, ControlCall(r) PROVE TypeOK'
  <2>1. CASE CreateRun(r)
    BY <2>1 DEF CreateRun, TypeOK
  <2>2. CASE RequestRunningCancel(r)
    BY <2>2 DEF RequestRunningCancel, TypeOK
  <2>3. CASE RequestPause(r)
    <3>1. events' \in [Run -> Seq(EventKind)]
      BY <2>3, <1>0, RecordKeepsType DEF RequestPause
    <3>2. QED
      BY <2>3, <3>1 DEF RequestPause, TypeOK
  <2>4. CASE CancelQueuedRun(r)
    <3>1. events' \in [Run -> Seq(EventKind)]
      BY <2>4, <1>0, RecordKeepsType DEF CancelQueuedRun
    <3>2. QED
      BY <2>4, <3>1 DEF CancelQueuedRun, TypeOK
  <2>5. ASSUME NEW withInput \in BOOLEAN, ResumePausedRun(r, withInput) PROVE TypeOK'
    <3>1. \/ Record(r, <<"intervention", "resumed">>)
          \/ Record(r, <<"resumed">>)
      BY <2>5 DEF ResumePausedRun
    <3>2. events' \in [Run -> Seq(EventKind)]
      BY <3>1, <1>0, EventSequences, RecordKeepsType
    <3>3. QED
      BY <2>5, <3>2 DEF ResumePausedRun, TypeOK
  <2>6. CASE RequeueRun(r)
    BY <2>6 DEF RequeueRun, TypeOK
  <2>7. CASE MarkFailed(r, NoWorker)
    <3>1. events' \in [Run -> Seq(EventKind)]
      BY <2>7, <1>0, RecordKeepsType DEF MarkFailed, Abort
    <3>2. QED
      BY <2>7, <3>1 DEF MarkFailed, Abort, TypeOK
  <2>8. CASE MarkCancelled(r, NoWorker)
    <3>1. events' \in [Run -> Seq(EventKind)]
      BY <2>8, <1>0, RecordKeepsType DEF MarkCancelled, Abort
    <3>2. QED
      BY <2>8, <3>1 DEF MarkCancelled, Abort, TypeOK
  <2>9. QED
    BY <1>2, <2>1, <2>2, <2>3, <2>4, <2>5, <2>6, <2>7, <2>8 DEF ControlCall
<1>3. ASSUME NEW r \in Run, ExpireLease(r) PROVE TypeOK'
  BY <1>3 DEF ExpireLease, TypeOK
<1>4. ASSUME NEW r \in Run, NEW w \in Worker, WorkerCall(r, w) PROVE TypeOK'
  <2>1. CASE ClaimRun(r, w)
    BY <2>1 DEF ClaimRun, TypeOK
  <2>2. CASE Heartbeat(r, w)
    BY <2>2 DEF Heartbeat, TypeOK
  <2>3. CASE AppendEvent(r, w)
    <3>1. events' \in [Run -> Seq(EventKind)]
      BY <2>3, <1>0, RecordKeepsType DEF AppendEvent
    <3>2. QED
      BY <2>3, <3>1 DEF AppendEvent, TypeOK
  <2>4. CASE MarkPaused(r, w)
    <3>1. events' \in [Run -> Seq(EventKind)]
      BY <2>4, <1>0, RecordKeepsType DEF MarkPaused
    <3>2. QED
      BY <2>4, <3>1 DEF MarkPaused, TypeOK
  <2>5. CASE MarkFailed(r, w)
    <3>1. events' \in [Run -> Seq(EventKind)]
      BY <2>5, <1>0, RecordKeepsType DEF MarkFailed, Abort
    <3>2. QED
      BY <2>5, <3>1 DEF MarkFailed, Abort, TypeOK
  <2>6. CASE MarkCancelled(r, w)
    <3>1. events' \in [Run -> Seq(EventKind)]
      BY <2>6, <1>0, RecordKeepsType DEF MarkCancelled, Abort
    <3>2. QED
      BY <2>6, <3>1 DEF MarkCancelled, Abort, TypeOK
  <2>7. CASE CompleteRun(r, w)
    <3>1. Record(r, <<>>) \/ Record(r, <<"done">>)
      BY <2>7 DEF CompleteRun
    <3>2. events' \in [Run -> Seq(EventKind)]
      BY <3>1, <1>0, EventSequences, RecordKeepsType
    <3>3. snapshot' \in [Run -> BOOLEAN]
      BY <2>7 DEF CompleteRun, TypeOK
    <3>4. exchanges' \in [Run -> Nat]
      BY <2>7 DEF CompleteRun, TypeOK
    <3>5. QED
      BY <2>7, <3>2, <3>3, <3>4 DEF CompleteRun, TypeOK
  <2>8. QED
    BY <1>4, <2>1, <2>2, <2>3, <2>4, <2>5, <2>6, <2>7 DEF WorkerCall
<1>5. QED
  BY <1>1, <1>2, <1>3, <1>4 DEF Next

(* The columns keep their types: no status, owner or event is ever written *)
(* that the rest of the code does not know.                                *)
THEOREM TypeCorrect == Spec => []TypeOK
<1>1. Init => TypeOK
  BY DEF Init, TypeOK
<1>2. TypeOK /\ [Next]_storeVars => TypeOK'
  BY TypeIsKept
<1>3. QED
  BY <1>1, <1>2, PTL DEF Spec

-----------------------------------------------------------------------------
(* The inductive invariant, row by row.  RowLog relates a row's status to  *)
(* its log; it says of one row what StatusMatchesLog and                   *)
(* LogEndsAtTerminalEvent say of all.                                      *)
RowLog(s, log) ==
  /\ s = "absent" => log = <<>>
  /\ s \in Terminal => log # <<>>
  /\ s = "completed" => log[Len(log)] = "done"
  /\ s = "failed" => log[Len(log)] = "error"
  /\ s = "cancelled" => log[Len(log)] = "cancelled"
  /\ s \in Active => \A i \in 1..Len(log) : log[i] \notin TerminalEvent
  /\ \A i \in 1..Len(log) : log[i] = "done" => i = Len(log)
  /\ \A i \in 1..Len(log) : log[i] \in TerminalEvent =>
       \A j \in i..Len(log) : log[j] \in TerminalEvent

(* A row's lease, owner, snapshot and deliveries.  That a queued run with  *)
(* an empty log is not being cancelled, and that an absent row is blank,   *)
(* is what the stated invariants need to survive a requeue and a creation. *)
RowColumns(r) ==
  /\ status[r] \in Executing <=> lease[r] # "null"
  /\ status[r] \in Executing => owner[r] \in Worker
  /\ status[r] \in {"absent", "queued", "paused"} => owner[r] = NoWorker
  /\ exchanges[r] = IF status[r] = "completed" /\ Kind[r] = "message" THEN 1 ELSE 0
  /\ status[r] = "paused" => snapshot[r]
  /\ status[r] = "absent" \/ (status[r] = "queued" /\ events[r] = <<>>) => ~cancelFlag[r]

RowInv(r) == RowColumns(r) /\ RowLog(status[r], events[r])

StoreInv ==
  /\ TypeOK
  /\ \A r \in Run : RowInv(r)
  /\ OneActiveRunPerChat

(* The parts of the invariant that the runs check follow from StoreInv.    *)
LEMMA StoreInvImplies ==
  StoreInv => /\ LeaseFollowsStatus
              /\ ExchangeIffCompleted
              /\ LogEndsAtTerminalEvent
              /\ StatusMatchesLog
              /\ OneActiveRunPerChat
              /\ PausedRunHasSnapshot
<1> SUFFICES ASSUME StoreInv
             PROVE  /\ LeaseFollowsStatus
                    /\ ExchangeIffCompleted
                    /\ LogEndsAtTerminalEvent
                    /\ StatusMatchesLog
                    /\ OneActiveRunPerChat
                    /\ PausedRunHasSnapshot
  OBVIOUS
<1>1. LeaseFollowsStatus
  BY DEF StoreInv, RowInv, RowColumns, LeaseFollowsStatus
<1>2. ExchangeIffCompleted
  BY DEF StoreInv, RowInv, RowColumns, ExchangeIffCompleted
<1>3. LogEndsAtTerminalEvent
  BY DEF StoreInv, RowInv, RowLog, LogEndsAtTerminalEvent
<1>4. StatusMatchesLog
  BY DEF StoreInv, RowInv, RowLog, StatusMatchesLog
<1>5. PausedRunHasSnapshot
  BY DEF StoreInv, RowInv, RowColumns, PausedRunHasSnapshot
<1>6. QED
  BY <1>1, <1>2, <1>3, <1>4, <1>5 DEF StoreInv

-----------------------------------------------------------------------------
(* What appending does to the relation between status and log.             *)

(* Appending one event leaves the events before it in place.               *)
LEMMA AppendOne ==
  ASSUME NEW S, NEW log \in Seq(S), NEW k \in S
  PROVE  /\ log \o <<k>> \in Seq(S)
         /\ Len(log \o <<k>>) = Len(log) + 1
         /\ (log \o <<k>>)[Len(log) + 1] = k
         /\ \A i \in 1..Len(log) : (log \o <<k>>)[i] = log[i]
         /\ log \o <<k>> # <<>>
OBVIOUS

(* A worker's or a controller's event while the run goes on.               *)
LEMMA WorkKeepsLog ==
  ASSUME NEW log \in Seq(EventKind), NEW k \in EventKind \ TerminalEvent,
         NEW s \in Active, NEW t \in Active, RowLog(s, log)
  PROVE  RowLog(t, log \o <<k>>)
<1>1. \A i \in 1..Len(log) + 1 : (log \o <<k>>)[i] \notin TerminalEvent
  BY AppendOne DEF RowLog
<1>2. t # "absent" /\ t \notin Terminal
  BY DEF Active, Executing, Terminal
<1>3. "done" \in TerminalEvent
  BY DEF TerminalEvent
<1>4. QED
  BY <1>1, <1>2, <1>3, AppendOne DEF RowLog, Terminal

(* A verdict, also one that overwrites a failure or a cancellation.        *)
LEMMA VerdictKeepsLog ==
  ASSUME NEW log \in Seq(EventKind), NEW s \in Active \cup {"failed", "cancelled"},
         RowLog(s, log), NEW t, NEW k,
         \/ t = "failed" /\ k = "error"
         \/ t = "cancelled" /\ k = "cancelled"
         \/ s \in Active /\ t = "completed" /\ k = "done"
  PROVE  RowLog(t, log \o <<k>>)
<1>1. k \in TerminalEvent /\ k \in EventKind
  BY DEF EventKind, TerminalEvent
<1>2. \A i \in 1..Len(log) : log[i] # "done"
  <2>1. CASE s \in Active
    BY <2>1 DEF RowLog, TerminalEvent
  <2>2. CASE s \in {"failed", "cancelled"}
    BY <2>2 DEF RowLog
  <2>3. QED
    BY <2>1, <2>2
<1>3. \A i \in 1..Len(log) + 1 :
        (log \o <<k>>)[i] = "done" => i = Len(log) + 1
  BY <1>1, <1>2, AppendOne
<1>4. \A i \in 1..Len(log) + 1 : (log \o <<k>>)[i] \in TerminalEvent =>
        \A j \in i..Len(log) + 1 : (log \o <<k>>)[j] \in TerminalEvent
  BY <1>1, AppendOne DEF RowLog
<1>5. t # "absent" /\ t \notin Active
  BY DEF Active, Executing
<1>6. QED
  BY <1>1, <1>3, <1>4, <1>5, AppendOne DEF RowLog

(* A change of status alone.                                               *)
LEMMA StatusKeepsLog ==
  ASSUME NEW log \in Seq(EventKind), NEW s \in Active \cup {"absent"},
         NEW t \in Active, RowLog(s, log)
  PROVE  RowLog(t, log)
BY DEF RowLog, Active, Executing, Terminal

-----------------------------------------------------------------------------
(* A transaction touches one row.                                          *)

SameRow(q) ==
  /\ status'[q] = status[q] /\ owner'[q] = owner[q] /\ lease'[q] = lease[q]
  /\ cancelFlag'[q] = cancelFlag[q] /\ snapshot'[q] = snapshot[q]
  /\ events'[q] = events[q] /\ exchanges'[q] = exchanges[q]

(* A transaction on one run touches no other row.                          *)
LEMMA OtherRowsAreKept ==
  ASSUME TypeOK, NEW r \in Run, NEW q \in Run, q # r,
         \/ ControlCall(r)
         \/ ExpireLease(r)
         \/ \E w \in Worker : WorkerCall(r, w)
  PROVE  SameRow(q)
<1> USE DEF TypeOK, SameRow, SetStatus, ReleaseLease, ClearOwner, Record, rowVars
<1>1. CASE CreateRun(r)
  BY <1>1 DEF CreateRun
<1>2. CASE RequestRunningCancel(r)
  BY <1>2 DEF RequestRunningCancel
<1>3. CASE RequestPause(r)
  BY <1>3 DEF RequestPause
<1>4. CASE CancelQueuedRun(r)
  BY <1>4 DEF CancelQueuedRun
<1>5. ASSUME NEW withInput \in BOOLEAN, ResumePausedRun(r, withInput) PROVE SameRow(q)
  BY <1>5 DEF ResumePausedRun
<1>6. CASE RequeueRun(r)
  BY <1>6 DEF RequeueRun
<1>7. ASSUME NEW w, MarkFailed(r, w) PROVE SameRow(q)
  BY <1>7 DEF MarkFailed, Abort
<1>8. ASSUME NEW w, MarkCancelled(r, w) PROVE SameRow(q)
  BY <1>8 DEF MarkCancelled, Abort
<1>9. CASE ExpireLease(r)
  BY <1>9 DEF ExpireLease
<1>10. ASSUME NEW w \in Worker, WorkerCall(r, w) PROVE SameRow(q)
  <2>1. CASE ClaimRun(r, w)
    BY <2>1 DEF ClaimRun
  <2>2. CASE Heartbeat(r, w)
    BY <2>2 DEF Heartbeat
  <2>3. CASE AppendEvent(r, w)
    BY <2>3 DEF AppendEvent
  <2>4. CASE MarkPaused(r, w)
    BY <2>4 DEF MarkPaused
  <2>5. CASE CompleteRun(r, w)
    BY <2>5 DEF CompleteRun
  <2>6. QED
    BY <1>7, <1>8, <1>10, <2>1, <2>2, <2>3, <2>4, <2>5 DEF WorkerCall
<1>11. QED
  BY <1>1, <1>2, <1>3, <1>4, <1>5, <1>6, <1>7, <1>8, <1>9, <1>10 DEF ControlCall

(* The invariant of a row depends on nothing but the row.                  *)
LEMMA SameRowIsKept ==
  ASSUME NEW q \in Run, SameRow(q), RowInv(q)
  PROVE  RowInv(q)'
BY DEF SameRow, RowInv, RowColumns, RowLog

-----------------------------------------------------------------------------
(* Each transaction keeps the invariant of its row.                        *)

(* The requests of clients and operators keep it, with or without a        *)
(* worker that executes the run at the same time.                          *)
LEMMA ControlKeepsRow ==
  ASSUME TypeOK, NEW r \in Run, RowInv(r), ControlCall(r)
  PROVE  RowInv(r)'
<1> USE NoWorkerAssumption DEF SetStatus, ReleaseLease, ClearOwner, Record, rowVars
<1>0. events[r] \in Seq(EventKind) /\ status[r] \in Active \cup Terminal \cup {"absent"}
  BY DEF TypeOK
<1>1. CASE CreateRun(r)
  <2>1. status[r] = "absent" /\ status'[r] = "queued" /\ events' = events
    BY <1>1 DEF CreateRun, Exists, TypeOK
  <2>2. RowLog("queued", events[r])
    BY <2>1, <1>0, StatusKeepsLog DEF RowInv, Active
  <2>3. RowColumns(r)'
    BY <1>1, <2>1 DEF CreateRun, RowInv, RowColumns, TypeOK, Executing
  <2>4. QED
    BY <2>1, <2>2, <2>3 DEF RowInv
<1>2. CASE RequestRunningCancel(r)
  <2>1. /\ status[r] \in Executing /\ status'[r] = "cancel_requested"
        /\ events' = events
    BY <1>2 DEF RequestRunningCancel, TypeOK
  <2>2. RowLog("cancel_requested", events[r])
    BY <2>1, <1>0, StatusKeepsLog DEF RowInv, Active, Executing
  <2>3. RowColumns(r)'
    BY <1>2, <2>1 DEF RequestRunningCancel, RowInv, RowColumns, TypeOK, Executing
  <2>4. QED
    BY <2>1, <2>2, <2>3 DEF RowInv
<1>3. CASE RequestPause(r)
  <2>1. /\ status[r] = "running" /\ status'[r] = "pause_requested"
        /\ events'[r] = events[r] \o <<"pause_requested">>
    BY <1>3 DEF RequestPause, TypeOK
  <2>2. RowLog("pause_requested", events'[r])
    BY <2>1, <1>0, WorkKeepsLog DEF RowInv, Active, Executing, EventKind, TerminalEvent
  <2>3. RowColumns(r)'
    BY <1>3, <2>1 DEF RequestPause, RowInv, RowColumns, TypeOK, Executing
  <2>4. QED
    BY <2>1, <2>2, <2>3 DEF RowInv
<1>4. CASE CancelQueuedRun(r)
  <2>1. /\ status[r] = "queued" /\ status'[r] = "cancelled"
        /\ events'[r] = events[r] \o <<"cancelled">>
    BY <1>4 DEF CancelQueuedRun, TypeOK
  <2>2. RowLog("cancelled", events'[r])
    BY <2>1, <1>0, VerdictKeepsLog DEF RowInv, Active
  <2>3. RowColumns(r)'
    BY <1>4, <2>1 DEF CancelQueuedRun, RowInv, RowColumns, TypeOK, Executing
  <2>4. QED
    BY <2>1, <2>2, <2>3 DEF RowInv
<1>5. ASSUME NEW withInput \in BOOLEAN, ResumePausedRun(r, withInput) PROVE RowInv(r)'
  <2>1. /\ status[r] = "paused" /\ status'[r] = "queued"
        /\ \/ events'[r] = events[r] \o <<"intervention", "resumed">>
           \/ events'[r] = events[r] \o <<"resumed">>
    BY <1>5 DEF ResumePausedRun, TypeOK
  <2>2. /\ RowLog("queued", events'[r])
        /\ events'[r] # <<>>
    <3>0. \A k \in {"intervention", "resumed"} : k \in EventKind \ TerminalEvent
      BY DEF EventKind, TerminalEvent
    <3>1. \A log \in Seq(EventKind), k \in {"intervention", "resumed"}, s \in Active :
            RowLog(s, log) => /\ RowLog("queued", log \o <<k>>)
                              /\ log \o <<k>> \in Seq(EventKind)
                              /\ log \o <<k>> # <<>>
      <4> SUFFICES ASSUME NEW log \in Seq(EventKind), NEW k \in {"intervention", "resumed"},
                          NEW s \in Active, RowLog(s, log)
                   PROVE  /\ RowLog("queued", log \o <<k>>)
                          /\ log \o <<k>> \in Seq(EventKind)
                          /\ log \o <<k>> # <<>>
        OBVIOUS
      <4>1. RowLog("queued", log \o <<k>>)
        BY <3>0, WorkKeepsLog DEF Active
      <4>2. QED
        BY <3>0, <4>1, AppendOne
    <3>2. events[r] \o <<"intervention", "resumed">>
            = (events[r] \o <<"intervention">>) \o <<"resumed">>
      <4>1. <<"intervention", "resumed">> = <<"intervention">> \o <<"resumed">>
        OBVIOUS
      <4>2. <<"intervention">> \in Seq(EventKind) /\ <<"resumed">> \in Seq(EventKind)
        BY <3>0
      <4>3. QED
        BY <1>0, <4>1, <4>2, ConcatAssociative
    <3>3. RowLog(status[r], events[r]) /\ status[r] \in Active /\ "queued" \in Active
      BY <2>1 DEF RowInv, Active
    <3>4. CASE events'[r] = events[r] \o <<"resumed">>
      BY <1>0, <3>1, <3>3, <3>4
    <3>5. CASE events'[r] = events[r] \o <<"intervention", "resumed">>
      BY <1>0, <3>1, <3>2, <3>3, <3>5
    <3>6. QED
      BY <2>1, <3>4, <3>5
  <2>3. RowColumns(r)'
    BY <1>5, <2>1, <2>2 DEF ResumePausedRun, RowInv, RowColumns, TypeOK, Executing
  <2>4. QED
    BY <2>1, <2>2, <2>3 DEF RowInv
<1>6. CASE RequeueRun(r)
  <2>1. status[r] = "queued" /\ status' = status /\ events' = events
    BY <1>6 DEF RequeueRun
  <2>2. RowColumns(r)'
    BY <1>6, <2>1 DEF RequeueRun, RowInv, RowColumns, TypeOK, Executing
  <2>3. QED
    BY <2>1, <2>2 DEF RowInv
<1>7. ASSUME NEW t, NEW k, Abort(r, NoWorker, t, k),
             \/ t = "failed" /\ k = "error"
             \/ t = "cancelled" /\ k = "cancelled"
      PROVE  RowInv(r)'
  <2>1. /\ status[r] \in Active \cup {"failed", "cancelled"} /\ status'[r] = t
        /\ events'[r] = events[r] \o <<k>>
    BY <1>0, <1>7 DEF Abort, MayWrite, Exists, TypeOK, Terminal
  <2>2. RowLog(t, events'[r])
    BY <2>1, <1>0, <1>7, VerdictKeepsLog DEF RowInv
  <2>3. RowColumns(r)'
    BY <1>7, <2>1 DEF Abort, RowInv, RowColumns, TypeOK, Active, Executing
  <2>4. QED
    BY <2>1, <2>2, <2>3 DEF RowInv
<1>8. QED
  BY <1>1, <1>2, <1>3, <1>4, <1>5, <1>6, <1>7 DEF ControlCall, MarkFailed, MarkCancelled

(* A worker's write can succeed only while the run is executing: owner     *)
(* and lease are gone from a queued or a paused row.                       *)
LEMMA OwnedRowExecutes ==
  ASSUME NEW r \in Run, NEW w \in Worker, RowInv(r), Owns(r, w)
  PROVE  status[r] \in Executing /\ status[r] \in Active
BY DEF RowInv, RowColumns, Owns, Active, Executing

(* The transactions of the workers keep it.                                *)
LEMMA WorkerKeepsRow ==
  ASSUME TypeOK, NEW r \in Run, NEW w \in Worker, RowInv(r), WorkerCall(r, w)
  PROVE  RowInv(r)'
<1> USE NoWorkerAssumption DEF SetStatus, ReleaseLease, ClearOwner, Record, rowVars
<1>0. events[r] \in Seq(EventKind) /\ status[r] \in Active \cup Terminal \cup {"absent"}
  BY DEF TypeOK
<1>1. CASE ClaimRun(r, w)
  <2>1. /\ status[r] \in Active /\ status'[r] \in Executing
        /\ events' = events
    BY <1>1 DEF ClaimRun, Claimable, TypeOK, Active, Executing
  <2>2. RowLog(status'[r], events[r])
    BY <2>1, <1>0, StatusKeepsLog DEF RowInv, Active
  <2>3. RowColumns(r)'
    BY <1>1, <2>1 DEF ClaimRun, RowInv, RowColumns, TypeOK, Executing, Active
  <2>4. QED
    BY <2>1, <2>2, <2>3 DEF RowInv
<1>2. CASE Heartbeat(r, w)
  <2>1. status' = status /\ events' = events
    BY <1>2 DEF Heartbeat
  <2>2. RowColumns(r)'
    BY <1>2, <2>1 DEF Heartbeat, HeartbeatHits, RowInv, RowColumns, TypeOK, Executing, Active
  <2>3. QED
    BY <2>1, <2>2 DEF RowInv
<1>3. CASE AppendEvent(r, w)
  <2>1. /\ status[r] \in Executing /\ status[r] \in Active /\ status' = status
        /\ events'[r] = events[r] \o <<"work">>
    BY <1>3, OwnedRowExecutes DEF AppendEvent, TypeOK
  <2>2. RowLog(status[r], events'[r])
    BY <2>1, <1>0, WorkKeepsLog DEF RowInv, EventKind, TerminalEvent
  <2>3. RowColumns(r)'
    BY <1>3, <2>1 DEF AppendEvent, RowInv, RowColumns, Executing
  <2>4. QED
    BY <2>1, <2>2, <2>3 DEF RowInv
<1>4. CASE MarkPaused(r, w)
  <2>1. /\ status[r] \in Active /\ status'[r] = "paused"
        /\ status[r] \in Executing
        /\ events'[r] = events[r] \o <<"paused">>
    BY <1>4, OwnedRowExecutes DEF MarkPaused, TypeOK
  <2>2. RowLog("paused", events'[r])
    BY <2>1, <1>0, WorkKeepsLog DEF RowInv, EventKind, TerminalEvent, Active
  <2>3. RowColumns(r)'
    BY <1>4, <2>1 DEF MarkPaused, RowInv, RowColumns, TypeOK, Executing
  <2>4. QED
    BY <2>1, <2>2, <2>3 DEF RowInv
<1>5. ASSUME NEW t, NEW k, Abort(r, w, t, k),
             \/ t = "failed" /\ k = "error"
             \/ t = "cancelled" /\ k = "cancelled"
      PROVE  RowInv(r)'
  <2>1. /\ status[r] \in Active /\ status[r] \in Executing /\ status'[r] = t
        /\ events'[r] = events[r] \o <<k>>
    BY <1>5, OwnedRowExecutes DEF Abort, MayWrite, TypeOK
  <2>2. RowLog(t, events'[r])
    BY <2>1, <1>0, <1>5, VerdictKeepsLog DEF RowInv
  <2>3. RowColumns(r)'
    BY <1>5, <2>1 DEF Abort, RowInv, RowColumns, TypeOK, Executing
  <2>4. QED
    BY <2>1, <2>2, <2>3 DEF RowInv
<1>6. CASE CompleteRun(r, w)
  <2>1. status[r] \in Active /\ status[r] \in Executing
    BY <1>6, OwnedRowExecutes DEF CompleteRun
  <2>2. exchanges[r] = 0 /\ ~AlreadyDelivered(r)
    BY <2>1 DEF RowInv, RowColumns, AlreadyDelivered, Executing
  <2>3. status'[r] = "completed" /\ events'[r] = events[r] \o <<"done">>
    BY <1>6, <2>2 DEF CompleteRun, TypeOK
  <2>4. RowLog("completed", events'[r])
    BY <2>1, <2>3, <1>0, VerdictKeepsLog DEF RowInv
  <2>5. exchanges'[r] = IF Kind[r] = "message" THEN 1 ELSE 0
    BY <1>6, <2>2 DEF CompleteRun, TypeOK
  <2>6. lease'[r] = "null"
    BY <1>6 DEF CompleteRun, TypeOK
  <2>7. RowColumns(r)'
    BY <2>3, <2>5, <2>6 DEF RowColumns, Executing
  <2>8. QED
    BY <2>3, <2>4, <2>7 DEF RowInv
<1>7. QED
  BY <1>1, <1>2, <1>3, <1>4, <1>5, <1>6 DEF WorkerCall, MarkFailed, MarkCancelled

(* So does the passing of time.                                            *)
LEMMA ExpiryKeepsRow ==
  ASSUME TypeOK, NEW r \in Run, RowInv(r), ExpireLease(r)
  PROVE  RowInv(r)'
<1>1. status' = status /\ events' = events
  BY DEF ExpireLease
<1>2. RowColumns(r)'
  BY <1>1 DEF ExpireLease, RowInv, RowColumns, TypeOK
<1>3. QED
  BY <1>1, <1>2 DEF RowInv

-----------------------------------------------------------------------------
(* Only a creation makes a run active that was not, and its guard looks at *)
(* all runs of the chat.                                                   *)

(* No transaction but a creation makes an inactive run active.             *)
LEMMA ActiveBefore ==
  ASSUME TypeOK, NEW r \in Run, RowInv(r), status'[r] \in Active,
         \/ ControlCall(r) /\ ~CreateRun(r)
         \/ ExpireLease(r)
         \/ \E w \in Worker : WorkerCall(r, w)
  PROVE  status[r] \in Active
<1> USE DEF SetStatus, TypeOK, Active, Executing
<1>1. CASE ControlCall(r) /\ ~CreateRun(r)
  BY <1>1 DEF ControlCall, RequestRunningCancel, RequestPause, CancelQueuedRun,
              ResumePausedRun, RequeueRun, MarkFailed, MarkCancelled, Abort
<1>2. CASE ExpireLease(r)
  BY <1>2 DEF ExpireLease
<1>3. ASSUME NEW w \in Worker, WorkerCall(r, w) PROVE status[r] \in Active
  BY <1>3 DEF WorkerCall, ClaimRun, Claimable, Heartbeat, HeartbeatHits, AppendEvent,
              rowVars, MarkPaused, Owns, MarkFailed, MarkCancelled, Abort, CompleteRun
<1>4. QED
  BY <1>1, <1>2, <1>3

(* A creation looks for active runs of the chat, so there is never more    *)
(* than one.                                                               *)
LEMMA ChatIsKept ==
  ASSUME StoreInv, NEW r \in Run,
         \/ ControlCall(r)
         \/ ExpireLease(r)
         \/ \E w \in Worker : WorkerCall(r, w)
  PROVE  OneActiveRunPerChat'
<1> DEFINE Live(s, q) == Kind[q] = "message" /\ s[q] \in Active
<1> SUFFICES ASSUME NEW p \in Run, NEW q \in Run, ChatOf[p] = ChatOf[q],
                    Live(status', p), Live(status', q)
             PROVE  p = q
  BY DEF OneActiveRunPerChat
<1>1. \A x \in Run : x # r => status'[x] = status[x]
  BY OtherRowsAreKept DEF StoreInv, SameRow
<1>2. CASE CreateRun(r)
  <2>1. Kind[r] = "message" =>
          \A x \in Run : ChatOf[x] = ChatOf[r] => ~Live(status, x)
    BY <1>2 DEF CreateRun, ActiveMessageRuns, RunsOfChat
  <2>2. QED
    BY <1>1, <2>1 DEF StoreInv, OneActiveRunPerChat
<1>3. CASE ~CreateRun(r)
  <2>1. \A x \in Run : Live(status', x) => Live(status, x)
    BY <1>1, <1>3, ActiveBefore DEF StoreInv
  <2>2. QED
    BY <2>1 DEF StoreInv, OneActiveRunPerChat
<1>4. QED
  BY <1>2, <1>3

(* The inductive step of the run table.                                    *)
LEMMA StoreInvIsKept == ASSUME StoreInv, [Next]_storeVars PROVE StoreInv'
<1>1. TypeOK'
  BY TypeIsKept DEF StoreInv
<1>2. CASE UNCHANGED storeVars
  BY <1>1, <1>2 DEF storeVars, StoreInv, RowInv, RowColumns, RowLog, OneActiveRunPerChat
<1>3. ASSUME NEW r \in Run,
             \/ ControlCall(r)
             \/ ExpireLease(r)
             \/ \E w \in Worker : WorkerCall(r, w)
      PROVE  StoreInv'
  <2>1. RowInv(r)'
    BY <1>3, ControlKeepsRow, WorkerKeepsRow, ExpiryKeepsRow DEF StoreInv
  <2>2. \A q \in Run : q # r => RowInv(q)'
    BY <1>3, OtherRowsAreKept, SameRowIsKept DEF StoreInv
  <2>3. OneActiveRunPerChat'
    BY <1>3, ChatIsKept
  <2>4. QED
    BY <1>1, <2>1, <2>2, <2>3 DEF StoreInv
<1>4. QED
  BY <1>2, <1>3 DEF Next

(* The empty table satisfies the invariant.                                *)
LEMMA StoreInvInitially == ASSUME Init PROVE StoreInv
<1>1. TypeOK
  BY DEF Init, TypeOK
<1>2. \A r \in Run : RowInv(r)
  BY DEF Init, RowInv, RowColumns, RowLog, Active, Executing, Terminal
<1>3. OneActiveRunPerChat
  BY DEF Init, OneActiveRunPerChat, Active, Executing
<1>4. QED
  BY <1>1, <1>2, <1>3 DEF StoreInv

(* The inductive invariant of the run table holds in every state.          *)
THEOREM StoreInvariant == Spec => []StoreInv
<1>1. Init => StoreInv
  BY StoreInvInitially
<1>2. StoreInv /\ [Next]_storeVars => StoreInv'
  BY StoreInvIsKept
<1>3. QED
  BY <1>1, <1>2, PTL DEF Spec

-----------------------------------------------------------------------------
(* The stated invariants.                                                  *)

(* An executing run always carries a lease and an owner, and no other run  *)
(* does: the claim query can find every run that is not finished and not   *)
(* paused.                                                                 *)
THEOREM NothingIsStranded == Spec => []LeaseFollowsStatus
BY StoreInvariant, StoreInvImplies, PTL

(* The final messages are inserted exactly when the run is completed, and  *)
(* once.                                                                   *)
THEOREM DeliveredOnce == Spec => []ExchangeIffCompleted
BY StoreInvariant, StoreInvImplies, PTL

(* No event follows a terminal event but another verdict, and none follows *)
(* "done".                                                                 *)
THEOREM LogEnds == Spec => []LogEndsAtTerminalEvent
BY StoreInvariant, StoreInvImplies, PTL

(* The status of a run and the last event of its log agree.                *)
THEOREM LogAgrees == Spec => []StatusMatchesLog
BY StoreInvariant, StoreInvImplies, PTL

(* A chat has at most one active message run.                              *)
THEOREM OneActiveRun == Spec => []OneActiveRunPerChat
BY StoreInvariant, StoreInvImplies, PTL

(* A paused run can be resumed from its snapshot.                          *)
THEOREM PausedCanResume == Spec => []PausedRunHasSnapshot
BY StoreInvariant, StoreInvImplies, PTL

-----------------------------------------------------------------------------
(* No transaction clears an accepted cancellation: requeue_run does reset  *)
(* the flag, but the runs it accepts have never been executing.            *)
LEMMA CancelIsKept ==
  ASSUME StoreInv, [Next]_storeVars, NEW q \in Run, cancelFlag[q]
  PROVE  cancelFlag'[q]
<1>1. CASE UNCHANGED storeVars
  BY <1>1 DEF storeVars
<1>2. ASSUME NEW r \in Run,
             \/ ControlCall(r)
             \/ ExpireLease(r)
             \/ \E w \in Worker : WorkerCall(r, w)
      PROVE  cancelFlag'[q]
  <2>1. CASE q # r
    BY <1>2, <2>1, OtherRowsAreKept DEF StoreInv, SameRow
  <2>2. CASE q = r /\ RequeueRun(r)
    BY <2>2 DEF RequeueRun, StoreInv, RowInv, RowColumns
  <2>3. CASE q = r /\ ~RequeueRun(r)
    <3> USE <2>3 DEF StoreInv, TypeOK, rowVars
    <3>1. CASE ControlCall(r)
      BY <3>1 DEF ControlCall, CreateRun, RequestRunningCancel, RequestPause,
                  CancelQueuedRun, ResumePausedRun, MarkFailed, MarkCancelled
    <3>2. CASE ExpireLease(r)
      BY <3>2 DEF ExpireLease
    <3>3. ASSUME NEW w \in Worker, WorkerCall(r, w) PROVE cancelFlag'[q]
      BY <3>3 DEF WorkerCall, ClaimRun, Heartbeat, AppendEvent, MarkPaused,
                  MarkFailed, MarkCancelled, CompleteRun
    <3>4. QED
      BY <1>2, <3>1, <3>2, <3>3
  <2>4. QED
    BY <2>1, <2>2, <2>3
<1>3. QED
  BY <1>1, <1>2 DEF Next

(* An accepted cancellation is never forgotten.                            *)
THEOREM CancelRemembered == Spec => CancelIsNotForgotten
<1>1. StoreInv /\ [Next]_storeVars
        => [\A r \in Run : cancelFlag[r] => cancelFlag'[r]]_storeVars
  BY CancelIsKept
<1>2. QED
  BY <1>1, StoreInvariant, PTL DEF Spec, CancelIsNotForgotten

-----------------------------------------------------------------------------
(* The cap.                                                                *)

ActiveRunsOf(u) ==
  {r \in Run : UserOf[r] = u /\ Kind[r] = "message" /\ status[r] \in Active}

(* Neither does any transaction but a creation add to a user's active      *)
(* runs, and a creation counts them first.                                 *)
LEMMA CapIsKept ==
  ASSUME StoreInv, ActiveCapHolds, [Next]_storeVars
  PROVE  ActiveCapHolds'
<1> SUFFICES ASSUME NEW u \in {UserOf[r] : r \in Run}
             PROVE  Cardinality(ActiveRunsOf(u)') <= ActiveCap
  BY DEF ActiveCapHolds, ActiveRunsOf, ActiveCap
<1>1. /\ ActiveCap \in Nat
      /\ IsFiniteSet(ActiveRunsOf(u)) /\ Cardinality(ActiveRunsOf(u)) \in Nat
      /\ Cardinality(ActiveRunsOf(u)) <= ActiveCap
  BY BoundsAssumption, FiniteRunsAssumption, FS_Subset, FS_CardinalityType
     DEF ActiveRunsOf, ActiveCap, ActiveCapHolds
<1>2. CASE ActiveRunsOf(u)' \subseteq ActiveRunsOf(u)
  BY <1>1, <1>2, FS_Subset, FS_CardinalityType
<1>3. CASE UNCHANGED storeVars
  BY <1>2, <1>3 DEF storeVars, ActiveRunsOf
<1>4. ASSUME NEW r \in Run,
             \/ ControlCall(r)
             \/ ExpireLease(r)
             \/ \E w \in Worker : WorkerCall(r, w)
      PROVE  Cardinality(ActiveRunsOf(u)') <= ActiveCap
  <2>1. \A q \in Run : q # r => status'[q] = status[q]
    BY <1>4, OtherRowsAreKept DEF StoreInv, SameRow
  <2>2. CASE ~CreateRun(r)
    BY <1>2, <1>4, <2>1, <2>2, ActiveBefore DEF StoreInv, ActiveRunsOf
  <2>3. CASE UserOf[r] # u \/ Kind[r] # "message"
    BY <1>2, <2>1, <2>3 DEF ActiveRunsOf
  <2>4. CASE CreateRun(r) /\ UserOf[r] = u /\ Kind[r] = "message"
    <3>1. Cardinality(ActiveRunsOf(u)) < ActiveCap
      <4>1. ActiveMessageRuns(RunsOfUser(u)) = ActiveRunsOf(u)
        BY DEF ActiveMessageRuns, RunsOfUser, ActiveRunsOf
      <4>2. QED
        BY <2>4, <4>1 DEF CreateRun
    <3>2. ActiveRunsOf(u)' \subseteq ActiveRunsOf(u) \cup {r}
      BY <2>1 DEF ActiveRunsOf
    <3>3. /\ IsFiniteSet(ActiveRunsOf(u) \cup {r})
          /\ Cardinality(ActiveRunsOf(u) \cup {r}) <= Cardinality(ActiveRunsOf(u)) + 1
      BY <1>1, FS_AddElement
    <3>4. QED
      BY <1>1, <3>1, <3>2, <3>3, FS_Subset, FS_CardinalityType
  <2>5. QED
    BY <2>2, <2>3, <2>4
<1>5. QED
  BY <1>3, <1>4 DEF Next

(* No user ever has more active message runs than the cap allows.          *)
THEOREM CapHolds == Spec => []ActiveCapHolds
<1>1. Init => ActiveCapHolds
  <2> SUFFICES ASSUME Init, NEW u \in {UserOf[r] : r \in Run}
               PROVE  Cardinality(ActiveRunsOf(u)) <= ActiveCap
    BY DEF ActiveCapHolds, ActiveRunsOf
  <2>1. ActiveRunsOf(u) = {}
    BY DEF Init, ActiveRunsOf, Active, Executing
  <2>2. QED
    BY <2>1, FS_EmptySet, BoundsAssumption DEF ActiveCap
<1>2. StoreInv /\ ActiveCapHolds /\ [Next]_storeVars => ActiveCapHolds'
  BY CapIsKept
<1>3. QED
  BY <1>1, <1>2, StoreInvariant, PTL DEF Spec

-----------------------------------------------------------------------------
(* The run table implements the lifecycle that a chat is promised.         *)

(* A change of one status is a change of one phase.                        *)
LEMMA PhaseFollowsStatus ==
  ASSUME TypeOK, NEW r \in Run, NEW s, SetStatus(r, s)
  PROVE  phaseOf' = [phaseOf EXCEPT ![r] = PhaseOf(s)]
BY DEF TypeOK, SetStatus, phaseOf

(* The statuses an executing run may have are one phase.                   *)
LEMMA Phases ==
  /\ PhaseOf("absent") = "absent" /\ PhaseOf("queued") = "waiting"
  /\ PhaseOf("paused") = "suspended" /\ PhaseOf("completed") = "completed"
  /\ PhaseOf("failed") = "abandoned" /\ PhaseOf("cancelled") = "abandoned"
  /\ \A s \in Executing : PhaseOf(s) = "executing"
BY DEF PhaseOf, Executing

(* Active statuses are the live phases, so the two tests that the chat is  *)
(* free agree.                                                             *)
LEMMA ActiveIsLive ==
  \A s \in Active \cup Terminal \cup {"absent"} :
    s \in Active <=> PhaseOf(s) \in Lifecycle!Live
BY Phases DEF Active, Executing, Terminal, Lifecycle!Live

(* A verdict abandons a live run, or repeats itself on an abandoned one.   *)
LEMMA VerdictAbandons ==
  ASSUME StoreInv, NEW r \in Run, NEW w \in Worker \cup {NoWorker}, NEW k,
         NEW t \in {"failed", "cancelled"}, Abort(r, w, t, k)
  PROVE  Lifecycle!Abandon(r) \/ UNCHANGED <<phaseOf, exchanges>>
<1>1. phaseOf' = [phaseOf EXCEPT ![r] = "abandoned"] /\ exchanges' = exchanges
  BY PhaseFollowsStatus, Phases DEF StoreInv, Abort
<1>2. status[r] \in Active \cup {"failed", "cancelled"}
  BY DEF Abort, MayWrite, Exists, Owns, StoreInv, TypeOK, Terminal
<1>3. CASE status[r] \in Active
  BY <1>1, <1>3, ActiveIsLive DEF Lifecycle!Abandon, Lifecycle!Move, phaseOf
<1>4. CASE status[r] \in {"failed", "cancelled"}
  BY <1>1, <1>4, Phases DEF phaseOf
<1>5. QED
  BY <1>2, <1>3, <1>4

(* Requests of the control plane are lifecycle steps or stutter.           *)
LEMMA ControlImplements ==
  ASSUME StoreInv, NEW r \in Run, ControlCall(r)
  PROVE  [Lifecycle!Next]_(Lifecycle!vars)
<1> USE DEF Lifecycle!vars, Lifecycle!Next
<1>1. CASE CreateRun(r)
  <2>1. /\ status[r] = "absent" /\ exchanges' = exchanges
        /\ phaseOf' = [phaseOf EXCEPT ![r] = "waiting"]
    BY <1>1, PhaseFollowsStatus, Phases DEF CreateRun, Exists, StoreInv
  <2>2. Lifecycle!ChatIsFree(r)
    <3> SUFFICES ASSUME Kind[r] = "message", NEW q \in Run,
                        Kind[q] = "message", ChatOf[q] = ChatOf[r]
                 PROVE  phaseOf[q] \notin Lifecycle!Live
      BY DEF Lifecycle!ChatIsFree
    <3>1. status[q] \notin Active
      BY <1>1 DEF CreateRun, ActiveMessageRuns, RunsOfChat
    <3>2. QED
      BY <3>1, ActiveIsLive DEF phaseOf, StoreInv, TypeOK
  <2>3. QED
    BY <2>1, <2>2, Phases DEF Lifecycle!Accept, Lifecycle!Move, phaseOf
<1>2. CASE RequestRunningCancel(r)
  <2>1. status[r] \in Executing /\ exchanges' = exchanges
        /\ phaseOf' = [phaseOf EXCEPT ![r] = "executing"]
    BY <1>2, PhaseFollowsStatus, Phases DEF RequestRunningCancel, StoreInv, Executing
  <2>2. QED
    BY <2>1, Phases DEF phaseOf
<1>3. CASE RequestPause(r)
  <2>1. status[r] \in Executing /\ exchanges' = exchanges
        /\ phaseOf' = [phaseOf EXCEPT ![r] = "executing"]
    BY <1>3, PhaseFollowsStatus, Phases DEF RequestPause, StoreInv, Executing
  <2>2. QED
    BY <2>1, Phases DEF phaseOf
<1>4. CASE CancelQueuedRun(r)
  <2>1. /\ status[r] = "queued" /\ exchanges' = exchanges
        /\ phaseOf' = [phaseOf EXCEPT ![r] = "abandoned"]
    BY <1>4, PhaseFollowsStatus, Phases DEF CancelQueuedRun, StoreInv
  <2>2. QED
    BY <2>1, Phases DEF Lifecycle!Abandon, Lifecycle!Move, Lifecycle!Live, phaseOf
<1>5. ASSUME NEW withInput \in BOOLEAN, ResumePausedRun(r, withInput)
      PROVE  [Lifecycle!Next]_(Lifecycle!vars)
  <2>1. /\ status[r] = "paused" /\ exchanges' = exchanges
        /\ phaseOf' = [phaseOf EXCEPT ![r] = "waiting"]
    BY <1>5, PhaseFollowsStatus, Phases DEF ResumePausedRun, StoreInv
  <2>2. QED
    BY <2>1, Phases DEF Lifecycle!Resume, Lifecycle!Move, phaseOf
<1>6. CASE RequeueRun(r)
  BY <1>6 DEF RequeueRun, phaseOf
<1>7. CASE MarkFailed(r, NoWorker) \/ MarkCancelled(r, NoWorker)
  BY <1>7, VerdictAbandons DEF MarkFailed, MarkCancelled
<1>8. QED
  BY <1>1, <1>2, <1>3, <1>4, <1>5, <1>6, <1>7 DEF ControlCall

(* So are the transactions of the workers.                                 *)
LEMMA WorkerImplements ==
  ASSUME StoreInv, NEW r \in Run, NEW w \in Worker, WorkerCall(r, w)
  PROVE  [Lifecycle!Next]_(Lifecycle!vars)
<1> USE DEF Lifecycle!vars, Lifecycle!Next
<1>0. Owns(r, w) => status[r] \in Executing /\ phaseOf[r] = "executing" /\ exchanges[r] = 0
  BY OwnedRowExecutes, Phases DEF StoreInv, RowInv, RowColumns, phaseOf, Executing
<1>1. CASE ClaimRun(r, w)
  <2>1. CASE status[r] = "queued"
    <3>1. phaseOf' = [phaseOf EXCEPT ![r] = "executing"] /\ exchanges' = exchanges
      BY <1>1, <2>1, PhaseFollowsStatus, Phases DEF ClaimRun, StoreInv, Executing
    <3>2. QED
      BY <2>1, <3>1, Phases DEF Lifecycle!Start, Lifecycle!Move, phaseOf
  <2>2. CASE status[r] # "queued"
    BY <1>1, <2>2 DEF ClaimRun, SetStatus, phaseOf, StoreInv, TypeOK
  <2>3. QED
    BY <2>1, <2>2
<1>2. CASE Heartbeat(r, w) \/ AppendEvent(r, w)
  BY <1>2 DEF Heartbeat, AppendEvent, rowVars, phaseOf
<1>3. CASE MarkPaused(r, w)
  <2>1. phaseOf' = [phaseOf EXCEPT ![r] = "suspended"] /\ exchanges' = exchanges
    BY <1>3, PhaseFollowsStatus, Phases DEF MarkPaused, StoreInv
  <2>2. QED
    BY <1>0, <1>3, <2>1 DEF MarkPaused, Lifecycle!Suspend, Lifecycle!Move
<1>4. CASE MarkFailed(r, w) \/ MarkCancelled(r, w)
  BY <1>4, VerdictAbandons DEF MarkFailed, MarkCancelled
<1>5. CASE CompleteRun(r, w)
  <2>1. phaseOf' = [phaseOf EXCEPT ![r] = "completed"]
    BY <1>5, PhaseFollowsStatus, Phases DEF CompleteRun, StoreInv
  <2>2. exchanges' = [exchanges EXCEPT ![r] = IF Kind[r] = "message" THEN 1 ELSE 0]
    <3>1. exchanges[r] = 0 /\ ~AlreadyDelivered(r)
      BY <1>0, <1>5 DEF CompleteRun, AlreadyDelivered
    <3>2. exchanges' = [exchanges EXCEPT ![r] =
            IF Kind[r] = "message" THEN exchanges[r] + 1 ELSE exchanges[r]]
      BY <1>5, <3>1 DEF CompleteRun
    <3>3. QED
      BY <3>1, <3>2
  <2>3. QED
    BY <1>0, <1>5, <2>1, <2>2 DEF CompleteRun, Lifecycle!Complete, Lifecycle!Move
<1>6. QED
  BY <1>1, <1>2, <1>3, <1>4, <1>5 DEF WorkerCall

(* Every behaviour of the run table, under any mix of workers, lease       *)
(* expiries, clients and operators, is a behaviour of the lifecycle.       *)
THEOREM Implementation == Spec => ImplementsLifecycle
<1>1. Init => Lifecycle!Init
  BY Phases DEF Init, Lifecycle!Init, phaseOf
<1>2. StoreInv /\ [Next]_storeVars => [Lifecycle!Next]_(Lifecycle!vars)
  <2> SUFFICES ASSUME StoreInv, [Next]_storeVars
               PROVE  [Lifecycle!Next]_(Lifecycle!vars)
    OBVIOUS
  <2>1. CASE UNCHANGED storeVars
    BY <2>1 DEF storeVars, Lifecycle!vars, phaseOf
  <2>2. ASSUME NEW r \in Run, ExpireLease(r) PROVE [Lifecycle!Next]_(Lifecycle!vars)
    BY <2>2 DEF ExpireLease, Lifecycle!vars, phaseOf
  <2>3. QED
    BY <2>1, <2>2, ControlImplements, WorkerImplements DEF Next
<1>3. QED
  BY <1>1, <1>2, StoreInvariant, PTL DEF Spec, ImplementsLifecycle, Lifecycle!Spec

-----------------------------------------------------------------------------
(* The workers.                                                            *)

SlotTypes ==
  /\ pc \in [Worker -> Handling \cup {"idle", "dead"}]
  /\ job \in [Worker -> Run \cup {NoRun}]
  /\ plan \in [Worker -> {"none", "cancel", "stale", "fresh", "resume"}]
  /\ outcome \in [Worker -> {"none", "cancelled", "failed", "paused"}]
  /\ beating \in [Worker -> BOOLEAN]
  /\ lost \in [Worker -> BOOLEAN]
  /\ superseded \in [Worker -> BOOLEAN]
  /\ cancelCall \in [Run -> {"none", "queued", "paused", "executing"}]
  /\ faults \in 0..MaxFaults

(* A slot that handles a run has one, only such a slot has a heartbeat     *)
(* thread, and a superseded slot does not own its run: nobody but the slot *)
(* itself can make it the owner again.                                     *)
SlotInv ==
  /\ SlotTypes
  /\ \A w \in Worker :
       /\ pc[w] \in Handling => job[w] \in Run
       /\ beating[w] => pc[w] \in Handling
       /\ superseded[w] => pc[w] \in Handling /\ owner[job[w]] # w

-----------------------------------------------------------------------------
(* Every step of the system but a claim is one of these calls, or leaves   *)
(* the table alone.                                                        *)
PlainCall(r, w) ==
  \/ Heartbeat(r, w) \/ AppendEvent(r, w)
  \/ MarkFailed(r, w) \/ MarkCancelled(r, w)
  \/ CompleteRun(r, w)

OwnerCall(r, w) == MarkPaused(r, w) \/ PlainCall(r, w)

OtherCall(r) ==
  ControlCall(r) \/ ExpireLease(r) \/ \E w \in Worker : OwnerCall(r, w)

NotAClaim == UNCHANGED storeVars \/ \E r \in Run : OtherCall(r)

(* All of them but the call that pauses a run.                             *)
PauseFree ==
  \/ UNCHANGED storeVars
  \/ \E r \in Run : \/ ControlCall(r) \/ ExpireLease(r)
                   \/ \E w \in Worker : PlainCall(r, w)

(* Each of those calls is a step of the table.                             *)
LEMMA NotAClaimIsAStep == NotAClaim => [Next]_storeVars
BY DEF NotAClaim, OtherCall, OwnerCall, PlainCall, WorkerCall, Next

(* Only a claim gives a run a new owner: any other transaction keeps the   *)
(* owner or clears it.                                                     *)
LEMMA NobodyGainsOwnership ==
  ASSUME TypeOK, NEW q \in Run, NotAClaim
  PROVE  owner'[q] \in {owner[q], NoWorker}
<1>1. CASE UNCHANGED storeVars
  BY <1>1 DEF storeVars
<1>2. ASSUME NEW r \in Run, OtherCall(r) PROVE owner'[q] \in {owner[q], NoWorker}
  <2>1. CASE q # r
    BY <1>2, <2>1, OtherRowsAreKept DEF OtherCall, OwnerCall, PlainCall, WorkerCall, SameRow
  <2>2. CASE ControlCall(r) /\ q = r
    BY <2>2 DEF ControlCall, CreateRun, RequestRunningCancel, RequestPause,
                CancelQueuedRun, ResumePausedRun, RequeueRun, MarkFailed, MarkCancelled,
                Abort, ClearOwner, TypeOK
  <2>3. CASE ExpireLease(r)
    BY <2>3 DEF ExpireLease
  <2>4. ASSUME NEW w \in Worker, OwnerCall(r, w), q = r
        PROVE  owner'[q] \in {owner[q], NoWorker}
    BY <2>4, NoWorkerAssumption
       DEF OwnerCall, PlainCall, Heartbeat, AppendEvent, rowVars, MarkPaused, Owns, MarkFailed,
           MarkCancelled, Abort, MayWrite, CompleteRun, ClearOwner, TypeOK
  <2>5. QED
    BY <1>2, <2>1, <2>2, <2>3, <2>4 DEF OtherCall
<1>3. QED
  BY <1>1, <1>2 DEF NotAClaim

-----------------------------------------------------------------------------
(* What the steps do to the table.                                         *)

(* A step of a slot is its claim, the pause it is heading for, another     *)
(* transaction of the table or none.                                       *)
LEMMA SlotStepsWhilePausing ==
  ASSUME SlotInv, NEW w \in Worker, WorkerStep(w)
  PROVE  \/ PauseFree
         \/ outcome[w] = "paused" /\ job[w] \in Run /\ MarkPaused(job[w], w)
         \/ \E r \in Run : Claim(w, r)
<1> USE DEF SlotInv, Handling, PauseFree, PlainCall
<1>1. CASE Work(w)
  BY <1>1 DEF Work
<1>2. CASE ReportError(w) \/ Flush(w)
  BY <1>2 DEF ReportError, Flush, Emit, Transition
<1>3. CASE Complete(w)
  BY <1>3 DEF Complete, Leave, Transition
<1>4. CASE Terminalize(w)
  BY <1>4 DEF Terminalize, Leave, Transition
<1>5. CASE QueueAutoName(w)
  BY <1>5, FollowUpAssumption DEF QueueAutoName, ControlCall
<1>6. CASE Beat(w)
  BY <1>6 DEF Beat
<1>7. CASE Stall(w)
  BY <1>7 DEF Stall
<1>8. CASE \/ BeginTurn(w) \/ RefuseTurn(w) \/ ObserveCancel(w) \/ ObservePause(w)
           \/ RouterFails(w) \/ FinishTurn(w) \/ ErrorUnowned(w) \/ FlushRaises(w)
           \/ CompleteRaises(w) \/ TerminalizeRaises(w)
           \/ NoticeLoss(w) \/ Crash(w) \/ Stop(w) \/ Restart(w)
  BY <1>8 DEF BeginTurn, RefuseTurn, ObserveCancel, ObservePause, LeaveTurn, RouterFails,
              FinishTurn, ErrorUnowned, FlushRaises, CompleteRaises, TerminalizeRaises,
              NoticeLoss, Crash, Stop, Restart
<1>9. QED
  BY <1>1, <1>2, <1>3, <1>4, <1>5, <1>6, <1>7, <1>8 DEF WorkerStep, SlotStep

LEMMA SlotStepsTheTable ==
  ASSUME SlotInv, NEW w \in Worker, WorkerStep(w)
  PROVE  NotAClaim \/ \E r \in Run : Claim(w, r)
<1>1. PauseFree => NotAClaim
  BY DEF PauseFree, NotAClaim, OtherCall, OwnerCall
<1>2. job[w] \in Run /\ MarkPaused(job[w], w) => NotAClaim
  BY DEF NotAClaim, OtherCall, OwnerCall
<1>3. QED
  BY <1>1, <1>2, SlotStepsWhilePausing

(* The requests of the control plane never claim a run, nor do they pause  *)
(* one.                                                                    *)
LEMMA ControlStepsPauseNothing ==
  ASSUME NEW r \in Run, ControlStep(r) PROVE PauseFree
<1> USE DEF PauseFree, ControlCall
<1>1. CASE CancelActs(r)
  BY <1>1 DEF CancelActs
<1>2. CASE CancelReads(r) \/ CancelMisses(r)
  BY <1>2 DEF CancelReads, CancelMisses
<1>3. CASE Submit(r) \/ Pause(r) \/ Resume(r) \/ OperatorFails(r)
           \/ OperatorRequeues(r) \/ LeaseRunsOut(r)
  BY <1>3 DEF Submit, Pause, Resume, OperatorFails, OperatorRequeues, LeaseRunsOut
<1>4. QED
  BY <1>1, <1>2, <1>3 DEF ControlStep

LEMMA ControlStepsTheTable ==
  ASSUME NEW r \in Run, ControlStep(r) PROVE NotAClaim
BY ControlStepsPauseNothing DEF PauseFree, NotAClaim, OtherCall, OwnerCall

(* Every step of the system is a claim, another transaction or none.       *)
LEMMA SystemStepsTheTable ==
  ASSUME SlotInv, [WorkerNext]_workerVars
  PROVE  NotAClaim \/ \E w \in Worker, r \in Run : Claim(w, r)
BY SlotStepsTheTable, ControlStepsTheTable DEF WorkerNext, workerVars, NotAClaim

-----------------------------------------------------------------------------
(* The slots.                                                              *)

(* A slot that leaves its handler forgets the run it held.                 *)
LEMMA LeavingKeepsSlots ==
  ASSUME SlotInv, TypeOK, NotAClaim, NEW w \in Worker, NEW from,
         NEW to \in {"idle", "dead"}, Leave(w, from, to)
  PROVE  SlotInv'
<1>1. \A q \in Run : owner'[q] \in {owner[q], NoWorker}
  BY NobodyGainsOwnership
<1>2. SlotTypes'
  BY DEF SlotInv, SlotTypes, Leave, Transition, Handling
<1>3. QED
  BY <1>1, <1>2, NoWorkerAssumption
     DEF SlotInv, SlotTypes, Leave, Transition, Handling

(* A claim takes the row from the slots that held it before and marks them *)
(* superseded; the claimant is not.                                        *)
LEMMA ClaimKeepsSlots ==
  ASSUME SlotInv, TypeOK, NEW w \in Worker, NEW r \in Run, Claim(w, r)
  PROVE  SlotInv'
<1>1. PlanFor(r) \in {"cancel", "stale", "fresh", "resume"}
  BY DEF PlanFor
<1>2. SlotTypes'
  <2>1. superseded' \in [Worker -> BOOLEAN]
    BY DEF Claim, SlotInv, SlotTypes, Holds
  <2>2. QED
    BY <1>1, <2>1 DEF Claim, Transition, SlotInv, SlotTypes, Handling
<1>3. owner' = [owner EXCEPT ![r] = w]
  BY DEF Claim, ClaimRun
<1>4. ASSUME NEW t \in Worker
      PROVE  /\ pc'[t] \in Handling => job'[t] \in Run
             /\ beating'[t] => pc'[t] \in Handling
             /\ superseded'[t] => pc'[t] \in Handling /\ owner'[job'[t]] # t
  <2>1. CASE t = w
    BY <2>1 DEF Claim, Transition, SlotInv, SlotTypes, Handling
  <2>2. CASE t # w
    <3>1. /\ pc'[t] = pc[t] /\ job'[t] = job[t] /\ beating'[t] = beating[t]
          /\ superseded'[t] => superseded[t] \/ Holds(t, r)
      BY <2>2 DEF Claim, Transition, SlotInv, SlotTypes
    <3>2. superseded'[t] => pc[t] \in Handling /\ (owner[job[t]] # t \/ job[t] = r)
      BY <3>1 DEF SlotInv, Holds
    <3>3. superseded'[t] => owner'[job[t]] # t
      BY <1>3, <2>2, <3>2 DEF SlotInv, TypeOK
    <3>4. QED
      BY <3>1, <3>2, <3>3 DEF SlotInv
  <2>3. QED
    BY <2>1, <2>2
<1>5. QED
  BY <1>2, <1>4 DEF SlotInv

(* The steps that move a slot within its handler, or not at all.           *)
LEMMA MovingKeepsSlots ==
  ASSUME SlotInv, TypeOK, NotAClaim, NEW w \in Worker,
         pc' = pc \/ (pc[w] \in Handling /\ \E to \in Handling : pc' = [pc EXCEPT ![w] = to]),
         UNCHANGED <<job, plan, superseded>>,
         \/ beating' = beating
         \/ pc'[w] \in Handling /\ beating' = [beating EXCEPT ![w] = TRUE]
         \/ beating' = [beating EXCEPT ![w] = FALSE],
         outcome' \in [Worker -> {"none", "cancelled", "failed", "paused"}],
         lost' \in [Worker -> BOOLEAN],
         cancelCall' \in [Run -> {"none", "queued", "paused", "executing"}],
         faults' \in 0..MaxFaults
  PROVE  SlotInv'
<1>1. \A q \in Run : owner'[q] \in {owner[q], NoWorker}
  BY NobodyGainsOwnership
<1>2. /\ pc' \in [Worker -> Handling \cup {"idle", "dead"}]
      /\ \A t \in Worker : pc[t] \in Handling <=> pc'[t] \in Handling
  BY DEF SlotInv, SlotTypes
<1>3. beating' \in [Worker -> BOOLEAN]
  <2>1. beating \in [Worker -> BOOLEAN]
    BY DEF SlotInv, SlotTypes
  <2>2. CASE beating' = beating
    BY <2>1, <2>2
  <2>3. CASE beating' = [beating EXCEPT ![w] = TRUE]
    BY <2>1, <2>3
  <2>4. CASE beating' = [beating EXCEPT ![w] = FALSE]
    BY <2>1, <2>4
  <2>5. QED
    BY <2>2, <2>3, <2>4
<1>4. SlotTypes'
  BY <1>2, <1>3 DEF SlotInv, SlotTypes
<1>5. \A t \in Worker : beating'[t] => pc'[t] \in Handling
  BY <1>2, <1>3 DEF SlotInv, SlotTypes
<1>6. QED
  BY <1>1, <1>2, <1>4, <1>5, NoWorkerAssumption DEF SlotInv, SlotTypes

(* No step of a slot, its heartbeat thread or its faults breaks SlotInv.   *)
LEMMA SlotStepsKeepSlots ==
  ASSUME SlotInv, TypeOK, NEW w \in Worker, WorkerStep(w)
  PROVE  SlotInv'
<1>0. ASSUME ~ \E r \in Run : Claim(w, r) PROVE NotAClaim
  BY <1>0, SlotStepsTheTable
<1>1. ASSUME NEW r \in Run, Claim(w, r) PROVE SlotInv'
  BY <1>1, ClaimKeepsSlots
<1>2. SUFFICES ASSUME ~ \E r \in Run : Claim(w, r) PROVE SlotInv'
  BY <1>1
<1>3. NotAClaim
  BY <1>0, <1>2
<1>4. CASE \/ ErrorUnowned(w) \/ FlushRaises(w) \/ Complete(w) \/ CompleteRaises(w)
           \/ Terminalize(w) \/ TerminalizeRaises(w)
  BY <1>3, <1>4, LeavingKeepsSlots
     DEF ErrorUnowned, FlushRaises, Complete, CompleteRaises, Terminalize, TerminalizeRaises
<1>5. CASE BeginTurn(w) \/ RefuseTurn(w)
  BY <1>3, <1>5, MovingKeepsSlots
     DEF BeginTurn, RefuseTurn, Transition, Handling, SlotInv, SlotTypes
<1>6. CASE ObserveCancel(w) \/ ObservePause(w) \/ RouterFails(w) \/ FinishTurn(w)
  BY <1>3, <1>6, MovingKeepsSlots
     DEF ObserveCancel, ObservePause, LeaveTurn, RouterFails, FinishTurn, Transition,
         Handling, SlotInv, SlotTypes
<1>7. CASE ReportError(w) \/ Flush(w)
  BY <1>3, <1>7, MovingKeepsSlots
     DEF ReportError, Flush, Transition, Handling, SlotInv, SlotTypes
<1>8. CASE Work(w) \/ QueueAutoName(w) \/ Beat(w)
  BY <1>3, <1>8, MovingKeepsSlots DEF Work, QueueAutoName, Beat, slotVars, SlotInv, SlotTypes
<1>9. CASE NoticeLoss(w)
  BY <1>3, <1>9, MovingKeepsSlots DEF NoticeLoss, SlotInv, SlotTypes
<1>10. CASE Stall(w)
  BY <1>3, <1>10, MovingKeepsSlots, FaultsAssumption DEF Stall, slotVars, SlotInv, SlotTypes
<1>11. CASE Stop(w) \/ Restart(w)
  BY <1>3, <1>11 DEF Stop, Restart, Transition, Handling, SlotInv, SlotTypes, storeVars
<1>12. CASE Crash(w)
  BY <1>12, FaultsAssumption DEF Crash, Handling, SlotInv, SlotTypes, storeVars
<1>13. QED
  BY <1>2, <1>4, <1>5, <1>6, <1>7, <1>8, <1>9, <1>10, <1>11, <1>12 DEF WorkerStep, SlotStep

(* Nor does a request of a user or an operator.                            *)
LEMMA ControlStepsKeepSlots ==
  ASSUME SlotInv, TypeOK, NEW r \in Run, ControlStep(r)
  PROVE  SlotInv'
<1>1. NotAClaim
  BY ControlStepsTheTable
<1>2. \A q \in Run : owner'[q] \in {owner[q], NoWorker}
  BY <1>1, NobodyGainsOwnership
<1>3. UNCHANGED slotVars /\ faults' = faults
  BY DEF ControlStep, Submit, CancelReads, CancelActs, CancelMisses, Pause, Resume,
         OperatorFails, OperatorRequeues, LeaseRunsOut
<1>4. cancelCall' \in [Run -> {"none", "queued", "paused", "executing"}]
  <2>1. CASE CancelReads(r)
    BY <2>1 DEF CancelReads, Active, Executing, SlotInv, SlotTypes
  <2>2. CASE ~CancelReads(r)
    BY <2>2 DEF ControlStep, Submit, CancelActs, CancelMisses, Pause, Resume,
                OperatorFails, OperatorRequeues, LeaseRunsOut, SlotInv, SlotTypes
  <2>3. QED
    BY <2>1, <2>2
<1>5. QED
  BY <1>2, <1>3, <1>4, NoWorkerAssumption DEF slotVars, SlotInv, SlotTypes

-----------------------------------------------------------------------------
(* The inductive invariant of the system.                                  *)
SystemInv == StoreInv /\ SlotInv

(* A slot's claim is the store's claim.                                    *)
LEMMA ClaimIsATransaction ==
  ASSUME NEW w \in Worker, NEW r \in Run, Claim(w, r) PROVE [Next]_storeVars
BY DEF Claim, WorkerCall, Next

(* The inductive step of the whole system.                                 *)
LEMMA SystemInvIsKept == ASSUME SystemInv, [WorkerNext]_workerVars PROVE SystemInv'
<1>1. [Next]_storeVars
  BY SystemStepsTheTable, ClaimIsATransaction, NotAClaimIsAStep DEF SystemInv
<1>2. StoreInv'
  BY <1>1, StoreInvIsKept DEF SystemInv
<1>3. SlotInv'
  <2>1. CASE UNCHANGED workerVars
    BY <2>1 DEF workerVars, storeVars, slotVars, SystemInv, SlotInv, SlotTypes
  <2>2. CASE WorkerNext
    BY <2>2, SlotStepsKeepSlots, ControlStepsKeepSlots DEF WorkerNext, SystemInv, StoreInv
  <2>3. QED
    BY <2>1, <2>2
<1>4. QED
  BY <1>2, <1>3 DEF SystemInv

(* The invariants of the table and of the slots hold together in every     *)
(* state of the system.                                                    *)
THEOREM SystemInvariant == WorkerSpec => []SystemInv
<1>1. WorkerInit => SystemInv
  BY StoreInvInitially, FaultsAssumption
     DEF WorkerInit, SystemInv, SlotInv, SlotTypes, Handling
<1>2. SystemInv /\ [WorkerNext]_workerVars => SystemInv'
  BY SystemInvIsKept
<1>3. QED
  BY <1>1, <1>2, PTL DEF WorkerSpec

(* The system keeps its types: slots, calls and rows hold only values that *)
(* the code knows.                                                         *)
THEOREM WorkerTypeCorrect == WorkerSpec => []WorkerTypeOK
<1>1. SystemInv => WorkerTypeOK
  BY DEF SystemInv, StoreInv, SlotInv, SlotTypes, WorkerTypeOK
<1>2. QED
  BY <1>1, SystemInvariant, PTL

(* The workers and the control plane touch the run table only through its  *)
(* transactions, so all that is proved of the table holds of the system.   *)
THEOREM WorkersUseTheStore == WorkerSpec => Spec
<1>1. WorkerInit => Init
  BY DEF WorkerInit
<1>2. SystemInv /\ [WorkerNext]_workerVars => [Next]_storeVars
  BY SystemStepsTheTable, ClaimIsATransaction, NotAClaimIsAStep DEF SystemInv
<1>3. QED
  BY <1>1, <1>2, SystemInvariant, PTL DEF WorkerSpec, Spec

(* The fencing of the store is enough for the workers: a slot whose run    *)
(* was claimed by another never appends to it, never ends it and never     *)
(* adds messages for it, however late it wakes up.                         *)
THEOREM Fencing == WorkerSpec => SupersededWritesNothing
<1>1. SystemInv /\ [WorkerNext]_workerVars
        => [\A w \in Worker : superseded[w] => ~DurableWrite(w)]_workerVars
  <2> SUFFICES ASSUME SystemInv, NEW w \in Worker, superseded[w], DurableWrite(w)
               PROVE  FALSE
    OBVIOUS
  <2>1. owner[job[w]] # w
    BY DEF SystemInv, SlotInv
  <2>2. Owns(job[w], w)
    BY NoWorkerAssumption
       DEF DurableWrite, Work, AppendEvent, ReportError, Emit, Terminalize, MarkPaused,
           MarkFailed, MarkCancelled, Abort, MayWrite, Complete, CompleteRun
  <2>3. QED
    BY <2>1, <2>2 DEF Owns
<1>2. QED
  BY <1>1, SystemInvariant, PTL DEF WorkerSpec, SupersededWritesNothing

(* In the composed system, too, a chat gets the messages of a run exactly  *)
(* when the run completes, and has one active message run at most.         *)
THEOREM SystemDeliversOnce == WorkerSpec => [](ExchangeIffCompleted /\ OneActiveRunPerChat)
BY WorkersUseTheStore, DeliveredOnce, OneActiveRun, PTL

-----------------------------------------------------------------------------
(* A paused deliberation.                                                  *)

(* A run whose log says that it paused is a deliberating run, and has its  *)
(* snapshot for as long as it is active.                                   *)
HasPaused(r) == \E i \in 1..Len(events[r]) : events[r][i] = "paused"

KeepsSnapshot(r) ==
  HasPaused(r) =>
    r \in Magi /\ status[r] # "absent" /\ (status[r] \in Active => snapshot[r])

(* A slot is about to pause its run only if the run deliberates.           *)
PausingSlot(w) == outcome[w] = "paused" => pc[w] \in Handling /\ job[w] \in Magi

PauseInv == (\A r \in Run : KeepsSnapshot(r)) /\ (\A w \in Worker : PausingSlot(w))

(* An event of another kind does not make a log one of a paused run.       *)
LEMMA OtherEventPausesNothing ==
  ASSUME NEW log \in Seq(EventKind), NEW k \in EventKind \ {"paused"},
         NEW i \in 1..Len(log \o <<k>>), (log \o <<k>>)[i] = "paused"
  PROVE  \E j \in 1..Len(log) : log[j] = "paused"
<1>1. Len(log \o <<k>>) = Len(log) + 1 /\ (log \o <<k>>)[Len(log) + 1] = k
  BY AppendOne
<1>2. \A j \in 1..Len(log) : (log \o <<k>>)[j] = log[j]
  BY AppendOne
<1>3. i # Len(log) + 1 /\ Len(log) \in Nat
  BY <1>1
<1>4. i \in 1..Len(log)
  BY <1>1, <1>3
<1>5. QED
  BY <1>2, <1>4

(* No request of the control plane pauses a run or drops the snapshot of   *)
(* an active one.                                                          *)
LEMMA ControlKeepsSnapshot ==
  ASSUME TypeOK, NEW r \in Run, RowInv(r), KeepsSnapshot(r), ControlCall(r)
  PROVE  KeepsSnapshot(r)'
<1> USE DEF SetStatus, Record, Active, Executing, Terminal, TypeOK
<1>0. events[r] \in Seq(EventKind)
  OBVIOUS
<1>1. CASE CreateRun(r)
  <2>1. events'[r] = events[r] /\ status[r] = "absent"
    BY <1>1 DEF CreateRun, Exists
  <2>2. QED
    BY <2>1 DEF HasPaused, KeepsSnapshot
<1>2. CASE RequestRunningCancel(r) \/ RequeueRun(r)
  BY <1>2 DEF RequestRunningCancel, RequeueRun, KeepsSnapshot, HasPaused
<1>3. CASE RequestPause(r)
  <2>1. events'[r] = events[r] \o <<"pause_requested">> /\ "pause_requested" \in EventKind
    BY <1>3 DEF RequestPause, EventKind
  <2>2. HasPaused(r)' => HasPaused(r)
    BY <1>0, <2>1, OtherEventPausesNothing DEF HasPaused
  <2>3. QED
    BY <1>3, <2>2 DEF RequestPause, KeepsSnapshot
<1>4. CASE CancelQueuedRun(r)
  <2>1. events'[r] = events[r] \o <<"cancelled">> /\ "cancelled" \in EventKind
    BY <1>4 DEF CancelQueuedRun, EventKind, TerminalEvent
  <2>2. HasPaused(r)' => HasPaused(r)
    BY <1>0, <2>1, OtherEventPausesNothing DEF HasPaused
  <2>3. QED
    BY <1>4, <2>2 DEF CancelQueuedRun, KeepsSnapshot
<1>5. ASSUME NEW withInput \in BOOLEAN, ResumePausedRun(r, withInput)
      PROVE  KeepsSnapshot(r)'
  <2>1. status'[r] = "queued" /\ snapshot'[r] = snapshot[r] /\ status[r] = "paused"
    BY <1>5 DEF ResumePausedRun
  <2>2. snapshot[r]
    BY <2>1 DEF RowInv, RowColumns
  <2>3. HasPaused(r)' => HasPaused(r)
    <3>1. CASE withInput
      <4> DEFINE log == events[r] \o <<"intervention">>
      <4>1. events'[r] = log \o <<"resumed">>
        BY <1>0, <1>5, <3>1 DEF ResumePausedRun
      <4>2. log \in Seq(EventKind) /\ {"intervention", "resumed"} \subseteq EventKind
        BY <1>0 DEF EventKind
      <4>3. HasPaused(r)' => \E j \in 1..Len(log) : log[j] = "paused"
        BY <4>1, <4>2, OtherEventPausesNothing DEF HasPaused
      <4>4. QED
        BY <1>0, <4>2, <4>3, OtherEventPausesNothing DEF HasPaused
    <3>2. CASE ~withInput
      <4>1. events'[r] = events[r] \o <<"resumed">> /\ "resumed" \in EventKind
        BY <1>5, <3>2 DEF ResumePausedRun, EventKind
      <4>2. QED
        BY <1>0, <4>1, OtherEventPausesNothing DEF HasPaused
    <3>3. QED
      BY <3>1, <3>2
  <2>4. QED
    BY <2>1, <2>2, <2>3 DEF KeepsSnapshot
<1>6. CASE MarkFailed(r, NoWorker) \/ MarkCancelled(r, NoWorker)
  <2>1. PICK k \in {"error", "cancelled"} : events'[r] = events[r] \o <<k>>
    BY <1>6 DEF MarkFailed, MarkCancelled, Abort
  <2>2. status'[r] \in {"failed", "cancelled"}
    BY <1>6 DEF MarkFailed, MarkCancelled, Abort
  <2>3. status[r] # "absent" /\ k \in EventKind \ {"paused"}
    BY <1>6 DEF MarkFailed, MarkCancelled, Abort, MayWrite, Exists, EventKind, TerminalEvent
  <2>4. HasPaused(r)' => HasPaused(r)
    BY <1>0, <2>1, <2>3, OtherEventPausesNothing DEF HasPaused
  <2>5. QED
    BY <2>2, <2>4 DEF KeepsSnapshot
<1>7. QED
  BY <1>1, <1>2, <1>3, <1>4, <1>5, <1>6 DEF ControlCall

(* No call of an owner does either, except the one that pauses the run and *)
(* saves its snapshot.                                                     *)
LEMMA OwnerKeepsSnapshot ==
  ASSUME TypeOK, NEW r \in Run, NEW w \in Worker, KeepsSnapshot(r),
         ClaimRun(r, w) \/ PlainCall(r, w) \/ (r \in Magi /\ MarkPaused(r, w))
  PROVE  KeepsSnapshot(r)'
<1> USE DEF SetStatus, Record, Active, Executing, Terminal, TypeOK
<1>0. events[r] \in Seq(EventKind)
  OBVIOUS
<1>1. CASE ClaimRun(r, w)
  BY <1>1 DEF ClaimRun, Claimable, KeepsSnapshot, HasPaused
<1>2. CASE Heartbeat(r, w)
  BY <1>2 DEF Heartbeat, KeepsSnapshot, HasPaused
<1>3. CASE AppendEvent(r, w)
  <2>1. events'[r] = events[r] \o <<"work">> /\ "work" \in EventKind
    BY <1>3 DEF AppendEvent, EventKind
  <2>2. HasPaused(r)' => HasPaused(r)
    BY <1>0, <2>1, OtherEventPausesNothing DEF HasPaused
  <2>3. QED
    BY <1>3, <2>2 DEF AppendEvent, rowVars, KeepsSnapshot
<1>4. CASE r \in Magi /\ MarkPaused(r, w)
  BY <1>4 DEF MarkPaused, KeepsSnapshot
<1>5. CASE MarkFailed(r, w) \/ MarkCancelled(r, w)
  <2>1. PICK k \in {"error", "cancelled"} : events'[r] = events[r] \o <<k>>
    BY <1>5 DEF MarkFailed, MarkCancelled, Abort
  <2>2. status'[r] \in {"failed", "cancelled"}
    BY <1>5 DEF MarkFailed, MarkCancelled, Abort
  <2>3. k \in EventKind \ {"paused"}
    BY DEF EventKind, TerminalEvent
  <2>4. HasPaused(r)' => HasPaused(r)
    BY <1>0, <2>1, <2>3, OtherEventPausesNothing DEF HasPaused
  <2>5. QED
    BY <2>2, <2>4 DEF KeepsSnapshot
<1>6. CASE CompleteRun(r, w)
  <2>1. events'[r] \in {events[r], events[r] \o <<"done">>, events[r] \o <<>>}
    BY <1>6 DEF CompleteRun
  <2>2. status'[r] = "completed" /\ events[r] \o <<>> = events[r]
    BY <1>6, <1>0 DEF CompleteRun
  <2>3. "done" \in EventKind
    BY DEF EventKind, TerminalEvent
  <2>4. HasPaused(r)' => HasPaused(r)
    <3>1. CASE events'[r] = events[r]
      BY <3>1 DEF HasPaused
    <3>2. CASE events'[r] = events[r] \o <<"done">>
      BY <1>0, <2>3, <3>2, OtherEventPausesNothing DEF HasPaused
    <3>3. QED
      BY <2>1, <2>2, <3>1, <3>2
  <2>5. QED
    BY <2>2, <2>4 DEF KeepsSnapshot
<1>7. QED
  BY <1>1, <1>2, <1>3, <1>4, <1>5, <1>6 DEF PlainCall

(* A row that nobody touched is as good as it was.                         *)
LEMMA SameRowKeepsSnapshot ==
  ASSUME NEW q \in Run, SameRow(q), KeepsSnapshot(q) PROVE KeepsSnapshot(q)'
BY DEF SameRow, KeepsSnapshot, HasPaused

(* The rows, through any step of the system.                               *)
LEMMA StepsKeepSnapshots ==
  ASSUME SystemInv, \A r \in Run : KeepsSnapshot(r),
         \/ PauseFree
         \/ \E w \in Worker, r \in Magi : MarkPaused(r, w)
         \/ \E w \in Worker, r \in Run : ClaimRun(r, w)
  PROVE  \A q \in Run : KeepsSnapshot(q)'
<1> USE DEF SystemInv, StoreInv
<1>1. CASE UNCHANGED storeVars
  BY <1>1 DEF storeVars, KeepsSnapshot, HasPaused
<1>2. ASSUME NEW r \in Run, NEW q \in Run,
             \/ ControlCall(r) \/ ExpireLease(r)
             \/ \E w \in Worker : \/ ClaimRun(r, w) \/ PlainCall(r, w)
                                \/ (r \in Magi /\ MarkPaused(r, w))
      PROVE  KeepsSnapshot(q)'
  <2>1. CASE q # r
    <3>1. SameRow(q)
      BY <1>2, <2>1, OtherRowsAreKept DEF PlainCall, WorkerCall
    <3>2. QED
      BY <3>1, SameRowKeepsSnapshot
  <2>2. CASE q = r /\ ControlCall(r)
    BY <2>2, ControlKeepsSnapshot
  <2>3. CASE ExpireLease(r)
    BY <2>3 DEF ExpireLease, KeepsSnapshot, HasPaused
  <2>4. ASSUME NEW w \in Worker, q = r,
               ClaimRun(r, w) \/ PlainCall(r, w) \/ (r \in Magi /\ MarkPaused(r, w))
        PROVE  KeepsSnapshot(q)'
    BY <2>4, OwnerKeepsSnapshot
  <2>5. QED
    BY <1>2, <2>1, <2>2, <2>3, <2>4
<1>3. QED
  BY <1>1, <1>2, MagiAssumption DEF PauseFree

(* The slots: the outcome "paused" is chosen at a checkpoint of a          *)
(* deliberation, and the slot keeps its run until it has left the handler. *)
LEMMA StepsKeepPausing ==
  ASSUME SystemInv, NEW t \in Worker, PausingSlot(t), [WorkerNext]_workerVars
  PROVE  PausingSlot(t)'
<1> USE DEF SystemInv, SlotInv, SlotTypes, Handling, PausingSlot
<1>1. CASE UNCHANGED slotVars
  BY <1>1 DEF slotVars
<1>2. ASSUME NEW w \in Worker, NEW r \in Run, Claim(w, r) PROVE PausingSlot(t)'
  BY <1>2 DEF Claim, Transition
<1>3. ASSUME NEW w \in Worker, SlotStep(w) PROVE PausingSlot(t)'
  <2>1. CASE BeginTurn(w) \/ RefuseTurn(w)
    BY <2>1 DEF BeginTurn, RefuseTurn, Transition
  <2>2. CASE ObserveCancel(w) \/ ObservePause(w)
    BY <2>2 DEF ObserveCancel, ObservePause, LeaveTurn, Transition
  <2>3. CASE RouterFails(w) \/ FinishTurn(w) \/ ReportError(w) \/ Flush(w)
    BY <2>3 DEF RouterFails, FinishTurn, ReportError, Flush, Transition
  <2>4. CASE \/ ErrorUnowned(w) \/ FlushRaises(w) \/ Complete(w) \/ CompleteRaises(w)
             \/ Terminalize(w) \/ TerminalizeRaises(w)
    BY <2>4 DEF ErrorUnowned, FlushRaises, Complete, CompleteRaises, Terminalize,
                TerminalizeRaises, Leave, Transition
  <2>5. QED
    BY <1>3, <2>1, <2>2, <2>3, <2>4 DEF SlotStep
<1>4. ASSUME NEW w \in Worker, NoticeLoss(w) \/ Crash(w) \/ Stop(w) \/ Restart(w)
      PROVE  PausingSlot(t)'
  BY <1>4 DEF NoticeLoss, Crash, Stop, Restart, Transition
<1>5. ASSUME NEW w \in Worker, Work(w) \/ QueueAutoName(w) \/ Beat(w) \/ Stall(w)
      PROVE  UNCHANGED slotVars
  BY <1>5 DEF Work, QueueAutoName, Beat, Stall
<1>6. ASSUME NEW r \in Run, ControlStep(r) PROVE UNCHANGED slotVars
  BY <1>6 DEF ControlStep, Submit, CancelReads, CancelActs, CancelMisses, Pause, Resume,
              OperatorFails, OperatorRequeues, LeaseRunsOut
<1>7. QED
  BY <1>1, <1>2, <1>3, <1>4, <1>5, <1>6 DEF WorkerNext, WorkerStep, workerVars, slotVars

(* No active run that has paused ever loses its snapshot, so whoever       *)
(* claims it resumes the deliberation or cancels it.                       *)
THEOREM PausedWorkGoesOn == WorkerSpec => PausedWorkIsKept
<1>1. WorkerInit => PauseInv
  BY DEF WorkerInit, Init, PauseInv, KeepsSnapshot, HasPaused, PausingSlot
<1>2. ASSUME SystemInv, PauseInv, [WorkerNext]_workerVars PROVE PauseInv'
  <2>1. \A q \in Run : KeepsSnapshot(q)'
    <3>1. \/ PauseFree
          \/ \E w \in Worker : outcome[w] = "paused" /\ MarkPaused(job[w], w)
          \/ \E w \in Worker, r \in Run : Claim(w, r)
      BY <1>2, SlotStepsWhilePausing, ControlStepsPauseNothing
         DEF SystemInv, WorkerNext, workerVars, PauseFree
    <3>2. \A w \in Worker : outcome[w] = "paused" => job[w] \in Magi
      BY <1>2 DEF PauseInv, PausingSlot
    <3>3. \A w \in Worker, r \in Run : Claim(w, r) => ClaimRun(r, w)
      BY DEF Claim
    <3>4. QED
      BY <1>2, <3>1, <3>2, <3>3, StepsKeepSnapshots DEF PauseInv
  <2>2. \A t \in Worker : PausingSlot(t)'
    BY <1>2, StepsKeepPausing DEF PauseInv
  <2>3. QED
    BY <2>1, <2>2 DEF PauseInv
<1>3. SystemInv /\ PauseInv /\ [WorkerNext]_workerVars
        => [\A w \in Worker, r \in Run :
              (Claim(w, r) /\ \E i \in 1..Len(events[r]) : events[r][i] = "paused")
                => plan'[w] \in {"resume", "cancel"}]_workerVars
  <2> SUFFICES ASSUME SystemInv, PauseInv, NEW w \in Worker, NEW r \in Run,
                      Claim(w, r), HasPaused(r)
               PROVE  plan'[w] \in {"resume", "cancel"}
    BY DEF HasPaused
  <2>1. status[r] \in Active
    BY DEF Claim, ClaimRun, Claimable, Active
  <2>2. snapshot[r] /\ r \in Magi
    BY <2>1 DEF PauseInv, KeepsSnapshot
  <2>3. PlanFor(r) \in {"resume", "cancel"}
    BY <2>2 DEF PlanFor
  <2>4. plan'[w] = PlanFor(r)
    BY DEF Claim, SystemInv, SlotInv, SlotTypes
  <2>5. QED
    BY <2>3, <2>4
<1>4. QED
  BY <1>1, <1>2, <1>3, SystemInvariant, PTL DEF WorkerSpec, PausedWorkIsKept
=============================================================================
