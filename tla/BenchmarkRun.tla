---------------------------- MODULE BenchmarkRun ----------------------------
(***************************************************************************)
(* BenchmarkRunOrchestrator                                                *)
(* (eval-harness/Back-end/eval_harness/orchestration/benchmark.py): one    *)
(* clone of the broken image per subject, one thread per clone, and the    *)
(* thread of the job that waits for them in order.                         *)
(*                                                                         *)
(* A subject's thread talks to its subject turn by turn; a simulated user  *)
(* types at the clone and answers (UserProxy has the turn itself: here it  *)
(* is what a turn may lead to).  The repair checks look at the clone.      *)
(***************************************************************************)
EXTENDS EvalStore, FiniteSetsExt

CONSTANTS
  MaxTurns,    \* the smaller of the scenario's and the subject's turn budgets
  StallLimit   \* _PROXY_STALL_LIMIT

ASSUME TurnAssumption == MaxTurns \in Nat \ {0} /\ StallLimit \in Nat \ {0}

VARIABLES
  bench,   \* the job's own thread
  thread   \* the threads of its executor

benchVars == <<bench, thread>>

BenchState == {"idle", "launch", "submit", "await", "settle", "list", "mark",
               "interrupt", "done", "raised", "lost"}

ThreadState == {"none", "queued", "probe", "message", "check", "proxy",
                "calling", "recheck", "told", "closing", "spent", "abort",
                "destroy", "ok", "raised", "refused", "cancelled", "lost"}

Over == {"ok", "raised", "refused", "cancelled", "lost"}

BenchTypeOK ==
  /\ bench \in [Job -> [at: BenchState, next: 1..SubjectCount + 1,
                        open: SUBSET Subject]]
  /\ thread \in [Job -> [Subject ->
       [at: ThreadState, turn: 0..MaxTurns, stalls: 0..StallLimit,
        failing: BOOLEAN]]]

(* A thread's locals end with it.                                          *)
ThreadRecord(st) == [at |-> st, turn |-> 0, stalls |-> 0, failing |-> FALSE]

BenchInit ==
  /\ bench = [j \in Job |-> [at |-> "idle", next |-> 1, open |-> {}]]
  /\ thread = [j \in Job |-> [s \in Subject |-> ThreadRecord("none")]]

BenchAt(j, st) == bench' = [bench EXCEPT ![j].at = st]
ThreadAt(j, s, st) == thread' = [thread EXCEPT ![j][s].at = st]

untouchedStore == <<scenario, setup, judgement, staging, ami>>

-----------------------------------------------------------------------------
(* The job's thread.                                                       *)

Benchmarkable(over) ==
  /\ setup[over].status = "verified"
  /\ setup[over].image

(* run() reads the setup run again; a request that was valid when it was   *)
(* accepted may raise here.                                                *)
StartBenchmark(j, rev, over) ==
  /\ bench[j].at = "idle"
  /\ IF Benchmarkable(over)
     THEN CreateBenchmarkRun(j, rev, over) /\ BenchAt(j, "launch")
     ELSE BenchAt(j, "raised") /\ UNCHANGED benchmark
  /\ UNCHANGED <<untouchedStore, evaluation, clone, thread>>

(* launch_subject_clones: all of them.                                     *)
LaunchClones(j) ==
  /\ bench[j].at = "launch"
  /\ ami[benchmark[j].of].state = "available"
  /\ clone' = [clone EXCEPT ![j] =
                 [s \in Subject |-> IF s <= SubjectsOf[j] THEN "broken" ELSE @[s]]]
  /\ BenchAt(j, "submit")
  /\ UNCHANGED <<storeVars, staging, ami, thread>>

(* One launch fails, and the rollback destroys those before it as well as  *)
(* it can: a failure to do so is reported and forgotten.                   *)
LaunchFails(j) ==
  /\ bench[j].at = "launch"
  /\ WriteBenchmark(j, "interrupted")
  /\ BenchAt(j, "raised")
  /\ \E left \in SUBSET (1..(SubjectsOf[j] - 1)) :
       clone' = [clone EXCEPT ![j] =
                   [s \in Subject |-> IF s \in left THEN "kept" ELSE clone[j][s]]]
  /\ UNCHANGED <<untouchedStore, evaluation, thread>>

Submit(j) ==
  LET s == bench[j].next
  IN  /\ bench[j].at = "submit"
      /\ CreateEvaluationRun(j, s)
      /\ ThreadAt(j, s, "queued")
      /\ bench' = [bench EXCEPT ![j] =
           IF s = SubjectsOf[j] THEN [@ EXCEPT !.at = "await", !.next = 1]
                               ELSE [@ EXCEPT !.next = s + 1]]
      /\ UNCHANGED <<untouchedStore, benchmark, clone>>

(* Faulty: the failures of the threads after the first are not collected.  *)
AwaitFirst(j) ==
  /\ bench[j].at = "await"
  /\ thread[j][1].at \in {"ok", "raised", "refused"}
  /\ BenchAt(j, IF thread[j][1].at = "ok" THEN "settle" ELSE "list")
  /\ UNCHANGED <<storeVars, cloudVars, thread>>

(* The futures are collected in order; the first failure ends the waiting, *)
(* and after the last success the run is settled by what its rows say.     *)
Await(j) ==
  LET s == bench[j].next
  IN  /\ bench[j].at = "await"
      /\ \/ /\ thread[j][s].at \in {"raised", "refused"}
            /\ bench' = [bench EXCEPT ![j].at = "list", ![j].next = 1]
         \/ /\ thread[j][s].at = "ok"
            /\ s < SubjectsOf[j]
            /\ bench' = [bench EXCEPT ![j].next = s + 1]
         \/ /\ thread[j][s].at = "ok"
            /\ s = SubjectsOf[j]
            /\ bench' = [bench EXCEPT ![j].at = "settle", ![j].next = 1]
      /\ UNCHANGED <<storeVars, cloudVars, thread>>

Settle(j) ==
  /\ bench[j].at = "settle"
  /\ WriteBenchmark(j, SummaryStatus(j))
  /\ BenchAt(j, "done")
  /\ UNCHANGED <<untouchedStore, evaluation, clone, thread>>

(* An interrupted run: the rows are read once and then failed one by one,  *)
(* while the threads behind the failed one go on.                          *)
ListOpen(j) ==
  /\ bench[j].at = "list"
  /\ bench' = [bench EXCEPT ![j].at = "mark",
        ![j].open = {s \in EvaluationRuns(j) : ~ evaluation[j][s].finished}]
  /\ UNCHANGED <<storeVars, cloudVars, thread>>

MarkOpen(j) ==
  /\ bench[j].at = "mark"
  /\ bench[j].open # {}
  /\ LET s == Min(bench[j].open)
     IN  /\ FinishEvaluation(j, s, "failed", FALSE)
         /\ bench' = [bench EXCEPT ![j].open = @ \ {s}]
  /\ UNCHANGED <<untouchedStore, benchmark, clone, thread>>

(* The executor is shut down: a subject that is still in its queue is      *)
(* cancelled and never gets to its finally clause; whether one that has    *)
(* done nothing yet is in the queue, only the scheduler knows.             *)
Interrupt(j) ==
  /\ bench[j].at = "mark"
  /\ bench[j].open = {}
  /\ WriteBenchmark(j, "interrupted")
  /\ BenchAt(j, "raised")
  /\ \E dropped \in SUBSET {s \in Subject : thread[j][s].at = "queued"} :
       thread' = [thread EXCEPT ![j] =
         [s \in Subject |-> IF s \in dropped THEN ThreadRecord("cancelled")
                                             ELSE thread[j][s]]]
  /\ UNCHANGED <<untouchedStore, evaluation, clone>>

BenchStep(j) ==
  \/ LaunchClones(j) \/ LaunchFails(j) \/ Submit(j) \/ Await(j)
  \/ Settle(j) \/ ListOpen(j) \/ MarkOpen(j) \/ Interrupt(j)

-----------------------------------------------------------------------------
(* A subject's thread: _run_subject.                                       *)

StayInStore == UNCHANGED <<storeVars, staging, ami, bench>>

(* No adapter is registered for the subject's type: the lookup is before   *)
(* the try block, so that nothing records the failure or frees the clone.  *)
RefuseSubject(j, s) ==
  /\ thread[j][s].at = "queued"
  /\ ThreadAt(j, s, "refused")
  /\ StayInStore /\ UNCHANGED clone

Boot(j, s) ==
  /\ thread[j][s].at = "queued"
  /\ ThreadAt(j, s, "probe")
  /\ StayInStore /\ UNCHANGED clone

(* A write of the final status from inside the try block: finally follows. *)
Conclude(j, s, st, repair) ==
  /\ FinishEvaluation(j, s, st, repair)
  /\ thread' = [thread EXCEPT ![j][s] =
       [ThreadRecord("destroy") EXCEPT !.failing = thread[j][s].failing]]
  /\ UNCHANGED <<untouchedStore, benchmark, bench, clone>>

(* The clone must still show what the scenario promises.                   *)
FidelityFails(j, s) ==
  /\ thread[j][s].at = "probe"
  /\ Conclude(j, s, "failed", FALSE)

(* It does: a session with the subject, and the first message with the     *)
(* diagnostics.                                                            *)
OpenSession(j, s) ==
  /\ thread[j][s].at = "probe"
  /\ ThreadAt(j, s, "message")
  /\ StayInStore /\ UNCHANGED clone

(* A message goes to the subject and its answer comes back.                *)
SubjectReplies(j, s) ==
  /\ thread[j][s].at = "message"
  /\ ThreadAt(j, s, "check")
  /\ StayInStore /\ UNCHANGED clone

RepairChecksPass(j, s) == clone[j][s] = "repaired"

(* The end of a turn: the loop goes on while its budget lasts.             *)
TakeTurn(j, s, stalls) ==
  LET next == thread[j][s].turn + 1
  IN  thread' = [thread EXCEPT ![j][s].turn = next, ![j][s].stalls = stalls,
                   ![j][s].at = IF next < MaxTurns THEN "message" ELSE "spent"]

CheckPasses(j, s) ==
  /\ thread[j][s].at \in {"check", "recheck", "closing"}
  /\ RepairChecksPass(j, s)
  /\ Conclude(j, s, "completed", TRUE)

(* After the reply the user takes over; after the user's commands its      *)
(* words count; after words that sound final the next turn begins.         *)
CheckFails(j, s) ==
  /\ ~ RepairChecksPass(j, s)
  /\ \/ thread[j][s].at = "check" /\ ThreadAt(j, s, "proxy")
     \/ thread[j][s].at = "recheck" /\ ThreadAt(j, s, "told")
     \/ thread[j][s].at = "closing" /\ TakeTurn(j, s, 0)
  /\ StayInStore /\ UNCHANGED clone

(* The user's turn: its model is asked, and asks for calls of its tools.   *)
ProxyAsks(j, s) ==
  /\ thread[j][s].at = "proxy"
  /\ ThreadAt(j, s, "calling")
  /\ StayInStore /\ UNCHANGED clone

(* They all fail and the model is asked again: only a call that returned   *)
(* counts towards the cap of the turn.                                     *)
ProxyCallsFail(j, s) ==
  /\ thread[j][s].at = "calling"
  /\ ThreadAt(j, s, "proxy")
  /\ StayInStore /\ UNCHANGED clone

(* Calls that return, up to the cap, and a reply: commands that change the *)
(* machine are checked at once.  Or a reply without a call.                *)
ProxyTurn(j, s) ==
  /\ \/ /\ thread[j][s].at = "calling"
        /\ ThreadAt(j, s, "recheck")
        /\ \E c \in {"broken", "repaired"} : clone' = [clone EXCEPT ![j][s] = c]
     \/ /\ thread[j][s].at \in {"proxy", "calling"}
        /\ ThreadAt(j, s, "told")
        /\ UNCHANGED clone
  /\ StayInStore

(* What the user did may show only later.                                  *)
MachineSettles(j, s) ==
  /\ clone[j][s] = "broken"
  /\ thread[j][s].at \in {"message", "told"}
  /\ clone' = [clone EXCEPT ![j][s] = "repaired"]
  /\ StayInStore /\ UNCHANGED thread

(* Neither stalled nor done: the next message.                             *)
Continue(j, s) ==
  /\ thread[j][s].at = "told"
  /\ TakeTurn(j, s, 0)
  /\ StayInStore /\ UNCHANGED clone

Stall(j, s) ==
  /\ thread[j][s].at = "told"
  /\ thread[j][s].stalls + 1 < StallLimit
  /\ TakeTurn(j, s, thread[j][s].stalls + 1)
  /\ StayInStore /\ UNCHANGED clone

StallOut(j, s) ==
  /\ thread[j][s].at = "told"
  /\ thread[j][s].stalls + 1 >= StallLimit
  /\ Conclude(j, s, "failed", FALSE)

(* The user says goodbye: the repair is checked once more.                 *)
ClosingWords(j, s) ==
  /\ thread[j][s].at = "told"
  /\ ThreadAt(j, s, "closing")
  /\ StayInStore /\ UNCHANGED clone

Exhaust(j, s) ==
  /\ thread[j][s].at = "spent"
  /\ Conclude(j, s, "failed", FALSE)

MayRaiseInThread == {"queued", "probe", "message", "check",
                     "proxy", "calling", "recheck", "closing", "spent"}

(* The except clause aborts the session, then writes, then raises again.   *)
ThreadRaises(j, s) ==
  /\ thread[j][s].at \in MayRaiseInThread
  /\ thread' = [thread EXCEPT ![j][s].at = "abort", ![j][s].failing = TRUE]
  /\ StayInStore /\ UNCHANGED clone

Abort(j, s) ==
  /\ thread[j][s].at = "abort"
  /\ Conclude(j, s, "failed", FALSE)

(* The finally clause.  The provider may refuse to terminate the instance, *)
(* and waiting for its end can time out: then a thread that has finished   *)
(* its work fails.                                                         *)
DestroyClone(j, s) ==
  /\ thread[j][s].at = "destroy"
  /\ \/ /\ ~ thread[j][s].failing
        /\ clone' = [clone EXCEPT ![j][s] = "gone"]
        /\ thread' = [thread EXCEPT ![j][s] = ThreadRecord("ok")]
     \/ /\ \E left \in {"gone", "kept"} : clone' = [clone EXCEPT ![j][s] = left]
        /\ thread' = [thread EXCEPT ![j][s] = ThreadRecord("raised")]
  /\ StayInStore

ThreadStep(j, s) ==
  \/ RefuseSubject(j, s) \/ Boot(j, s)
  \/ FidelityFails(j, s) \/ OpenSession(j, s)
  \/ SubjectReplies(j, s) \/ CheckPasses(j, s) \/ CheckFails(j, s)
  \/ ProxyAsks(j, s) \/ ProxyCallsFail(j, s) \/ ProxyTurn(j, s) \/ Continue(j, s)
  \/ Stall(j, s) \/ StallOut(j, s) \/ ClosingWords(j, s) \/ Exhaust(j, s)
  \/ ThreadRaises(j, s) \/ Abort(j, s) \/ DestroyClone(j, s)

(* The process dies with its threads; what they rented stays up.           *)
LoseThreads ==
  /\ bench' = [j \in Job |->
       IF bench[j].at \in {"idle", "done", "raised"} THEN bench[j]
       ELSE [at |-> "lost", next |-> 1, open |-> {}]]
  /\ thread' = [j \in Job |-> [s \in Subject |->
       IF thread[j][s].at \in {"none"} \cup Over THEN thread[j][s]
       ELSE ThreadRecord("lost")]]

=============================================================================
