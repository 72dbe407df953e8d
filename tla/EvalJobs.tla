------------------------------ MODULE EvalJobs ------------------------------
(***************************************************************************)
(* The evaluation API's background jobs                                    *)
(* (eval-harness/Back-end/api/jobs.py, main.py, routes/) over the setup    *)
(* machine, the benchmark and the judge: a request is validated and waits  *)
(* for the scenario's lock; a cancel request renames a row; the process    *)
(* may die and start again.  A "design" job is the command line's          *)
(* verify-scenario: a process of its own that takes no lock.               *)
(***************************************************************************)
EXTENDS ScenarioSetup, BenchmarkRun, JudgeJob

CONSTANTS
  Requested,    \* bound: what is asked of each job, a set of kinds
  MaxFaults,    \* bound: cancel requests and deaths of the API's process
  Fragile,      \* parts of a job that the configuration may not build
  DesignAlone   \* bound: no job takes the lock while a design runs

(* What a job builds from the configuration file, which is read anew each  *)
(* time: a setup, a benchmark and the judge.  Building raises when an      *)
(* entry is missing, or of a kind nobody knows.                            *)
SetupParts == {"backend", "controller", "planner"}
BenchmarkParts == {"adapters", "user_proxy_llm"}
JudgeParts == {"judges"}

ASSUME BoundAssumption ==
  /\ Fragile \subseteq SetupParts \cup BenchmarkParts \cup JudgeParts
  /\ Requested \in [Job -> SUBSET {"design", "verify", "benchmark", "judge", "run_all"}]
  /\ MaxFaults \in Nat
  /\ DesignAlone \in BOOLEAN

VARIABLES
  job,       \* what each job is and where it stands
  faults,    \* cancel requests and crashes so far
  up         \* does the API's process run?

jobVars == <<job, faults, up>>
vars == <<storeVars, cloudVars, fsm, benchVars, judge, jobVars>>

Kind == {"none", "design", "verify", "benchmark", "judge", "run_all"}
Phase == {"none", "queued", "setup", "benchmark", "judge", "ended", "lost"}

JobTypeOK ==
  /\ job \in [Job -> [kind: Kind, phase: Phase,
                      revision: AnyRevision \cup {NoRevision},
                      over: Job \cup {NoJob}]]
  /\ faults \in 0..MaxFaults
  /\ up \in BOOLEAN

EvalTypeOK ==
  StoreTypeOK /\ FsmTypeOK /\ BenchTypeOK /\ JudgeTypeOK /\ JobTypeOK

Init ==
  /\ StoreInit /\ FsmInit /\ BenchInit /\ JudgeInit
  /\ job = [j \in Job |-> [kind |-> "none", phase |-> "none",
                           revision |-> NoRevision, over |-> NoJob]]
  /\ faults = 0 /\ up = TRUE

Holds(j) == job[j].phase \in {"setup", "benchmark", "judge"} /\ job[j].kind # "design"
LockIsFree == \A j \in Job : ~ Holds(j)

Enter(j, phase) == job' = [job EXCEPT ![j].phase = phase]

EnginesIdle == UNCHANGED <<storeVars, cloudVars, fsm, benchVars, judge>>
JobsIdle == UNCHANGED <<faults, up>>

-----------------------------------------------------------------------------
(* Requests: what the routes and the dispatch methods check at once.       *)

Request(j, kind, rev, over) ==
  /\ up
  /\ job[j].kind = "none"
  /\ kind \in Requested[j]
  /\ job' = [job EXCEPT ![j] = [kind |-> kind, phase |-> "queued",
                                revision |-> rev, over |-> over]]
  /\ EnginesIdle /\ JobsIdle

RequestVerify(j) == \E rev \in Revision : Request(j, "verify", rev, j)

RequestRunAll(j) == \E rev \in Revision : Request(j, "run_all", rev, j)

(* The revision is the scenario's last verified one; the setup run is the  *)
(* client's choice, and need not be a run of that revision.                *)
RequestBenchmark(j) ==
  /\ scenario[Stored].current # NoRevision
  /\ \E over \in Job :
       /\ setup[over].status = "verified"
       /\ Request(j, "benchmark", scenario[Stored].current, over)

(* Any benchmark run may be judged, in whatever state it is.               *)
RequestJudge(j) ==
  \E over \in Job :
    /\ benchmark[over].status # "none"
    /\ Request(j, "judge", benchmark[over].revision, over)

Designing(j) == job[j].kind = "design" /\ job[j].phase = "setup"

RunDesign(j) ==
  /\ job[j].kind = "none"
  /\ "design" \in Requested[j]
  /\ DesignAlone => \A k \in Job : ~ Holds(k)
  /\ job' = [job EXCEPT ![j] = [kind |-> "design", phase |-> "setup",
                                revision |-> NoRevision, over |-> j]]
  /\ StartDesign(j)
  /\ UNCHANGED <<benchVars, judge>> /\ JobsIdle

(* Its planner, backend or controller cannot be built: no row is written.  *)
DesignNotBuilt(j) ==
  /\ job[j].kind = "none"
  /\ "design" \in Requested[j]
  /\ Fragile \cap SetupParts # {}
  /\ job' = [job EXCEPT ![j] = [kind |-> "design", phase |-> "ended",
                                revision |-> NoRevision, over |-> j]]
  /\ EnginesIdle /\ JobsIdle

-----------------------------------------------------------------------------
(* The job behind the lock.                                                *)

(* What the first phase of a job calls.                                    *)
Begin(j) ==
  /\ up
  /\ job[j].phase = "queued"
  /\ \/ /\ job[j].kind \in {"verify", "run_all"}
        /\ Enter(j, "setup")
        /\ StartExisting(j, job[j].revision)
        /\ UNCHANGED <<benchVars, judge>>
     \/ /\ job[j].kind = "benchmark"
        /\ Enter(j, "benchmark")
        /\ StartBenchmark(j, job[j].revision, job[j].over)
        /\ UNCHANGED <<fsm, judge>>
     \/ /\ job[j].kind = "judge"
        /\ Enter(j, "judge")
        /\ StartJudge(j)
        /\ UNCHANGED <<fsm, benchVars>>
  /\ JobsIdle

(* What it builds first, before any engine; run_all builds its judges when *)
(* the benchmark is done.                                                  *)
PartsOf(kind) ==
  CASE kind = "verify"    -> SetupParts
    [] kind = "run_all"   -> SetupParts \cup BenchmarkParts
    [] kind = "benchmark" -> (SetupParts \ {"planner"}) \cup BenchmarkParts
    [] kind = "judge"     -> JudgeParts

(* A part cannot be built: the job raises before it has written anything.  *)
BuildFails(j) ==
  /\ up
  /\ job[j].phase = "queued"
  /\ LockIsFree
  /\ Fragile \cap PartsOf(job[j].kind) # {}
  /\ Enter(j, "ended")
  /\ EnginesIdle /\ JobsIdle

JudgesFail(j) ==
  /\ job[j].phase = "benchmark"
  /\ job[j].kind = "run_all" /\ bench[j].at = "done"
  /\ Fragile \cap JudgeParts # {}
  /\ Enter(j, "ended")
  /\ EnginesIdle /\ JobsIdle

Acquire(j) ==
  /\ LockIsFree
  /\ DesignAlone => ~ \E k \in Job : Designing(k)
  /\ Begin(j)

StepSetup(j) ==
  /\ job[j].phase = "setup"
  /\ SetupStep(j)
  /\ UNCHANGED <<benchVars, judge, jobVars>>

(* A setup that failed raises, and the chain of a run_all stops there.     *)
LeaveSetup(j) ==
  /\ job[j].phase = "setup"
  /\ fsm[j].at = "ended"
  /\ IF job[j].kind = "run_all" /\ fsm[j].ok
     THEN /\ Enter(j, "benchmark")
          /\ StartBenchmark(j, fsm[j].revision, j)
          /\ UNCHANGED <<fsm, judge>>
     ELSE Enter(j, "ended") /\ EnginesIdle
  /\ JobsIdle

StepBenchmark(j) ==
  /\ job[j].phase = "benchmark"
  /\ BenchStep(j)
  /\ UNCHANGED <<fsm, judge, jobVars>>

(* The threads of a benchmark are not waited for once one has failed.      *)
StepThread(j, s) ==
  /\ ThreadStep(j, s)
  /\ UNCHANGED <<fsm, judge, jobVars>>

LeaveBenchmark(j) ==
  /\ job[j].phase = "benchmark"
  /\ bench[j].at \in {"done", "raised"}
  /\ IF job[j].kind = "run_all" /\ bench[j].at = "done"
     THEN /\ Enter(j, "judge")
          /\ StartJudge(j)
          /\ UNCHANGED <<fsm, benchVars>>
     ELSE Enter(j, "ended") /\ EnginesIdle
  /\ JobsIdle

StepJudge(j) ==
  /\ job[j].phase = "judge"
  /\ JudgeStep(j, job[j].over)
  /\ UNCHANGED <<fsm, benchVars, jobVars>>

LeaveJudge(j) ==
  /\ job[j].phase = "judge"
  /\ judge[j].at = "ended"
  /\ Enter(j, "ended")
  /\ EnginesIdle /\ JobsIdle

-----------------------------------------------------------------------------
(* Cancel, crash and restart.                                              *)

(* cancel_run writes the one column, over whatever it holds; nothing reads *)
(* it back to stop the job.                                                *)
Cancel ==
  /\ up
  /\ faults < MaxFaults
  /\ faults' = faults + 1
  /\ \E j \in Job :
       \/ /\ setup[j].status # "none"
          /\ WriteSetup(j, "cancelled")
          /\ UNCHANGED <<benchmark, evaluation>>
       \/ /\ benchmark[j].status # "none"
          /\ WriteBenchmark(j, "cancelled")
          /\ UNCHANGED <<setup, evaluation>>
       \/ /\ \E s \in EvaluationRuns(j) :
               evaluation' = [evaluation EXCEPT ![j][s].status = "cancelled"]
          /\ UNCHANGED <<setup, benchmark>>
  /\ UNCHANGED <<scenario, judgement, cloudVars, fsm, benchVars, judge, job, up>>

(* The process dies: its jobs and threads are gone, what they had written  *)
(* and rented stays.  A design runs elsewhere.                             *)
Crash ==
  /\ up
  /\ faults < MaxFaults
  /\ up' = FALSE
  /\ faults' = faults + 1
  /\ fsm' = [j \in Job |-> IF Holds(j) /\ fsm[j].at # "idle"
                           THEN FsmRecord("ended") ELSE fsm[j]]
  /\ LoseThreads /\ LoseJudges
  /\ job' = [j \in Job |-> IF Holds(j) \/ job[j].phase = "queued"
                           THEN [job[j] EXCEPT !.phase = "lost"] ELSE job[j]]
  /\ UNCHANGED <<storeVars, cloudVars>>

Orphaned(st) == st \in {"pending", "running"}

(* _lifespan marks the rows that the dead process left running, and those  *)
(* of a design that still runs.                                            *)
Restart ==
  /\ ~ up
  /\ up' = TRUE
  /\ setup' = [j \in Job |-> IF Orphaned(setup[j].status)
                             THEN [setup[j] EXCEPT !.status = "failed"] ELSE setup[j]]
  /\ benchmark' = [j \in Job |->
       IF Orphaned(benchmark[j].status)
       THEN [benchmark[j] EXCEPT !.status = "interrupted"] ELSE benchmark[j]]
  /\ evaluation' = [j \in Job |-> [s \in Subject |->
       IF Orphaned(evaluation[j][s].status)
       THEN [evaluation[j][s] EXCEPT !.status = "interrupted"] ELSE evaluation[j][s]]]
  /\ UNCHANGED <<scenario, judgement, cloudVars, fsm, benchVars, judge, job,
                 faults>>

(* The provider finishes an image; a machine comes up late.                *)
Provider ==
  /\ \E j \in Job : ImageBuilt(j) \/ \E s \in Subject : MachineSettles(j, s)
  /\ UNCHANGED <<fsm, benchVars, judge, jobVars>>

Stopped ==
  /\ up
  /\ \A j \in Job : job[j].phase \in {"none", "ended", "lost"}
  /\ \A j \in Job, s \in Subject : thread[j][s].at \in {"none"} \cup Over
  /\ UNCHANGED vars

(* A step of a job's own thread.                                           *)
Work(j) ==
  \/ Acquire(j) \/ BuildFails(j) \/ JudgesFail(j)
  \/ StepSetup(j) \/ LeaveSetup(j)
  \/ StepBenchmark(j) \/ LeaveBenchmark(j)
  \/ StepJudge(j) \/ LeaveJudge(j)

Next ==
  \/ \E j \in Job :
       \/ RequestVerify(j) \/ RequestRunAll(j) \/ RequestBenchmark(j)
       \/ RequestJudge(j) \/ RunDesign(j) \/ DesignNotBuilt(j) \/ Work(j)
       \/ \E s \in Subject : StepThread(j, s)
  \/ Cancel \/ Crash \/ Restart \/ Provider \/ Stopped

(* The threads run: what a job or a subject's thread can do, it does at    *)
(* last, and a dead process is started again.  The calls they make have    *)
(* timeouts, but for one: a launch may have to build the golden image, and *)
(* the output of that build is read to its end before its time is counted. *)
Launching(j) == job[j].phase = "setup" /\ fsm[j].at = "launch"

Fairness ==
  /\ \A j \in Job :
       /\ WF_vars(~ Launching(j) /\ Work(j))
       /\ \A s \in Subject : WF_vars(StepThread(j, s))
  /\ WF_vars(Restart)

Spec == Init /\ [][Next]_vars /\ Fairness

-----------------------------------------------------------------------------
(* Properties.                                                             *)

(* A setup run that says "verified" has an image that can be cloned, taken *)
(* of a machine whose last probes the planner approved: after every        *)
(* correction, after a scrap, and whatever a cancel request wrote.         *)
VerifiedMeansImaged ==
  \A j \in Job :
    setup[j].status = "verified" => ami[j] = [state |-> "available", of |-> "approved"]

(* Nothing is rented that no one means to give back: an instance is up     *)
(* only while the machine or the thread that destroys it still has it, or  *)
(* after that has been tried and the provider kept it, which fails the job *)
(* that tried.  The code leaks in three cases: the process dies, no        *)
(* adapter serves the subject, the subject is still in the queue of an     *)
(* executor that is shut down.                                             *)
ServesClone(j, s) ==
  bench[j].at = "submit" \/ thread[j][s].at \notin {"none"} \cup Over

ForsakesClone(j, s) ==
  bench[j].at = "lost" \/ thread[j][s].at \in {"lost", "refused", "cancelled"}

InstancesAreHeld ==
  \A j \in Job :
    /\ staging[j] \notin {"none", "gone", "kept"} =>
         fsm[j].at \notin {"idle", "design", "launch", "ended"} \/ job[j].phase = "lost"
    /\ staging[j] = "kept" => ~ fsm[j].ok
    /\ \A s \in Subject :
         /\ clone[j][s] \in {"broken", "repaired"} =>
              ServesClone(j, s) \/ ForsakesClone(j, s)
         /\ clone[j][s] = "kept" => bench[j].at # "done"

(* A benchmark that was settled as completed repaired the machine of every *)
(* subject, and when any benchmark's own thread is through, no evaluation  *)
(* of it is left open, though the threads may still run.                   *)
SettledBenchmarkIsClosed ==
  \A j \in Job :
    /\ benchmark[j].status = "completed" =>
         \A s \in 1..SubjectsOf[j] :
           evaluation[j][s].repaired /\ clone[j][s] = "gone"
    /\ bench[j].at \in {"done", "raised"} =>
         \A s \in EvaluationRuns(j) : evaluation[j][s].finished

(* Every request that was accepted ends, unless the process dies: repairs, *)
(* turns and waits are bounded and the lock is given back on every path.   *)
(* It is not where a launch builds an image without an end, or a benchmark *)
(* waits for a subject whose user is in a turn of calls that all fail.     *)
InEndlessTurn(j) ==
  /\ bench[j].at = "await"
  /\ thread[j][bench[j].next].at \in {"proxy", "calling"}

EveryJobEnds ==
  \/ \A j \in Job : (job[j].kind # "none") ~> (job[j].phase \in {"ended", "lost"})
  \/ \E j \in Job : <>[]Launching(j) \/ <>[]InEndlessTurn(j)

=============================================================================
