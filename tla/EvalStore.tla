------------------------------ MODULE EvalStore ------------------------------
(***************************************************************************)
(* The tables of the evaluation harness                                    *)
(* (eval-harness/Back-end/eval_harness/persistence/store.py) and the       *)
(* machines its jobs rent.  A row is keyed by the job that creates it: a   *)
(* job makes at most one setup run, one benchmark run with an evaluation   *)
(* run per subject, and one judge job.                                     *)
(*                                                                         *)
(* Every store method is one transaction and writes the status it is given *)
(* over whatever status the row has: an operator below is one method.      *)
(***************************************************************************)
EXTENDS Naturals, FiniteSets

CONSTANTS
  Job,            \* what clients dispatch and operators run, each at most once
  Stored,         \* the scenario the API's jobs are about
  Revision,       \* its stored revisions
  NoRevision,
  NoJob,
  SubjectCount,   \* active benchmark subjects, in the order of their names
  SubjectsOf,     \* how many of them, from the first, each job asks for
  ScrapBudget,    \* fresh attempts a design may make after the first
  MaxCorrections  \* rounds of repair of one attempt

ASSUME BudgetAssumption ==
  /\ SubjectCount \in Nat \ {0}
  /\ SubjectsOf \in [Job -> 1..SubjectCount]
  /\ ScrapBudget \in Nat
  /\ MaxCorrections \in Nat

Subject == 1..SubjectCount
Drafted == Job \X (1..ScrapBudget + 1)
AnyRevision == Revision \cup Drafted
Scenario == {Stored} \cup Drafted

VARIABLES
  scenario,    \* lifecycle and current verified revision of each scenario
  setup,       \* setup runs
  benchmark,   \* benchmark runs
  evaluation,  \* evaluation runs, one per subject of a benchmark run
  judgement,   \* judge jobs
  staging,     \* the staging instance of a setup: what happened to it so far;
               \* "kept": the provider was asked in vain to take it back
  ami,         \* the broken image a setup asks for, and of what machine
  clone        \* the clone a subject works on

storeVars == <<scenario, setup, benchmark, evaluation, judgement>>
cloudVars == <<staging, ami, clone>>

SetupStatus == {"running", "creating_broken_image", "verified",
                "failed_max_corrections", "failed_infra", "failed", "cancelled"}
BenchmarkStatus == {"running", "completed", "completed_with_failures",
                    "interrupted", "cancelled"}
EvaluationStatus == {"running", "completed", "failed", "interrupted", "cancelled"}

StoreTypeOK ==
  /\ scenario \in [Scenario ->
       [life: {"none", "draft", "verified", "failed_setup"},
        current: AnyRevision \cup {NoRevision}]]
  /\ setup \in [Job -> [status: SetupStatus \cup {"none"},
                        revision: AnyRevision \cup {NoRevision}, image: BOOLEAN]]
  /\ benchmark \in [Job -> [status: BenchmarkStatus \cup {"none"},
                            revision: Revision \cup {NoRevision},
                            of: Job \cup {NoJob}]]
  /\ evaluation \in [Job -> [Subject ->
       [status: EvaluationStatus \cup {"none"}, repaired: BOOLEAN,
        finished: BOOLEAN]]]
  /\ judgement \in [Job -> {"none", "queued", "running", "completed", "failed"}]
  /\ staging \in [Job -> {"none", "fresh", "changed", "probed", "approved", "gone",
                         "kept"}]
  /\ ami \in [Job -> [state: {"none", "pending", "available", "gone"},
                      of: {"none", "fresh", "changed", "probed", "approved"}]]
  /\ clone \in [Job -> [Subject -> {"none", "broken", "repaired", "gone", "kept"}]]

StoreInit ==
  /\ scenario = [x \in Scenario |->
       [life |-> IF x = Stored THEN "draft" ELSE "none", current |-> NoRevision]]
  /\ setup = [j \in Job |-> [status |-> "none", revision |-> NoRevision, image |-> FALSE]]
  /\ benchmark = [j \in Job |-> [status |-> "none", revision |-> NoRevision, of |-> NoJob]]
  /\ evaluation = [j \in Job |-> [s \in Subject |->
       [status |-> "none", repaired |-> FALSE, finished |-> FALSE]]]
  /\ judgement = [j \in Job |-> "none"]
  /\ staging = [j \in Job |-> "none"]
  /\ ami = [j \in Job |-> [state |-> "none", of |-> "none"]]
  /\ clone = [j \in Job |-> [s \in Subject |-> "none"]]

-----------------------------------------------------------------------------
(* Scenarios and revisions: a drafted scenario has one revision.           *)

ScenarioOf(rev) == IF rev \in Revision THEN Stored ELSE rev

CreateScenario(rev) == scenario' = [scenario EXCEPT ![rev].life = "draft"]

FailScenario(rev) ==
  scenario' = [scenario EXCEPT ![ScenarioOf(rev)].life = "failed_setup"]

MarkScenarioVerified(rev) ==
  scenario' = [scenario EXCEPT ![ScenarioOf(rev)] =
                 [life |-> "verified", current |-> rev]]

-----------------------------------------------------------------------------
(* Setup runs.                                                             *)

CreateSetupRun(j, rev) ==
  setup' = [setup EXCEPT ![j] =
              [status |-> "running", revision |-> rev, image |-> FALSE]]

WriteSetup(j, st) == setup' = [setup EXCEPT ![j].status = st]

WriteSetupImage(j, st) ==
  setup' = [setup EXCEPT ![j].status = st, ![j].image = TRUE]

-----------------------------------------------------------------------------
(* Benchmark and evaluation runs.                                          *)

CreateBenchmarkRun(j, rev, over) ==
  benchmark' = [benchmark EXCEPT ![j] =
                  [status |-> "running", revision |-> rev, of |-> over]]

WriteBenchmark(j, st) == benchmark' = [benchmark EXCEPT ![j].status = st]

CreateEvaluationRun(j, s) ==
  evaluation' = [evaluation EXCEPT ![j][s].status = "running"]

FinishEvaluation(j, s, st, repair) ==
  evaluation' = [evaluation EXCEPT ![j][s] =
                   [status |-> st, repaired |-> repair, finished |-> TRUE]]

EvaluationRuns(j) == {s \in Subject : evaluation[j][s].status # "none"}

(* _benchmark_status_and_summary.                                          *)
SummaryStatus(j) ==
  IF \A s \in EvaluationRuns(j) :
       evaluation[j][s].repaired /\ evaluation[j][s].status = "completed"
  THEN "completed"
  ELSE "completed_with_failures"

=============================================================================
