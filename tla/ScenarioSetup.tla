---------------------------- MODULE ScenarioSetup ----------------------------
(***************************************************************************)
(* ScenarioBuilderFSM                                                      *)
(* (eval-harness/Back-end/eval_harness/orchestration/scenario_fsm.py): the *)
(* host-side machine that sabotages a staging instance, has a planner      *)
(* review what the probes say, repairs the sabotage or starts over, and    *)
(* turns the approved machine into the image the clones are made from.     *)
(*                                                                         *)
(* A planner's answer, a command's result and the backend's replies are    *)
(* choices; each handler of the machine is an action, and where it writes  *)
(* two rows, which another job may read in between, it is two.             *)
(***************************************************************************)
EXTENDS EvalStore

VARIABLE fsm   \* where each setup stands, its counters and its revision

FsmState == {"idle", "design", "launch", "staged", "build", "verify", "review",
             "fix_plan", "fix_execute", "scrap", "create_image",
             "image_request", "image_wait", "image_failed", "record_verified",
             "mark_verified", "failed", "raised", "teardown", "ended"}

(* The states but the first in which a planner, a controller or the backend*)
(* is called outside the try block of _handle_create_image.                *)
MayRaise == {"launch", "staged", "build", "verify", "review",
             "fix_plan", "fix_execute", "create_image"}

TerminalSetup == {"verified", "failed_max_corrections", "failed_infra"}

FsmTypeOK ==
  fsm \in [Job -> [at: FsmState, corrections: 0..MaxCorrections,
                   scraps: 0..ScrapBudget, budget: 0..ScrapBudget,
                   revision: AnyRevision \cup {NoRevision}, reason: STRING,
                   ok: BOOLEAN]]

FsmRecord(st) == [at |-> st, corrections |-> 0, scraps |-> 0, budget |-> 0,
                  revision |-> NoRevision, reason |-> "none", ok |-> FALSE]

FsmInit == fsm = [j \in Job |-> FsmRecord("idle")]

Goto(j, to) == fsm' = [fsm EXCEPT ![j].at = to]

GiveUp(j, why) == fsm' = [fsm EXCEPT ![j].at = "failed", ![j].reason = why]

(* What a handler leaves alone: everything of the benchmark and judge      *)
(* tables, and the rest by name.                                           *)
othersVars == <<benchmark, evaluation, judgement, clone>>

-----------------------------------------------------------------------------
(* The two entries.                                                        *)

(* ScenarioSetupOrchestrator.run: the planner designs the scenario.        *)
StartDesign(j) ==
  /\ fsm[j].at = "idle"
  /\ fsm' = [fsm EXCEPT ![j].at = "design", ![j].budget = ScrapBudget]
  /\ UNCHANGED <<storeVars, cloudVars>>

(* run_existing_revision: the setup run exists before the machine starts   *)
(* and no fresh attempt is allowed.                                        *)
StartExisting(j, rev) ==
  /\ fsm[j].at = "idle"
  /\ fsm' = [fsm EXCEPT ![j].at = "launch", ![j].revision = rev]
  /\ CreateSetupRun(j, rev)
  /\ UNCHANGED <<scenario, othersVars, staging, ami>>

-----------------------------------------------------------------------------
(* The handlers.                                                           *)

(* The draft becomes a scenario and a revision of its own; a fresh attempt *)
(* reuses the setup run, which keeps naming the first revision.            *)
Design(j) ==
  LET rev == <<j, fsm[j].scraps + 1>>
  IN  /\ fsm[j].at = "design"
      /\ CreateScenario(rev)
      /\ IF setup[j].status = "none" THEN CreateSetupRun(j, rev)
                                     ELSE WriteSetup(j, "running")
      /\ fsm' = [fsm EXCEPT ![j].at = "launch", ![j].revision = rev,
                            ![j].corrections = 0]
      /\ UNCHANGED <<othersVars, staging, ami>>

(* There is no draft, or one that does not pass: a step of the sabotage is *)
(* prose, a check names nothing that a machine can decide.  The planner's  *)
(* own repair of it is one more draft.                                     *)
RejectDraft(j) ==
  /\ fsm[j].at = "design"
  /\ Goto(j, "raised")
  /\ UNCHANGED <<storeVars, cloudVars>>

LaunchStaging(j) ==
  /\ fsm[j].at = "launch"
  /\ staging' = [staging EXCEPT ![j] = "fresh"]
  /\ Goto(j, "staged")
  /\ UNCHANGED <<storeVars, ami, clone>>

(* The handle is recorded, the instance awaited and a controller opened.   *)
Stage(j) ==
  /\ fsm[j].at = "staged"
  /\ WriteSetup(j, "running")
  /\ Goto(j, "build")
  /\ UNCHANGED <<scenario, othersVars, staging, ami>>

Build(j) ==
  /\ fsm[j].at = "build"
  /\ staging' = [staging EXCEPT ![j] = "changed"]
  /\ Goto(j, "verify")
  /\ UNCHANGED <<storeVars, ami, clone>>

Verify(j) ==
  /\ fsm[j].at = "verify"
  /\ staging' = [staging EXCEPT ![j] = "probed"]
  /\ Goto(j, "review")
  /\ UNCHANGED <<storeVars, ami, clone>>

(* An approval is about what the last probes showed.  The planner may      *)
(* replace the probes as it approves: they must be valid.                  *)
Approve(j) ==
  /\ fsm[j].at = "review"
  /\ \/ /\ staging' = [staging EXCEPT ![j] = IF @ = "probed" THEN "approved" ELSE @]
        /\ Goto(j, "create_image")
     \/ /\ GiveUp(j, "invalid_updated_verification_probes")
        /\ UNCHANGED staging
  /\ UNCHANGED <<storeVars, ami, clone>>

OrderCorrection(j) ==
  /\ fsm[j].at = "review"
  /\ Goto(j, IF fsm[j].corrections < MaxCorrections THEN "fix_plan" ELSE "scrap")
  /\ UNCHANGED <<storeVars, cloudVars>>

PlanFix(j) ==
  /\ fsm[j].at = "fix_plan"
  /\ \/ Goto(j, "fix_execute")
     \/ GiveUp(j, "planner_returned_empty_rectification")
     \/ GiveUp(j, "invalid_rectification_commands")
  /\ UNCHANGED <<storeVars, cloudVars>>

(* Faulty: the round is not counted.                                       *)
ExecuteFixUncounted(j) ==
  /\ fsm[j].at = "fix_execute"
  /\ staging' = [staging EXCEPT ![j] = "changed"]
  /\ Goto(j, "verify")
  /\ UNCHANGED <<storeVars, ami, clone>>

ExecuteFix(j) ==
  /\ fsm[j].at = "fix_execute"
  /\ staging' = [staging EXCEPT ![j] = "changed"]
  /\ fsm' = [fsm EXCEPT ![j].at = "verify", ![j].corrections = @ + 1]
  /\ UNCHANGED <<storeVars, ami, clone>>

(* Faulty: the next attempt launches beside the instance of this one.      *)
ScrapKeepsInstance(j) ==
  /\ fsm[j].at = "scrap"
  /\ IF fsm[j].scraps >= fsm[j].budget
     THEN GiveUp(j, "exhausted_scrap_budget")
     ELSE fsm' = [fsm EXCEPT ![j].at = "design", ![j].corrections = 0,
                             ![j].scraps = @ + 1]
  /\ UNCHANGED <<storeVars, cloudVars>>

(* destroy_handle may raise, because the provider refuses or because the   *)
(* wait for the end of the instance is too long: the handle is still there *)
(* for the finally clause.                                                 *)
Scrap(j) ==
  /\ fsm[j].at = "scrap"
  /\ \/ /\ fsm[j].scraps >= fsm[j].budget
        /\ GiveUp(j, "exhausted_scrap_budget")
        /\ UNCHANGED staging
     \/ /\ fsm[j].scraps < fsm[j].budget
        /\ fsm' = [fsm EXCEPT ![j].at = "design", ![j].corrections = 0,
                              ![j].scraps = @ + 1]
        /\ staging' = [staging EXCEPT ![j] = "gone"]
     \/ /\ fsm[j].scraps < fsm[j].budget
        /\ Goto(j, "raised")
        /\ \E left \in {"gone", staging[j]} : staging' = [staging EXCEPT ![j] = left]
  /\ UNCHANGED <<storeVars, ami, clone>>

-----------------------------------------------------------------------------
(* _handle_create_image.                                                   *)

CreateImage(j) ==
  /\ fsm[j].at = "create_image"
  /\ WriteSetup(j, "creating_broken_image")
  /\ Goto(j, "image_request")
  /\ UNCHANGED <<scenario, othersVars, staging, ami>>

(* Faulty: the run is recorded as verified before its image is waited for. *)
RequestImageVerified(j) ==
  /\ fsm[j].at = "image_request"
  /\ ami' = [ami EXCEPT ![j] = [state |-> "pending", of |-> staging[j]]]
  /\ WriteSetupImage(j, "verified")
  /\ Goto(j, "image_wait")
  /\ UNCHANGED <<scenario, othersVars, staging>>

RequestImage(j) ==
  /\ fsm[j].at = "image_request"
  /\ ami' = [ami EXCEPT ![j] = [state |-> "pending", of |-> staging[j]]]
  /\ WriteSetupImage(j, "creating_broken_image")
  /\ Goto(j, "image_wait")
  /\ UNCHANGED <<scenario, othersVars, staging>>

RequestImageRaises(j) ==
  /\ fsm[j].at = "image_request"
  /\ Goto(j, "image_failed")
  /\ UNCHANGED <<storeVars, cloudVars>>

(* The image becomes available at the provider's pace.                     *)
ImageBuilt(j) ==
  /\ ami[j].state = "pending"
  /\ ami' = [ami EXCEPT ![j].state = "available"]
  /\ UNCHANGED <<storeVars, staging, clone, fsm>>

(* A poll reports to the setup run, whatever it then does.                 *)
PollImage(j) ==
  /\ fsm[j].at = "image_wait"
  /\ WriteSetupImage(j, "creating_broken_image")
  /\ Goto(j, IF ami[j].state = "available" THEN "record_verified" ELSE "image_wait")
  /\ UNCHANGED <<scenario, othersVars, staging, ami>>

(* A failed state or the deadline, and the image is deregistered if that   *)
(* succeeds; or the poll itself raises, whatever has become of the image.  *)
GiveUpImage(j) ==
  /\ fsm[j].at = "image_wait"
  /\ \E st \in {"gone", ami[j].state} : ami' = [ami EXCEPT ![j].state = st]
  /\ Goto(j, "image_failed")
  /\ UNCHANGED <<storeVars, staging, clone>>

(* ScenarioSetupFailedError: run() re-raises it without another write.     *)
FailImage(j) ==
  /\ fsm[j].at = "image_failed"
  /\ WriteSetup(j, "failed_infra")
  /\ FailScenario(fsm[j].revision)
  /\ Goto(j, "teardown")
  /\ UNCHANGED <<othersVars, staging, ami>>

RecordVerified(j) ==
  /\ fsm[j].at = "record_verified"
  /\ WriteSetupImage(j, "verified")
  /\ Goto(j, "mark_verified")
  /\ UNCHANGED <<scenario, othersVars, staging, ami>>

MarkVerified(j) ==
  /\ fsm[j].at = "mark_verified"
  /\ MarkScenarioVerified(fsm[j].revision)
  /\ fsm' = [fsm EXCEPT ![j].at = "teardown", ![j].ok = TRUE]
  /\ UNCHANGED <<setup, othersVars, staging, ami>>

-----------------------------------------------------------------------------
(* The ends.                                                               *)

(* A planner call, a command or the backend raises inside a handler.       *)
Raise(j) ==
  /\ fsm[j].at \in MayRaise
  /\ Goto(j, "raised")
  /\ UNCHANGED <<storeVars, cloudVars>>

FailureStatus(reason) ==
  IF reason = "exhausted_scrap_budget" THEN "failed_max_corrections"
                                       ELSE "failed_infra"

(* A setup run that is not terminal yet is given its failure; "cancelled"  *)
(* is not among the terminal statuses.                                     *)
FailSetup(j, st) ==
  IF setup[j].status \in TerminalSetup \cup {"none"}
  THEN UNCHANGED setup
  ELSE WriteSetup(j, st)

HandleFailed(j) ==
  /\ fsm[j].at = "failed"
  /\ FailSetup(j, FailureStatus(fsm[j].reason))
  /\ FailScenario(fsm[j].revision)
  /\ Goto(j, "teardown")
  /\ UNCHANGED <<othersVars, staging, ami>>

HandleRaise(j) ==
  /\ fsm[j].at = "raised"
  /\ FailSetup(j, "failed_infra")
  /\ IF setup[j].status \in TerminalSetup \cup {"none"}
     THEN UNCHANGED scenario
     ELSE FailScenario(fsm[j].revision)
  /\ Goto(j, "teardown")
  /\ UNCHANGED <<othersVars, staging, ami>>

(* The result names the revision; the rest of the machine is gone.         *)
EndSetup(j, well) ==
  fsm' = [fsm EXCEPT ![j] = [FsmRecord("ended") EXCEPT
                               !.revision = fsm[j].revision, !.ok = well]]

(* The finally clause.  Where destroy_handle raises, the setup fails after *)
(* all, also one whose rows say that it is verified.                       *)
Teardown(j) ==
  /\ fsm[j].at = "teardown"
  /\ \/ /\ staging[j] \in {"none", "gone"}
        /\ EndSetup(j, fsm[j].ok)
        /\ UNCHANGED staging
     \/ /\ staging[j] \notin {"none", "gone"}
        /\ EndSetup(j, fsm[j].ok)
        /\ staging' = [staging EXCEPT ![j] = "gone"]
     \/ /\ staging[j] \notin {"none", "gone"}
        /\ EndSetup(j, FALSE)
        /\ \E left \in {"gone", "kept"} : staging' = [staging EXCEPT ![j] = left]
  /\ UNCHANGED <<storeVars, ami, clone>>

SetupStep(j) ==
  \/ Design(j) \/ RejectDraft(j)
  \/ LaunchStaging(j) \/ Stage(j) \/ Build(j) \/ Verify(j)
  \/ Approve(j) \/ OrderCorrection(j) \/ PlanFix(j) \/ ExecuteFix(j) \/ Scrap(j)
  \/ CreateImage(j) \/ RequestImage(j) \/ RequestImageRaises(j)
  \/ PollImage(j) \/ GiveUpImage(j) \/ FailImage(j)
  \/ RecordVerified(j) \/ MarkVerified(j)
  \/ Raise(j) \/ HandleFailed(j) \/ HandleRaise(j) \/ Teardown(j)

=============================================================================
