------------------------------ MODULE JudgeJob ------------------------------
(***************************************************************************)
(* JudgeJobOrchestrator                                                    *)
(* (eval-harness/Back-end/eval_harness/orchestration/judge.py): judges     *)
(* grade every evaluation of a benchmark, or compare its subjects in pairs *)
(* and in both orders.  A comparison is followed for one criterion at a    *)
(* time; margins and rationales carry no decision and are left out, like   *)
(* the Bradley-Terry ratings computed from the verdicts.                   *)
(***************************************************************************)
EXTENDS EvalStore, Integers

CONSTANTS
  JudgeCount,     \* judges of the panel, all of weight 1
  JudgesMayOmit   \* may a judge leave a criterion of the rubric out?

ASSUME JudgeAssumption == JudgeCount \in Nat \ {0} /\ JudgesMayOmit \in BOOLEAN

VARIABLE judge

NoPair == <<0, 0>>
Pair == {p \in Subject \X Subject : p[1] < p[2]}
Winner == {"A", "B", "tie"}

Fresh == [at |-> "idle", rows |-> {}, fixed |-> {}, pairs |-> {},
          pair |-> NoPair, outcome |-> FALSE, asked |-> 0, forward |-> "none",
          votes |-> 0, halves |-> 0, lead |-> 0, winner |-> "none"]

JudgeTypeOK ==
  judge \in [Job ->
    [at: {"idle", "queued", "list", "absolute", "pairs", "forward", "backward",
          "finish", "ended", "lost"},
     rows: SUBSET Subject,      \* evaluations still to grade
     fixed: SUBSET Subject,     \* repair_success when the rows were read
     pairs: SUBSET Pair, pair: Pair \cup {NoPair},
     outcome: BOOLEAN,          \* is this the outcome criterion?
     asked: 0..JudgeCount, forward: Winner \cup {"none"},
     votes: 0..JudgeCount, halves: 0..2 * JudgeCount,
     lead: -JudgeCount..JudgeCount,  \* judges for A less those for B (history)
     winner: Winner \cup {"none"}]]

JudgeInit == judge = [j \in Job |-> Fresh]

WriteJudgement(j, st) == judgement' = [judgement EXCEPT ![j] = st]

otherTables == <<scenario, setup, benchmark, evaluation, cloudVars>>

-----------------------------------------------------------------------------
(* What a comparison means.  In the backward order A and B are exchanged.  *)

Answers == Winner \cup (IF JudgesMayOmit THEN {"none"} ELSE {})

Flip(w) == CASE w = "A" -> "B" [] w = "B" -> "A" [] OTHER -> w

(* Faulty: the backward answer is taken in its own labels.                 *)
MergeUnflipped(fwd, bwd) == IF fwd = bwd THEN fwd ELSE "tie"

(* _merge_verdicts, for a criterion that judges decide.  A criterion that  *)
(* only the backward answer has is taken as it stands.                     *)
MergeVerdicts(fwd, bwd) ==
  IF fwd = "none" \/ bwd = "none"
  THEN IF fwd = "none" THEN bwd ELSE fwd
  ELSE IF fwd = Flip(bwd) THEN fwd ELSE "tie"

(* The outcome criterion is decided by the repair flags.                   *)
Outcome(a, b) == IF a = b THEN "tie" ELSE IF a THEN "A" ELSE "B"

(* Whom a judge prefers, by every answer that he gave, each read in the    *)
(* labels of its order.                                                    *)
Preference(fwd, bwd) ==
  LET given == {fwd, Flip(bwd)} \ {"none"}
  IN  IF given = {"A"} THEN 1 ELSE IF given = {"B"} THEN -1 ELSE 0

(* _verdict_weight, in halves.                                             *)
VerdictWeight(w) == CASE w = "A" -> 2 [] w = "B" -> 0 [] OTHER -> 1

(* _aggregate_pairwise_verdicts: more than 0.6 of the votes, or less than  *)
(* 0.4; with no vote there is no verdict.                                  *)
Aggregate(halves, votes) ==
  IF votes = 0 THEN "none"
  ELSE IF 5 * halves > 6 * votes THEN "A"
  ELSE IF 5 * halves < 4 * votes THEN "B"
  ELSE "tie"

-----------------------------------------------------------------------------

JudgeAt(j, st) == judge' = [judge EXCEPT ![j].at = st]

StartJudge(j) ==
  /\ judge[j].at = "idle"
  /\ WriteJudgement(j, "queued")
  /\ JudgeAt(j, "queued")
  /\ UNCHANGED otherTables

BeginJudging(j) ==
  /\ judge[j].at = "queued"
  /\ WriteJudgement(j, "running")
  /\ JudgeAt(j, "list")
  /\ UNCHANGED otherTables

(* The evaluations are read once, whatever the benchmark is doing.         *)
ListEvaluations(j, over) ==
  LET rows == EvaluationRuns(over)
  IN  /\ judge[j].at = "list"
      /\ \/ judge' = [judge EXCEPT ![j].at = "absolute", ![j].rows = rows]
         \/ judge' = [judge EXCEPT ![j].at = "pairs",
               ![j].fixed = {s \in rows : evaluation[over][s].repaired},
               ![j].pairs = {p \in Pair : {p[1], p[2]} \subseteq rows}]
      /\ UNCHANGED <<judgement, otherTables>>

(* Every judge grades the evaluation, and the weighted means follow.       *)
GradeEvaluation(j) ==
  /\ judge[j].at = "absolute"
  /\ \/ /\ judge[j].rows = {}
        /\ JudgeAt(j, "finish")
     \/ \E s \in judge[j].rows : judge' = [judge EXCEPT ![j].rows = @ \ {s}]
  /\ UNCHANGED <<judgement, otherTables>>

(* The next pair, and the criterion of it that is followed.                *)
NextPair(j) ==
  /\ judge[j].at = "pairs"
  /\ \/ judge[j].pairs = {} /\ JudgeAt(j, "finish")
     \/ \E p \in judge[j].pairs, outcome \in BOOLEAN :
          judge' = [judge EXCEPT ![j] = [Fresh EXCEPT
            !.at = "forward", !.fixed = judge[j].fixed, !.pair = p,
            !.pairs = judge[j].pairs \ {p}, !.outcome = outcome]]
  /\ UNCHANGED <<judgement, otherTables>>

CompareForward(j) ==
  /\ judge[j].at = "forward"
  /\ \E w \in Answers :
       judge' = [judge EXCEPT ![j].at = "backward", ![j].forward = w]
  /\ UNCHANGED <<judgement, otherTables>>

(* The merged verdict of this judge, and after the last judge the          *)
(* aggregate of the panel.                                                 *)
CompareBackward(j) ==
  LET r == judge[j]
  IN  /\ r.at = "backward"
      /\ \E w \in Answers :
           LET merged == IF r.outcome /\ {r.forward, w} # {"none"}
                         THEN Outcome(r.pair[1] \in r.fixed, r.pair[2] \in r.fixed)
                         ELSE MergeVerdicts(r.forward, w)
               vote == IF merged = "none" THEN 0 ELSE 1
               halves == r.halves + vote * VerdictWeight(merged)
               last == r.asked + 1 = JudgeCount
           IN  judge' = [judge EXCEPT ![j] = [r EXCEPT
                 !.at = IF last THEN "pairs" ELSE "forward",
                 !.asked = @ + 1, !.votes = @ + vote, !.halves = halves,
                 !.lead = @ + Preference(r.forward, w),
                 !.winner = IF last THEN Aggregate(halves, r.votes + vote) ELSE @]]
      /\ UNCHANGED <<judgement, otherTables>>

FinishJudging(j) ==
  /\ judge[j].at = "finish"
  /\ WriteJudgement(j, "completed")
  /\ JudgeAt(j, "ended")
  /\ UNCHANGED otherTables

(* A judge raises, or an anchor is not among the subjects.                 *)
JudgeRaises(j) ==
  /\ judge[j].at \in {"list", "absolute", "pairs", "forward", "backward"}
  /\ WriteJudgement(j, "failed")
  /\ judge' = [judge EXCEPT ![j] = [Fresh EXCEPT !.at = "ended"]]
  /\ UNCHANGED otherTables

JudgeStep(j, over) ==
  \/ BeginJudging(j) \/ ListEvaluations(j, over) \/ GradeEvaluation(j)
  \/ NextPair(j) \/ CompareForward(j) \/ CompareBackward(j)
  \/ FinishJudging(j) \/ JudgeRaises(j)

LoseJudges ==
  judge' = [j \in Job |-> IF judge[j].at \in {"idle", "ended"} THEN judge[j]
                          ELSE [Fresh EXCEPT !.at = "lost"]]

(* The panel names a winner of a pair only if more of its judges preferred *)
(* that subject than the other one, by all that each has answered in the   *)
(* two orders; the outcome criterion follows the repair flags instead.     *)
WinnerHasMajority ==
  \A j \in Job :
    LET r == judge[j]
    IN  /\ r.winner = "A" => r.lead > 0 \/ (r.outcome /\ r.pair[1] \in r.fixed)
        /\ r.winner = "B" => r.lead < 0 \/ (r.outcome /\ r.pair[2] \in r.fixed)

=============================================================================
