----------------------------- MODULE EvalProofs -----------------------------
(***************************************************************************)
(* Proofs about the evaluation jobs, for any number of jobs, subjects,     *)
(* judges, repairs, turns, failures, cancel requests and deaths of the     *)
(* process: what a judges' panel's winner means, what a verified setup run *)
(* promises, who holds the staging machine of a setup and the clones of a  *)
(* benchmark, and what a benchmark has done when it is settled.            *)
(***************************************************************************)
EXTENDS EvalJobs, TLAPS

-----------------------------------------------------------------------------
(* The panel.                                                              *)

JudgeRecord ==
  [at: {"idle", "queued", "list", "absolute", "pairs", "forward", "backward",
        "finish", "ended", "lost"},
   rows: SUBSET Subject, fixed: SUBSET Subject,
   pairs: SUBSET Pair, pair: Pair \cup {NoPair},
   outcome: BOOLEAN, asked: Int, forward: Winner \cup {"none"},
   votes: Nat, halves: Nat, lead: Int, winner: Winner \cup {"none"}]

(* How far A is ahead, in votes and halves of votes, is how many judges    *)
(* more prefer A; the votes on the outcome follow the repair flags.        *)
Balanced(r) ==
  /\ ~ r.outcome => r.halves - r.votes = r.lead
  /\ r.outcome /\ r.pair[1] \notin r.fixed => r.halves <= r.votes
  /\ r.outcome /\ r.pair[2] \notin r.fixed => r.votes <= r.halves

Untouched(r) ==
  ~ r.outcome /\ r.votes = 0 /\ r.halves = 0 /\ r.lead = 0 /\ r.winner = "none"

Fair(r) ==
  /\ r.winner = "A" => r.lead > 0 \/ (r.outcome /\ r.pair[1] \in r.fixed)
  /\ r.winner = "B" => r.lead < 0 \/ (r.outcome /\ r.pair[2] \in r.fixed)

PanelOk(r) ==
  /\ r \in JudgeRecord
  /\ r.at \in {"idle", "queued", "list"} => Untouched(r)
  /\ r.at \in {"forward", "backward"} => r.winner = "none"
  /\ r.at = "backward" => r.forward \in Answers
  /\ Balanced(r) /\ Fair(r)

PanelInv == judge \in [Job -> JudgeRecord] /\ \A j \in Job : PanelOk(judge[j])

LEMMA FreshIsOk == Fresh \in JudgeRecord /\ PanelOk(Fresh)
<1>1. Fresh \in JudgeRecord
  BY DEF Fresh, JudgeRecord
<1>2. Untouched(Fresh) /\ Fresh.at \notin {"forward", "backward"}
  BY DEF Fresh, Untouched
<1>3. QED
  BY <1>1, <1>2 DEF PanelOk, Untouched, Balanced, Fair

LEMMA FreshElsewhere ==
  ASSUME NEW st \in {"ended", "lost"}
  PROVE  PanelOk([Fresh EXCEPT !.at = st])
<1> DEFINE r == [Fresh EXCEPT !.at = st]
<1>1. r \in JudgeRecord /\ r.at = st
  BY FreshIsOk DEF JudgeRecord
<1>2. Untouched(r)
  BY DEF Fresh, Untouched
<1> HIDE DEF r
<1>3. PanelOk(r)
  BY <1>1, <1>2 DEF PanelOk, Untouched, Balanced, Fair
<1>4. QED
  BY <1>3 DEF r

(* A step of one job's judges.                                             *)
LEMMA PanelUpdate ==
  ASSUME PanelInv, NEW j \in Job, NEW r, PanelOk(r), judge' = [judge EXCEPT ![j] = r]
  PROVE  PanelInv'
BY DEF PanelInv, PanelOk

(* The panel's winner has more of the votes, or fewer.                     *)
LEMMA AggregateFacts ==
  ASSUME NEW h \in Nat, NEW v \in Nat
  PROVE  /\ Aggregate(h, v) = "A" => v < h
         /\ Aggregate(h, v) = "B" => h < v
         /\ Aggregate(h, v) \in Winner \cup {"none"}
BY DEF Aggregate, Winner

(* One judge, both answers given: his vote and his preference agree.       *)
LEMMA VoteFacts ==
  ASSUME NEW fwd \in Winner, NEW w \in Winner
  PROVE  /\ MergeVerdicts(fwd, w) \in Winner
         /\ VerdictWeight(MergeVerdicts(fwd, w)) - 1 = Preference(fwd, w)
<1>1. /\ Flip("A") = "B" /\ Flip("B") = "A" /\ Flip("tie") = "tie"
  BY DEF Flip
<1>2. /\ VerdictWeight("A") = 2 /\ VerdictWeight("B") = 0 /\ VerdictWeight("tie") = 1
  BY DEF VerdictWeight
<1>3. fwd \in {"A", "B", "tie"} /\ w \in {"A", "B", "tie"}
  BY DEF Winner
<1>4. CASE fwd = Flip(w)
  <2>1. MergeVerdicts(fwd, w) = fwd
    BY <1>3, <1>4 DEF MergeVerdicts
  <2>2. {fwd, Flip(w)} \ {"none"} = {fwd}
    BY <1>3, <1>4
  <2>3. Preference(fwd, w) = IF {fwd} = {"A"} THEN 1 ELSE IF {fwd} = {"B"} THEN -1 ELSE 0
    BY <2>2 DEF Preference
  <2>4. {fwd} = {"A"} <=> fwd = "A"
    OBVIOUS
  <2>5. {fwd} = {"B"} <=> fwd = "B"
    OBVIOUS
  <2>6. QED
    BY <1>2, <1>3, <2>1, <2>3, <2>4, <2>5 DEF Winner
<1>5. CASE fwd # Flip(w)
  <2>1. MergeVerdicts(fwd, w) = "tie"
    BY <1>3, <1>5 DEF MergeVerdicts
  <2>2. fwd \in {fwd, Flip(w)} \ {"none"} /\ Flip(w) \in {fwd, Flip(w)} \ {"none"}
    BY <1>1, <1>3
  <2>3. {fwd, Flip(w)} \ {"none"} # {"A"} /\ {fwd, Flip(w)} \ {"none"} # {"B"}
    BY <1>5, <2>2
  <2>4. Preference(fwd, w) = 0
    BY <2>3 DEF Preference
  <2>5. QED
    BY <1>2, <2>1, <2>4 DEF Winner
<1>6. QED
  BY <1>4, <1>5

LEMMA PanelInitially == JudgeInit => PanelInv
<1> SUFFICES ASSUME JudgeInit PROVE PanelInv
  OBVIOUS
<1>1. QED
  BY FreshIsOk DEF JudgeInit, PanelInv

(* A step that only moves on, without a new answer.                        *)
LEMMA PanelMoves ==
  ASSUME NEW r, PanelOk(r), NEW st \in {"queued", "list", "absolute", "pairs", "finish", "ended"},
         st \in {"queued", "list"} => Untouched(r)
  PROVE  PanelOk([r EXCEPT !.at = st])
<1> DEFINE s == [r EXCEPT !.at = st]
<1>1. r \in JudgeRecord /\ Balanced(r) /\ Fair(r)
  BY DEF PanelOk
<1>2. s \in JudgeRecord /\ s.at = st
  BY <1>1 DEF JudgeRecord
<1>3. /\ s.outcome = r.outcome /\ s.halves = r.halves /\ s.votes = r.votes /\ s.lead = r.lead
      /\ s.pair = r.pair /\ s.fixed = r.fixed /\ s.winner = r.winner
  BY <1>1 DEF JudgeRecord
<1> HIDE DEF s
<1>4. Balanced(s) /\ Fair(s) /\ (Untouched(r) => Untouched(s))
  BY <1>1, <1>3 DEF Balanced, Fair, Untouched
<1>5. PanelOk(s)
  BY <1>2, <1>4 DEF PanelOk
<1>6. QED
  BY <1>5 DEF s

LEMMA AnswerMerged ==
  ASSUME JudgesMayOmit = FALSE, NEW r, PanelOk(r), r.at = "backward", NEW w \in Answers,
         NEW merged,
         merged = IF r.outcome /\ {r.forward, w} # {"none"}
                  THEN Outcome(r.pair[1] \in r.fixed, r.pair[2] \in r.fixed)
                  ELSE MergeVerdicts(r.forward, w)
  PROVE  /\ merged \in Winner
         /\ ~ r.outcome => VerdictWeight(merged) - 1 = Preference(r.forward, w)
         /\ r.outcome /\ r.pair[1] \notin r.fixed => VerdictWeight(merged) <= 1
         /\ r.outcome /\ r.pair[2] \notin r.fixed => VerdictWeight(merged) >= 1
<1>1. r.forward \in Winner /\ w \in Winner /\ "none" \notin Winner
  BY DEF PanelOk, Answers, Winner
<1>2. {r.forward, w} # {"none"} /\ r.outcome \in BOOLEAN
  BY <1>1 DEF PanelOk, JudgeRecord
<1>3. CASE r.outcome
  <2>1. merged = Outcome(r.pair[1] \in r.fixed, r.pair[2] \in r.fixed)
    BY <1>2, <1>3
  <2>2. /\ merged \in {"A", "B", "tie"}
        /\ r.pair[1] \notin r.fixed => merged # "A"
        /\ r.pair[2] \notin r.fixed => merged # "B"
    BY <2>1 DEF Outcome
  <2>3. QED
    BY <1>3, <2>2 DEF VerdictWeight, Winner
<1>4. CASE ~ r.outcome
  BY <1>1, <1>2, <1>4, VoteFacts
<1>5. QED
  BY <1>3, <1>4

(* A step that leaves the judges of every job alone, or moves one job's.   *)
LEMMA PanelAt ==
  ASSUME PanelInv, NEW j \in Job, NEW st \in {"queued", "list", "absolute", "pairs", "finish", "ended"},
         JudgeAt(j, st), st \in {"queued", "list"} => Untouched(judge[j])
  PROVE  PanelInv'
<1>1. PanelOk(judge[j])
  BY DEF PanelInv
<1>2. PanelOk([judge[j] EXCEPT !.at = st])
  BY <1>1, PanelMoves
<1>3. judge' = [judge EXCEPT ![j] = [judge[j] EXCEPT !.at = st]]
  BY DEF JudgeAt
<1>4. QED
  BY <1>2, <1>3, PanelUpdate

LEMMA ListingKeeps ==
  ASSUME PanelInv, NEW j \in Job, NEW over, ListEvaluations(j, over)
  PROVE  PanelInv'
<1> DEFINE rows == EvaluationRuns(over)
           fix == {s \in rows : evaluation[over][s].repaired}
           prs == {p \in Pair : {p[1], p[2]} \subseteq rows}
           r == judge[j]
           a == [r EXCEPT !.at = "absolute", !.rows = rows]
           b == [r EXCEPT !.at = "pairs", !.fixed = fix, !.pairs = prs]
<1>1. PanelOk(r) /\ r \in JudgeRecord /\ r.at = "list" /\ Untouched(r)
  BY DEF PanelInv, PanelOk, ListEvaluations
<1>2. rows \subseteq Subject /\ fix \subseteq Subject /\ prs \subseteq Pair
  BY DEF EvaluationRuns
<1>3. \/ judge' = [judge EXCEPT ![j] = a]
      \/ judge' = [judge EXCEPT ![j] = b]
  BY DEF ListEvaluations
<1> HIDE DEF rows, fix, prs
<1>4. a \in JudgeRecord /\ a.at = "absolute" /\ Untouched(a)
  BY <1>1, <1>2 DEF JudgeRecord, Untouched
<1>5. b \in JudgeRecord /\ b.at = "pairs" /\ Untouched(b)
  BY <1>1, <1>2 DEF JudgeRecord, Untouched
<1> HIDE DEF a, b, r
<1>6. PanelOk(a) /\ PanelOk(b)
  BY <1>4, <1>5 DEF PanelOk, Untouched, Balanced, Fair
<1>7. QED
  BY <1>3, <1>6, PanelUpdate

LEMMA GradingKeeps ==
  ASSUME PanelInv, NEW j \in Job, GradeEvaluation(j)
  PROVE  PanelInv'
<1> DEFINE r == judge[j]
<1>1. PanelOk(r) /\ r \in JudgeRecord /\ r.at = "absolute"
  BY DEF PanelInv, PanelOk, GradeEvaluation
<1>2. CASE JudgeAt(j, "finish")
  BY <1>2, PanelAt
<1>3. ASSUME NEW s \in r.rows, judge' = [judge EXCEPT ![j].rows = @ \ {s}]
      PROVE  PanelInv'
  <2> DEFINE a == [r EXCEPT !.rows = r.rows \ {s}]
  <2>1. judge' = [judge EXCEPT ![j] = a]
    BY <1>3
  <2>2. a \in JudgeRecord /\ a.at = "absolute"
    BY <1>1 DEF JudgeRecord
  <2>3. /\ a.outcome = r.outcome /\ a.halves = r.halves /\ a.votes = r.votes /\ a.lead = r.lead
        /\ a.pair = r.pair /\ a.fixed = r.fixed /\ a.winner = r.winner
    BY <1>1 DEF JudgeRecord
  <2> HIDE DEF a, r
  <2>4. PanelOk(a)
    BY <1>1, <2>2, <2>3 DEF PanelOk, Balanced, Fair
  <2>5. QED
    BY <2>1, <2>4, PanelUpdate
<1>4. QED
  BY <1>2, <1>3 DEF GradeEvaluation

LEMMA PairingKeeps ==
  ASSUME PanelInv, NEW j \in Job, NextPair(j)
  PROVE  PanelInv'
<1> DEFINE r == judge[j]
<1>1. PanelOk(r) /\ r \in JudgeRecord
  BY DEF PanelInv, PanelOk
<1>2. CASE JudgeAt(j, "finish")
  BY <1>2, PanelAt
<1>3. ASSUME NEW p \in r.pairs, NEW outcome \in BOOLEAN,
             judge' = [judge EXCEPT ![j] = [Fresh EXCEPT
               !.at = "forward", !.fixed = judge[j].fixed, !.pair = p,
               !.pairs = judge[j].pairs \ {p}, !.outcome = outcome]]
      PROVE  PanelInv'
  <2> DEFINE a == [Fresh EXCEPT !.at = "forward", !.fixed = r.fixed, !.pair = p,
                                !.pairs = r.pairs \ {p}, !.outcome = outcome]
  <2>1. judge' = [judge EXCEPT ![j] = a]
    BY <1>3
  <2>2. p \in Pair /\ r.pairs \ {p} \subseteq Pair /\ r.fixed \subseteq Subject
    BY <1>1 DEF JudgeRecord
  <2>3. a \in JudgeRecord
    BY <2>2, FreshIsOk DEF JudgeRecord
  <2>4. /\ a.at = "forward" /\ a.halves = 0 /\ a.votes = 0 /\ a.lead = 0
        /\ a.winner = "none"
    BY DEF Fresh
  <2> HIDE DEF a
  <2>5. PanelOk(a)
    BY <2>3, <2>4 DEF PanelOk, Balanced, Fair
  <2>6. QED
    BY <2>1, <2>5, PanelUpdate
<1>4. QED
  BY <1>2, <1>3 DEF NextPair

LEMMA ForwardKeeps ==
  ASSUME JudgesMayOmit = FALSE, PanelInv, NEW j \in Job, CompareForward(j)
  PROVE  PanelInv'
<1> DEFINE r == judge[j]
<1>1. PanelOk(r) /\ r \in JudgeRecord /\ r.at = "forward"
  BY DEF PanelInv, PanelOk, CompareForward
<1>2. PICK w \in Answers :
        judge' = [judge EXCEPT ![j] = [r EXCEPT !.at = "backward", !.forward = w]]
  BY DEF CompareForward
<1> DEFINE a == [r EXCEPT !.at = "backward", !.forward = w]
<1>3. a \in JudgeRecord
  BY <1>1 DEF JudgeRecord, Answers
<1>4. /\ a.at = "backward" /\ a.forward = w
      /\ a.outcome = r.outcome /\ a.halves = r.halves /\ a.votes = r.votes /\ a.lead = r.lead
      /\ a.pair = r.pair /\ a.fixed = r.fixed /\ a.winner = r.winner
  BY <1>1 DEF JudgeRecord
<1> HIDE DEF a, r
<1>5. PanelOk(a)
  BY <1>1, <1>3, <1>4 DEF PanelOk, Balanced, Fair
<1>6. QED
  BY <1>2, <1>5, PanelUpdate DEF a

(* The judge's own vote and preference keep the balance, and the panel's   *)
(* winner is on the side of the balance.                                   *)
LEMMA BackwardKeeps ==
  ASSUME JudgesMayOmit = FALSE, PanelInv, NEW j \in Job, CompareBackward(j)
  PROVE  PanelInv'
<1> DEFINE r == judge[j]
<1>1. PanelOk(r) /\ r \in JudgeRecord /\ r.at = "backward"
  BY DEF PanelInv, PanelOk, CompareBackward
<1> DEFINE merged(w) == IF r.outcome /\ {r.forward, w} # {"none"}
                        THEN Outcome(r.pair[1] \in r.fixed, r.pair[2] \in r.fixed)
                        ELSE MergeVerdicts(r.forward, w)
           vote(w) == IF merged(w) = "none" THEN 0 ELSE 1
           halves(w) == r.halves + vote(w) * VerdictWeight(merged(w))
           last == r.asked + 1 = JudgeCount
           next(w) == [r EXCEPT
             !.at = IF last THEN "pairs" ELSE "forward",
             !.asked = @ + 1, !.votes = @ + vote(w), !.halves = halves(w),
             !.lead = @ + Preference(r.forward, w),
             !.winner = IF last THEN Aggregate(halves(w), r.votes + vote(w)) ELSE @]
<1>2. PICK w \in Answers : judge' = [judge EXCEPT ![j] = next(w)]
  BY DEF CompareBackward
<1> DEFINE m == merged(w)
           wt == VerdictWeight(m)
           pr == Preference(r.forward, w)
           h == r.halves + wt
           v == r.votes + 1
           a == next(w)
<1>3. /\ m \in Winner
      /\ ~ r.outcome => wt - 1 = pr
      /\ r.outcome /\ r.pair[1] \notin r.fixed => wt <= 1
      /\ r.outcome /\ r.pair[2] \notin r.fixed => wt >= 1
  BY <1>1, AnswerMerged
<1>4. wt \in {0, 1, 2} /\ pr \in {-1, 0, 1} /\ m # "none"
  BY <1>3 DEF VerdictWeight, Preference, Winner
<1>5. vote(w) = 1 /\ halves(w) = h /\ r.votes + vote(w) = v
  BY <1>4
<1>6. a = [r EXCEPT !.at = IF last THEN "pairs" ELSE "forward",
             !.asked = @ + 1, !.votes = v, !.halves = h, !.lead = @ + pr,
             !.winner = IF last THEN Aggregate(h, v) ELSE @]
  BY <1>5
<1> HIDE DEF merged, m, wt, pr, vote, halves, next
<1>7. r.halves \in Nat /\ r.votes \in Nat /\ r.lead \in Int /\ r.asked \in Int
  BY <1>1 DEF JudgeRecord
<1>8. h \in Nat /\ v \in Nat
  BY <1>4, <1>7
<1>9. /\ Aggregate(h, v) = "A" => v < h
      /\ Aggregate(h, v) = "B" => h < v
      /\ Aggregate(h, v) \in Winner \cup {"none"}
  BY <1>8, AggregateFacts
<1> HIDE DEF h, v, last
<1>10. a \in JudgeRecord
  <2> DEFINE st == IF last THEN "pairs" ELSE "forward"
             wn == IF last THEN Aggregate(h, v) ELSE r.winner
             asked == r.asked + 1
             lead == r.lead + pr
  <2>1. st \in {"pairs", "forward"} /\ wn \in Winner \cup {"none"}
    BY <1>1, <1>9 DEF JudgeRecord
  <2>2. asked \in Int /\ lead \in Int
    BY <1>4, <1>7
  <2>3. a = [r EXCEPT !.at = st, !.asked = asked, !.votes = v, !.halves = h,
                      !.lead = lead, !.winner = wn]
    BY <1>6
  <2> HIDE DEF st, wn, asked, lead, a, r
  <2>4. QED
    BY <1>1, <1>8, <2>1, <2>2, <2>3 DEF JudgeRecord
<1>11. /\ a.at = (IF last THEN "pairs" ELSE "forward")
       /\ a.votes = v /\ a.halves = h /\ a.lead = r.lead + pr
       /\ a.winner = IF last THEN Aggregate(h, v) ELSE r.winner
       /\ a.outcome = r.outcome /\ a.pair = r.pair /\ a.fixed = r.fixed
  BY <1>1, <1>6 DEF JudgeRecord
<1>12. r.winner = "none" /\ Balanced(r)
  BY <1>1 DEF PanelOk
<1> HIDE DEF a
<1>13. Balanced(a)
  <2>1. ASSUME ~ r.outcome PROVE h - v = r.lead + pr
    <3>1. r.halves - r.votes = r.lead
      BY <1>12, <2>1 DEF Balanced
    <3>2. QED
      BY <1>3, <1>4, <1>7, <2>1, <3>1 DEF h, v
  <2>2. ASSUME r.outcome, r.pair[1] \notin r.fixed PROVE h <= v
    <3>1. r.halves <= r.votes
      BY <1>12, <2>2 DEF Balanced
    <3>2. QED
      BY <1>3, <1>4, <1>7, <2>2, <3>1 DEF h, v
  <2>3. ASSUME r.outcome, r.pair[2] \notin r.fixed PROVE v <= h
    <3>1. r.votes <= r.halves
      BY <1>12, <2>3 DEF Balanced
    <3>2. QED
      BY <1>3, <1>4, <1>7, <2>3, <3>1 DEF h, v
  <2>4. QED
    BY <1>11, <2>1, <2>2, <2>3 DEF Balanced
<1>14. Fair(a)
  <2>1. a.winner = "A" => v < h
    BY <1>9, <1>11, <1>12
  <2>2. a.winner = "B" => h < v
    BY <1>9, <1>11, <1>12
  <2>3. a.outcome \in BOOLEAN /\ a.lead \in Int
    BY <1>10 DEF JudgeRecord
  <2>4. QED
    BY <1>8, <1>11, <1>13, <2>1, <2>2, <2>3 DEF Balanced, Fair
<1>15. PanelOk(a)
  <2>1. a.at \in {"pairs", "forward"} /\ (a.at = "forward" => a.winner = "none")
    BY <1>11, <1>12
  <2>2. QED
    BY <1>10, <1>13, <1>14, <2>1 DEF PanelOk
<1>16. QED
  BY <1>2, <1>15, PanelUpdate DEF a

LEMMA JudgeStepKeeps ==
  ASSUME JudgesMayOmit = FALSE, PanelInv, NEW j \in Job, NEW over, JudgeStep(j, over)
  PROVE  PanelInv'
<1>1. CASE BeginJudging(j)
  <2>1. JudgeAt(j, "list") /\ Untouched(judge[j])
    BY <1>1 DEF BeginJudging, PanelInv, PanelOk
  <2>2. QED
    BY <2>1, PanelAt
<1>2. CASE FinishJudging(j)
  BY <1>2, PanelAt DEF FinishJudging
<1>3. CASE JudgeRaises(j)
  BY <1>3, FreshElsewhere, PanelUpdate DEF JudgeRaises
<1>4. QED
  BY <1>1, <1>2, <1>3, ListingKeeps, GradingKeeps, PairingKeeps, ForwardKeeps,
     BackwardKeeps DEF JudgeStep

LEMMA StartJudgeKeeps ==
  ASSUME PanelInv, NEW j \in Job, StartJudge(j)
  PROVE  PanelInv'
<1>1. JudgeAt(j, "queued") /\ Untouched(judge[j])
  BY DEF StartJudge, PanelInv, PanelOk
<1>2. QED
  BY <1>1, PanelAt

LEMMA LosingKeeps ==
  ASSUME PanelInv, LoseJudges
  PROVE  PanelInv'
<1>1. ASSUME NEW j \in Job
      PROVE  judge'[j] \in JudgeRecord /\ PanelOk(judge'[j])
  <2>1. judge'[j] = judge[j] \/ judge'[j] = [Fresh EXCEPT !.at = "lost"]
    BY DEF LoseJudges
  <2>2. PanelOk(judge'[j])
    BY <2>1, FreshElsewhere DEF PanelInv
  <2>3. QED
    BY <2>2 DEF PanelOk
<1>2. judge' = [j \in Job |-> judge'[j]]
  BY DEF LoseJudges
<1>3. QED
  BY <1>1, <1>2 DEF PanelInv

LEMMA PanelStep ==
  JudgesMayOmit = FALSE /\ PanelInv /\ [Next]_vars => PanelInv'
<1> SUFFICES ASSUME JudgesMayOmit = FALSE, PanelInv, [Next]_vars PROVE PanelInv'
  OBVIOUS
<1>1. ASSUME UNCHANGED judge PROVE PanelInv'
  BY <1>1 DEF PanelInv
<1>2. CASE UNCHANGED vars
  BY <1>1, <1>2 DEF vars
<1>3. ASSUME NEW j \in Job, Work(j)
      PROVE  PanelInv'
  <2>1. CASE Acquire(j)
    BY <1>1, <2>1, StartJudgeKeeps DEF Acquire, Begin
  <2>2. CASE StepSetup(j) \/ StepBenchmark(j)
    BY <1>1, <2>2 DEF StepSetup, StepBenchmark
  <2>3. CASE LeaveSetup(j) \/ LeaveJudge(j) \/ BuildFails(j) \/ JudgesFail(j)
    BY <1>1, <2>3 DEF LeaveSetup, LeaveJudge, BuildFails, JudgesFail, EnginesIdle
  <2>4. CASE LeaveBenchmark(j)
    BY <1>1, <2>4, StartJudgeKeeps DEF LeaveBenchmark, EnginesIdle
  <2>5. CASE StepJudge(j)
    BY <2>5, JudgeStepKeeps DEF StepJudge
  <2>6. QED
    BY <1>3, <2>1, <2>2, <2>3, <2>4, <2>5 DEF Work
<1>4. ASSUME NEW j \in Job,
             RequestVerify(j) \/ RequestRunAll(j) \/ RequestBenchmark(j)
               \/ RequestJudge(j) \/ RunDesign(j) \/ DesignNotBuilt(j)
      PROVE  PanelInv'
  BY <1>1, <1>4 DEF RequestVerify, RequestRunAll, RequestBenchmark, RequestJudge,
     RunDesign, DesignNotBuilt, Request, EnginesIdle
<1>5. CASE Cancel \/ Restart \/ Provider \/ Stopped
  BY <1>1, <1>5 DEF Cancel, Restart, Provider, Stopped, vars
<1>6. CASE Crash
  BY <1>6, LosingKeeps DEF Crash
<1>7. ASSUME NEW j \in Job, NEW s \in Subject, StepThread(j, s)
      PROVE  PanelInv'
  BY <1>1, <1>7 DEF StepThread
<1>8. QED
  BY <1>2, <1>3, <1>4, <1>5, <1>6, <1>7 DEF Next

(* A panel whose judges answer about every criterion never names the       *)
(* winner of a pair against its own balance, whatever the number of judges *)
(* and the order they are asked in: WinnerHasMajority for every size.      *)
THEOREM PanelFollowsItsJudges ==
  ASSUME JudgesMayOmit = FALSE
  PROVE  Spec => []WinnerHasMajority
<1>1. Init => PanelInv
  BY PanelInitially DEF Init
<1>2. PanelInv /\ [Next]_vars => PanelInv'
  BY PanelStep
<1>3. PanelInv => WinnerHasMajority
  BY DEF PanelInv, PanelOk, Fair, WinnerHasMajority
<1>4. QED
  BY <1>1, <1>2, <1>3, PTL DEF Spec

-----------------------------------------------------------------------------
(* Setup runs.                                                             *)

(* Every job has a row with the column.                                    *)
Table(f) == f = [x \in Job |-> f[x]]
Row(r) == r = [y \in DOMAIN r |-> r[y]]

Machine == {"none", "fresh", "changed", "probed", "approved", "gone", "kept"}
Image == [state: {"none", "pending", "available", "gone"},
          of: {"none", "fresh", "changed", "probed", "approved"}]

Rows ==
  /\ Table(setup) /\ \A j \in Job : Row(setup[j]) /\ "status" \in DOMAIN setup[j]
  /\ Table(fsm) /\ \A j \in Job : Row(fsm[j]) /\ "at" \in DOMAIN fsm[j]
  /\ staging \in [Job -> Machine]
  /\ ami \in [Job -> Image]

Clonable(i) == i.state = "available" /\ i.of = "approved"

(* The approval travels from the probes to the machine, from the machine   *)
(* to the image, and from the image to the row.                            *)
Imaged(at, st, machine, image) ==
  /\ at = "review" => machine = "probed"
  /\ at \in {"create_image", "image_request"} => machine = "approved"
  /\ at = "image_wait" => image.of = "approved" /\ image.state \in {"pending", "available"}
  /\ at = "record_verified" => Clonable(image)
  /\ st = "verified" => Clonable(image) /\ at \in {"mark_verified", "teardown", "ended"}

ImageInv ==
  Rows /\ \A j \in Job : Imaged(fsm[j].at, setup[j].status, staging[j], ami[j])

(* What a step does to one job's row of a table; the other rows stay.      *)
NowAt(j, to) ==
  /\ Table(fsm') /\ \A k \in Job : Row(fsm'[k]) /\ "at" \in DOMAIN fsm'[k]
  /\ fsm'[j].at = to /\ \A k \in Job \ {j} : fsm'[k] = fsm[k]

NowSays(j, st) ==
  /\ Table(setup') /\ \A k \in Job : Row(setup'[k]) /\ "status" \in DOMAIN setup'[k]
  /\ setup'[j].status = st /\ \A k \in Job \ {j} : setup'[k] = setup[k]

LEMMA FsmMoves ==
  ASSUME Rows, NEW j \in Job
  PROVE  /\ \A to : Goto(j, to) => NowAt(j, to)
         /\ \A why : GiveUp(j, why) => NowAt(j, "failed")
<1>1. ASSUME NEW to, Goto(j, to) PROVE NowAt(j, to)
  BY <1>1 DEF Rows, Table, Row, Goto, NowAt
<1>2. ASSUME NEW why, GiveUp(j, why) PROVE NowAt(j, "failed")
  BY <1>2 DEF Rows, Table, Row, GiveUp, NowAt
<1>3. QED
  BY <1>1, <1>2

(* The updates that write further columns too.                             *)
LEMMA FsmWrites ==
  ASSUME Rows, NEW j \in Job, NEW to, NEW v, NEW w
  PROVE  /\ fsm' = [fsm EXCEPT ![j].at = to, ![j].revision = v]
              => NowAt(j, to)
         /\ fsm' = [fsm EXCEPT ![j].at = to, ![j].revision = v, ![j].corrections = w]
              => NowAt(j, to)
         /\ fsm' = [fsm EXCEPT ![j].at = to, ![j].corrections = v]
              => NowAt(j, to)
         /\ fsm' = [fsm EXCEPT ![j].at = to, ![j].corrections = v, ![j].scraps = w]
              => NowAt(j, to)
         /\ fsm' = [fsm EXCEPT ![j].at = to, ![j].budget = v]
              => NowAt(j, to)
         /\ fsm' = [fsm EXCEPT ![j].at = to, ![j].ok = v]
              => NowAt(j, to)
         /\ fsm' = [fsm EXCEPT ![j] = [FsmRecord(to) EXCEPT !.revision = v, !.ok = w]]
              => NowAt(j, to)
<1>1. ASSUME fsm' = [fsm EXCEPT ![j].at = to, ![j].revision = v]
      PROVE  NowAt(j, to)
  BY <1>1 DEF Rows, Table, Row, NowAt
<1>2. ASSUME fsm' = [fsm EXCEPT ![j].at = to, ![j].revision = v, ![j].corrections = w]
      PROVE  NowAt(j, to)
  BY <1>2 DEF Rows, Table, Row, NowAt
<1>3. ASSUME fsm' = [fsm EXCEPT ![j].at = to, ![j].corrections = v]
      PROVE  NowAt(j, to)
  BY <1>3 DEF Rows, Table, Row, NowAt
<1>4. ASSUME fsm' = [fsm EXCEPT ![j].at = to, ![j].corrections = v, ![j].scraps = w]
      PROVE  NowAt(j, to)
  BY <1>4 DEF Rows, Table, Row, NowAt
<1>5. ASSUME fsm' = [fsm EXCEPT ![j].at = to, ![j].budget = v]
      PROVE  NowAt(j, to)
  BY <1>5 DEF Rows, Table, Row, NowAt
<1>6. ASSUME fsm' = [fsm EXCEPT ![j].at = to, ![j].ok = v]
      PROVE  NowAt(j, to)
  BY <1>6 DEF Rows, Table, Row, NowAt
<1>7. ASSUME fsm' = [fsm EXCEPT ![j] = [FsmRecord(to) EXCEPT !.revision = v, !.ok = w]]
      PROVE  NowAt(j, to)
  BY <1>7 DEF Rows, Table, Row, NowAt, FsmRecord
<1>8. QED
  BY <1>1, <1>2, <1>3, <1>4, <1>5, <1>6, <1>7

LEMMA EndingWrites ==
  ASSUME Rows, NEW j \in Job, Teardown(j)
  PROVE  NowAt(j, "ended")
<1>1. PICK well \in {fsm[j].ok, FALSE} : EndSetup(j, well)
  BY DEF Teardown
<1>2. QED
  BY <1>1, FsmWrites DEF EndSetup

LEMMA SetupWrites ==
  ASSUME Rows, NEW j \in Job
  PROVE  /\ \A st : WriteSetup(j, st) => NowSays(j, st)
         /\ \A st : WriteSetupImage(j, st) => NowSays(j, st)
         /\ \A rev : CreateSetupRun(j, rev) => NowSays(j, "running")
         /\ UNCHANGED setup => NowSays(j, setup[j].status)
<1>1. ASSUME NEW st, WriteSetup(j, st) PROVE NowSays(j, st)
  BY <1>1 DEF Rows, Table, Row, WriteSetup, NowSays
<1>2. ASSUME NEW st, WriteSetupImage(j, st) PROVE NowSays(j, st)
  BY <1>2 DEF Rows, Table, Row, WriteSetupImage, NowSays
<1>3. ASSUME NEW rev, CreateSetupRun(j, rev) PROVE NowSays(j, "running")
  BY <1>3 DEF Rows, Table, Row, CreateSetupRun, NowSays
<1>4. ASSUME UNCHANGED setup PROVE NowSays(j, setup[j].status)
  BY <1>4 DEF Rows, Table, Row, NowSays
<1>5. QED
  BY <1>1, <1>2, <1>3, <1>4

(* A failure is written over anything but an end.                          *)
LEMMA FailureWrites ==
  ASSUME Rows, NEW j \in Job, NEW st, FailSetup(j, st)
  PROVE  NowSays(j, st) \/ NowSays(j, setup[j].status)
BY SetupWrites DEF FailSetup

(* A step of one job, by what it leaves in the four tables.                *)
LEMMA OneJob ==
  ASSUME ImageInv, NEW j \in Job, NEW to, NEW st, NowAt(j, to), NowSays(j, st),
         NEW machine \in Machine,
         NEW image \in Image,
         staging' = [staging EXCEPT ![j] = machine], ami' = [ami EXCEPT ![j] = image],
         Imaged(to, st, machine, image)
  PROVE  ImageInv'
<1>1. Rows'
  BY DEF ImageInv, Rows, NowAt, NowSays
<1>2. ASSUME NEW k \in Job
      PROVE  Imaged(fsm'[k].at, setup'[k].status, staging'[k], ami'[k])
  <2>1. CASE k = j
    <3>1. fsm'[k].at = to /\ setup'[k].status = st /\ staging'[k] = machine /\ ami'[k] = image
      BY <2>1 DEF NowAt, NowSays, ImageInv, Rows
    <3>2. QED
      BY <3>1
  <2>2. CASE k # j
    <3>1. /\ fsm'[k] = fsm[k] /\ setup'[k] = setup[k]
          /\ staging'[k] = staging[k] /\ ami'[k] = ami[k]
      BY <2>2 DEF NowAt, NowSays, ImageInv, Rows
    <3>2. QED
      BY <3>1 DEF ImageInv
  <2>3. QED
    BY <2>1, <2>2
<1>3. QED
  BY <1>1, <1>2 DEF ImageInv

(* The machine and the image stay as they are.                             *)
LEMMA SameMachine ==
  ASSUME ImageInv, NEW j \in Job, NEW to, NEW st, NowAt(j, to), NowSays(j, st),
         UNCHANGED <<staging, ami>>, Imaged(to, st, staging[j], ami[j])
  PROVE  ImageInv'
<1>1. /\ staging[j] \in Machine
      /\ ami[j] \in Image
      /\ staging' = [staging EXCEPT ![j] = staging[j]]
      /\ ami' = [ami EXCEPT ![j] = ami[j]]
  BY DEF ImageInv, Rows
<1>2. QED
  BY <1>1, OneJob

(* Only the machine changes.                                               *)
LEMMA NewMachine ==
  ASSUME ImageInv, NEW j \in Job, NEW to, NowAt(j, to), UNCHANGED <<setup, ami>>,
         NEW machine \in Machine,
         staging' = [staging EXCEPT ![j] = machine],
         Imaged(to, setup[j].status, machine, ami[j])
  PROVE  ImageInv'
<1>1. /\ ami[j] \in Image
      /\ ami' = [ami EXCEPT ![j] = ami[j]]
  BY DEF ImageInv, Rows
<1>2. NowSays(j, setup[j].status)
  BY SetupWrites DEF ImageInv
<1>3. QED
  BY <1>1, <1>2, OneJob

(* The steps up to the image: none of them is taken once the run is        *)
(* verified.                                                               *)
LEMMA AttemptKeeps ==
  ASSUME ImageInv, NEW j \in Job,
         \/ Design(j) \/ LaunchStaging(j) \/ Stage(j) \/ Build(j) \/ Verify(j)
         \/ Approve(j) \/ OrderCorrection(j) \/ PlanFix(j) \/ ExecuteFix(j)
         \/ Scrap(j) \/ Raise(j) \/ RejectDraft(j)
  PROVE  ImageInv'
<1>1. Rows /\ Imaged(fsm[j].at, setup[j].status, staging[j], ami[j])
  BY DEF ImageInv
<1>2. NowSays(j, setup[j].status) \/ ~ UNCHANGED setup
  BY <1>1, SetupWrites
<1>3. CASE Design(j)
  <2>1. NowAt(j, "launch") /\ NowSays(j, "running") /\ UNCHANGED <<staging, ami>>
    BY <1>1, <1>3, FsmWrites, SetupWrites DEF Design
  <2>2. QED
    BY <2>1, SameMachine DEF Imaged
<1>4. CASE LaunchStaging(j)
  <2>1. /\ fsm[j].at = "launch" /\ NowAt(j, "staged") /\ UNCHANGED <<setup, ami>>
        /\ staging' = [staging EXCEPT ![j] = "fresh"]
    BY <1>1, <1>4, FsmMoves DEF LaunchStaging, storeVars
  <2>2. Imaged("staged", setup[j].status, "fresh", ami[j]) /\ "fresh" \in Machine
    BY <1>1, <2>1 DEF Imaged, Machine
  <2>3. QED
    BY <2>1, <2>2, NewMachine
<1>5. CASE Stage(j)
  <2>1. NowAt(j, "build") /\ NowSays(j, "running") /\ UNCHANGED <<staging, ami>>
    BY <1>1, <1>5, FsmMoves, SetupWrites DEF Stage
  <2>2. QED
    BY <2>1, SameMachine DEF Imaged
<1>6. CASE Build(j)
  <2>1. /\ fsm[j].at = "build" /\ NowAt(j, "verify") /\ UNCHANGED <<setup, ami>>
        /\ staging' = [staging EXCEPT ![j] = "changed"]
    BY <1>1, <1>6, FsmMoves DEF Build, storeVars
  <2>2. Imaged("verify", setup[j].status, "changed", ami[j]) /\ "changed" \in Machine
    BY <1>1, <2>1 DEF Imaged, Machine
  <2>3. QED
    BY <2>1, <2>2, NewMachine
<1>7. CASE Verify(j)
  <2>1. /\ fsm[j].at = "verify" /\ NowAt(j, "review") /\ UNCHANGED <<setup, ami>>
        /\ staging' = [staging EXCEPT ![j] = "probed"]
    BY <1>1, <1>7, FsmMoves DEF Verify, storeVars
  <2>2. Imaged("review", setup[j].status, "probed", ami[j]) /\ "probed" \in Machine
    BY <1>1, <2>1 DEF Imaged, Machine
  <2>3. QED
    BY <2>1, <2>2, NewMachine
<1>8. CASE Approve(j)
  <2>1. fsm[j].at = "review" /\ staging[j] = "probed" /\ setup[j].status # "verified"
    BY <1>1, <1>8 DEF Approve, Imaged
  <2>2. UNCHANGED <<setup, ami>>
    BY <1>8 DEF Approve, storeVars
  <2>3. ASSUME staging' = [staging EXCEPT ![j] = "approved"], NowAt(j, "create_image")
        PROVE  ImageInv'
    <3>1. Imaged("create_image", setup[j].status, "approved", ami[j]) /\ "approved" \in Machine
      BY <2>1 DEF Imaged, Machine
    <3>2. QED
      BY <2>2, <2>3, <3>1, NewMachine
  <2>4. ASSUME NowAt(j, "failed"), UNCHANGED staging
        PROVE  ImageInv'
    BY <1>2, <2>1, <2>2, <2>4, SameMachine DEF Imaged
  <2>5. \/ staging' = [staging EXCEPT ![j] = "approved"] /\ NowAt(j, "create_image")
        \/ NowAt(j, "failed") /\ UNCHANGED staging
    BY <1>1, <1>8, <2>1, FsmMoves DEF Approve, Rows
  <2>6. QED
    BY <2>3, <2>4, <2>5
<1>9. CASE OrderCorrection(j)
  <2>1. /\ fsm[j].at = "review" /\ UNCHANGED <<setup, staging, ami>>
        /\ NowAt(j, "fix_plan") \/ NowAt(j, "scrap")
    BY <1>1, <1>9, FsmMoves DEF OrderCorrection, storeVars, cloudVars
  <2>2. QED
    BY <1>1, <1>2, <2>1, SameMachine DEF Imaged
<1>10. CASE PlanFix(j)
  <2>1. /\ fsm[j].at = "fix_plan" /\ UNCHANGED <<setup, staging, ami>>
        /\ NowAt(j, "fix_execute") \/ NowAt(j, "failed")
    BY <1>1, <1>10, FsmMoves DEF PlanFix, storeVars, cloudVars
  <2>2. QED
    BY <1>1, <1>2, <2>1, SameMachine DEF Imaged
<1>11. CASE ExecuteFix(j)
  <2>1. /\ fsm[j].at = "fix_execute" /\ NowAt(j, "verify") /\ UNCHANGED <<setup, ami>>
        /\ staging' = [staging EXCEPT ![j] = "changed"]
    BY <1>1, <1>11, FsmWrites DEF ExecuteFix, storeVars
  <2>2. Imaged("verify", setup[j].status, "changed", ami[j]) /\ "changed" \in Machine
    BY <1>1, <2>1 DEF Imaged, Machine
  <2>3. QED
    BY <2>1, <2>2, NewMachine
<1>12. CASE Scrap(j)
  <2>1. fsm[j].at = "scrap" /\ UNCHANGED <<setup, ami>>
    BY <1>12 DEF Scrap, storeVars
  <2>2. ASSUME NowAt(j, "failed"), UNCHANGED staging
        PROVE  ImageInv'
    BY <1>1, <1>2, <2>1, <2>2, SameMachine DEF Imaged
  <2>3. ASSUME NowAt(j, "design"), staging' = [staging EXCEPT ![j] = "gone"]
        PROVE  ImageInv'
    <3>1. Imaged("design", setup[j].status, "gone", ami[j]) /\ "gone" \in Machine
      BY <1>1, <2>1 DEF Imaged, Machine
    <3>2. QED
      BY <2>1, <2>3, <3>1, NewMachine
  <2>4. CASE GiveUp(j, "exhausted_scrap_budget") /\ UNCHANGED staging
    BY <1>1, <2>2, <2>4, FsmMoves
  <2>5. CASE /\ fsm' = [fsm EXCEPT ![j].at = "design", ![j].corrections = 0,
                                  ![j].scraps = fsm[j].scraps + 1]
             /\ staging' = [staging EXCEPT ![j] = "gone"]
    BY <1>1, <2>3, <2>5, FsmWrites
  <2>6. ASSUME Goto(j, "raised"), NEW left \in {"gone", staging[j]},
               staging' = [staging EXCEPT ![j] = left]
        PROVE  ImageInv'
    <3>1. NowAt(j, "raised")
      BY <1>1, <2>6, FsmMoves
    <3>2. Imaged("raised", setup[j].status, left, ami[j]) /\ left \in Machine
      BY <1>1, <2>1 DEF Imaged, Machine, Rows
    <3>3. QED
      BY <2>1, <2>6, <3>1, <3>2, NewMachine
  <2>7. QED
    BY <1>12, <2>4, <2>5, <2>6 DEF Scrap
<1>13. CASE Raise(j) \/ RejectDraft(j)
  <2>1. /\ fsm[j].at \in MayRaise \cup {"design"} /\ UNCHANGED <<setup, staging, ami>>
        /\ NowAt(j, "raised")
    BY <1>1, <1>13, FsmMoves DEF Raise, RejectDraft, storeVars, cloudVars
  <2>2. QED
    BY <1>1, <1>2, <2>1, SameMachine DEF Imaged, MayRaise
<1>14. QED
  BY <1>3, <1>4, <1>5, <1>6, <1>7, <1>8, <1>9, <1>10, <1>11, <1>12, <1>13

(* Only the image changes.                                                 *)
LEMMA NewImage ==
  ASSUME ImageInv, NEW j \in Job, NEW to, NEW st, NowAt(j, to), NowSays(j, st),
         UNCHANGED staging, NEW image \in Image,
         ami' = [ami EXCEPT ![j] = image], Imaged(to, st, staging[j], image)
  PROVE  ImageInv'
<1>1. staging[j] \in Machine /\ staging' = [staging EXCEPT ![j] = staging[j]]
  BY DEF ImageInv, Rows
<1>2. QED
  BY <1>1, OneJob

(* The image, from the request to the row that says so.                    *)
LEMMA ImagingKeeps ==
  ASSUME ImageInv, NEW j \in Job,
         \/ CreateImage(j) \/ RequestImage(j) \/ RequestImageRaises(j)
         \/ PollImage(j) \/ GiveUpImage(j) \/ FailImage(j)
         \/ RecordVerified(j) \/ MarkVerified(j)
  PROVE  ImageInv'
<1>1. Rows /\ Imaged(fsm[j].at, setup[j].status, staging[j], ami[j])
  BY DEF ImageInv
<1>2. NowSays(j, setup[j].status) \/ ~ UNCHANGED setup
  BY <1>1, SetupWrites
<1>3. CASE CreateImage(j)
  <2>1. /\ fsm[j].at = "create_image" /\ UNCHANGED <<staging, ami>>
        /\ NowAt(j, "image_request") /\ NowSays(j, "creating_broken_image")
    BY <1>1, <1>3, FsmMoves, SetupWrites DEF CreateImage
  <2>2. Imaged("image_request", "creating_broken_image", staging[j], ami[j])
    BY <1>1, <2>1 DEF Imaged
  <2>3. QED
    BY <2>1, <2>2, SameMachine
<1>4. CASE RequestImage(j)
  <2> DEFINE image == [state |-> "pending", of |-> staging[j]]
  <2>1. /\ fsm[j].at = "image_request" /\ UNCHANGED staging
        /\ NowAt(j, "image_wait") /\ NowSays(j, "creating_broken_image")
        /\ ami' = [ami EXCEPT ![j] = image]
    BY <1>1, <1>4, FsmMoves, SetupWrites DEF RequestImage
  <2>2. staging[j] = "approved"
    BY <1>1, <2>1 DEF Imaged
  <2>3. image \in Image /\ image.state = "pending" /\ image.of = "approved"
    BY <2>2 DEF Image
  <2> HIDE DEF image
  <2>4. Imaged("image_wait", "creating_broken_image", staging[j], image)
    BY <2>3 DEF Imaged
  <2>5. QED
    BY <2>1, <2>3, <2>4, NewImage
<1>5. CASE RequestImageRaises(j)
  <2>1. /\ fsm[j].at = "image_request" /\ UNCHANGED <<setup, staging, ami>>
        /\ NowAt(j, "image_failed")
    BY <1>1, <1>5, FsmMoves DEF RequestImageRaises, storeVars, cloudVars
  <2>2. Imaged("image_failed", setup[j].status, staging[j], ami[j])
    BY <1>1, <2>1 DEF Imaged
  <2>3. QED
    BY <1>2, <2>1, <2>2, SameMachine
<1>6. CASE PollImage(j)
  <2>1. fsm[j].at = "image_wait" /\ UNCHANGED <<staging, ami>>
    BY <1>6 DEF PollImage
  <2>2. NowSays(j, "creating_broken_image")
    BY <1>1, <1>6, SetupWrites DEF PollImage
  <2> DEFINE to == IF ami[j].state = "available" THEN "record_verified" ELSE "image_wait"
  <2>3. NowAt(j, to)
    BY <1>1, <1>6, FsmMoves DEF PollImage
  <2>4. Imaged(to, "creating_broken_image", staging[j], ami[j])
    BY <1>1, <2>1 DEF Imaged, Clonable
  <2> HIDE DEF to
  <2>5. QED
    BY <2>1, <2>2, <2>3, <2>4, SameMachine
<1>7. CASE GiveUpImage(j)
  <2>0. PICK left \in {"gone", ami[j].state} : ami' = [ami EXCEPT ![j].state = left]
    BY <1>7 DEF GiveUpImage
  <2> DEFINE image == [ami[j] EXCEPT !.state = left]
  <2>1. /\ fsm[j].at = "image_wait" /\ UNCHANGED <<setup, staging>>
        /\ NowAt(j, "image_failed") /\ ami' = [ami EXCEPT ![j] = image]
    BY <1>1, <1>7, <2>0, FsmMoves DEF GiveUpImage, storeVars
  <2>2. image \in Image
    BY <1>1 DEF Rows, Image
  <2> HIDE DEF image
  <2>3. Imaged("image_failed", setup[j].status, staging[j], image)
    BY <1>1, <2>1 DEF Imaged
  <2>4. QED
    BY <1>2, <2>1, <2>2, <2>3, NewImage
<1>8. CASE FailImage(j)
  <2>1. /\ UNCHANGED <<staging, ami>>
        /\ NowAt(j, "teardown") /\ NowSays(j, "failed_infra")
    BY <1>1, <1>8, FsmMoves, SetupWrites DEF FailImage
  <2>2. Imaged("teardown", "failed_infra", staging[j], ami[j])
    BY DEF Imaged
  <2>3. QED
    BY <2>1, <2>2, SameMachine
<1>9. CASE RecordVerified(j)
  <2>1. /\ fsm[j].at = "record_verified" /\ UNCHANGED <<staging, ami>>
        /\ NowAt(j, "mark_verified") /\ NowSays(j, "verified")
    BY <1>1, <1>9, FsmMoves, SetupWrites DEF RecordVerified
  <2>2. Imaged("mark_verified", "verified", staging[j], ami[j])
    BY <1>1, <2>1 DEF Imaged
  <2>3. QED
    BY <2>1, <2>2, SameMachine
<1>10. CASE MarkVerified(j)
  <2>1. /\ fsm[j].at = "mark_verified" /\ UNCHANGED <<setup, staging, ami>>
        /\ NowAt(j, "teardown")
    BY <1>1, <1>10, FsmWrites DEF MarkVerified
  <2>2. Imaged("teardown", setup[j].status, staging[j], ami[j])
    BY <1>1, <2>1 DEF Imaged
  <2>3. QED
    BY <1>2, <2>1, <2>2, SameMachine
<1>11. QED
  BY <1>3, <1>4, <1>5, <1>6, <1>7, <1>8, <1>9, <1>10

(* A failure is never written over "verified", and the teardown leaves the *)
(* row and the image.                                                      *)
LEMMA EndingKeeps ==
  ASSUME ImageInv, NEW j \in Job, HandleFailed(j) \/ HandleRaise(j) \/ Teardown(j)
  PROVE  ImageInv'
<1>1. Rows /\ Imaged(fsm[j].at, setup[j].status, staging[j], ami[j])
  BY DEF ImageInv
<1>2. NowSays(j, setup[j].status) \/ ~ UNCHANGED setup
  BY <1>1, SetupWrites
<1>3. CASE HandleFailed(j) \/ HandleRaise(j)
  <2>1. /\ fsm[j].at \in {"failed", "raised"} /\ UNCHANGED <<staging, ami>>
        /\ NowAt(j, "teardown")
    BY <1>1, <1>3, FsmMoves DEF HandleFailed, HandleRaise
  <2>2. PICK st : FailSetup(j, st) /\ st # "verified"
    <3>1. FailureStatus(fsm[j].reason) # "verified"
      BY DEF FailureStatus
    <3>2. QED
      BY <1>3, <3>1 DEF HandleFailed, HandleRaise
  <2>3. NowSays(j, st) \/ NowSays(j, setup[j].status)
    BY <1>1, <2>2, FailureWrites
  <2>4. /\ Imaged("teardown", st, staging[j], ami[j])
        /\ Imaged("teardown", setup[j].status, staging[j], ami[j])
    BY <1>1, <2>1, <2>2 DEF Imaged
  <2>5. QED
    BY <2>1, <2>3, <2>4, SameMachine
<1>4. CASE Teardown(j)
  <2>1. fsm[j].at = "teardown" /\ UNCHANGED <<setup, ami>>
    BY <1>4 DEF Teardown, storeVars
  <2>2. NowAt(j, "ended")
    BY <1>1, <1>4, EndingWrites
  <2>3. PICK machine \in Machine : staging' = [staging EXCEPT ![j] = machine]
    BY <1>1, <1>4 DEF Teardown, Rows, Machine
  <2>4. Imaged("ended", setup[j].status, machine, ami[j])
    BY <1>1, <2>1 DEF Imaged
  <2>5. QED
    BY <2>1, <2>2, <2>3, <2>4, NewMachine
<1>5. QED
  BY <1>3, <1>4

(* The two entries find no verified row: the machine is idle.              *)
LEMMA EntryKeeps ==
  ASSUME ImageInv, NEW j \in Job, StartDesign(j) \/ \E rev : StartExisting(j, rev)
  PROVE  ImageInv'
<1>1. Rows /\ Imaged(fsm[j].at, setup[j].status, staging[j], ami[j])
  BY DEF ImageInv
<1>2. NowSays(j, setup[j].status) \/ ~ UNCHANGED setup
  BY <1>1, SetupWrites
<1>3. CASE StartDesign(j)
  <2>1. /\ fsm[j].at = "idle" /\ NowAt(j, "design") /\ UNCHANGED <<setup, staging, ami>>
    BY <1>1, <1>3, FsmWrites DEF StartDesign, storeVars, cloudVars
  <2>2. Imaged("design", setup[j].status, staging[j], ami[j])
    BY <1>1, <2>1 DEF Imaged
  <2>3. QED
    BY <1>2, <2>1, <2>2, SameMachine
<1>4. CASE \E rev : StartExisting(j, rev)
  <2> PICK rev : StartExisting(j, rev)
    BY <1>4
  <2>0. fsm' = [fsm EXCEPT ![j].at = "launch", ![j].revision = rev]
    BY DEF StartExisting
  <2>1. NowAt(j, "launch") /\ NowSays(j, "running") /\ UNCHANGED <<staging, ami>>
    <3>1. NowAt(j, "launch")
      BY <1>1, <2>0, FsmWrites
    <3>2. NowSays(j, "running")
      BY <1>1, SetupWrites DEF StartExisting
    <3>3. QED
      BY <3>1, <3>2 DEF StartExisting
  <2>2. Imaged("launch", "running", staging[j], ami[j])
    BY DEF Imaged
  <2>3. QED
    BY <2>1, <2>2, SameMachine
<1>5. QED
  BY <1>3, <1>4

(* The provider finishes an image that a setup waits for, or one nobody    *)
(* waits for any more: no row calls it verified yet.                       *)
LEMMA ProviderKeeps ==
  ASSUME ImageInv, NEW j \in Job, ImageBuilt(j)
  PROVE  ImageInv'
<1> DEFINE image == [ami[j] EXCEPT !.state = "available"]
<1>1. /\ Rows /\ Imaged(fsm[j].at, setup[j].status, staging[j], ami[j])
      /\ ami[j] \in Image /\ ami[j].state = "pending"
  BY DEF ImageInv, Rows, ImageBuilt
<1>2. /\ ami' = [ami EXCEPT ![j] = image] /\ UNCHANGED <<setup, staging, fsm>>
  BY DEF ImageBuilt, storeVars
<1>3. image \in Image /\ image.state = "available" /\ image.of = ami[j].of
  BY <1>1 DEF Image
<1> HIDE DEF image
<1>4. NowAt(j, fsm[j].at) /\ NowSays(j, setup[j].status)
  BY <1>1, <1>2, SetupWrites DEF NowAt, Rows
<1>5. Imaged(fsm[j].at, setup[j].status, staging[j], image)
  BY <1>1, <1>3 DEF Imaged, Clonable
<1>6. QED
  BY <1>2, <1>3, <1>4, <1>5, NewImage

imageTables == <<setup, fsm, staging, ami>>

LEMMA Elsewhere ==
  ASSUME ImageInv, UNCHANGED imageTables
  PROVE  ImageInv'
BY DEF ImageInv, Rows, imageTables

(* Who else works on the store leaves these tables alone.                  *)
LEMMA OthersStayAway ==
  /\ \A j \in Job : BenchStep(j) /\ UNCHANGED fsm => UNCHANGED imageTables
  /\ \A j \in Job, s \in Subject :
       ThreadStep(j, s) /\ UNCHANGED fsm => UNCHANGED imageTables
  /\ \A j \in Job : \A over :
       JudgeStep(j, over) /\ UNCHANGED fsm => UNCHANGED imageTables
<1>1. ASSUME NEW j \in Job, BenchStep(j), UNCHANGED fsm
      PROVE  UNCHANGED imageTables
  BY <1>1 DEF BenchStep, LaunchClones, LaunchFails, Submit, Await, Settle, ListOpen,
     MarkOpen, Interrupt, imageTables, storeVars, cloudVars, untouchedStore
<1>2. ASSUME NEW j \in Job, NEW s \in Subject, ThreadStep(j, s), UNCHANGED fsm
      PROVE  UNCHANGED imageTables
  BY <1>2 DEF ThreadStep, RefuseSubject, Boot, FidelityFails, OpenSession,
     SubjectReplies, CheckPasses, CheckFails, ProxyAsks, ProxyCallsFail, ProxyTurn,
     Continue, Stall, StallOut, ClosingWords, Exhaust, ThreadRaises, Abort, DestroyClone, Conclude,
     StayInStore, imageTables, storeVars, untouchedStore
<1>3. ASSUME NEW j \in Job, NEW over, JudgeStep(j, over), UNCHANGED fsm
      PROVE  UNCHANGED imageTables
  BY <1>3 DEF JudgeStep, BeginJudging, ListEvaluations, GradeEvaluation, NextPair,
     CompareForward, CompareBackward, FinishJudging, JudgeRaises, otherTables,
     imageTables, cloudVars
<1>4. QED
  BY <1>1, <1>2, <1>3

LEMMA StartsStayAway ==
  /\ \A j \in Job : \A rev, over :
       StartBenchmark(j, rev, over) /\ UNCHANGED fsm => UNCHANGED imageTables
  /\ \A j \in Job : StartJudge(j) /\ UNCHANGED fsm => UNCHANGED imageTables
BY DEF StartBenchmark, StartJudge, otherTables, untouchedStore, imageTables, cloudVars

(* A cancel request and a restart never write "verified".                  *)
LEMMA RenamesKeep ==
  ASSUME ImageInv, Cancel \/ Restart
  PROVE  ImageInv'
<1>1. UNCHANGED <<fsm, staging, ami>>
  BY DEF Cancel, Restart, cloudVars
<1>2. /\ Table(setup') /\ \A k \in Job : Row(setup'[k]) /\ "status" \in DOMAIN setup'[k]
      /\ \A k \in Job : setup'[k].status \in {setup[k].status, "cancelled", "failed"}
  <2>1. CASE Cancel
    <3>1. CASE UNCHANGED setup
      BY <3>1 DEF ImageInv, Rows, Table, Row
    <3>2. CASE \E j \in Job : WriteSetup(j, "cancelled")
      BY <3>2 DEF ImageInv, Rows, Table, Row, WriteSetup
    <3>3. QED
      BY <2>1, <3>1, <3>2 DEF Cancel
  <2>2. CASE Restart
    BY <2>2 DEF Restart, ImageInv, Rows, Table, Row
  <2>3. QED
    BY <2>1, <2>2
<1>3. ASSUME NEW k \in Job
      PROVE  Imaged(fsm[k].at, setup'[k].status, staging[k], ami[k])
  BY <1>2 DEF ImageInv, Imaged
<1>4. QED
  BY <1>1, <1>2, <1>3 DEF ImageInv, Rows

LEMMA CrashKeeps ==
  ASSUME ImageInv, Crash
  PROVE  ImageInv'
<1>1. UNCHANGED <<setup, staging, ami>>
  BY DEF Crash, storeVars, cloudVars
<1>2. /\ Table(fsm') /\ \A k \in Job : Row(fsm'[k]) /\ "at" \in DOMAIN fsm'[k]
      /\ \A k \in Job : fsm'[k].at \in {fsm[k].at, "ended"}
  BY DEF Crash, ImageInv, Rows, Table, Row, FsmRecord
<1>3. ASSUME NEW k \in Job
      PROVE  Imaged(fsm'[k].at, setup[k].status, staging[k], ami[k])
  BY <1>2 DEF ImageInv, Imaged
<1>4. QED
  BY <1>1, <1>2, <1>3 DEF ImageInv, Rows

LEMMA ImageStep == ImageInv /\ [Next]_vars => ImageInv'
<1> SUFFICES ASSUME ImageInv, [Next]_vars PROVE ImageInv'
  OBVIOUS
<1>1. CASE UNCHANGED vars
  BY <1>1, Elsewhere DEF vars, storeVars, cloudVars, imageTables
<1>2. ASSUME EnginesIdle PROVE ImageInv'
  BY <1>2, Elsewhere DEF EnginesIdle, storeVars, cloudVars, imageTables
<1>3. ASSUME NEW j \in Job, Work(j)
      PROVE  ImageInv'
  <2>1. CASE Acquire(j)
    BY <2>1, EntryKeeps, StartsStayAway, Elsewhere DEF Acquire, Begin
  <2>2. CASE StepSetup(j)
    BY <2>2, AttemptKeeps, ImagingKeeps, EndingKeeps DEF StepSetup, SetupStep
  <2>3. CASE StepBenchmark(j) \/ StepJudge(j)
    BY <2>3, OthersStayAway, Elsewhere DEF StepBenchmark, StepJudge
  <2>4. CASE LeaveSetup(j)
    BY <1>2, <2>4, StartsStayAway, Elsewhere DEF LeaveSetup
  <2>5. CASE LeaveBenchmark(j)
    BY <1>2, <2>5, StartsStayAway, Elsewhere DEF LeaveBenchmark
  <2>6. CASE LeaveJudge(j) \/ BuildFails(j) \/ JudgesFail(j)
    BY <1>2, <2>6 DEF LeaveJudge, BuildFails, JudgesFail
  <2>7. QED
    BY <1>3, <2>1, <2>2, <2>3, <2>4, <2>5, <2>6 DEF Work
<1>4. ASSUME NEW j \in Job,
             RequestVerify(j) \/ RequestRunAll(j) \/ RequestBenchmark(j)
               \/ RequestJudge(j) \/ RunDesign(j) \/ DesignNotBuilt(j)
      PROVE  ImageInv'
  <2>1. CASE RunDesign(j)
    BY <2>1, EntryKeeps DEF RunDesign
  <2>2. CASE RequestVerify(j) \/ RequestRunAll(j) \/ RequestBenchmark(j) \/ RequestJudge(j)
               \/ DesignNotBuilt(j)
    BY <1>2, <2>2 DEF RequestVerify, RequestRunAll, RequestBenchmark, RequestJudge, Request,
       DesignNotBuilt
  <2>3. QED
    BY <1>4, <2>1, <2>2
<1>5. CASE Provider
  <2>1. ASSUME NEW j \in Job, NEW s \in Subject, MachineSettles(j, s), UNCHANGED fsm
        PROVE  UNCHANGED imageTables
    BY <2>1 DEF MachineSettles, StayInStore, storeVars, imageTables
  <2>2. QED
    BY <1>5, <2>1, ProviderKeeps, Elsewhere DEF Provider
<1>6. ASSUME NEW j \in Job, NEW s \in Subject, StepThread(j, s)
      PROVE  ImageInv'
  BY <1>6, OthersStayAway, Elsewhere DEF StepThread
<1>7. QED
  BY <1>1, <1>3, <1>4, <1>5, <1>6, RenamesKeep, CrashKeeps DEF Next, Stopped

LEMMA ImageInitially == Init => ImageInv
<1> SUFFICES ASSUME Init PROVE ImageInv
  OBVIOUS
<1>1. Rows
  BY DEF Init, StoreInit, FsmInit, FsmRecord, Rows, Table, Row, Machine, Image
<1>2. ASSUME NEW j \in Job
      PROVE  fsm[j].at = "idle" /\ setup[j].status = "none"
  BY DEF Init, StoreInit, FsmInit, FsmRecord
<1>3. QED
  BY <1>1, <1>2 DEF ImageInv, Imaged

(* VerifiedMeansImaged for every size: through any number of corrections,  *)
(* scraps, cancel requests, deaths and restarts, a setup run that says     *)
(* "verified" has an available image of a machine that was approved.       *)
THEOREM VerifiedIsImaged == Spec => []VerifiedMeansImaged
<1>1. Init => ImageInv
  BY ImageInitially
<1>2. ImageInv /\ [Next]_vars => ImageInv'
  BY ImageStep
<1>3. ImageInv => VerifiedMeansImaged
  BY DEF ImageInv, Rows, Imaged, Image, Clonable, VerifiedMeansImaged
<1>4. QED
  BY <1>1, <1>2, <1>3, PTL DEF Spec


-----------------------------------------------------------------------------
(* Staging machines.                                                       *)

(* Where no machine is up: before one is launched, and after the teardown. *)
Idle(at) == at \in {"idle", "design", "launch", "ended"}

Held(at, machine, phase) ==
  machine \in {"none", "gone", "kept"} \/ ~ Idle(at) \/ phase = "lost"

JobTable ==
  Table(job) /\ \A j \in Job : Row(job[j]) /\ {"kind", "phase"} \subseteq DOMAIN job[j]

(* A machine that the provider keeps is of a setup that has failed, and a  *)
(* job that nothing was asked of has not died either.                      *)
JobOk(j) ==
  /\ Held(fsm[j].at, staging[j], job[j].phase)
  /\ staging[j] = "kept" => fsm[j].at = "ended" /\ ~ fsm[j].ok
  /\ job[j].kind = "none" => job[j].phase = "none"

StagingInv == JobTable /\ \A j \in Job : JobOk(j)

(* A step of one job.                                                      *)
LEMMA OneJobHeld ==
  ASSUME StagingInv, NEW j \in Job, JobTable', JobOk(j)',
         \A k \in Job \ {j} :
           fsm'[k] = fsm[k] /\ staging'[k] = staging[k] /\ job'[k] = job[k]
  PROVE  StagingInv'
<1>1. ASSUME NEW k \in Job, k # j PROVE JobOk(k)'
  BY <1>1 DEF StagingInv, JobOk
<1>2. QED
  BY <1>1 DEF StagingInv

LEMMA HeldElsewhere ==
  ASSUME StagingInv, UNCHANGED <<fsm, staging, job>>
  PROVE  StagingInv'
BY DEF StagingInv, JobTable, JobOk

(* The machine of the setup leaves for a state from which a teardown       *)
(* follows; the other setups stay where they are.                          *)
Busy(j) == ~ Idle(fsm'[j].at) /\ \A k \in Job \ {j} : fsm'[k] = fsm[k]

LEMMA BusyMoves ==
  ASSUME Rows, NEW j \in Job
  PROVE  /\ \A to : NowAt(j, to) /\ ~ Idle(to) => Busy(j)
         /\ \A to : Goto(j, to) /\ ~ Idle(to) => Busy(j)
         /\ \A why : GiveUp(j, why) => Busy(j)
<1>1. \A to : NowAt(j, to) /\ ~ Idle(to) => Busy(j)
  BY DEF NowAt, Busy
<1>2. ~ Idle("failed")
  BY DEF Idle
<1>3. QED
  BY <1>1, <1>2, FsmMoves

LEMMA AttemptIsBusy ==
  ASSUME Rows, NEW j \in Job,
         \/ LaunchStaging(j) \/ Stage(j) \/ Build(j) \/ Verify(j) \/ Approve(j)
         \/ OrderCorrection(j) \/ PlanFix(j) \/ ExecuteFix(j) \/ Raise(j)
         \/ RejectDraft(j)
  PROVE  Busy(j)
<1>1. ASSUME LaunchStaging(j) \/ Stage(j) \/ Build(j) \/ Verify(j) PROVE Busy(j)
  BY <1>1, BusyMoves DEF Idle, LaunchStaging, Stage, Build, Verify
<1>2. ASSUME Approve(j) PROVE Busy(j)
  BY <1>2, BusyMoves DEF Idle, Approve
<1>3. ASSUME OrderCorrection(j) \/ PlanFix(j) \/ Raise(j) \/ RejectDraft(j) PROVE Busy(j)
  BY <1>3, BusyMoves DEF Idle, OrderCorrection, PlanFix, Raise, RejectDraft
<1>4. ASSUME ExecuteFix(j) PROVE Busy(j)
  <2>1. NowAt(j, "verify")
    BY <1>4, FsmWrites DEF ExecuteFix
  <2>2. QED
    BY <2>1, BusyMoves DEF Idle
<1>5. QED
  BY <1>1, <1>2, <1>3, <1>4

LEMMA ImagingIsBusy ==
  ASSUME Rows, NEW j \in Job,
         \/ CreateImage(j) \/ RequestImage(j) \/ RequestImageRaises(j)
         \/ PollImage(j) \/ GiveUpImage(j) \/ FailImage(j)
         \/ RecordVerified(j) \/ MarkVerified(j)
         \/ HandleFailed(j) \/ HandleRaise(j)
  PROVE  Busy(j)
<1>1. ASSUME CreateImage(j) \/ RequestImage(j) \/ RequestImageRaises(j) PROVE Busy(j)
  BY <1>1, BusyMoves DEF Idle, CreateImage, RequestImage, RequestImageRaises
<1>2. ASSUME PollImage(j) PROVE Busy(j)
  BY <1>2, BusyMoves DEF Idle, PollImage
<1>3. ASSUME GiveUpImage(j) \/ FailImage(j) \/ RecordVerified(j) PROVE Busy(j)
  BY <1>3, BusyMoves DEF Idle, GiveUpImage, FailImage, RecordVerified
<1>4. ASSUME MarkVerified(j) PROVE Busy(j)
  <2>1. NowAt(j, "teardown")
    BY <1>4, FsmWrites DEF MarkVerified
  <2>2. QED
    BY <2>1, BusyMoves DEF Idle
<1>5. ASSUME HandleFailed(j) \/ HandleRaise(j) PROVE Busy(j)
  BY <1>5, BusyMoves DEF Idle, HandleFailed, HandleRaise
<1>6. QED
  BY <1>1, <1>2, <1>3, <1>4, <1>5

(* Where a step of the machine does not stay among those states, it finds  *)
(* the instance gone or lets it go.                                        *)
LEMMA SetupHolds ==
  ASSUME Rows, StagingInv, NEW j \in Job, StepSetup(j)
  PROVE  StagingInv'
<1>1. /\ job' = job /\ JobTable /\ JobTable' /\ JobOk(j)
      /\ job[j].phase = "setup"
  BY DEF StepSetup, jobVars, StagingInv, JobTable
<1>2. \A k \in Job \ {j} : staging'[k] = staging[k]
  <2>1. UNCHANGED staging \/ \E m : staging' = [staging EXCEPT ![j] = m]
    BY DEF StepSetup, SetupStep, Design, LaunchStaging, Stage, Build, Verify, Approve,
       OrderCorrection, PlanFix, ExecuteFix, Scrap, CreateImage, RequestImage,
       RequestImageRaises, PollImage, GiveUpImage, FailImage, RecordVerified,
       MarkVerified, Raise, RejectDraft, HandleFailed, HandleRaise, Teardown, cloudVars
  <2>2. QED
    BY <2>1 DEF Rows
<1>9. ASSUME ~ Teardown(j) PROVE staging'[j] # "kept"
  <2>1. fsm[j].at # "ended"
    BY DEF StepSetup, SetupStep, Design, LaunchStaging, Stage, Build, Verify, Approve,
       OrderCorrection, PlanFix, ExecuteFix, Scrap, CreateImage, RequestImage,
       RequestImageRaises, PollImage, GiveUpImage, FailImage, RecordVerified, MayRaise,
       MarkVerified, Raise, RejectDraft, HandleFailed, HandleRaise, Teardown
  <2>2. staging[j] # "kept"
    BY <1>1, <2>1 DEF JobOk
  <2>3. \/ UNCHANGED staging
        \/ \E m : m # "kept" /\ staging' = [staging EXCEPT ![j] = m]
    BY <1>9, <2>2 DEF StepSetup, SetupStep, Design, LaunchStaging, Stage, Build, Verify,
       Approve, OrderCorrection, PlanFix, ExecuteFix, Scrap, CreateImage, RequestImage,
       RequestImageRaises, PollImage, GiveUpImage, FailImage, RecordVerified,
       MarkVerified, Raise, RejectDraft, HandleFailed, HandleRaise, cloudVars
  <2>4. QED
    BY <2>2, <2>3 DEF Rows
<1>3. ASSUME Busy(j), ~ Teardown(j) PROVE StagingInv'
  <2>1. JobOk(j)'
    BY <1>1, <1>3, <1>9 DEF JobOk, Busy, Held
  <2>2. QED
    BY <1>1, <1>2, <1>3, <2>1, OneJobHeld DEF Busy
<1>4. ASSUME NEW to, NowAt(j, to), staging'[j] \in {"none", "gone"} PROVE StagingInv'
  <2>1. JobOk(j)'
    BY <1>1, <1>4 DEF JobOk, Held
  <2>2. QED
    BY <1>1, <1>2, <1>4, <2>1, OneJobHeld DEF NowAt
<1>5. CASE Design(j)
  <2>1. NowAt(j, "launch") /\ UNCHANGED staging /\ fsm[j].at = "design"
    BY <1>5, FsmWrites DEF Design
  <2>2. staging[j] \in {"none", "gone"}
    BY <1>1, <2>1 DEF JobOk, Held, Idle
  <2>3. QED
    BY <1>4, <2>1, <2>2
<1>6. CASE Scrap(j)
  <2>0. ~ Teardown(j)
    BY <1>6 DEF Scrap, Teardown
  <2>1. CASE GiveUp(j, "exhausted_scrap_budget") \/ Goto(j, "raised")
    BY <1>3, <2>0, <2>1, BusyMoves DEF Idle
  <2>2. CASE /\ fsm' = [fsm EXCEPT ![j].at = "design", ![j].corrections = 0,
                                  ![j].scraps = fsm[j].scraps + 1]
             /\ staging' = [staging EXCEPT ![j] = "gone"]
    <3>1. NowAt(j, "design")
      BY <2>2, FsmWrites
    <3>2. staging'[j] = "gone"
      BY <2>2 DEF Rows
    <3>3. QED
      BY <1>4, <3>1, <3>2
  <2>3. QED
    BY <1>6, <2>1, <2>2 DEF Scrap
<1>7. CASE Teardown(j)
  <2>1. NowAt(j, "ended")
    BY <1>7, EndingWrites
  <2>2. CASE staging'[j] \in {"none", "gone"}
    BY <1>4, <2>1, <2>2
  <2>3. CASE staging'[j] = "kept"
    <3>1. EndSetup(j, FALSE)
      BY <1>7, <2>3 DEF Teardown, Rows
    <3>2. ~ fsm'[j].ok
      BY <3>1 DEF EndSetup, FsmRecord, Rows, Table
    <3>3. JobOk(j)'
      BY <1>1, <2>1, <2>3, <3>2 DEF JobOk, Held, NowAt
    <3>4. QED
      BY <1>1, <1>2, <2>1, <3>3, OneJobHeld DEF NowAt
  <2>4. staging'[j] \in {"none", "gone", "kept"}
    BY <1>7 DEF Teardown, Rows
  <2>5. QED
    BY <2>2, <2>3, <2>4
<1>8. ASSUME ~ Teardown(j), ~ Design(j), ~ Scrap(j) PROVE Busy(j)
  BY <1>8, AttemptIsBusy, ImagingIsBusy DEF StepSetup, SetupStep
<1>10. QED
  BY <1>3, <1>5, <1>6, <1>7, <1>8

(* An update of one job's row of the table.                                *)
JobSays(j, kind, phase) ==
  /\ JobTable'
  /\ job'[j].kind = kind /\ job'[j].phase = phase
  /\ \A k \in Job \ {j} : job'[k] = job[k]

LEMMA JobWrites ==
  ASSUME JobTable, NEW j \in Job
  PROVE  /\ \A phase : Enter(j, phase) => JobSays(j, job[j].kind, phase)
         /\ \A kind, phase : \A rev, over :
              job' = [job EXCEPT ![j] = [kind |-> kind, phase |-> phase,
                                         revision |-> rev, over |-> over]]
                => JobSays(j, kind, phase)
<1>1. ASSUME NEW phase, Enter(j, phase) PROVE JobSays(j, job[j].kind, phase)
  BY <1>1 DEF JobTable, Table, Row, Enter, JobSays
<1>2. ASSUME NEW kind, NEW phase, NEW rev, NEW over,
             job' = [job EXCEPT ![j] = [kind |-> kind, phase |-> phase,
                                        revision |-> rev, over |-> over]]
      PROVE  JobSays(j, kind, phase)
  BY <1>2 DEF JobTable, Table, Row, JobSays
<1>3. QED
  BY <1>1, <1>2

(* A job that is not lost starts another part with its machine as it is.   *)
LEMMA EntersHeld ==
  ASSUME StagingInv, NEW j \in Job, NEW kind, NEW phase, JobSays(j, kind, phase),
         UNCHANGED <<fsm, staging>>, job[j].phase # "lost", kind # "none"
  PROVE  StagingInv'
<1>1. JobOk(j)'
  BY DEF StagingInv, JobOk, Held, JobSays
<1>2. QED
  BY <1>1, OneJobHeld DEF JobSays

(* A setup starts with no machine.                                         *)
LEMMA StartsHeld ==
  ASSUME Rows, StagingInv, NEW j \in Job, NEW kind, JobSays(j, kind, "setup"),
         kind # "none", job[j].phase # "lost",
         StartDesign(j) \/ \E rev : StartExisting(j, rev)
  PROVE  StagingInv'
<1>1. UNCHANGED staging /\ fsm[j].at = "idle" /\ JobOk(j)
  BY DEF StartDesign, StartExisting, cloudVars, StagingInv
<1>2. staging[j] \in {"none", "gone"}
  BY <1>1 DEF JobOk, Held, Idle
<1>3. NowAt(j, "design") \/ NowAt(j, "launch")
  <2>1. ASSUME StartDesign(j) PROVE NowAt(j, "design")
    BY <2>1, FsmWrites DEF StartDesign
  <2>2. ASSUME NEW rev, StartExisting(j, rev) PROVE NowAt(j, "launch")
    <3>1. fsm' = [fsm EXCEPT ![j].at = "launch", ![j].revision = rev]
      BY <2>2 DEF StartExisting
    <3>2. QED
      BY <3>1, FsmWrites
  <2>3. QED
    BY <2>1, <2>2
<1>4. JobOk(j)'
  BY <1>1, <1>2 DEF JobOk, Held, JobSays
<1>5. QED
  BY <1>1, <1>3, <1>4, OneJobHeld DEF JobSays, NowAt

(* The dead process leaves its machines to nobody, and its jobs say so.    *)
LEMMA CrashHeld ==
  ASSUME Rows, StagingInv, Crash
  PROVE  StagingInv'
<1>1. JobTable'
  BY DEF Crash, StagingInv, JobTable, Table, Row
<1>2. ASSUME NEW j \in Job PROVE JobOk(j)'
  <2>1. JobOk(j) /\ staging' = staging
    BY DEF StagingInv, Crash, cloudVars
  <2>2. CASE Holds(j) \/ job[j].phase = "queued"
    <3>1. job'[j] = [job[j] EXCEPT !.phase = "lost"]
      BY <2>2 DEF Crash
    <3>2. job'[j].phase = "lost" /\ job'[j].kind = job[j].kind
      BY <3>1 DEF StagingInv, JobTable, Row
    <3>3. job[j].kind # "none"
      BY <2>1, <2>2 DEF JobOk, Holds
    <3>4. fsm'[j] = fsm[j] \/ (fsm'[j].at = "ended" /\ ~ fsm'[j].ok)
      BY DEF Crash, FsmRecord
    <3>5. QED
      BY <2>1, <3>2, <3>3, <3>4 DEF JobOk, Held
  <2>3. CASE ~ (Holds(j) \/ job[j].phase = "queued")
    <3>1. job'[j] = job[j] /\ fsm'[j] = fsm[j]
      BY <2>3 DEF Crash
    <3>2. QED
      BY <2>1, <3>1 DEF JobOk
  <2>4. QED
    BY <2>2, <2>3
<1>3. QED
  BY <1>1, <1>2 DEF StagingInv

LEMMA StagingStep ==
  ASSUME Rows, StagingInv, [Next]_vars
  PROVE  StagingInv'
<1>1. ASSUME UNCHANGED vars PROVE StagingInv'
  BY <1>1, HeldElsewhere DEF vars, cloudVars, jobVars
<1>2. ASSUME NEW j \in Job, Work(j) PROVE StagingInv'
  <2>1. JobTable /\ JobOk(j)
    BY DEF StagingInv
  <2>2. ASSUME NEW phase, Enter(j, phase), job[j].phase \notin {"lost", "none"},
               UNCHANGED imageTables \/ EnginesIdle
        PROVE  StagingInv'
    <3>1. UNCHANGED <<fsm, staging>>
      BY <2>2 DEF imageTables, EnginesIdle, cloudVars
    <3>2. JobSays(j, job[j].kind, phase) /\ job[j].kind # "none"
      BY <2>1, <2>2, JobWrites DEF JobOk
    <3>3. QED
      BY <2>2, <3>1, <3>2, EntersHeld
  <2>3. CASE Acquire(j)
    <3>1. job[j].phase = "queued"
      BY <2>3 DEF Acquire, Begin
    <3>2. ASSUME Enter(j, "setup"), \E rev : StartExisting(j, rev) PROVE StagingInv'
      <4>1. JobSays(j, job[j].kind, "setup") /\ job[j].kind # "none"
        BY <2>1, <3>1, <3>2, JobWrites DEF JobOk
      <4>2. QED
        BY <3>1, <3>2, <4>1, StartsHeld
    <3>3. QED
      BY <2>2, <2>3, <3>1, <3>2, StartsStayAway DEF Acquire, Begin
  <2>4. CASE StepSetup(j)
    BY <2>4, SetupHolds
  <2>5. CASE StepBenchmark(j) \/ StepJudge(j)
    <3>1. UNCHANGED imageTables /\ UNCHANGED job
      BY <2>5, OthersStayAway DEF StepBenchmark, StepJudge, jobVars
    <3>2. QED
      BY <3>1, HeldElsewhere DEF imageTables
  <2>6. CASE LeaveSetup(j)
    BY <2>2, <2>6, StartsStayAway DEF LeaveSetup
  <2>7. CASE LeaveBenchmark(j)
    BY <2>2, <2>7, StartsStayAway DEF LeaveBenchmark
  <2>8. CASE LeaveJudge(j) \/ BuildFails(j) \/ JudgesFail(j)
    BY <2>2, <2>8 DEF LeaveJudge, BuildFails, JudgesFail
  <2>9. QED
    BY <1>2, <2>3, <2>4, <2>5, <2>6, <2>7, <2>8 DEF Work
<1>3. ASSUME NEW j \in Job,
             RequestVerify(j) \/ RequestRunAll(j) \/ RequestBenchmark(j)
               \/ RequestJudge(j) \/ RunDesign(j) \/ DesignNotBuilt(j)
      PROVE  StagingInv'
  <2>1. JobTable /\ JobOk(j) /\ job[j].kind = "none"
    BY <1>3 DEF StagingInv, RequestVerify, RequestRunAll, RequestBenchmark, RequestJudge,
       Request, RunDesign, DesignNotBuilt
  <2>2. job[j].phase # "lost"
    BY <2>1 DEF JobOk
  <2>3. CASE RunDesign(j)
    <3>1. JobSays(j, "design", "setup")
      BY <2>1, <2>3, JobWrites DEF RunDesign
    <3>2. StartDesign(j)
      BY <2>3 DEF RunDesign
    <3>3. QED
      BY <2>2, <3>1, <3>2, StartsHeld
  <2>4. CASE RequestVerify(j) \/ RequestRunAll(j) \/ RequestBenchmark(j) \/ RequestJudge(j)
    <3>1. PICK kind \in {"verify", "run_all", "benchmark", "judge"} :
            \E rev, over : Request(j, kind, rev, over)
      BY <2>4 DEF RequestVerify, RequestRunAll, RequestBenchmark, RequestJudge
    <3>2. UNCHANGED <<fsm, staging>> /\ JobSays(j, kind, "queued")
      BY <2>1, <3>1, JobWrites DEF Request, EnginesIdle, cloudVars
    <3>3. QED
      BY <2>2, <3>2, EntersHeld
  <2>5. CASE DesignNotBuilt(j)
    <3>1. UNCHANGED <<fsm, staging>> /\ JobSays(j, "design", "ended")
      BY <2>1, <2>5, JobWrites DEF DesignNotBuilt, EnginesIdle, cloudVars
    <3>2. QED
      BY <2>2, <3>1, EntersHeld
  <2>6. QED
    BY <1>3, <2>3, <2>4, <2>5
<1>4. ASSUME Provider \/ Cancel \/ Restart \/ Stopped PROVE StagingInv'
  <2>1. UNCHANGED <<fsm, job>>
    BY <1>4 DEF Provider, Cancel, Restart, Stopped, vars, jobVars
  <2>2. UNCHANGED staging
    BY <1>4 DEF Provider, Cancel, Restart, Stopped, vars, cloudVars, ImageBuilt,
       MachineSettles, StayInStore
  <2>3. QED
    BY <2>1, <2>2, HeldElsewhere
<1>5. ASSUME NEW j \in Job, NEW s \in Subject, StepThread(j, s)
      PROVE  StagingInv'
  <2>1. UNCHANGED imageTables /\ UNCHANGED job
    BY <1>5, OthersStayAway DEF StepThread, jobVars
  <2>2. QED
    BY <2>1, HeldElsewhere DEF imageTables
<1>6. QED
  BY <1>1, <1>2, <1>3, <1>4, <1>5, CrashHeld DEF Next

-----------------------------------------------------------------------------
(* Clones.                                                                 *)

BenchRecord == [at: BenchState, next: Nat, open: SUBSET Subject]
ThreadRecords == [at: ThreadState, turn: Int, stalls: Int, failing: BOOLEAN]
EvaluationRecord ==
  [status: EvaluationStatus \cup {"none"}, repaired: BOOLEAN, finished: BOOLEAN]
Clone == {"none", "broken", "repaired", "gone", "kept"}

CloneTables ==
  /\ bench \in [Job -> BenchRecord]
  /\ thread \in [Job -> [Subject -> ThreadRecords]]
  /\ evaluation \in [Job -> [Subject -> EvaluationRecord]]
  /\ clone \in [Job -> [Subject -> Clone]]
  /\ Table(benchmark)
  /\ \A j \in Job : Row(benchmark[j]) /\ "status" \in DOMAIN benchmark[j]

(* The job's own thread b hands out its n subjects one by one and collects *)
(* them in the same order.                                                 *)
BenchOk(b, n, st) ==
  /\ b.at \in {"idle", "launch"} => b.next = 1
  /\ b.at \in {"submit", "await"} => b.next \in 1..n
  /\ st = "completed" => b.at = "done"

(* One subject of it: its thread, its row and its clone.                   *)
SubjectOk(b, n, st, s, at, row, c) ==
  /\ at # "none" => row.status # "none"
  /\ row.status # "none" => at # "none" \/ row.finished
  /\ at # "none" => s <= n
  /\ at \in {"destroy", "ok"} => row.finished
  /\ at = "ok" => c = "gone"
  /\ c \in {"broken", "repaired"} =>
       \/ at \notin {"none", "ok", "raised"}
       \/ b.at = "lost"
       \/ b.at = "submit" /\ b.next <= s /\ s <= n
  /\ c = "kept" => at = "raised" \/ (at = "none" /\ b.at = "raised")
  /\ b.at \in {"idle", "launch"} => at = "none"
  /\ b.at = "submit" => (at = "none" <=> b.next <= s)
  /\ b.at = "await" => (s <= n => at # "none") /\ (s < b.next => at = "ok")
  /\ b.at = "settle" /\ s <= n => at = "ok"
  /\ b.at = "done" => at \in {"none", "ok"}
  /\ b.at = "mark" /\ at # "none" => row.finished \/ s \in b.open
  /\ b.at \in {"done", "raised"} /\ at # "none" => row.finished
  /\ st = "completed" /\ s <= n => at = "ok" /\ row.repaired

CloneJobOk(j) ==
  /\ BenchOk(bench[j], SubjectsOf[j], benchmark[j].status)
  /\ \A s \in Subject :
       SubjectOk(bench[j], SubjectsOf[j], benchmark[j].status, s,
                 thread[j][s].at, evaluation[j][s], clone[j][s])

CloneInv == CloneTables /\ \A j \in Job : CloneJobOk(j)

LEMMA Sizes ==
  /\ \A j \in Job : SubjectsOf[j] \in Nat /\ SubjectsOf[j] >= 1
  /\ Subject \subseteq Nat /\ \A j \in Job : 1..SubjectsOf[j] \subseteq Subject
BY BudgetAssumption DEF Subject

LEMMA CellWrite ==
  ASSUME NEW R, NEW F \in [Job -> [Subject -> R]], NEW j \in Job, NEW s \in Subject,
         NEW v \in R, NEW G, G = [F EXCEPT ![j][s] = v]
  PROVE  /\ G \in [Job -> [Subject -> R]] /\ G[j][s] = v
         /\ \A k \in Job, t \in Subject : k # j \/ t # s => G[k][t] = F[k][t]
OBVIOUS

-----------------------------------------------------------------------------
(* A subject's thread.                                                     *)

(* Whatever a living thread does next, it fits the rest if its row stays   *)
(* finished and it does not end before it tried to give its clone back.    *)
LEMMA LiveStep ==
  ASSUME NEW b, b.next \in Nat, NEW n \in Nat, NEW s \in Nat, NEW st,
         NEW at, NEW row, NEW c, NEW to, NEW other, NEW d,
         SubjectOk(b, n, st, s, at, row, c),
         at \notin {"none", "ok", "raised"}, to # "none", other.status # "none",
         row.finished => other.finished,
         to \in {"destroy", "ok"} => other.finished,
         to = "ok" => d = "gone",
         to = "raised" => d \in {"gone", "kept"},
         d = "kept" => to = "raised" \/ d = c
  PROVE  SubjectOk(b, n, st, s, to, other, d)
BY DEF SubjectOk

ThreadSays(j, s, st) ==
  /\ thread' \in [Job -> [Subject -> ThreadRecords]]
  /\ thread'[j][s].at = st
  /\ \A k \in Job, t \in Subject : k # j \/ t # s => thread'[k][t] = thread[k][t]

LEMMA ThreadWrites ==
  ASSUME CloneTables, NEW j \in Job, NEW s \in Subject, NEW st \in ThreadState
  PROVE  /\ ThreadAt(j, s, st) => ThreadSays(j, s, st)
         /\ \A turn, stalls \in Int :
              thread' = [thread EXCEPT ![j][s].turn = turn, ![j][s].stalls = stalls,
                                       ![j][s].at = st]
                => ThreadSays(j, s, st)
         /\ \A f \in BOOLEAN :
              thread' = [thread EXCEPT ![j][s].at = st, ![j][s].failing = f]
                => ThreadSays(j, s, st)
         /\ \A r \in ThreadRecords :
              thread' = [thread EXCEPT ![j][s] = r] => ThreadSays(j, s, r.at)
<1>1. thread \in [Job -> [Subject -> ThreadRecords]]
  BY DEF CloneTables
<1>2. ASSUME ThreadAt(j, s, st) PROVE ThreadSays(j, s, st)
  BY <1>1, <1>2 DEF ThreadAt, ThreadSays, ThreadRecords
<1>3. ASSUME NEW turn \in Int, NEW stalls \in Int,
             thread' = [thread EXCEPT ![j][s].turn = turn, ![j][s].stalls = stalls,
                                      ![j][s].at = st]
      PROVE  ThreadSays(j, s, st)
  <2> DEFINE r == [thread[j][s] EXCEPT !.turn = turn, !.stalls = stalls, !.at = st]
  <2>0. thread[j][s] \in ThreadRecords
    BY <1>1
  <2>1. r \in ThreadRecords /\ r.at = st
    BY <1>3, <2>0 DEF ThreadRecords
  <2>2. thread' = [thread EXCEPT ![j] = [thread[j] EXCEPT ![s] = r]]
    BY <1>1, <1>3
  <2> HIDE DEF r
  <2>3. QED
    BY <1>1, <2>1, <2>2, CellWrite DEF ThreadSays
<1>4. ASSUME NEW f \in BOOLEAN,
             thread' = [thread EXCEPT ![j][s].at = st, ![j][s].failing = f]
      PROVE  ThreadSays(j, s, st)
  <2> DEFINE r == [thread[j][s] EXCEPT !.at = st, !.failing = f]
  <2>0. thread[j][s] \in ThreadRecords
    BY <1>1
  <2>1. r \in ThreadRecords /\ r.at = st
    BY <1>4, <2>0 DEF ThreadRecords
  <2>2. thread' = [thread EXCEPT ![j] = [thread[j] EXCEPT ![s] = r]]
    BY <1>1, <1>4
  <2> HIDE DEF r
  <2>3. QED
    BY <1>1, <2>1, <2>2, CellWrite DEF ThreadSays
<1>5. ASSUME NEW r \in ThreadRecords, thread' = [thread EXCEPT ![j][s] = r]
      PROVE  ThreadSays(j, s, r.at)
  BY <1>1, <1>5, CellWrite DEF ThreadSays
<1>6. QED
  BY <1>2, <1>3, <1>4, <1>5

(* A step of one subject.                                                  *)
Elsewhere1(j, s) ==
  \A k \in Job, t \in Subject : k # j \/ t # s =>
    /\ thread'[k][t] = thread[k][t]
    /\ evaluation'[k][t] = evaluation[k][t]
    /\ clone'[k][t] = clone[k][t]

LEMMA OneSubject ==
  ASSUME CloneInv, NEW j \in Job, NEW s \in Subject, CloneTables',
         UNCHANGED <<bench, benchmark>>, Elsewhere1(j, s),
         thread[j][s].at \notin {"none", "ok", "raised"}, thread'[j][s].at # "none",
         evaluation'[j][s].status # "none",
         evaluation[j][s].finished => evaluation'[j][s].finished,
         thread'[j][s].at \in {"destroy", "ok"} => evaluation'[j][s].finished,
         thread'[j][s].at = "ok" => clone'[j][s] = "gone",
         thread'[j][s].at = "raised" => clone'[j][s] \in {"gone", "kept"},
         clone'[j][s] = "kept" =>
           thread'[j][s].at = "raised" \/ clone'[j][s] = clone[j][s]
  PROVE  CloneInv'
<1>1. SubjectOk(bench[j], SubjectsOf[j], benchmark[j].status, s,
                thread'[j][s].at, evaluation'[j][s], clone'[j][s])
  <2>1. SubjectOk(bench[j], SubjectsOf[j], benchmark[j].status, s,
                  thread[j][s].at, evaluation[j][s], clone[j][s])
    BY DEF CloneInv, CloneJobOk
  <2>2. bench[j].next \in Nat /\ SubjectsOf[j] \in Nat /\ s \in Nat
    BY Sizes DEF CloneInv, CloneTables, BenchRecord
  <2>3. QED
    BY <2>1, <2>2, LiveStep
<1>2. ASSUME NEW k \in Job PROVE CloneJobOk(k)'
  <2>1. ASSUME NEW t \in Subject
        PROVE  SubjectOk(bench[k], SubjectsOf[k], benchmark[k].status, t,
                         thread'[k][t].at, evaluation'[k][t], clone'[k][t])
    <3>1. CASE k = j /\ t = s
      BY <1>1, <3>1
    <3>2. CASE k # j \/ t # s
      BY <3>2 DEF CloneInv, CloneJobOk, Elsewhere1
    <3>3. QED
      BY <3>1, <3>2
  <2>2. QED
    BY <2>1 DEF CloneInv, CloneJobOk
<1>3. QED
  BY <1>2 DEF CloneInv

(* The rows stay what they are in every step of a thread.                  *)
LEMMA RowOfLiving ==
  ASSUME CloneInv, NEW j \in Job, NEW s \in Subject, thread[j][s].at # "none"
  PROVE  evaluation[j][s].status # "none"
BY DEF CloneInv, CloneJobOk, SubjectOk

(* Between the start of the thread and its last write.                     *)
Going == {"probe", "message", "check", "proxy", "calling", "recheck", "told", "closing", "spent",
          "abort", "refused"}

LEMMA ThreadGoesOn ==
  ASSUME CloneInv, NEW j \in Job, NEW s \in Subject, NEW st \in Going,
         ThreadSays(j, s, st), thread[j][s].at \notin {"none", "ok", "raised"},
         UNCHANGED <<bench, benchmark, evaluation, clone>>
  PROVE  CloneInv'
<1>1. CloneTables' /\ Elsewhere1(j, s)
  BY DEF CloneInv, CloneTables, ThreadSays, Elsewhere1
<1>2. thread'[j][s].at = st /\ st \notin {"none", "ok", "destroy", "raised"}
  BY DEF ThreadSays, Going
<1>3. QED
  BY <1>1, <1>2, OneSubject, RowOfLiving

LEMMA ConcludeKeeps ==
  ASSUME CloneInv, NEW j \in Job, NEW s \in Subject,
         NEW st \in EvaluationStatus, NEW repair \in BOOLEAN,
         Conclude(j, s, st, repair), thread[j][s].at \notin {"none", "ok", "raised"}
  PROVE  CloneInv'
<1> DEFINE r == [ThreadRecord("destroy") EXCEPT !.failing = thread[j][s].failing]
           row == [status |-> st, repaired |-> repair, finished |-> TRUE]
<1>1. /\ thread' = [thread EXCEPT ![j][s] = r]
      /\ evaluation' = [evaluation EXCEPT ![j][s] = row]
      /\ UNCHANGED <<bench, benchmark, clone>>
  BY DEF Conclude, FinishEvaluation
<1>2. thread[j][s] \in ThreadRecords
  BY DEF CloneInv, CloneTables
<1>3. r \in ThreadRecords /\ r.at = "destroy"
  BY <1>2 DEF ThreadRecord, ThreadRecords, ThreadState
<1>4. row \in EvaluationRecord /\ row.finished /\ row.status # "none"
  BY DEF EvaluationRecord, EvaluationStatus
<1> HIDE DEF r, row
<1>5. ThreadSays(j, s, "destroy")
  BY <1>1, <1>3, CellWrite DEF ThreadSays, CloneInv, CloneTables
<1>6. /\ evaluation' \in [Job -> [Subject -> EvaluationRecord]] /\ evaluation'[j][s] = row
      /\ \A k \in Job, t \in Subject : k # j \/ t # s => evaluation'[k][t] = evaluation[k][t]
  BY <1>1, <1>4, CellWrite DEF CloneInv, CloneTables
<1>7. CloneTables' /\ Elsewhere1(j, s)
  BY <1>1, <1>5, <1>6 DEF CloneInv, CloneTables, ThreadSays, Elsewhere1
<1>8. QED
  BY <1>1, <1>4, <1>5, <1>6, <1>7, OneSubject DEF ThreadSays

(* What happens to the clone while its thread lives.                       *)
LEMMA CloneChanges ==
  ASSUME CloneInv, NEW j \in Job, NEW s \in Subject, NEW c \in Clone,
         clone' = [clone EXCEPT ![j][s] = c], UNCHANGED <<bench, benchmark, evaluation>>,
         NEW st \in ThreadState, ThreadSays(j, s, st),
         thread[j][s].at \notin {"none", "ok", "raised"}, st # "none",
         st \in {"destroy", "ok"} => evaluation[j][s].finished,
         st = "ok" => c = "gone",
         st = "raised" => c \in {"gone", "kept"},
         c = "kept" => st = "raised"
  PROVE  CloneInv'
<1>1. /\ clone' \in [Job -> [Subject -> Clone]] /\ clone'[j][s] = c
      /\ \A k \in Job, t \in Subject : k # j \/ t # s => clone'[k][t] = clone[k][t]
  BY CellWrite DEF CloneInv, CloneTables
<1>2. CloneTables' /\ Elsewhere1(j, s)
  BY <1>1 DEF CloneInv, CloneTables, ThreadSays, Elsewhere1
<1>3. QED
  BY <1>1, <1>2, OneSubject, RowOfLiving DEF ThreadSays

LEMMA ThreadKeeps ==
  ASSUME CloneInv, NEW j \in Job, NEW s \in Subject, ThreadStep(j, s)
  PROVE  CloneInv'
<1>1. CloneTables /\ Going \subseteq ThreadState
  BY DEF CloneInv, Going, ThreadState
<1>2. StayInStore => UNCHANGED <<bench, benchmark, evaluation>>
  BY DEF StayInStore, storeVars
<1>3. ASSUME RefuseSubject(j, s) \/ Boot(j, s) \/ OpenSession(j, s) \/ SubjectReplies(j, s)
               \/ ClosingWords(j, s) \/ ProxyAsks(j, s) \/ ProxyCallsFail(j, s)
      PROVE  CloneInv'
  <2>1. PICK st \in Going : ThreadAt(j, s, st)
    BY <1>3 DEF RefuseSubject, Boot, OpenSession, SubjectReplies, ClosingWords,
       ProxyAsks, ProxyCallsFail, Going
  <2>2. /\ thread[j][s].at \notin {"none", "ok", "raised"}
        /\ UNCHANGED <<bench, benchmark, evaluation, clone>>
    BY <1>2, <1>3 DEF RefuseSubject, Boot, OpenSession, SubjectReplies, ClosingWords,
       ProxyAsks, ProxyCallsFail
  <2>3. ThreadSays(j, s, st)
    BY <1>1, <2>1, ThreadWrites
  <2>4. QED
    BY <2>2, <2>3, ThreadGoesOn
<1>4. ASSUME NEW stalls \in Int, TakeTurn(j, s, stalls), StayInStore, UNCHANGED clone,
             thread[j][s].at \notin {"none", "ok", "raised"}
      PROVE  CloneInv'
  <2> DEFINE turn == thread[j][s].turn + 1
             st == IF turn < MaxTurns THEN "message" ELSE "spent"
  <2>1. turn \in Int /\ st \in Going
    BY <1>1 DEF CloneTables, ThreadRecords, Going
  <2>2. thread' = [thread EXCEPT ![j][s].turn = turn, ![j][s].stalls = stalls,
                                 ![j][s].at = st]
    BY <1>4 DEF TakeTurn
  <2> HIDE DEF turn, st
  <2>3. ThreadSays(j, s, st)
    BY <1>1, <2>1, <2>2, ThreadWrites
  <2>4. QED
    BY <1>2, <1>4, <2>1, <2>3, ThreadGoesOn
<1>5. thread[j][s].stalls \in Int
  BY <1>1 DEF CloneTables, ThreadRecords
<1>6. CASE Continue(j, s)
  BY <1>4, <1>6 DEF Continue
<1>7. CASE Stall(j, s)
  BY <1>4, <1>5, <1>7 DEF Stall
<1>8. CASE CheckFails(j, s)
  <2>1. StayInStore /\ UNCHANGED clone /\ thread[j][s].at \notin {"none", "ok", "raised"}
    BY <1>8 DEF CheckFails
  <2>2. ASSUME NEW st \in Going, ThreadAt(j, s, st) PROVE CloneInv'
    <3>1. ThreadSays(j, s, st)
      BY <1>1, <2>2, ThreadWrites
    <3>2. QED
      BY <1>2, <2>1, <3>1, ThreadGoesOn
  <2>3. "proxy" \in Going /\ "told" \in Going
    BY DEF Going
  <2>4. QED
    BY <1>4, <1>8, <2>1, <2>2, <2>3 DEF CheckFails
<1>9. CASE ThreadRaises(j, s)
  <2>1. /\ thread[j][s].at \notin {"none", "ok", "raised"} /\ "abort" \in Going
        /\ UNCHANGED <<bench, benchmark, evaluation, clone>>
    BY <1>2, <1>9 DEF ThreadRaises, MayRaiseInThread, Going
  <2>2. ThreadSays(j, s, "abort")
    BY <1>1, <1>9, <2>1, ThreadWrites DEF ThreadRaises
  <2>3. QED
    BY <2>1, <2>2, ThreadGoesOn
<1>10. CASE FidelityFails(j, s) \/ StallOut(j, s) \/ Exhaust(j, s) \/ Abort(j, s)
              \/ CheckPasses(j, s)
  <2>1. thread[j][s].at \notin {"none", "ok", "raised"}
    BY <1>10 DEF FidelityFails, StallOut, Exhaust, Abort, CheckPasses
  <2>2. Conclude(j, s, "failed", FALSE) \/ Conclude(j, s, "completed", TRUE)
    BY <1>10 DEF FidelityFails, StallOut, Exhaust, Abort, CheckPasses
  <2>3. "failed" \in EvaluationStatus /\ "completed" \in EvaluationStatus
    BY DEF EvaluationStatus
  <2>4. QED
    BY <2>1, <2>2, <2>3, ConcludeKeeps
<1>11. CASE ProxyTurn(j, s)
  <2>1. /\ thread[j][s].at \in {"proxy", "calling"}
        /\ UNCHANGED <<bench, benchmark, evaluation>>
    BY <1>2, <1>11 DEF ProxyTurn
  <2>2. ASSUME ThreadAt(j, s, "told"), UNCHANGED clone PROVE CloneInv'
    <3>1. "told" \in Going
      BY DEF Going
    <3>2. ThreadSays(j, s, "told")
      BY <1>1, <2>2, <3>1, ThreadWrites
    <3>3. QED
      BY <2>1, <2>2, <3>1, <3>2, ThreadGoesOn
  <2>3. ASSUME ThreadAt(j, s, "recheck"), NEW c \in {"broken", "repaired"},
               clone' = [clone EXCEPT ![j][s] = c]
        PROVE  CloneInv'
    <3>1. "recheck" \in ThreadState /\ c \in Clone
      BY DEF ThreadState, Clone
    <3>2. ThreadSays(j, s, "recheck")
      BY <1>1, <2>3, <3>1, ThreadWrites
    <3>3. QED
      BY <2>1, <2>3, <3>1, <3>2, CloneChanges
  <2>4. QED
    BY <1>11, <2>2, <2>3 DEF ProxyTurn
<1>12. CASE DestroyClone(j, s)
  <2>1. thread[j][s].at = "destroy" /\ UNCHANGED <<bench, benchmark, evaluation>>
    BY <1>2, <1>12 DEF DestroyClone
  <2>2. evaluation[j][s].finished
    BY <2>1 DEF CloneInv, CloneJobOk, SubjectOk
  <2>3. PICK st \in {"raised", "ok"}, c \in {"gone", "kept"} :
          /\ thread' = [thread EXCEPT ![j][s] = ThreadRecord(st)]
          /\ clone' = [clone EXCEPT ![j][s] = c]
          /\ c = "kept" => st = "raised"
    BY <1>12 DEF DestroyClone
  <2>4. ThreadRecord(st) \in ThreadRecords /\ ThreadRecord(st).at = st /\ st \in ThreadState
    BY DEF ThreadRecord, ThreadRecords, ThreadState
  <2>5. ThreadSays(j, s, st)
    BY <1>1, <2>3, <2>4, CellWrite DEF ThreadSays, CloneTables
  <2>6. c \in Clone
    BY DEF Clone
  <2>7. QED
    BY <2>1, <2>2, <2>3, <2>4, <2>5, <2>6, CloneChanges
<1>13. QED
  BY <1>3, <1>6, <1>7, <1>8, <1>9, <1>10, <1>11, <1>12 DEF ThreadStep

LEMMA MachineKeeps ==
  ASSUME CloneInv, NEW j \in Job, NEW s \in Subject, MachineSettles(j, s)
  PROVE  CloneInv'
<1>1. /\ thread[j][s].at \in {"message", "told"} /\ UNCHANGED <<bench, benchmark, evaluation>>
      /\ clone' = [clone EXCEPT ![j][s] = "repaired"] /\ "repaired" \in Clone
  BY DEF MachineSettles, StayInStore, storeVars, Clone
<1>2. ThreadSays(j, s, thread[j][s].at) /\ thread[j][s].at \in ThreadState
  BY <1>1 DEF MachineSettles, ThreadSays, CloneInv, CloneTables, ThreadState
<1>3. QED
  BY <1>1, <1>2, CloneChanges

-----------------------------------------------------------------------------
(* The thread of the job.                                                  *)

BenchSays(j, at, next, open) ==
  /\ bench' \in [Job -> BenchRecord]
  /\ bench'[j].at = at /\ bench'[j].next = next /\ bench'[j].open = open
  /\ \A k \in Job \ {j} : bench'[k] = bench[k]

BenchmarkSays(j, st) ==
  /\ Table(benchmark')
  /\ \A k \in Job : Row(benchmark'[k]) /\ "status" \in DOMAIN benchmark'[k]
  /\ benchmark'[j].status = st
  /\ \A k \in Job \ {j} : benchmark'[k] = benchmark[k]

LEMMA BenchWrites ==
  ASSUME CloneTables, NEW j \in Job
  PROVE  /\ \A at \in BenchState :
              BenchAt(j, at) => BenchSays(j, at, bench[j].next, bench[j].open)
         /\ \A at \in BenchState, next \in Nat :
              bench' = [bench EXCEPT ![j].at = at, ![j].next = next]
                => BenchSays(j, at, next, bench[j].open)
         /\ \A at \in BenchState, open \in SUBSET Subject :
              bench' = [bench EXCEPT ![j].at = at, ![j].open = open]
                => BenchSays(j, at, bench[j].next, open)
         /\ \A next \in Nat :
              bench' = [bench EXCEPT ![j].next = next]
                => BenchSays(j, bench[j].at, next, bench[j].open)
         /\ \A open \in SUBSET Subject :
              bench' = [bench EXCEPT ![j].open = open]
                => BenchSays(j, bench[j].at, bench[j].next, open)
<1> DEFINE b == bench[j]
<1>1. bench \in [Job -> BenchRecord] /\ b \in BenchRecord
  BY DEF CloneTables
<1>2. ASSUME NEW at \in BenchState, BenchAt(j, at)
      PROVE  BenchSays(j, at, bench[j].next, bench[j].open)
  BY <1>1, <1>2 DEF BenchAt, BenchSays, BenchRecord
<1>3. ASSUME NEW at \in BenchState, NEW next \in Nat,
             bench' = [bench EXCEPT ![j].at = at, ![j].next = next]
      PROVE  BenchSays(j, at, next, bench[j].open)
  <2>1. [b EXCEPT !.at = at, !.next = next] \in BenchRecord
    BY <1>1 DEF BenchRecord
  <2>2. bench' = [bench EXCEPT ![j] = [b EXCEPT !.at = at, !.next = next]]
    BY <1>1, <1>3
  <2>3. QED
    BY <1>1, <2>1, <2>2 DEF BenchSays, BenchRecord
<1>4. ASSUME NEW at \in BenchState, NEW open \in SUBSET Subject,
             bench' = [bench EXCEPT ![j].at = at, ![j].open = open]
      PROVE  BenchSays(j, at, bench[j].next, open)
  <2>1. [b EXCEPT !.at = at, !.open = open] \in BenchRecord
    BY <1>1 DEF BenchRecord
  <2>2. bench' = [bench EXCEPT ![j] = [b EXCEPT !.at = at, !.open = open]]
    BY <1>1, <1>4
  <2>3. QED
    BY <1>1, <2>1, <2>2 DEF BenchSays, BenchRecord
<1>5. ASSUME NEW next \in Nat, bench' = [bench EXCEPT ![j].next = next]
      PROVE  BenchSays(j, bench[j].at, next, bench[j].open)
  BY <1>1, <1>5 DEF BenchSays, BenchRecord
<1>6. ASSUME NEW open \in SUBSET Subject, bench' = [bench EXCEPT ![j].open = open]
      PROVE  BenchSays(j, bench[j].at, bench[j].next, open)
  BY <1>1, <1>6 DEF BenchSays, BenchRecord
<1>7. QED
  BY <1>2, <1>3, <1>4, <1>5, <1>6

LEMMA BenchmarkWrites ==
  ASSUME CloneTables, NEW j \in Job
  PROVE  /\ \A st : WriteBenchmark(j, st) => BenchmarkSays(j, st)
         /\ \A rev, over : CreateBenchmarkRun(j, rev, over) => BenchmarkSays(j, "running")
         /\ UNCHANGED benchmark => BenchmarkSays(j, benchmark[j].status)
<1>1. ASSUME NEW st, WriteBenchmark(j, st) PROVE BenchmarkSays(j, st)
  BY <1>1 DEF CloneTables, Table, Row, WriteBenchmark, BenchmarkSays
<1>2. ASSUME NEW rev, NEW over, CreateBenchmarkRun(j, rev, over)
      PROVE  BenchmarkSays(j, "running")
  BY <1>2 DEF CloneTables, Table, Row, CreateBenchmarkRun, BenchmarkSays
<1>3. ASSUME UNCHANGED benchmark PROVE BenchmarkSays(j, benchmark[j].status)
  BY <1>3 DEF CloneTables, Table, Row, BenchmarkSays
<1>4. QED
  BY <1>1, <1>2, <1>3

(* The thread hands out or collects a subject, or writes the run's status. *)
SubjectsKept ==
  thread' = thread /\ evaluation' = evaluation /\ clone' = clone

LEMMA OneBench ==
  ASSUME CloneInv, NEW j \in Job, NEW at, NEW next, NEW open, NEW st,
         BenchSays(j, at, next, open), BenchmarkSays(j, st), CloneTables',
         \A k \in Job \ {j} :
           thread'[k] = thread[k] /\ evaluation'[k] = evaluation[k] /\ clone'[k] = clone[k],
         CloneJobOk(j)'
  PROVE  CloneInv'
<1>1. ASSUME NEW k \in Job, k # j PROVE CloneJobOk(k)'
  BY <1>1 DEF CloneInv, CloneJobOk, BenchSays, BenchmarkSays
<1>2. QED
  BY <1>1 DEF CloneInv

LEMMA OneBenchOnly ==
  ASSUME CloneInv, NEW j \in Job, NEW at, NEW next, NEW open, NEW st,
         BenchSays(j, at, next, open), BenchmarkSays(j, st), SubjectsKept,
         BenchOk(bench'[j], SubjectsOf[j], st),
         \A s \in Subject :
           SubjectOk(bench'[j], SubjectsOf[j], st, s,
                     thread[j][s].at, evaluation[j][s], clone[j][s])
  PROVE  CloneInv'
<1>1. CloneTables'
  BY DEF CloneInv, CloneTables, BenchSays, BenchmarkSays, SubjectsKept
<1>2. CloneJobOk(j)'
  BY DEF CloneJobOk, SubjectsKept, BenchmarkSays
<1>3. QED
  BY <1>1, <1>2, OneBench DEF SubjectsKept

(* What is known of the job before the step.                               *)
LEMMA Before ==
  ASSUME CloneInv, NEW j \in Job
  PROVE  /\ CloneTables /\ bench[j].next \in Nat /\ bench[j].open \in SUBSET Subject
         /\ SubjectsOf[j] \in Nat /\ SubjectsOf[j] >= 1
         /\ BenchOk(bench[j], SubjectsOf[j], benchmark[j].status)
         /\ \A s \in Subject :
              /\ s \in Nat
              /\ SubjectOk(bench[j], SubjectsOf[j], benchmark[j].status, s,
                           thread[j][s].at, evaluation[j][s], clone[j][s])
BY Sizes DEF CloneInv, CloneJobOk, CloneTables, BenchRecord

LEMMA AwaitKeeps ==
  ASSUME CloneInv, NEW j \in Job, Await(j)
  PROVE  CloneInv'
<1> DEFINE n == SubjectsOf[j]
           st == benchmark[j].status
           i == bench[j].next
<1>1. /\ CloneTables /\ i \in Nat /\ n \in Nat /\ n >= 1 /\ BenchOk(bench[j], n, st)
      /\ \A s \in Subject :
           s \in Nat /\ SubjectOk(bench[j], n, st, s, thread[j][s].at, evaluation[j][s],
                                  clone[j][s])
  BY Before
<1>2. /\ bench[j].at = "await" /\ SubjectsKept /\ UNCHANGED benchmark
      /\ {"list", "await", "settle"} \subseteq BenchState
  BY DEF Await, storeVars, cloudVars, SubjectsKept, BenchState
<1>3. BenchmarkSays(j, st) /\ st # "completed"
  BY <1>1, <1>2, BenchmarkWrites DEF BenchOk
<1>4. CASE thread[j][i].at \in {"raised", "refused"}
  <2>1. bench' = [bench EXCEPT ![j].at = "list", ![j].next = 1]
    BY <1>4 DEF Await
  <2>2. BenchSays(j, "list", 1, bench[j].open)
    BY <1>1, <1>2, <2>1, BenchWrites
  <2>3. BenchOk(bench'[j], n, st)
    BY <1>3, <2>2 DEF BenchOk, BenchSays
  <2>4. ASSUME NEW s \in Subject
        PROVE  SubjectOk(bench'[j], n, st, s, thread[j][s].at, evaluation[j][s], clone[j][s])
    BY <1>1, <1>2, <1>3, <2>2, <2>4 DEF SubjectOk, BenchSays
  <2>5. QED
    BY <1>2, <1>3, <2>2, <2>3, <2>4, OneBenchOnly
<1>5. CASE thread[j][i].at = "ok" /\ i < n
  <2>1. bench' = [bench EXCEPT ![j].next = i + 1]
    BY <1>1, <1>5 DEF Await
  <2>2. BenchSays(j, "await", i + 1, bench[j].open)
    <3>1. i + 1 \in Nat
      BY <1>1
    <3>2. BenchSays(j, bench[j].at, i + 1, bench[j].open)
      BY <1>1, <2>1, <3>1, BenchWrites, Zenon
    <3>3. QED
      BY <1>2, <3>2
  <2>3. BenchOk(bench'[j], n, st)
    BY <1>1, <1>2, <1>3, <1>5, <2>2 DEF BenchOk, BenchSays
  <2>4. ASSUME NEW s \in Subject
        PROVE  SubjectOk(bench'[j], n, st, s, thread[j][s].at, evaluation[j][s], clone[j][s])
    <3>1. s < i + 1 => thread[j][s].at = "ok"
      BY <1>1, <1>2, <1>5 DEF SubjectOk
    <3>2. QED
      BY <1>1, <1>2, <1>3, <2>2, <2>4, <3>1 DEF SubjectOk, BenchSays
  <2>5. QED
    BY <1>2, <1>3, <2>2, <2>3, <2>4, OneBenchOnly
<1>6. CASE thread[j][i].at = "ok" /\ i = n
  <2>1. bench' = [bench EXCEPT ![j].at = "settle", ![j].next = 1]
    BY <1>1, <1>6 DEF Await
  <2>2. BenchSays(j, "settle", 1, bench[j].open)
    BY <1>1, <1>2, <2>1, BenchWrites
  <2>3. BenchOk(bench'[j], n, st)
    BY <1>3, <2>2 DEF BenchOk, BenchSays
  <2>4. ASSUME NEW s \in Subject
        PROVE  SubjectOk(bench'[j], n, st, s, thread[j][s].at, evaluation[j][s], clone[j][s])
    <3>1. s <= n => thread[j][s].at = "ok"
      BY <1>1, <1>2, <1>6 DEF SubjectOk
    <3>2. QED
      BY <1>1, <1>2, <1>3, <2>2, <2>4, <3>1 DEF SubjectOk, BenchSays
  <2>5. QED
    BY <1>2, <1>3, <2>2, <2>3, <2>4, OneBenchOnly
<1>7. QED
  BY <1>4, <1>5, <1>6 DEF Await

(* When the last subject is through, every thread has returned its clone   *)
(* and closed its row; the summary is "completed" only if all repaired.    *)
LEMMA SettleKeeps ==
  ASSUME CloneInv, NEW j \in Job, Settle(j)
  PROVE  CloneInv'
<1> DEFINE n == SubjectsOf[j]
           st == SummaryStatus(j)
<1>1. /\ CloneTables /\ n \in Nat /\ n >= 1
      /\ BenchOk(bench[j], n, benchmark[j].status)
      /\ \A s \in Subject :
           s \in Nat /\ SubjectOk(bench[j], n, benchmark[j].status, s, thread[j][s].at,
                                  evaluation[j][s], clone[j][s])
  BY Before
<1>2. /\ bench[j].at = "settle" /\ SubjectsKept
      /\ "done" \in BenchState /\ BenchAt(j, "done")
  BY DEF Settle, SubjectsKept, BenchState
<1>3. BenchmarkSays(j, st) /\ BenchSays(j, "done", bench[j].next, bench[j].open)
  BY <1>1, <1>2, BenchmarkWrites, BenchWrites DEF Settle
<1>4. \A s \in EvaluationRuns(j) : st = "completed" => evaluation[j][s].repaired
  BY DEF SummaryStatus
<1> HIDE DEF st
<1>5. BenchOk(bench'[j], n, st)
  BY <1>3 DEF BenchOk, BenchSays
<1>6. ASSUME NEW s \in Subject
      PROVE  SubjectOk(bench'[j], n, st, s, thread[j][s].at, evaluation[j][s], clone[j][s])
  <2>1. st = "completed" /\ thread[j][s].at # "none" => evaluation[j][s].repaired
    BY <1>1, <1>4 DEF EvaluationRuns, SubjectOk
  <2>2. thread[j][s].at \in {"none", "ok"} /\ (s <= n => thread[j][s].at = "ok")
    BY <1>1, <1>2 DEF SubjectOk
  <2>3. QED
    BY <1>1, <1>2, <1>3, <2>1, <2>2 DEF SubjectOk, BenchSays
<1>7. QED
  BY <1>2, <1>3, <1>5, <1>6, OneBenchOnly

(* The rows that are open when they are read are all that will be open.    *)
LEMMA ListKeeps ==
  ASSUME CloneInv, NEW j \in Job, ListOpen(j)
  PROVE  CloneInv'
<1> DEFINE n == SubjectsOf[j]
           st == benchmark[j].status
           open == {s \in EvaluationRuns(j) : ~ evaluation[j][s].finished}
<1>1. /\ CloneTables /\ BenchOk(bench[j], n, st)
      /\ \A s \in Subject :
           SubjectOk(bench[j], n, st, s, thread[j][s].at, evaluation[j][s], clone[j][s])
  BY Before
<1>2. /\ bench[j].at = "list" /\ SubjectsKept /\ UNCHANGED benchmark
      /\ "mark" \in BenchState /\ open \in SUBSET Subject
      /\ bench' = [bench EXCEPT ![j].at = "mark", ![j].open = open]
  BY DEF ListOpen, storeVars, cloudVars, SubjectsKept, BenchState, EvaluationRuns
<1>3. BenchmarkSays(j, st) /\ st # "completed"
  BY <1>1, <1>2, BenchmarkWrites DEF BenchOk
<1>4. BenchSays(j, "mark", bench[j].next, open)
  BY <1>1, <1>2, BenchWrites
<1>5. BenchOk(bench'[j], n, st)
  BY <1>3, <1>4 DEF BenchOk, BenchSays
<1>6. ASSUME NEW s \in Subject
      PROVE  SubjectOk(bench'[j], n, st, s, thread[j][s].at, evaluation[j][s], clone[j][s])
  <2>1. thread[j][s].at # "none" => evaluation[j][s].finished \/ s \in open
    BY <1>1 DEF EvaluationRuns, SubjectOk
  <2> HIDE DEF open
  <2>2. QED
    BY <1>1, <1>2, <1>3, <1>4, <2>1 DEF SubjectOk, BenchSays
<1>7. QED
  BY <1>2, <1>3, <1>4, <1>5, <1>6, OneBenchOnly

(* The job gives up: threads are dropped from the queue, or the clones of  *)
(* a launch that failed stay up.                                           *)
LEMMA GivingUpKeeps ==
  ASSUME CloneInv, NEW j \in Job, BenchAt(j, "raised"), WriteBenchmark(j, "interrupted"),
         bench[j].at = "launch" \/ (bench[j].at = "mark" /\ bench[j].open = {}),
         UNCHANGED evaluation,
         NEW threads \in [Subject -> ThreadRecords],
         thread' = [thread EXCEPT ![j] = threads],
         NEW clones \in [Subject -> Clone],
         clone' = [clone EXCEPT ![j] = clones],
         \A s \in Subject :
           \/ threads[s].at = thread[j][s].at
           \/ thread[j][s].at = "queued" /\ threads[s].at = "cancelled",
         \A s \in Subject :
           \/ clones[s] = clone[j][s]
           \/ bench[j].at = "launch" /\ clones[s] = "kept"
  PROVE  CloneInv'
<1> DEFINE n == SubjectsOf[j]
<1>1. /\ CloneTables /\ BenchOk(bench[j], n, benchmark[j].status)
      /\ \A s \in Subject :
           SubjectOk(bench[j], n, benchmark[j].status, s, thread[j][s].at,
                     evaluation[j][s], clone[j][s])
  BY Before
<1>2. "raised" \in BenchState
  BY DEF BenchState
<1>3. BenchmarkSays(j, "interrupted") /\ BenchSays(j, "raised", bench[j].next, bench[j].open)
  BY <1>1, <1>2, BenchmarkWrites, BenchWrites
<1>4. /\ thread' \in [Job -> [Subject -> ThreadRecords]] /\ thread'[j] = threads
      /\ \A k \in Job \ {j} : thread'[k] = thread[k]
  BY <1>1 DEF CloneTables
<1>5. /\ clone' \in [Job -> [Subject -> Clone]] /\ clone'[j] = clones
      /\ \A k \in Job \ {j} : clone'[k] = clone[k]
  BY <1>1 DEF CloneTables
<1>6. CloneTables'
  BY <1>1, <1>3, <1>4, <1>5 DEF CloneTables, BenchSays, BenchmarkSays
<1>7. BenchOk(bench'[j], n, "interrupted")
  BY <1>3 DEF BenchOk, BenchSays
<1>8. ASSUME NEW s \in Subject
      PROVE  SubjectOk(bench'[j], n, "interrupted", s, threads[s].at,
                       evaluation[j][s], clones[s])
  <2>1. SubjectOk(bench[j], n, benchmark[j].status, s, thread[j][s].at,
                  evaluation[j][s], clone[j][s])
    BY <1>1
  <2>2. bench[j].at = "launch" => thread[j][s].at = "none"
    BY <2>1 DEF SubjectOk
  <2>3. QED
    BY <1>3, <2>1, <2>2 DEF SubjectOk, BenchSays
<1>9. CloneJobOk(j)'
  BY <1>3, <1>4, <1>5, <1>7, <1>8 DEF CloneJobOk, BenchmarkSays
<1>10. QED
  BY <1>3, <1>4, <1>5, <1>6, <1>9, OneBench

LEMMA InterruptKeeps ==
  ASSUME CloneInv, NEW j \in Job, Interrupt(j) \/ LaunchFails(j)
  PROVE  CloneInv'
<1>1. CloneTables
  BY DEF CloneInv
<1>2. thread[j] \in [Subject -> ThreadRecords] /\ clone[j] \in [Subject -> Clone]
  BY <1>1 DEF CloneTables
<1>3. CASE Interrupt(j)
  <2>1. PICK dropped \in SUBSET {s \in Subject : thread[j][s].at = "queued"} :
          thread' = [thread EXCEPT ![j] =
            [s \in Subject |-> IF s \in dropped THEN ThreadRecord("cancelled")
                                                ELSE thread[j][s]]]
    BY <1>3 DEF Interrupt
  <2> DEFINE threads == [s \in Subject |-> IF s \in dropped THEN ThreadRecord("cancelled")
                                                           ELSE thread[j][s]]
  <2>2. /\ ThreadRecord("cancelled") \in ThreadRecords
        /\ ThreadRecord("cancelled").at = "cancelled"
    BY DEF ThreadRecord, ThreadRecords, ThreadState
  <2>3. threads \in [Subject -> ThreadRecords]
    BY <1>2, <2>2
  <2>4. \A s \in Subject :
          \/ threads[s].at = thread[j][s].at
          \/ thread[j][s].at = "queued" /\ threads[s].at = "cancelled"
    BY <2>2
  <2>5. clone' = [clone EXCEPT ![j] = clone[j]]
    BY <1>1, <1>3 DEF Interrupt, CloneTables
  <2>6. /\ BenchAt(j, "raised") /\ WriteBenchmark(j, "interrupted")
        /\ bench[j].at = "mark" /\ bench[j].open = {} /\ UNCHANGED evaluation
    BY <1>3 DEF Interrupt
  <2> HIDE DEF threads
  <2>7. QED
    BY <1>2, <2>1, <2>3, <2>4, <2>5, <2>6, GivingUpKeeps DEF threads
<1>4. CASE LaunchFails(j)
  <2>1. PICK left \in SUBSET (1..(SubjectsOf[j] - 1)) :
          clone' = [clone EXCEPT ![j] =
                      [s \in Subject |-> IF s \in left THEN "kept" ELSE clone[j][s]]]
    BY <1>4 DEF LaunchFails
  <2> DEFINE clones == [s \in Subject |-> IF s \in left THEN "kept" ELSE clone[j][s]]
  <2>2. clones \in [Subject -> Clone]
    BY <1>2 DEF Clone
  <2>3. \A s \in Subject : clones[s] = clone[j][s] \/ clones[s] = "kept"
    OBVIOUS
  <2>4. thread' = [thread EXCEPT ![j] = thread[j]]
    BY <1>1, <1>4 DEF LaunchFails, CloneTables
  <2>5. /\ BenchAt(j, "raised") /\ WriteBenchmark(j, "interrupted")
        /\ bench[j].at = "launch" /\ UNCHANGED evaluation
    BY <1>4 DEF LaunchFails
  <2> HIDE DEF clones
  <2>6. QED
    BY <1>2, <2>1, <2>2, <2>3, <2>4, <2>5, GivingUpKeeps DEF clones
<1>5. QED
  BY <1>3, <1>4

(* A run starts, or its setup run turns out not to be verified any more.   *)
LEMMA BenchStartKeeps ==
  ASSUME CloneInv, NEW j \in Job, NEW rev, NEW over, StartBenchmark(j, rev, over)
  PROVE  CloneInv'
<1> DEFINE n == SubjectsOf[j]
<1>1. /\ CloneTables /\ BenchOk(bench[j], n, benchmark[j].status)
      /\ \A s \in Subject :
           SubjectOk(bench[j], n, benchmark[j].status, s, thread[j][s].at,
                     evaluation[j][s], clone[j][s])
  BY Before
<1>2. /\ bench[j].at = "idle" /\ SubjectsKept /\ {"launch", "raised"} \subseteq BenchState
  BY DEF StartBenchmark, SubjectsKept, BenchState
<1>3. ASSUME NEW at \in {"launch", "raised"}, NEW st, st # "completed",
             BenchAt(j, at), BenchmarkSays(j, st)
      PROVE  CloneInv'
  <2>1. BenchSays(j, at, bench[j].next, bench[j].open)
    BY <1>1, <1>2, <1>3, BenchWrites
  <2>2. BenchOk(bench'[j], n, st)
    BY <1>1, <1>2, <1>3, <2>1 DEF BenchOk, BenchSays
  <2>3. ASSUME NEW s \in Subject
        PROVE  SubjectOk(bench'[j], n, st, s, thread[j][s].at, evaluation[j][s], clone[j][s])
    BY <1>1, <1>2, <1>3, <2>1, <2>3 DEF SubjectOk, BenchSays
  <2>4. QED
    BY <1>2, <1>3, <2>1, <2>2, <2>3, OneBenchOnly
<1>4. benchmark[j].status # "completed"
  BY <1>1, <1>2 DEF BenchOk
<1>5. QED
  BY <1>1, <1>3, <1>4, BenchmarkWrites DEF StartBenchmark

LEMMA LaunchKeeps ==
  ASSUME CloneInv, NEW j \in Job, LaunchClones(j)
  PROVE  CloneInv'
<1> DEFINE n == SubjectsOf[j]
           st == benchmark[j].status
           clones == [s \in Subject |-> IF s <= n THEN "broken" ELSE clone[j][s]]
<1>1. /\ CloneTables /\ n \in Nat /\ n >= 1 /\ BenchOk(bench[j], n, st)
      /\ \A s \in Subject :
           s \in Nat /\ SubjectOk(bench[j], n, st, s, thread[j][s].at, evaluation[j][s],
                                  clone[j][s])
  BY Before
<1>2. /\ bench[j].at = "launch" /\ UNCHANGED <<benchmark, evaluation, thread>>
      /\ "submit" \in BenchState /\ BenchAt(j, "submit")
      /\ clone' = [clone EXCEPT ![j] = clones]
  BY DEF LaunchClones, storeVars, BenchState
<1>3. /\ BenchmarkSays(j, st) /\ BenchSays(j, "submit", 1, bench[j].open)
      /\ st # "completed"
  BY <1>1, <1>2, BenchmarkWrites, BenchWrites DEF BenchOk
<1>4. clones \in [Subject -> Clone]
  BY <1>1 DEF CloneTables, Clone
<1>5. \A s \in Subject : clones[s] = IF s <= n THEN "broken" ELSE clone[j][s]
  OBVIOUS
<1> HIDE DEF clones
<1>6. /\ clone' \in [Job -> [Subject -> Clone]] /\ clone'[j] = clones
      /\ \A k \in Job \ {j} : clone'[k] = clone[k]
  BY <1>1, <1>2, <1>4 DEF CloneTables
<1>7. CloneTables'
  BY <1>1, <1>2, <1>3, <1>6 DEF CloneTables, BenchSays
<1>8. BenchOk(bench'[j], n, st)
  BY <1>1, <1>3 DEF BenchOk, BenchSays
<1>9. ASSUME NEW s \in Subject
      PROVE  SubjectOk(bench'[j], n, st, s, thread[j][s].at, evaluation[j][s], clones[s])
  <2>1. s >= 1 /\ s \in Nat
    BY Sizes, BudgetAssumption DEF Subject
  <2>2. QED
    BY <1>1, <1>2, <1>3, <1>5, <2>1 DEF SubjectOk, BenchSays
<1>10. CloneJobOk(j)'
  BY <1>2, <1>6, <1>8, <1>9 DEF CloneJobOk
<1>11. QED
  BY <1>2, <1>3, <1>6, <1>7, <1>10, OneBench

(* The next subject gets a row and a thread; after the last the thread of  *)
(* the job waits for them.                                                 *)
LEMMA SubmitKeeps ==
  ASSUME CloneInv, NEW j \in Job, Submit(j)
  PROVE  CloneInv'
<1> DEFINE n == SubjectsOf[j]
           st == benchmark[j].status
           i == bench[j].next
           at == IF i = n THEN "await" ELSE "submit"
           next == IF i = n THEN 1 ELSE i + 1
<1>1. /\ CloneTables /\ i \in Nat /\ n \in Nat /\ n >= 1 /\ BenchOk(bench[j], n, st)
      /\ \A s \in Subject :
           s \in Nat /\ SubjectOk(bench[j], n, st, s, thread[j][s].at, evaluation[j][s],
                                  clone[j][s])
  BY Before
<1>2. /\ bench[j].at = "submit" /\ UNCHANGED <<benchmark, clone>>
      /\ {"await", "submit"} \subseteq BenchState /\ "queued" \in ThreadState
      /\ ThreadAt(j, i, "queued") /\ CreateEvaluationRun(j, i)
      /\ bench' = [bench EXCEPT ![j] = IF i = n THEN [bench[j] EXCEPT !.at = "await", !.next = 1]
                                               ELSE [bench[j] EXCEPT !.next = i + 1]]
  BY DEF Submit, BenchState, ThreadState
<1>3. i \in 1..n /\ i \in Subject /\ st # "completed"
  BY <1>1, <1>2, Sizes DEF BenchOk
<1>4. BenchmarkSays(j, st)
  BY <1>1, <1>2, BenchmarkWrites
<1>5. BenchSays(j, at, next, bench[j].open)
  <2>1. CASE i = n
    <3>1. bench' = [bench EXCEPT ![j].at = "await", ![j].next = 1]
      BY <1>2, <2>1
    <3>2. BenchSays(j, "await", 1, bench[j].open)
      BY <1>1, <1>2, <3>1, BenchWrites
    <3>3. QED
      BY <2>1, <3>2
  <2>2. CASE i # n
    <3>1. bench' = [bench EXCEPT ![j].next = i + 1] /\ i + 1 \in Nat
      BY <1>1, <1>2, <2>2
    <3>2. BenchSays(j, bench[j].at, i + 1, bench[j].open)
      BY <1>1, <3>1, BenchWrites, Zenon
    <3>3. QED
      BY <1>2, <2>2, <3>2
  <2>3. QED
    BY <2>1, <2>2
<1>6. /\ at = "await" => next = 1 /\ i = n
      /\ at = "submit" => next = i + 1 /\ i < n
      /\ at \in {"await", "submit"} /\ next \in 1..n
  BY <1>1, <1>3
<1> HIDE DEF at, next
<1>7. ThreadSays(j, i, "queued")
  BY <1>1, <1>2, <1>3, ThreadWrites
<1>8. /\ evaluation' \in [Job -> [Subject -> EvaluationRecord]]
      /\ evaluation'[j][i].status = "running"
      /\ evaluation'[j][i].finished = evaluation[j][i].finished
      /\ \A k \in Job, t \in Subject : k # j \/ t # i => evaluation'[k][t] = evaluation[k][t]
  <2> DEFINE row == [evaluation[j][i] EXCEPT !.status = "running"]
  <2>1. evaluation[j][i] \in EvaluationRecord
    BY <1>1, <1>3 DEF CloneTables
  <2>2. /\ row \in EvaluationRecord /\ row.status = "running"
        /\ row.finished = evaluation[j][i].finished
    BY <2>1 DEF EvaluationRecord, EvaluationStatus
  <2>3. evaluation' = [evaluation EXCEPT ![j][i] = row]
    BY <1>1, <1>2, <1>3 DEF CreateEvaluationRun, CloneTables
  <2> HIDE DEF row
  <2>4. /\ evaluation' \in [Job -> [Subject -> EvaluationRecord]] /\ evaluation'[j][i] = row
        /\ \A k \in Job, t \in Subject : k # j \/ t # i => evaluation'[k][t] = evaluation[k][t]
    BY <1>1, <1>3, <2>2, <2>3, CellWrite DEF CloneTables
  <2>5. QED
    BY <2>2, <2>4
<1>9. CloneTables'
  BY <1>1, <1>2, <1>5, <1>7, <1>8 DEF CloneTables, BenchSays, ThreadSays
<1>10. \A k \in Job \ {j} : thread'[k] = thread[k] /\ evaluation'[k] = evaluation[k]
  BY <1>2, <1>1 DEF ThreadAt, CreateEvaluationRun, CloneTables
<1>11. BenchOk(bench'[j], n, st)
  BY <1>3, <1>5, <1>6 DEF BenchOk, BenchSays
<1>12. ASSUME NEW s \in Subject
       PROVE  SubjectOk(bench'[j], n, st, s, thread'[j][s].at, evaluation'[j][s], clone[j][s])
  <2>1. /\ s \in Nat /\ s >= 1
        /\ SubjectOk(bench[j], n, st, s, thread[j][s].at, evaluation[j][s], clone[j][s])
    BY <1>1, BudgetAssumption DEF Subject
  <2>2. CASE s = i
    <3>1. /\ thread'[j][s].at = "queued" /\ evaluation'[j][s].status = "running"
      BY <1>7, <1>8, <2>2 DEF ThreadSays
    <3>2. thread[j][s].at = "none"
      BY <1>1, <1>2, <1>3, <2>1, <2>2 DEF SubjectOk
    <3>3. clone[j][s] # "kept"
      BY <1>1, <1>2, <1>3, <2>1, <2>2, <3>2 DEF SubjectOk
    <3>4. QED
      BY <1>1, <1>3, <1>5, <1>6, <2>1, <2>2, <3>1, <3>2, <3>3 DEF SubjectOk, BenchSays
  <2>3. CASE s # i
    <3>1. /\ thread'[j][s] = thread[j][s] /\ evaluation'[j][s] = evaluation[j][s]
      BY <1>7, <1>8, <2>3 DEF ThreadSays
    <3>2. i <= s <=> s > i
      BY <1>1, <2>1, <2>3
    <3>3. QED
      BY <1>1, <1>2, <1>3, <1>5, <1>6, <2>1, <3>1, <3>2 DEF SubjectOk, BenchSays
  <2>4. QED
    BY <2>2, <2>3
<1>13. CloneJobOk(j)'
  BY <1>2, <1>11, <1>12 DEF CloneJobOk
<1>14. QED
  BY <1>2, <1>4, <1>5, <1>9, <1>10, <1>13, OneBench

(* A row is struck from the list as it is closed.                          *)
LEMMA MarkKeeps ==
  ASSUME CloneInv, NEW j \in Job, MarkOpen(j)
  PROVE  CloneInv'
<1> DEFINE n == SubjectsOf[j]
           st == benchmark[j].status
           m == Min(bench[j].open)
           row == [status |-> "failed", repaired |-> FALSE, finished |-> TRUE]
           open == bench[j].open \ {m}
<1>1. /\ CloneTables /\ bench[j].open \in SUBSET Subject /\ BenchOk(bench[j], n, st)
      /\ \A s \in Subject :
           SubjectOk(bench[j], n, st, s, thread[j][s].at, evaluation[j][s], clone[j][s])
  BY Before
<1>2. /\ bench[j].at = "mark" /\ UNCHANGED <<benchmark, clone, thread>>
      /\ evaluation' = [evaluation EXCEPT ![j][m] = row]
      /\ bench' = [bench EXCEPT ![j].open = open]
  BY DEF MarkOpen, FinishEvaluation
<1>3. row \in EvaluationRecord /\ row.finished /\ row.status # "none"
  BY DEF EvaluationRecord, EvaluationStatus
<1> HIDE DEF m, row
<1>4. open \in SUBSET Subject /\ \A s \in Subject : s \in bench[j].open => s \in open \/ s = m
  BY <1>1
<1> HIDE DEF open
<1>5. BenchmarkSays(j, st) /\ BenchSays(j, "mark", bench[j].next, open) /\ st # "completed"
  BY <1>1, <1>2, <1>4, BenchmarkWrites, BenchWrites DEF BenchOk
<1>6. /\ evaluation' \in [Job -> [Subject -> EvaluationRecord]]
      /\ \A s \in Subject : evaluation'[j][s] = IF s = m THEN row ELSE evaluation[j][s]
      /\ \A k \in Job \ {j} : evaluation'[k] = evaluation[k]
  BY <1>1, <1>2, <1>3 DEF CloneTables
<1>7. CloneTables'
  BY <1>1, <1>2, <1>5, <1>6 DEF CloneTables, BenchSays
<1>8. BenchOk(bench'[j], n, st)
  BY <1>5 DEF BenchOk, BenchSays
<1>9. ASSUME NEW s \in Subject
      PROVE  SubjectOk(bench'[j], n, st, s, thread[j][s].at, evaluation'[j][s], clone[j][s])
  <2>1. SubjectOk(bench[j], n, st, s, thread[j][s].at, evaluation[j][s], clone[j][s])
    BY <1>1
  <2>2. CASE s = m
    BY <1>2, <1>3, <1>5, <1>6, <2>1, <2>2 DEF SubjectOk, BenchSays
  <2>3. CASE s # m
    BY <1>2, <1>4, <1>5, <1>6, <2>1, <2>3 DEF SubjectOk, BenchSays
  <2>4. QED
    BY <2>2, <2>3
<1>10. CloneJobOk(j)'
  BY <1>2, <1>8, <1>9 DEF CloneJobOk
<1>11. QED
  BY <1>2, <1>5, <1>6, <1>7, <1>10, OneBench

LEMMA BenchKeeps ==
  ASSUME CloneInv, NEW j \in Job, BenchStep(j)
  PROVE  CloneInv'
BY LaunchKeeps, InterruptKeeps, SubmitKeeps, AwaitKeeps, SettleKeeps, ListKeeps, MarkKeeps
   DEF BenchStep

-----------------------------------------------------------------------------
(* Cancel requests, deaths and restarts.                                   *)

(* A row is renamed: it stays a row, as finished and as repaired as it     *)
(* was.                                                                    *)
LEMMA RenamingKeeps ==
  ASSUME CloneInv, CloneTables', UNCHANGED <<bench, thread, clone>>,
         \A j \in Job : benchmark'[j].status \in
                          {benchmark[j].status, "cancelled", "interrupted"},
         \A j \in Job, s \in Subject :
           /\ evaluation'[j][s].finished = evaluation[j][s].finished
           /\ evaluation'[j][s].repaired = evaluation[j][s].repaired
           /\ evaluation'[j][s].status = "none" <=> evaluation[j][s].status = "none"
  PROVE  CloneInv'
<1>1. ASSUME NEW j \in Job PROVE CloneJobOk(j)'
  <2>1. BenchOk(bench[j], SubjectsOf[j], benchmark'[j].status)
    BY DEF CloneInv, CloneJobOk, BenchOk
  <2>2. ASSUME NEW s \in Subject
        PROVE  SubjectOk(bench[j], SubjectsOf[j], benchmark'[j].status, s,
                         thread[j][s].at, evaluation'[j][s], clone[j][s])
    <3>1. SubjectOk(bench[j], SubjectsOf[j], benchmark[j].status, s,
                    thread[j][s].at, evaluation[j][s], clone[j][s])
      BY DEF CloneInv, CloneJobOk
    <3>2. /\ evaluation'[j][s].finished = evaluation[j][s].finished
          /\ evaluation'[j][s].repaired = evaluation[j][s].repaired
          /\ evaluation'[j][s].status = "none" <=> evaluation[j][s].status = "none"
          /\ benchmark'[j].status \in {benchmark[j].status, "cancelled", "interrupted"}
      OBVIOUS
    <3>3. QED
      BY <3>1, <3>2 DEF SubjectOk
  <2>3. QED
    BY <2>1, <2>2 DEF CloneJobOk
<1>2. QED
  BY <1>1 DEF CloneInv

LEMMA CancelKeeps ==
  ASSUME CloneInv, Cancel
  PROVE  CloneInv'
<1>1. CloneTables /\ UNCHANGED <<bench, thread, clone>>
  BY DEF CloneInv, Cancel, benchVars, cloudVars
<1>2. CASE UNCHANGED <<benchmark, evaluation>>
  BY <1>1, <1>2, RenamingKeeps DEF CloneTables
<1>3. ASSUME NEW j \in Job, WriteBenchmark(j, "cancelled"), UNCHANGED evaluation
      PROVE  CloneInv'
  <2>1. BenchmarkSays(j, "cancelled")
    BY <1>1, <1>3, BenchmarkWrites
  <2>2. CloneTables'
    BY <1>1, <1>3, <2>1 DEF CloneTables, BenchmarkSays
  <2>3. \A k \in Job : benchmark'[k].status \in
                          {benchmark[k].status, "cancelled", "interrupted"}
    BY <2>1 DEF BenchmarkSays
  <2>4. QED
    BY <1>1, <1>3, <2>2, <2>3, RenamingKeeps
<1>4. ASSUME NEW j \in Job, NEW s \in EvaluationRuns(j),
             evaluation' = [evaluation EXCEPT ![j][s].status = "cancelled"],
             UNCHANGED benchmark
      PROVE  CloneInv'
  <2> DEFINE row == [evaluation[j][s] EXCEPT !.status = "cancelled"]
  <2>1. /\ s \in Subject /\ evaluation[j][s].status # "none"
        /\ evaluation[j][s] \in EvaluationRecord
    BY <1>1 DEF EvaluationRuns, CloneTables
  <2>2. /\ row \in EvaluationRecord /\ row.status # "none"
        /\ row.finished = evaluation[j][s].finished
        /\ row.repaired = evaluation[j][s].repaired
    BY <2>1 DEF EvaluationRecord, EvaluationStatus
  <2>3. evaluation' = [evaluation EXCEPT ![j][s] = row]
    BY <1>1, <1>4, <2>1 DEF CloneTables
  <2> HIDE DEF row
  <2>4. /\ evaluation' \in [Job -> [Subject -> EvaluationRecord]] /\ evaluation'[j][s] = row
        /\ \A k \in Job, t \in Subject : k # j \/ t # s => evaluation'[k][t] = evaluation[k][t]
    BY <1>1, <2>1, <2>2, <2>3, CellWrite DEF CloneTables
  <2>5. CloneTables'
    BY <1>1, <1>4, <2>4 DEF CloneTables
  <2>6. ASSUME NEW k \in Job, NEW t \in Subject
        PROVE  /\ evaluation'[k][t].finished = evaluation[k][t].finished
               /\ evaluation'[k][t].repaired = evaluation[k][t].repaired
               /\ evaluation'[k][t].status = "none" <=> evaluation[k][t].status = "none"
    BY <2>1, <2>2, <2>4
  <2>7. QED
    BY <1>1, <1>4, <2>5, <2>6, RenamingKeeps
<1>5. QED
  BY <1>2, <1>3, <1>4 DEF Cancel

LEMMA RestartKeeps ==
  ASSUME CloneInv, Restart
  PROVE  CloneInv'
<1>1. CloneTables /\ UNCHANGED <<bench, thread, clone>>
  BY DEF CloneInv, Restart, benchVars, cloudVars
<1>2. /\ Table(benchmark')
      /\ \A j \in Job : Row(benchmark'[j]) /\ "status" \in DOMAIN benchmark'[j]
      /\ \A j \in Job : benchmark'[j].status \in
                          {benchmark[j].status, "cancelled", "interrupted"}
  BY <1>1 DEF Restart, CloneTables, Table, Row
<1>3. ASSUME NEW j \in Job, NEW s \in Subject
      PROVE  /\ evaluation'[j][s] \in EvaluationRecord
             /\ evaluation'[j][s].finished = evaluation[j][s].finished
             /\ evaluation'[j][s].repaired = evaluation[j][s].repaired
             /\ evaluation'[j][s].status = "none" <=> evaluation[j][s].status = "none"
  <2>1. evaluation[j][s] \in EvaluationRecord
    BY <1>1 DEF CloneTables
  <2>2. \/ evaluation'[j][s] = evaluation[j][s]
        \/ /\ evaluation'[j][s] = [evaluation[j][s] EXCEPT !.status = "interrupted"]
           /\ evaluation[j][s].status # "none"
    BY DEF Restart, Orphaned
  <2>3. QED
    BY <2>1, <2>2 DEF EvaluationRecord, EvaluationStatus
<1>4. evaluation' \in [Job -> [Subject -> EvaluationRecord]]
  BY <1>3 DEF Restart
<1>5. CloneTables'
  BY <1>1, <1>2, <1>4 DEF CloneTables
<1>6. QED
  BY <1>1, <1>2, <1>3, <1>5, RenamingKeeps

(* The dead leave their clones up, and are known to be lost.               *)
LEMMA DeathKeeps ==
  ASSUME CloneInv, Crash
  PROVE  CloneInv'
<1>1. CloneTables /\ UNCHANGED <<benchmark, evaluation, clone>>
  BY DEF CloneInv, Crash, storeVars, cloudVars
<1>2. ASSUME NEW j \in Job
      PROVE  /\ bench'[j] \in BenchRecord
             /\ IF bench[j].at \in {"idle", "done", "raised"} THEN bench'[j] = bench[j]
                                                              ELSE bench'[j].at = "lost"
  <2>1. [at |-> "lost", next |-> 1, open |-> {}] \in BenchRecord
    BY DEF BenchRecord, BenchState
  <2>2. bench[j] \in BenchRecord
    BY <1>1 DEF CloneTables
  <2>3. QED
    BY <2>1, <2>2 DEF Crash, LoseThreads
<1>3. ASSUME NEW j \in Job, NEW s \in Subject
      PROVE  /\ thread'[j][s] \in ThreadRecords
             /\ IF thread[j][s].at \in {"none"} \cup Over THEN thread'[j][s] = thread[j][s]
                                                         ELSE thread'[j][s].at = "lost"
  <2>1. ThreadRecord("lost") \in ThreadRecords /\ ThreadRecord("lost").at = "lost"
    BY DEF ThreadRecord, ThreadRecords, ThreadState
  <2>2. thread[j][s] \in ThreadRecords
    BY <1>1 DEF CloneTables
  <2>3. QED
    BY <2>1, <2>2 DEF Crash, LoseThreads
<1>4. bench' \in [Job -> BenchRecord]
  BY <1>2 DEF Crash, LoseThreads
<1>5. thread' \in [Job -> [Subject -> ThreadRecords]]
  BY <1>3 DEF Crash, LoseThreads
<1>6. CloneTables'
  BY <1>1, <1>4, <1>5 DEF CloneTables
<1>7. ASSUME NEW j \in Job PROVE CloneJobOk(j)'
  <2>1. BenchOk(bench'[j], SubjectsOf[j], benchmark[j].status)
    BY <1>2 DEF CloneInv, CloneJobOk, BenchOk
  <2>2. ASSUME NEW s \in Subject
        PROVE  SubjectOk(bench'[j], SubjectsOf[j], benchmark[j].status, s,
                         thread'[j][s].at, evaluation[j][s], clone[j][s])
    <3>1. SubjectOk(bench[j], SubjectsOf[j], benchmark[j].status, s,
                    thread[j][s].at, evaluation[j][s], clone[j][s])
      BY DEF CloneInv, CloneJobOk
    <3>2. benchmark[j].status = "completed" => bench[j].at = "done"
      BY DEF CloneInv, CloneJobOk, BenchOk
    <3>3. QED
      BY <1>2, <1>3, <3>1, <3>2 DEF SubjectOk, Over
  <2>3. QED
    BY <1>1, <2>1, <2>2 DEF CloneJobOk
<1>8. QED
  BY <1>6, <1>7 DEF CloneInv

-----------------------------------------------------------------------------
(* The system.                                                             *)

cloneTables == <<bench, thread, evaluation, clone, benchmark>>

LEMMA ClonesElsewhere ==
  ASSUME CloneInv, UNCHANGED cloneTables
  PROVE  CloneInv'
BY DEF CloneInv, CloneTables, CloneJobOk, cloneTables

LEMMA SetupsStayAway ==
  /\ \A j \in Job : SetupStep(j) /\ UNCHANGED benchVars => UNCHANGED cloneTables
  /\ \A j \in Job : \A over :
       JudgeStep(j, over) /\ UNCHANGED benchVars => UNCHANGED cloneTables
  /\ \A j \in Job : StartJudge(j) /\ UNCHANGED benchVars => UNCHANGED cloneTables
  /\ \A j \in Job : \A rev :
       StartDesign(j) \/ StartExisting(j, rev)
         => (UNCHANGED benchVars => UNCHANGED cloneTables)
<1>1. ASSUME NEW j \in Job, SetupStep(j), UNCHANGED benchVars
      PROVE  UNCHANGED cloneTables
  BY <1>1 DEF SetupStep, Design, LaunchStaging, Stage, Build, Verify, Approve,
     OrderCorrection, PlanFix, ExecuteFix, Scrap, CreateImage, RequestImage,
     RequestImageRaises, PollImage, GiveUpImage, FailImage, RecordVerified,
     MarkVerified, Raise, RejectDraft, HandleFailed, HandleRaise, Teardown, cloudVars, storeVars,
     othersVars, benchVars, cloneTables
<1>2. ASSUME NEW j \in Job, NEW over, JudgeStep(j, over), UNCHANGED benchVars
      PROVE  UNCHANGED cloneTables
  BY <1>2 DEF JudgeStep, BeginJudging, ListEvaluations, GradeEvaluation, NextPair,
     CompareForward, CompareBackward, FinishJudging, JudgeRaises, otherTables,
     benchVars, cloudVars, cloneTables
<1>3. ASSUME NEW j \in Job, StartJudge(j), UNCHANGED benchVars
      PROVE  UNCHANGED cloneTables
  BY <1>3 DEF StartJudge, otherTables, benchVars, cloudVars, cloneTables
<1>4. ASSUME NEW j \in Job, NEW rev, StartDesign(j) \/ StartExisting(j, rev),
             UNCHANGED benchVars
      PROVE  UNCHANGED cloneTables
  BY <1>4 DEF StartDesign, StartExisting, storeVars, cloudVars, othersVars, benchVars,
     cloneTables
<1>5. QED
  BY <1>1, <1>2, <1>3, <1>4

LEMMA CloneStep ==
  ASSUME CloneInv, [Next]_vars
  PROVE  CloneInv'
<1>1. ASSUME UNCHANGED vars PROVE CloneInv'
  BY <1>1, ClonesElsewhere DEF vars, storeVars, cloudVars, benchVars, cloneTables
<1>2. ASSUME EnginesIdle PROVE CloneInv'
  BY <1>2, ClonesElsewhere DEF EnginesIdle, storeVars, cloudVars, benchVars, cloneTables
<1>3. ASSUME NEW j \in Job, Work(j) PROVE CloneInv'
  <2>1. CASE Acquire(j)
    BY <2>1, SetupsStayAway, BenchStartKeeps, ClonesElsewhere DEF Acquire, Begin
  <2>2. CASE StepSetup(j)
    BY <2>2, SetupsStayAway, ClonesElsewhere DEF StepSetup
  <2>3. CASE StepBenchmark(j)
    BY <2>3, BenchKeeps DEF StepBenchmark
  <2>4. CASE StepJudge(j)
    BY <2>4, SetupsStayAway, ClonesElsewhere DEF StepJudge
  <2>5. CASE LeaveSetup(j)
    BY <1>2, <2>5, BenchStartKeeps DEF LeaveSetup
  <2>6. CASE LeaveBenchmark(j)
    BY <1>2, <2>6, SetupsStayAway, ClonesElsewhere DEF LeaveBenchmark
  <2>7. CASE LeaveJudge(j) \/ BuildFails(j) \/ JudgesFail(j)
    BY <1>2, <2>7 DEF LeaveJudge, BuildFails, JudgesFail
  <2>8. QED
    BY <1>3, <2>1, <2>2, <2>3, <2>4, <2>5, <2>6, <2>7 DEF Work
<1>4. ASSUME NEW j \in Job,
             RequestVerify(j) \/ RequestRunAll(j) \/ RequestBenchmark(j)
               \/ RequestJudge(j) \/ RunDesign(j) \/ DesignNotBuilt(j)
      PROVE  CloneInv'
  <2>1. CASE RunDesign(j)
    BY <2>1, SetupsStayAway, ClonesElsewhere DEF RunDesign
  <2>2. CASE RequestVerify(j) \/ RequestRunAll(j) \/ RequestBenchmark(j) \/ RequestJudge(j)
               \/ DesignNotBuilt(j)
    BY <1>2, <2>2 DEF RequestVerify, RequestRunAll, RequestBenchmark, RequestJudge, Request,
       DesignNotBuilt
  <2>3. QED
    BY <1>4, <2>1, <2>2
<1>5. CASE Provider
  <2>1. ASSUME NEW j \in Job, ImageBuilt(j), UNCHANGED benchVars
        PROVE  UNCHANGED cloneTables
    BY <2>1 DEF ImageBuilt, storeVars, benchVars, cloneTables
  <2>2. QED
    BY <1>5, <2>1, MachineKeeps, ClonesElsewhere DEF Provider
<1>6. ASSUME NEW j \in Job, NEW s \in Subject, StepThread(j, s)
      PROVE  CloneInv'
  BY <1>6, ThreadKeeps DEF StepThread
<1>7. QED
  BY <1>1, <1>3, <1>4, <1>5, <1>6, CancelKeeps, RestartKeeps, DeathKeeps DEF Next, Stopped

RentalInv == ImageInv /\ StagingInv /\ CloneInv

LEMMA RentalInitially == Init => RentalInv
<1> SUFFICES ASSUME Init PROVE RentalInv
  OBVIOUS
<1>1. ImageInv
  BY ImageInitially
<1>2. StagingInv
  BY DEF Init, StoreInit, FsmInit, FsmRecord, StagingInv, JobTable, JobOk, Table, Row, Held
<1>3. CloneTables
  BY DEF Init, StoreInit, BenchInit, ThreadRecord, CloneTables, Table, Row, Clone,
     BenchRecord, BenchState, ThreadRecords, ThreadState, EvaluationRecord
<1>4. ASSUME NEW j \in Job PROVE CloneJobOk(j)
  <2>1. /\ bench[j].at = "idle" /\ bench[j].next = 1 /\ benchmark[j].status = "none"
        /\ \A s \in Subject : /\ thread[j][s].at = "none" /\ clone[j][s] = "none"
                              /\ evaluation[j][s].status = "none"
    BY DEF Init, StoreInit, BenchInit, ThreadRecord
  <2>2. QED
    BY <2>1 DEF CloneJobOk, BenchOk, SubjectOk
<1>5. QED
  BY <1>1, <1>2, <1>3, <1>4 DEF RentalInv, CloneInv

LEMMA RentalStep == RentalInv /\ [Next]_vars => RentalInv'
<1> SUFFICES ASSUME RentalInv, [Next]_vars PROVE RentalInv'
  OBVIOUS
<1>1. ImageInv /\ Rows /\ StagingInv /\ CloneInv
  BY DEF RentalInv, ImageInv
<1>2. ImageInv' /\ StagingInv' /\ CloneInv'
  BY <1>1, ImageStep, StagingStep, CloneStep
<1>3. QED
  BY <1>2 DEF RentalInv

LEMMA RentalInvariant == Spec => []RentalInv
BY RentalInitially, RentalStep, PTL DEF Spec

(* InstancesAreHeld for every size: through any number of repairs, fresh   *)
(* attempts, failing threads, deaths and restarts, a machine that is up is *)
(* in the hands of who gives it back, or that has been tried and the setup *)
(* or the benchmark failed; what else is up belongs to a job that died, a  *)
(* subject without an adapter, or one that was dropped from the queue.     *)
THEOREM MachinesAreHeld == Spec => []InstancesAreHeld
<1>1. RentalInv => InstancesAreHeld
  <2> SUFFICES ASSUME RentalInv, NEW j \in Job
               PROVE  /\ staging[j] \notin {"none", "gone", "kept"} =>
                           \/ fsm[j].at \notin {"idle", "design", "launch", "ended"}
                           \/ job[j].phase = "lost"
                      /\ staging[j] = "kept" => ~ fsm[j].ok
                      /\ \A s \in Subject :
                           /\ clone[j][s] \in {"broken", "repaired"} =>
                                ServesClone(j, s) \/ ForsakesClone(j, s)
                           /\ clone[j][s] = "kept" => bench[j].at # "done"
    BY DEF InstancesAreHeld
  <2>1. JobOk(j) /\ CloneJobOk(j)
    BY DEF RentalInv, StagingInv, CloneInv
  <2>2. ASSUME NEW s \in Subject
        PROVE  /\ clone[j][s] \in {"broken", "repaired"} =>
                    ServesClone(j, s) \/ ForsakesClone(j, s)
               /\ clone[j][s] = "kept" => bench[j].at # "done"
    BY <2>1 DEF CloneJobOk, SubjectOk, ServesClone, ForsakesClone, Over
  <2>3. QED
    BY <2>1, <2>2 DEF JobOk, Held, Idle
<1>2. QED
  BY <1>1, RentalInvariant, PTL

(* SettledBenchmarkIsClosed for every number of subjects: "completed" is   *)
(* only written when every thread repaired and returned its clone, and a   *)
(* thread of the job that is through has left no row open, in whatever     *)
(* order the subjects end or fail and whatever a cancel request renames.   *)
THEOREM BenchmarksAreClosed == Spec => []SettledBenchmarkIsClosed
<1>1. RentalInv => SettledBenchmarkIsClosed
  <2> SUFFICES ASSUME RentalInv, NEW j \in Job
               PROVE  /\ benchmark[j].status = "completed" =>
                           \A s \in 1..SubjectsOf[j] :
                             evaluation[j][s].repaired /\ clone[j][s] = "gone"
                      /\ bench[j].at \in {"done", "raised"} =>
                           \A s \in EvaluationRuns(j) : evaluation[j][s].finished
    BY DEF SettledBenchmarkIsClosed
  <2>1. CloneJobOk(j) /\ 1..SubjectsOf[j] \subseteq Subject /\ SubjectsOf[j] \in Nat
    BY Sizes DEF RentalInv, CloneInv
  <2>2. ASSUME benchmark[j].status = "completed", NEW s \in 1..SubjectsOf[j]
        PROVE  evaluation[j][s].repaired /\ clone[j][s] = "gone"
    BY <2>1, <2>2 DEF CloneJobOk, SubjectOk
  <2>3. ASSUME bench[j].at \in {"done", "raised"}, NEW s \in EvaluationRuns(j)
        PROVE  evaluation[j][s].finished
    BY <2>1, <2>3 DEF CloneJobOk, SubjectOk, EvaluationRuns
  <2>4. QED
    BY <2>2, <2>3
<1>2. QED
  BY <1>1, RentalInvariant, PTL

=============================================================================
