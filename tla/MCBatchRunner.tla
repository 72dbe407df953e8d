---------------------------- MODULE MCBatchRunner ----------------------------
(* Files for TLC: a and b are two documents in batch mode, copy is another *)
(* file of a's identity, direct and twin are ingested at once, twin under  *)
(* a's identity.                                                           *)
EXTENDS BatchRunner, TLC

CONSTANTS a, b, copy, direct, twin, docA, docB, docC, here, there, r1, r2

MCDocOf == a :> docA @@ copy :> docA @@ twin :> docA @@ b :> docB @@ direct :> docC

(* The identity of direct begins with that of a.                           *)
MCLonger == [d \in Doc |-> IF d = docA THEN {docC} ELSE {}]

(* A file of which nearly everything is read without its second batch.      *)
MCPageBatches == <<25, 2>>

AllHere == [p \in Pdf |-> here]
TwoSites == [p \in Pdf |-> IF p = a THEN here ELSE there]
Setup(s, files_, passes, n) ==
  [site |-> s, inbox |-> files_, passes |-> passes, faults |-> n]

MCSetups ==
  {Setup(AllHere, {a, b}, {r1}, 0),
   Setup(TwoSites, {a, b}, {r1}, 1),
   Setup(TwoSites, {a, copy}, {r1}, 0),
   Setup(TwoSites, {a, direct}, {r1}, 0),
   Setup(TwoSites, {a, twin}, {r1}, 0),
   Setup(AllHere, {a}, {r1}, 2),
   Setup(AllHere, {a}, {r1, r2}, 1)}
=============================================================================
