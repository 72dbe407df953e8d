----------------------------- MODULE MCEvalJobs -----------------------------
(* One scenario, a job that makes images and one that uses them.           *)
EXTENDS EvalJobs

CONSTANTS first, second

MCSubjectsOf == [j \in Job |-> IF j = first THEN 2 ELSE 1]

MCRequested ==
  [j \in Job |-> IF j = first THEN {"run_all", "verify"}
                              ELSE {"benchmark", "judge", "design"}]

=============================================================================
