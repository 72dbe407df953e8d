---------------------------- MODULE MCRunWorker -----------------------------
(* Values for RunWorker's constants.  Every run of a configuration belongs *)
(* to one chat of one user; magi1 can pause, plain1 cannot, and name1 is   *)
(* the auto_name follow-up that plain1 schedules.                          *)
EXTENDS RunWorker, TLC

CONSTANTS magi1, plain1, plain2, name1, chat, user

MCChatOf == [r \in Run |-> chat]
MCUserOf == [r \in Run |-> user]
MCKind == [r \in Run |-> IF r = name1 THEN "auto_name" ELSE "message"]
MCMagi == Run \cap {magi1}
MCFollowUp == [r \in Run |-> IF r = plain1 /\ name1 \in Run THEN name1 ELSE NoRun]

WorkerSymmetry == Permutations(Worker)
=============================================================================
