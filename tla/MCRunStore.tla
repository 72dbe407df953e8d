----------------------------- MODULE MCRunStore -----------------------------
(* A small run table for TLC: two requests of one user, from two chats,    *)
(* race for the least cap there is.                                        *)
EXTENDS RunStore, TLC

CONSTANTS m1, m2, chat1, chat2, user

MCRun == {m1, m2}
MCChatOf == m1 :> chat1 @@ m2 :> chat2
MCUserOf == [r \in MCRun |-> user]
MCKind == [r \in MCRun |-> "message"]

WorkerSymmetry == Permutations(Worker)
=============================================================================
