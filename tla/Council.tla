------------------------------ MODULE Council ------------------------------
(***************************************************************************)
(* What a deliberation promises, and nothing of pauses that fall inside    *)
(* it, of model calls or of what is stored meanwhile: three roles speak in *)
(* a fixed order, all of them in the openings, in every round that is      *)
(* begun and in the closings; another round follows only a round that      *)
(* brought something new, or that the user held after its last speaker;    *)
(* the verdict comes last.  Deliberation implements this specification.    *)
(***************************************************************************)
EXTENDS Integers, Sequences

CONSTANTS Turn, RoleOrder, MaxRounds

VARIABLES
  opened,    \* how many roles have opened
  rounds,    \* [said, news, held] of every round begun
  closed,    \* how many roles have closed
  decided    \* is the verdict given?

vars == <<opened, rounds, closed, decided>>

Init ==
  /\ opened = [t \in Turn |-> 0]
  /\ rounds = [t \in Turn |-> <<>>]
  /\ closed = [t \in Turn |-> 0]
  /\ decided = [t \in Turn |-> FALSE]

Roles == Len(RoleOrder)

Last(t) == rounds[t][Len(rounds[t])]

Complete(r) == r.said = RoleOrder

Open(t) ==
  /\ opened[t] < Roles
  /\ opened' = [opened EXCEPT ![t] = @ + 1]
  /\ UNCHANGED <<rounds, closed, decided>>

Discussing(t) == opened[t] = Roles /\ closed[t] = 0

MaySpeakAgain(t) ==
  \/ rounds[t] = <<>>
  \/ Complete(Last(t)) /\ (Last(t).news \/ Last(t).held)

BeginRound(t) ==
  /\ Discussing(t)
  /\ Len(rounds[t]) < MaxRounds
  /\ MaySpeakAgain(t)
  /\ \E news \in BOOLEAN :
       rounds' = [rounds EXCEPT ![t] =
         Append(@, [said |-> <<RoleOrder[1]>>, news |-> news, held |-> FALSE])]
  /\ UNCHANGED <<opened, closed, decided>>

Further(r, news) ==
  [r EXCEPT !.said = Append(@, RoleOrder[Len(@) + 1]), !.news = @ \/ news]

Speak(t) ==
  /\ Discussing(t)
  /\ rounds[t] # <<>> /\ ~ Complete(Last(t))
  /\ \E news \in BOOLEAN :
       rounds' = [rounds EXCEPT ![t][Len(rounds[t])] = Further(@, news)]
  /\ UNCHANGED <<opened, closed, decided>>

(* The user holds the council after the last speaker of a round.           *)
Hold(t) ==
  /\ Discussing(t)
  /\ rounds[t] # <<>> /\ Complete(Last(t))
  /\ rounds' = [rounds EXCEPT ![t][Len(rounds[t])].held = TRUE]
  /\ UNCHANGED <<opened, closed, decided>>

Close(t) ==
  /\ opened[t] = Roles /\ closed[t] < Roles
  /\ rounds[t] = <<>> \/ Complete(Last(t))
  /\ Len(rounds[t]) < MaxRounds /\ rounds[t] # <<>> => ~ MaySpeakAgain(t)
  /\ closed' = [closed EXCEPT ![t] = @ + 1]
  /\ UNCHANGED <<opened, rounds, decided>>

Decide(t) ==
  /\ closed[t] = Roles /\ ~ decided[t]
  /\ decided' = [decided EXCEPT ![t] = TRUE]
  /\ UNCHANGED <<opened, rounds, closed>>

Next ==
  \E t \in Turn :
    Open(t) \/ BeginRound(t) \/ Speak(t) \/ Hold(t) \/ Close(t) \/ Decide(t)

Spec == Init /\ [][Next]_vars

=============================================================================
