---------------------------- MODULE Deliberation ----------------------------
(***************************************************************************)
(* MagiSystem (agents/magi/system.py): three roles open, discuss for some  *)
(* rounds if the openings call for it, close, and an arbiter decides.      *)
(*                                                                         *)
(* Between two speakers of a discussion the user may pause the run: the    *)
(* council is written down, the worker lets go of it, and perhaps much     *)
(* later another worker goes on from what is written, with what the user   *)
(* had to say entered where the discussion stood                           *)
(* (postgres_run_store.resume_paused_run).  RunStore and RunWorker have    *)
(* the run around it.                                                      *)
(***************************************************************************)
EXTENDS ModelCall

CONSTANTS
  MaxRounds,   \* max_discussion_rounds
  MaxPauses    \* bound of the model: pauses of each turn

ASSUME CouncilAssumption == MaxRounds \in Nat /\ MaxPauses \in [Turn -> Nat]

VARIABLES
  council,      \* the running MagiSystem
  snapshot,     \* pause_state_json of the run, while it is waiting
  pauseAsked,   \* turns whose run somebody asked to pause
  pauses,       \* how often each was asked
  accepted      \* what had been said when the user's words were taken

councilVars == <<council, snapshot, pauseAsked, pauses, accepted>>

RoleOrder == <<"eager", "skeptic", "historian">>
Roles == Len(RoleOrder)
Role == ToSet(RoleOrder)

(* held: a history variable, was the council paused after the round's last *)
(* speaker?                                                                *)
NewRound == [said |-> <<>>, news |-> FALSE, held |-> FALSE]

NewCouncil ==
  [at |-> "idle", opened |-> 0, rounds |-> <<>>, round |-> 0, index |-> 0,
   closed |-> 0, notes |-> <<>>]

NoSnapshot == [rounds |-> <<>>, notes |-> <<>>, round |-> 0, after |-> 0,
               nextRound |-> 0, nextIndex |-> 0]

CouncilState == {"idle", "opening", "gate", "before", "speak", "after",
                 "roundEnd", "closing", "arbiter", "complete", "paused"}

CouncilTypeOK ==
  /\ \A t \in Turn :
       /\ council[t].at \in CouncilState
       /\ {council[t].opened, council[t].closed} \subseteq 0..Roles
       /\ council[t].round \in 0..MaxRounds
       /\ council[t].index \in 0..Roles
       /\ \A r \in DOMAIN council[t].rounds :
            /\ ToSet(council[t].rounds[r].said) \subseteq Role
            /\ Len(council[t].rounds[r].said) <= Roles
       /\ snapshot[t].nextRound \in 0..MaxRounds + 1
  /\ pauseAsked \subseteq Turn
  /\ \A t \in Turn : pauses[t] \in 0..MaxPauses[t]

CouncilInit ==
  /\ council = [t \in Turn |-> NewCouncil]
  /\ snapshot = [t \in Turn |-> NoSnapshot]
  /\ pauseAsked = {}
  /\ pauses = [t \in Turn |-> 0]
  /\ accepted = [t \in Turn |-> <<>>]

CouncilAt(t, st) == council[t].at = st

SetCouncil(t, c) == council' = [council EXCEPT ![t] = c]

NoCallOpen(t) == call[t].at \in {"none", "answered"}

(* A step of the council itself, after the cancel check it begins with.    *)
Going(t, st) == CouncilAt(t, st) /\ NoCallOpen(t) /\ ~ CancelSeen(t)

untouchedByCouncil == <<cancelAsked, pool, shown, snapshot, pauseAsked, pauses, accepted>>

-----------------------------------------------------------------------------
(* Openings.                                                               *)

BeginCouncil(t) ==
  /\ SetCouncil(t, [NewCouncil EXCEPT !.at = "opening"])
  /\ StartCall(t, "role")

OpeningArgument(t) ==
  LET c == council[t]
  IN  /\ Going(t, "opening") /\ CallIs(t, "answered")
      /\ IF c.opened + 1 < Roles
         THEN SetCouncil(t, [c EXCEPT !.opened = @ + 1]) /\ StartCall(t, "role")
         ELSE /\ SetCouncil(t, [c EXCEPT !.opened = @ + 1, !.at = "gate"])
              /\ call' = [call EXCEPT ![t] = NoCall]
      /\ UNCHANGED untouchedByCouncil

-----------------------------------------------------------------------------
(* The discussion.                                                         *)

BeginClosings(t, c) ==
  /\ SetCouncil(t, [c EXCEPT !.at = "closing"])
  /\ StartCall(t, "closing")

(* _resume_discussion from a round and a role on; past the last round it   *)
(* returns at once.                                                        *)
EnterRound(t, c, r, i) ==
  IF r > MaxRounds THEN BeginClosings(t, c)
  ELSE /\ SetCouncil(t, [c EXCEPT !.at = "before", !.round = r, !.index = i,
                                  !.rounds = IF Len(@) < r THEN Append(@, NewRound) ELSE @])
       /\ call' = [call EXCEPT ![t] = NoCall]

(* _discussion_gate: whether a discussion is forced depends on what the    *)
(* openings said; an optional one is not held.                             *)
DiscussionGate(t) ==
  /\ Going(t, "gate")
  /\ EnterRound(t, council[t], 1, 1) \/ BeginClosings(t, council[t])
  /\ UNCHANGED untouchedByCouncil

(* The run is paused: everything but what is written down is gone.         *)
Pause(t, held, nextRound, nextIndex) ==
  LET c == council[t]
      rounds == IF held THEN [c.rounds EXCEPT ![c.round].held = TRUE] ELSE c.rounds
  IN  /\ snapshot' = [snapshot EXCEPT ![t] =
           [rounds |-> rounds, notes |-> c.notes,
            round |-> c.round, after |-> Len(c.rounds[c.round].said),
            nextRound |-> nextRound, nextIndex |-> nextIndex]]
      /\ SetCouncil(t, [NewCouncil EXCEPT !.at = "paused"])
      /\ pauseAsked' = pauseAsked \ {t}
      /\ UNCHANGED <<cancelAsked, pool, call, shown, pauses, accepted>>

PauseBeforeRole(t) ==
  /\ Going(t, "before") /\ t \in pauseAsked
  /\ Pause(t, FALSE, council[t].round, council[t].index)

AskRole(t) ==
  /\ Going(t, "before") /\ t \notin pauseAsked
  /\ SetCouncil(t, [council[t] EXCEPT !.at = "speak"])
  /\ StartCall(t, "role")
  /\ UNCHANGED untouchedByCouncil

WithPosition(r, role, news) == [r EXCEPT !.said = Append(@, role), !.news = @ \/ news]

Discuss(t) ==
  LET c == council[t]
  IN  /\ Going(t, "speak") /\ CallIs(t, "answered")
      /\ \E news \in BOOLEAN :
           SetCouncil(t, [c EXCEPT !.at = "after",
             !.rounds[c.round] = WithPosition(@, RoleOrder[c.index], news)])
      /\ call' = [call EXCEPT ![t] = NoCall]
      /\ UNCHANGED untouchedByCouncil

(* Faulty: the checkpoint names the role that has just spoken.             *)
PauseAfterRoleAgain(t) ==
  LET c == council[t]
  IN  /\ Going(t, "after") /\ t \in pauseAsked
      /\ IF c.index < Roles THEN Pause(t, FALSE, c.round, c.index)
                            ELSE Pause(t, TRUE, c.round + 1, 1)

PauseAfterRole(t) ==
  LET c == council[t]
  IN  /\ Going(t, "after") /\ t \in pauseAsked
      /\ IF c.index < Roles THEN Pause(t, FALSE, c.round, c.index + 1)
                            ELSE Pause(t, TRUE, c.round + 1, 1)

NextRole(t) ==
  LET c == council[t]
  IN  /\ Going(t, "after") /\ t \notin pauseAsked
      /\ SetCouncil(t, IF c.index < Roles
                       THEN [c EXCEPT !.at = "before", !.index = @ + 1]
                       ELSE [c EXCEPT !.at = "roundEnd"])
      /\ UNCHANGED <<untouchedByCouncil, call>>

PauseAfterRound(t) ==
  /\ Going(t, "roundEnd") /\ t \in pauseAsked
  /\ Pause(t, TRUE, council[t].round + 1, 1)

(* early_stop: nobody contributed anything new.                            *)
EndRound(t) ==
  LET c == council[t]
  IN  /\ Going(t, "roundEnd") /\ t \notin pauseAsked
      /\ IF c.rounds[c.round].news THEN EnterRound(t, c, c.round + 1, 1)
                                   ELSE BeginClosings(t, c)
      /\ UNCHANGED untouchedByCouncil

-----------------------------------------------------------------------------
(* Closings and verdict.                                                   *)

ClosingArgument(t) ==
  LET c == council[t]
  IN  /\ Going(t, "closing") /\ CallIs(t, "answered")
      /\ SetCouncil(t, [c EXCEPT !.closed = @ + 1,
                                 !.at = IF c.closed + 1 < Roles THEN "closing" ELSE "arbiter"])
      /\ StartCall(t, IF c.closed + 1 < Roles THEN "closing" ELSE "arbiter")
      /\ UNCHANGED untouchedByCouncil

Verdict(t) ==
  /\ Going(t, "arbiter") /\ CallIs(t, "answered")
  /\ SetCouncil(t, [council[t] EXCEPT !.at = "complete"])
  /\ UNCHANGED <<untouchedByCouncil, call>>

CouncilStep(t) ==
  \/ OpeningArgument(t) \/ DiscussionGate(t)
  \/ PauseBeforeRole(t) \/ AskRole(t) \/ Discuss(t) \/ PauseAfterRole(t)
  \/ NextRole(t) \/ PauseAfterRound(t) \/ EndRound(t)
  \/ ClosingArgument(t) \/ Verdict(t)

-----------------------------------------------------------------------------
(* The user.                                                               *)

AskPause(t) ==
  /\ t \notin pauseAsked /\ pauses[t] < MaxPauses[t]
  /\ pauseAsked' = pauseAsked \cup {t}
  /\ pauses' = [pauses EXCEPT ![t] = @ + 1]

(* A position is known by its round and its place in the round.            *)
PositionsSaid(rounds) ==
  UNION {{<<r, k>> : k \in DOMAIN rounds[r].said} : r \in DOMAIN rounds}

(* resume_paused_run: words are entered at the checkpoint; a resumption    *)
(* without words enters nothing.                                           *)
TakeWords(t, s, words) ==
  IF words
  THEN /\ snapshot' = [snapshot EXCEPT ![t].notes =
            Append(@, [round |-> s.round, after |-> s.after])]
       /\ accepted' = [accepted EXCEPT ![t] = Append(@, PositionsSaid(s.rounds))]
  ELSE UNCHANGED <<snapshot, accepted>>

(* _resume_from_pause_state: openings are complete in every snapshot.  (The*)
(* row keeps it, but only a paused or a crashed run is read from it.)      *)
Restored(s, notes) ==
  [NewCouncil EXCEPT !.opened = Roles, !.rounds = s.rounds, !.notes = notes]

ResumeCouncil(t) ==
  LET s == snapshot[t]
  IN  /\ EnterRound(t, Restored(s, s.notes), s.nextRound, s.nextIndex)
      /\ snapshot' = [snapshot EXCEPT ![t] = NoSnapshot]

-----------------------------------------------------------------------------
(* What the arbiter and the page are given (_build_transcript,             *)
(* _build_council_entries): of each round, the user's words that stand     *)
(* behind the first k positions, by number; the last place takes the rest. *)

(* Faulty: words spoken before the first role of a round have no place.    *)
NotesAfterSpeakers(c, r, k) ==
  {i \in DOMAIN c.notes : k > 0 /\ c.notes[i].round = r /\ c.notes[i].after = k}

NotesAt(c, r, k) ==
  {i \in DOMAIN c.notes :
     /\ c.notes[i].round = r
     /\ \/ c.notes[i].after = k
        \/ k = Len(c.rounds[r].said) /\ c.notes[i].after > k}

RoundRecord(c, r) == [k \in 0..Len(c.rounds[r].said) |-> NotesAt(c, r, k)]

Record(c) == [r \in DOMAIN c.rounds |-> RoundRecord(c, r)]

(* The positions that stand before the place behind k positions of round r.*)
Before(rounds, r, k) ==
  {p \in PositionsSaid(rounds) : p[1] < r \/ (p[1] = r /\ p[2] <= k)}

(* Where the record has the i-th words.                                    *)
PlacesOf(record, i) ==
  UNION {{<<r, k>> : k \in {j \in DOMAIN record[r] : i \in record[r][j]}} :
         r \in DOMAIN record}

(* Whatever the user says at a pause stands in the record that the arbiter *)
(* decides by, once, after exactly the positions that had been taken when  *)
(* it was said.                                                            *)
InterventionsAreHeard ==
  \A t \in Turn : council[t].at \in {"arbiter", "complete"} =>
    \A i \in DOMAIN accepted[t] :
      \E place \in PlacesOf(Record(council[t]), i) :
        /\ PlacesOf(Record(council[t]), i) = {place}
        /\ Before(council[t].rounds, place[1], place[2]) = accepted[t][i]

(* The council as Council knows it: while it is paused, what is written of *)
(* it.  A round that nobody has spoken in has not begun.                   *)
Begun(rounds) ==
  IF rounds # <<>> /\ Last(rounds).said = <<>> THEN Front(rounds) ELSE rounds

Written(t) == IF CouncilAt(t, "paused") THEN Restored(snapshot[t], <<>>) ELSE council[t]

AbstractCouncil ==
  INSTANCE Council WITH
    opened <- [t \in Turn |-> Written(t).opened],
    rounds <- [t \in Turn |-> Begun(Written(t).rounds)],
    closed <- [t \in Turn |-> Written(t).closed],
    decided <- [t \in Turn |-> CouncilAt(t, "complete")]

(* However a deliberation is paused, written down and taken up again, it   *)
(* is one deliberation: nobody speaks twice or is passed over, and no      *)
(* round is added or dropped.                                              *)
ImplementsCouncil == AbstractCouncil!Spec

=============================================================================
