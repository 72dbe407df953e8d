----------------------------- MODULE TurnProofs -----------------------------
(***************************************************************************)
(* Proofs about a turn, for any number of turns at work on one project:    *)
(* what the project believes changes on the record; what the user is shown *)
(* of an answer comes once and in order; nothing is read twice; a council  *)
(* is one deliberation, as Council states it, and hears its user; and the  *)
(* types that follow.                                                      *)
(***************************************************************************)
EXTENDS RouterTurn, TLAPS, SequenceTheorems

-----------------------------------------------------------------------------
(* Memory.                                                                 *)

(* What a turn has read, or has resolved against, is an earlier state of   *)
(* the facts: a stamp that has not moved since vouches for the value.      *)
Earlier(facts) ==
  \A k \in FactKey : /\ facts[k].stamp \in Nat
                     /\ facts[k].stamp <= fact[k].stamp
                     /\ facts[k].stamp = fact[k].stamp => facts[k].value = fact[k].value

(* A resolution replaces on the record every value that it changes.        *)
Recorded(r, facts) ==
  \A i \in r.commit :
    i.kind = "fact" /\ i.key \in FactKey /\ facts[i.key].value \notin {"", i.value}
      => <<i.key, facts[i.key].value>> \in r.replace

MemoryInv ==
  /\ \A k \in FactKey : fact[k].stamp \in Nat
  /\ DOMAIN seen = Turn /\ DOMAIN resolution = Turn
  /\ \A t \in Turn : \A facts \in seen[t] : Earlier(facts)
  /\ \A t \in Turn : resolution[t].made =>
       \E facts : /\ resolution[t].held = {facts}
                  /\ Earlier(facts)
                  /\ Recorded(resolution[t], facts)

(* What a step of the router does to the memory.                           *)
MemoryStep ==
  \/ UNCHANGED memoryVars
  \/ \E t \in Turn :
       \/ LoadSnapshot(t) \/ Extract(t) \/ Resolve(t) \/ NothingResolved(t)
       \/ resolution[t].made /\ Commit(t)
       \/ /\ ForgetSnapshot(t)
          /\ extracted' = [extracted EXCEPT ![t] = {}]
          /\ resolution' = [resolution EXCEPT ![t] = NoResolution]
          /\ UNCHANGED <<fact, superseded, known, pending>>

LEMMA TurnStepsTheMemory ==
  ASSUME [Next]_vars PROVE MemoryStep
<1> USE DEF memoryUnchanged
<1>1. CASE UNCHANGED vars
  BY <1>1 DEF MemoryStep, vars
<1>2. ASSUME NEW t \in Turn, StepFor(t) PROVE MemoryStep
  <2>1. ASSUME NEW st, NEW how, EndTurn(t, st, how) PROVE MemoryStep
    BY <2>1 DEF EndTurn, MemoryStep
  <2>2. CASE PlainState(t)
    BY <2>2 DEF PlainState, Start, SummarizeHistory, Classify, DecideRag, RewriteQuery,
                SummarizeDocs, UpdateHistory, DecideMemory, Passes, nothingButTheTurn,
                MemoryStep
  <2>3. CASE LoadMemory(t) \/ RetrieveContext(t) \/ GenerateResponse(t)
    BY <2>3 DEF LoadMemory, RetrieveContext, GenerateResponse, MemoryStep
  <2>4. CASE HandlerFails(t) \/ ResponseFails(t) \/ TurnPauses(t) \/ Finish(t) \/ Cancel(t)
    BY <2>1, <2>4 DEF HandlerFails, ResponseFails, TurnPauses, Finish, Cancel
  <2>5. CASE CallGoesOn(t) \/ CouncilGoesOn(t) \/ Responded(t)
    BY <2>5 DEF CallGoesOn, CouncilGoesOn, Responded, MemoryStep
  <2>6. CASE ExtractMemory(t) \/ ResolveMemory(t) \/ CommitMemory(t)
    BY <2>6 DEF ExtractMemory, ResolveMemory, CommitMemory, MemoryStep
  <2>7. CASE AutoName(t) \/ ChatNamed(t) \/ TakeUp(t) \/ NameInFollowUp(t)
             \/ Resume(t) \/ AskToCancel(t) \/ AskToPause(t) \/ UserNamesChat(t)
    BY <2>7 DEF AutoName, ChatNamed, TakeUp, NameInFollowUp, Resume, AskToCancel,
                AskToPause, UserNamesChat, nothingButTheTurn, MemoryStep
  <2>8. QED
    BY <1>2, <2>2, <2>3, <2>4, <2>5, <2>6, <2>7 DEF StepFor, TurnStep
<1>3. QED
  BY <1>1, <1>2 DEF Next

(* A commit raises the stamp of every fact it writes.                      *)
LEMMA CommitRaisesStamps ==
  ASSUME MemoryInv, NEW t \in Turn, Commit(t)
  PROVE  \A k \in FactKey :
           \/ fact'[k] = fact[k]
           \/ fact'[k].stamp = fact[k].stamp + 1
BY DEF Commit, Rewritten

(* A fact is written with the value of a committed item.                   *)
LEMMA CommitWritesItems ==
  ASSUME NEW t \in Turn, Commit(t), NEW k \in FactKey, fact'[k] # fact[k]
  PROVE  \E i \in resolution[t].commit :
           i.kind = "fact" /\ i.key = k /\ fact'[k].value = i.value
<1> DEFINE new == {i \in resolution[t].commit : i.kind = "fact" /\ i.key = k}
<1>1. fact'[k] = Rewritten(k, resolution[t])
  BY DEF Commit
<1>2. new # {}
  BY <1>1 DEF Rewritten
<1>3. (CHOOSE i \in new : TRUE) \in new
  BY <1>2
<1>4. fact'[k].value = (CHOOSE i \in new : TRUE).value
  BY <1>1, <1>2 DEF Rewritten
<1>5. QED
  BY <1>3, <1>4

(* Whatever was read earlier stays earlier.                                *)
LEMMA EarlierStaysEarlier ==
  ASSUME MemoryInv, NEW facts, Earlier(facts),
         \/ fact' = fact
         \/ \E t \in Turn : Commit(t)
  PROVE  Earlier(facts)'
<1>1. ASSUME NEW t \in Turn, Commit(t) PROVE Earlier(facts)'
  <2> SUFFICES ASSUME NEW k \in FactKey
               PROVE  /\ facts[k].stamp \in Nat
                      /\ facts[k].stamp <= fact'[k].stamp
                      /\ facts[k].stamp = fact'[k].stamp => facts[k].value = fact'[k].value
    BY DEF Earlier
  <2>1. fact[k].stamp \in Nat
    BY DEF MemoryInv
  <2>2. /\ facts[k].stamp \in Nat /\ facts[k].stamp <= fact[k].stamp
        /\ facts[k].stamp = fact[k].stamp => facts[k].value = fact[k].value
    BY DEF Earlier
  <2>3. fact'[k] = fact[k] \/ fact'[k].stamp = fact[k].stamp + 1
    BY <1>1, CommitRaisesStamps
  <2>4. QED
    BY <2>1, <2>2, <2>3
<1>2. QED
  BY <1>1 DEF Earlier

(* A resolution against facts that still stand replaces what it changes.   *)
LEMMA ResolvedIsRecorded ==
  ASSUME NEW x, NEW facts
  PROVE  Recorded(Resolved(x, facts), facts)
BY DEF Recorded, Resolved, Differs

(* What a turn resolves against is what the facts are: a snapshot is used  *)
(* only while no stamp has moved.                                          *)
LEMMA ResolvesAgainstFacts ==
  ASSUME MemoryInv, NEW t \in Turn, Resolve(t)
  PROVE  \E facts : /\ Earlier(facts)
                    /\ \A k \in FactKey : facts[k].value = fact[k].value
                    /\ resolution' = [resolution EXCEPT ![t] = Resolved(extracted[t], facts)]
                    /\ seen' = [seen EXCEPT ![t] = {facts}]
<1> DEFINE facts == IF seen[t] = None \/ Stale(t) THEN fact ELSE CHOOSE f \in seen[t] : TRUE
<1>1. /\ resolution' = [resolution EXCEPT ![t] = Resolved(extracted[t], facts)]
      /\ seen' = [seen EXCEPT ![t] = {facts}]
  BY DEF Resolve
<1>2. Earlier(facts) /\ \A k \in FactKey : facts[k].value = fact[k].value
  <2>1. CASE seen[t] = None \/ Stale(t)
    BY <2>1 DEF Earlier, MemoryInv
  <2>2. CASE ~ (seen[t] = None \/ Stale(t))
    <3>1. facts \in seen[t]
      BY <2>2 DEF None
    <3>2. Earlier(facts)
      BY <3>1 DEF MemoryInv
    <3>3. \A k \in FactKey : facts[k].stamp = fact[k].stamp
      BY <2>2, <3>1 DEF Stale
    <3>4. QED
      BY <3>2, <3>3 DEF Earlier
  <2>3. QED
    BY <2>1, <2>2
<1>3. QED
  BY <1>1, <1>2

(* The inductive step.                                                     *)
LEMMA MemoryInvIsKept == ASSUME MemoryInv, MemoryStep PROVE MemoryInv'
<1>1. CASE UNCHANGED memoryVars
  BY <1>1 DEF memoryVars, MemoryInv, Earlier
<1>2. ASSUME NEW t \in Turn, LoadSnapshot(t) PROVE MemoryInv'
  <2>1. fact' = fact /\ resolution' = resolution
    BY <1>2 DEF LoadSnapshot
  <2>2. \A u \in Turn : seen'[u] = seen[u] \/ seen'[u] = {fact}
    BY <1>2 DEF LoadSnapshot, MemoryInv
  <2>3. Earlier(fact)
    BY DEF Earlier, MemoryInv
  <2>4. DOMAIN seen' = Turn
    BY <1>2 DEF LoadSnapshot, MemoryInv
  <2>5. \A facts : Earlier(facts) => Earlier(facts)'
    BY <2>1 DEF Earlier
  <2>6. \A u \in Turn : \A facts \in seen'[u] : Earlier(facts)'
    BY <2>2, <2>3, <2>5 DEF MemoryInv
  <2>7. QED
    BY <2>1, <2>4, <2>5, <2>6 DEF MemoryInv, Recorded
<1>3. ASSUME NEW t \in Turn, Extract(t) PROVE MemoryInv'
  BY <1>3 DEF Extract, MemoryInv, Earlier
<1>4. ASSUME NEW t \in Turn, Resolve(t) PROVE MemoryInv'
  <2>1. fact' = fact
    BY <1>4 DEF Resolve
  <2>2. PICK facts : /\ Earlier(facts)
                     /\ \A k \in FactKey : facts[k].value = fact[k].value
                     /\ resolution' = [resolution EXCEPT ![t] = Resolved(extracted[t], facts)]
                     /\ seen' = [seen EXCEPT ![t] = {facts}]
    BY <1>4, ResolvesAgainstFacts
  <2>3. \A f : Earlier(f) => Earlier(f)'
    BY <2>1 DEF Earlier
  <2>4. \A u \in Turn : \A f \in seen'[u] : Earlier(f)'
    BY <2>2, <2>3 DEF MemoryInv
  <2>5. DOMAIN seen' = Turn /\ DOMAIN resolution' = Turn
    BY <2>2 DEF MemoryInv
  <2>6. ASSUME NEW u \in Turn, resolution'[u].made
        PROVE  \E f : /\ resolution'[u].held = {f}
                      /\ Earlier(f)'
                      /\ Recorded(resolution'[u], f)
    <3>1. CASE u = t
      <4>1. resolution'[t] = Resolved(extracted[t], facts)
        BY <2>2 DEF MemoryInv
      <4>2. PICK now : now = fact
        OBVIOUS
      <4>3. resolution'[t].held = {now}
        BY <4>1, <4>2 DEF Resolved
      <4>4. Earlier(now)'
        BY <2>3, <4>2 DEF Earlier, MemoryInv
      <4>5. Recorded(resolution'[t], facts)
        BY <4>1, ResolvedIsRecorded
      <4>6. Recorded(resolution'[t], now)
        BY <2>2, <4>2, <4>5 DEF Recorded
      <4>7. QED
        BY <3>1, <4>3, <4>4, <4>6
    <3>2. CASE u # t
      <4>1. resolution'[u] = resolution[u]
        BY <2>2, <3>2 DEF MemoryInv
      <4>2. QED
        BY <2>3, <2>6, <4>1 DEF MemoryInv
    <3>3. QED
      BY <3>1, <3>2
  <2>7. \A k \in FactKey : fact'[k].stamp \in Nat
    BY <2>1 DEF MemoryInv
  <2>8. QED
    BY <2>4, <2>5, <2>6, <2>7 DEF MemoryInv, Recorded
<1>5. ASSUME NEW t \in Turn, fact' = fact, DOMAIN seen' = Turn,
             \A u \in Turn : seen'[u] \in {seen[u], None},
             resolution' = [resolution EXCEPT ![t] = NoResolution]
      PROVE  MemoryInv'
  <2>1. \A f : Earlier(f) => Earlier(f)'
    BY <1>5 DEF Earlier
  <2>2. \A u \in Turn : \A f \in seen'[u] : Earlier(f)'
    BY <1>5, <2>1 DEF MemoryInv, None
  <2>3. ~ resolution'[t].made
    BY <1>5 DEF MemoryInv, NoResolution
  <2>4. \A u \in Turn \ {t} : resolution'[u] = resolution[u]
    BY <1>5 DEF MemoryInv
  <2>5. DOMAIN resolution' = Turn
    BY <1>5 DEF MemoryInv
  <2>6. QED
    BY <1>5, <2>1, <2>2, <2>3, <2>4, <2>5 DEF MemoryInv, Recorded
<1>6. ASSUME NEW t \in Turn, NothingResolved(t) PROVE MemoryInv'
  BY <1>5, <1>6 DEF NothingResolved, MemoryInv
<1>7. ASSUME NEW t \in Turn, ForgetSnapshot(t), fact' = fact,
             resolution' = [resolution EXCEPT ![t] = NoResolution]
      PROVE  MemoryInv'
  BY <1>5, <1>7 DEF ForgetSnapshot, MemoryInv
<1>8. ASSUME NEW t \in Turn, Commit(t) PROVE MemoryInv'
  <2>1. \A f : Earlier(f) => Earlier(f)'
    BY <1>8, EarlierStaysEarlier
  <2>2. seen' = seen /\ resolution' = resolution
    BY <1>8 DEF Commit
  <2>3. \A k \in FactKey : fact'[k].stamp \in Nat
    BY <1>8, CommitRaisesStamps DEF MemoryInv
  <2>4. QED
    BY <2>1, <2>2, <2>3 DEF MemoryInv, Recorded
<1>9. QED
  BY <1>1, <1>2, <1>3, <1>4, <1>6, <1>7, <1>8 DEF MemoryStep

(* The inductive invariant of the memory holds throughout.                 *)
LEMMA MemoryInvariant == Spec => []MemoryInv
<1>1. ASSUME MemoryInit PROVE MemoryInv
  <2>1. \A k \in FactKey : fact[k].stamp = 0
    BY <1>1 DEF MemoryInit, Unknown
  <2>2. \A t \in Turn : seen[t] = {} /\ ~ resolution[t].made
    BY <1>1 DEF MemoryInit, None, NoResolution
  <2>3. DOMAIN seen = Turn /\ DOMAIN resolution = Turn
    BY <1>1 DEF MemoryInit
  <2>4. QED
    BY <2>1, <2>2, <2>3 DEF MemoryInv
<1>2. MemoryInv /\ [Next]_vars => MemoryInv'
  BY TurnStepsTheMemory, MemoryInvIsKept
<1>3. QED
  BY <1>1, <1>2, PTL DEF Spec, Init

(* One fact, through one commit.                                           *)
LEMMA CommitIsRecorded ==
  ASSUME MemoryInv, NEW t \in Turn, resolution[t].made, Commit(t), NEW k \in FactKey,
         ~ Overtaken(t, k), fact[k].value \notin {"", fact'[k].value}
  PROVE  <<k, fact[k].value>> \in superseded'
<1>1. PICK facts : /\ resolution[t].held = {facts}
                   /\ Earlier(facts)
                   /\ Recorded(resolution[t], facts)
  BY DEF MemoryInv
<1>2. facts[k].value = fact[k].value
  BY <1>1 DEF Overtaken, Earlier
<1>3. PICK i \in resolution[t].commit :
        i.kind = "fact" /\ i.key = k /\ fact'[k].value = i.value
  BY CommitWritesItems
<1>4. <<k, fact[k].value>> \in resolution[t].replace
  BY <1>1, <1>2, <1>3 DEF Recorded
<1>5. QED
  BY <1>4 DEF Commit

(* However many turns learn at the same time, a fact's old value is on the *)
(* record when another takes its place, unless the commit falls between    *)
(* another turn's resolution and its commit.                               *)
THEOREM ChangesAreRecorded == Spec => FactsChangeOnTheRecord
<1>1. MemoryInv /\ [Next]_vars
        => [\A k \in FactKey :
              \/ fact[k].value \in {"", fact'[k].value}
              \/ <<k, fact[k].value>> \in superseded'
              \/ \E t \in Turn : Commit(t) /\ Overtaken(t, k)]_memoryVars
  <2> SUFFICES ASSUME MemoryInv, MemoryStep, NEW k \in FactKey
               PROVE  \/ UNCHANGED memoryVars
                      \/ fact[k].value \in {"", fact'[k].value}
                      \/ <<k, fact[k].value>> \in superseded'
                      \/ \E t \in Turn : Commit(t) /\ Overtaken(t, k)
    BY TurnStepsTheMemory
  <2>1. ASSUME NEW t \in Turn, resolution[t].made, Commit(t)
        PROVE  \/ fact[k].value \in {"", fact'[k].value}
               \/ <<k, fact[k].value>> \in superseded'
               \/ \E u \in Turn : Commit(u) /\ Overtaken(u, k)
    BY <2>1, CommitIsRecorded
  <2>2. fact' = fact => fact[k].value \in {"", fact'[k].value}
    OBVIOUS
  <2>3. QED
    BY <2>1, <2>2 DEF MemoryStep, LoadSnapshot, Extract, Resolve, NothingResolved, memoryVars
<1>2. QED
  BY <1>1, MemoryInvariant, PTL DEF Spec, FactsChangeOnTheRecord

-----------------------------------------------------------------------------
(* The answer.  A text that is shown is the run of its offsets.            *)
LEMMA OffsetsLength ==
  ASSUME NEW n \in Nat
  PROVE  Offsets(1, n) \in Seq(Nat) /\ Len(Offsets(1, n)) = n
<1>1. Offsets(1, n) = [i \in 1..n |-> i]
  BY DEF Offsets
<1>2. QED
  BY <1>1

(* A text that goes on where the last one ended makes one text.            *)
LEMMA OffsetsGoOn ==
  ASSUME NEW a \in Nat, NEW n \in Nat
  PROVE  /\ Offsets(1, a) \o Offsets(a + 1, n) = Offsets(1, IF n <= a THEN a ELSE n)
         /\ Offsets(1, a) \o Offsets(a + 1, n) \in Seq(Nat)
<1>1. Offsets(1, a) \in Seq(Nat) /\ Len(Offsets(1, a)) = a
  BY OffsetsLength
<1>2. CASE n <= a
  <2>1. Offsets(a + 1, n) = <<>>
    BY <1>2 DEF Offsets
  <2>2. Offsets(1, a) \o <<>> = Offsets(1, a)
    BY <1>1, ConcatEmptySeq
  <2>3. QED
    BY <1>1, <1>2, <2>1, <2>2
<1>3. CASE n > a
  <2> DEFINE rest == Offsets(a + 1, n)
  <2>1. rest = [i \in 1..(n - a) |-> a + i]
    BY DEF Offsets
  <2> HIDE DEF rest
  <2>2. rest \in Seq(Nat) /\ Len(rest) = n - a
    BY <1>3, <2>1
  <2>3. Offsets(1, a) \o rest \in Seq(Nat) /\ Len(Offsets(1, a) \o rest) = n
    BY <1>1, <1>3, <2>2
  <2>4. \A i \in 1..n : (Offsets(1, a) \o rest)[i] = i
    <3> SUFFICES ASSUME NEW i \in 1..n PROVE (Offsets(1, a) \o rest)[i] = i
      OBVIOUS
    <3>0. i \in Nat /\ 1 <= i /\ i <= n
      OBVIOUS
    <3>1. CASE i <= a
      <4>1. (Offsets(1, a) \o rest)[i] = Offsets(1, a)[i]
        BY <1>1, <2>2, <3>1
      <4>2. QED
        BY <3>1, <4>1 DEF Offsets
    <3>2. CASE i > a
      <4>1. (Offsets(1, a) \o rest)[i] = rest[i - a]
        BY <1>1, <2>2, <3>2
      <4>2. i - a \in 1..(n - a)
        BY <3>2
      <4>3. rest[i - a] = a + (i - a)
        BY <2>1, <4>2
      <4>4. a + (i - a) = i
        BY <3>0
      <4>5. QED
        BY <4>1, <4>3, <4>4
    <3>3. i <= a \/ i > a
      BY <3>0
    <3>4. QED
      BY <3>1, <3>2, <3>3, Zenon
  <2>5. Offsets(1, n) \in Seq(Nat) /\ Len(Offsets(1, n)) = n
    BY OffsetsLength
  <2>6. \A i \in 1..n : Offsets(1, n)[i] = i
    BY DEF Offsets
  <2>7. Offsets(1, a) \o rest = Offsets(1, n)
    BY <2>3, <2>4, <2>5, <2>6, SeqEqual
  <2>8. QED
    BY <1>3, <2>3, <2>7 DEF rest
<1>4. QED
  BY <1>2, <1>3

-----------------------------------------------------------------------------
(* One call.                                                               *)

CallRecord ==
  [at: {"none", "request", "waiting", "tools"} \cup Ended,
   kind: Kind, provider: Provider, stream: BOOLEAN, schema: BOOLEAN,
   round: 0..ToolRounds, tries: 0..MaxRetries, pauses: 0..MaxServerPauses,
   todo: 0..MaxToolCalls, seen: 0..MaxText, emitted: 0..MaxText]

Text == {x \in Seq(0..MaxText) : Len(x) <= MaxText}

(* What a user is shown, as long as it was the answer and nothing else.    *)
Picture ==
  {s \in [offsets : Text, apart : BOOLEAN] :
     ~ s.apart => s.offsets = Offsets(1, Len(s.offsets))}

(* A call at its tools has one to use.  While the arbiter's answer is      *)
(* streamed, emitted counts what the user was shown; an arbiter has no     *)
(* tools, so its first request is its only.                                *)
Streamed(c, s) ==
  /\ c.at = "tools" => c.todo > 0
  /\ c.kind = "arbiter" =>
       /\ c.round = 0 /\ c.at # "tools"
       /\ c.stream /\ (c.at = "request" \/ (c.at = "waiting" /\ c.schema)) =>
            s.apart \/ c.emitted = Len(s.offsets)

Longer(a, n) == IF n <= a THEN a ELSE n

More(s, text) ==
  [offsets |-> s.offsets \o Rest(text, Len(s.offsets)),
   apart   |-> s.apart \/ text # Offsets(1, Len(text))]

(* A step of a call, and what it shows the user.                           *)
Replaced(t, c) ==
  /\ call' = [call EXCEPT ![t] = c]
  /\ c \in CallRecord /\ c.kind = call[t].kind

Quiet(t, c) == shown' = shown /\ Streamed(c, shown[t])

Loud(t, c) ==
  /\ call[t].kind \in {"answer", "arbiter"}
  /\ \E text \in Text :
       /\ shown' = [shown EXCEPT ![t] = More(shown[t], text)]
       /\ Streamed(c, More(shown[t], text))

Speaks(t) == \E c : Replaced(t, c) /\ (Quiet(t, c) \/ Loud(t, c))

CallTyped == call \in [Turn -> CallRecord] /\ shown \in [Turn -> Picture]

(* The bounds of a call leave room for a first request.                    *)
LEMMA NothingYet ==
  /\ 0 \in 0..ToolRounds /\ 0 \in 0..MaxRetries /\ 0 \in 0..MaxServerPauses
  /\ 0 \in 0..MaxToolCalls /\ 0 \in 0..MaxText
  /\ {MaxRetries, ToolRounds, MaxToolCalls, MaxServerPauses, MaxText} \subseteq Nat
BY CallAssumption

(* What is left of a text goes on where the user stopped reading.          *)
LEMMA RestFollows ==
  ASSUME NEW text \in Text, NEW k \in Nat
  PROVE  /\ Rest(text, k) \in Seq(0..MaxText)
         /\ Len(Rest(text, k)) = IF Len(text) <= k THEN 0 ELSE Len(text) - k
         /\ \A n \in Nat : text = Offsets(1, n) => Rest(text, k) = Offsets(k + 1, n)
<1>1. text \in Seq(0..MaxText) /\ Len(text) \in Nat
  BY DEF Text
<1>2. \A i \in 1..(Len(text) - k) : text[k + i] \in 0..MaxText
  <2> TAKE i \in 1..(Len(text) - k)
  <2>1. k + i \in 1..Len(text)
    BY <1>1
  <2>2. QED
    BY <1>1, <2>1, ElementOfSeq
<1>3. CASE Len(text) <= k
  <2>1. Rest(text, k) = <<>>
    BY <1>1, <1>3 DEF Rest
  <2>2. \A n \in Nat : text = Offsets(1, n) => Offsets(k + 1, n) = <<>>
    BY <1>3, OffsetsLength DEF Offsets
  <2>3. QED
    BY <1>3, <2>1, <2>2
<1>4. CASE ~ (Len(text) <= k)
  <2>1. Len(text) - k \in Nat
    BY <1>1, <1>4
  <2>2. Rest(text, k) = [i \in 1..(Len(text) - k) |-> text[k + i]]
    BY DEF Rest
  <2>3. Rest(text, k) \in Seq(0..MaxText) /\ Len(Rest(text, k)) = Len(text) - k
    BY <1>2, <2>1, <2>2
  <2>4. ASSUME NEW n \in Nat, text = Offsets(1, n)
        PROVE  Rest(text, k) = Offsets(k + 1, n)
    <3>1. Len(text) = n
      BY <2>4, OffsetsLength
    <3>2. \A i \in 1..n : text[i] = i
      BY <2>4 DEF Offsets
    <3>3. \A i \in 1..(n - k) : text[k + i] = k + i
      <4>1. \A i \in 1..(n - k) : k + i \in 1..n
        OBVIOUS
      <4>2. QED
        BY <3>2, <4>1
    <3>4. Offsets(k + 1, n) = [i \in 1..(n - k) |-> k + i]
      BY DEF Offsets
    <3>5. QED
      BY <2>2, <3>1, <3>3, <3>4
  <2>5. QED
    BY <1>4, <2>3, <2>4
<1>5. QED
  BY <1>3, <1>4

LEMMA ConcatIsText ==
  ASSUME NEW S, NEW a \in Seq(S), NEW b \in Seq(S)
  PROVE  a \o b \in Seq(S) /\ Len(a \o b) = Len(a) + Len(b)
OBVIOUS

(* A user who is shown what is new in a text sees a picture again, and one *)
(* of the answer while the texts are beginnings of it.                     *)
LEMMA MoreIsShown ==
  ASSUME NEW s \in Picture, NEW text \in Text
  PROVE  /\ More(s, text) \in Picture
         /\ ~ More(s, text).apart =>
              /\ ~ s.apart /\ text = Offsets(1, Len(text))
              /\ Len(More(s, text).offsets) = Longer(Len(s.offsets), Len(text))
<1> DEFINE k == Len(s.offsets)
           n == Len(text)
           r == More(s, text)
<1>1. /\ s.offsets \in Seq(0..MaxText) /\ k \in Nat /\ k <= MaxText
      /\ ~ s.apart => s.offsets = Offsets(1, k)
      /\ text \in Seq(0..MaxText) /\ n \in Nat /\ n <= MaxText
      /\ s.apart \in BOOLEAN /\ MaxText \in Nat
  BY NothingYet DEF Picture, Text
<1>2. r.offsets = s.offsets \o Rest(text, k) /\ r.apart = (s.apart \/ text # Offsets(1, n))
      /\ r = [offsets |-> r.offsets, apart |-> r.apart]
  BY DEF More
<1>3. Rest(text, k) \in Seq(0..MaxText) /\ Len(Rest(text, k)) = IF n <= k THEN 0 ELSE n - k
  BY <1>1, RestFollows
<1>4. text = Offsets(1, n) => Rest(text, k) = Offsets(k + 1, n)
  BY <1>1, RestFollows
<1> HIDE DEF k, n, r
<1>5. r.offsets \in Seq(0..MaxText) /\ Len(r.offsets) = Longer(k, n)
  <2>1. r.offsets \in Seq(0..MaxText) /\ Len(r.offsets) = k + Len(Rest(text, k))
    BY <1>1, <1>2, <1>3, ConcatIsText DEF k
  <2>2. QED
    BY <1>1, <1>3, <2>1 DEF Longer
<1>6. Len(r.offsets) <= MaxText
  BY <1>1, <1>5 DEF Longer
<1>7. r.apart \in BOOLEAN
  BY <1>2
<1>8. ~ r.apart => r.offsets = Offsets(1, Longer(k, n))
  <2>1. SUFFICES ASSUME ~ r.apart PROVE r.offsets = Offsets(1, Longer(k, n))
    OBVIOUS
  <2>2. r.offsets = Offsets(1, k) \o Offsets(k + 1, n)
    BY <1>1, <1>2, <1>4, <2>1
  <2>3. QED
    BY <1>1, <2>2, OffsetsGoOn DEF Longer
<1>9. r.offsets \in Text
  BY <1>5, <1>6 DEF Text
<1>10. r \in Picture
  <2>1. r \in [offsets : Text, apart : BOOLEAN]
    BY <1>2, <1>7, <1>9
  <2>2. ~ r.apart => r.offsets = Offsets(1, Len(r.offsets))
    BY <1>5, <1>8
  <2>3. QED
    BY <2>1, <2>2 DEF Picture
<1>11. QED
  BY <1>2, <1>5, <1>10 DEF k, n, r

(* A text that the listener finds is n characters of the answer, or none.  *)
LEMMA ExtractedIsText ==
  ASSUME NEW n \in 0..MaxText, NEW text \in Extracted(n)
  PROVE  text \in Text /\ (text = Offsets(1, Len(text)) => Len(text) = n)
<1>1. MaxText \in Nat /\ n \in Nat
  BY NothingYet
<1>2. CASE text = Offsets(1, n)
  <2>1. text = [i \in 1..n |-> i]
    BY <1>2 DEF Offsets
  <2>2. text \in Seq(0..MaxText) /\ Len(text) = n
    BY <1>1, <2>1
  <2>3. QED
    BY <1>1, <2>2 DEF Text
<1>3. ASSUME NEW k \in 0..n, NEW m \in n + 1..MaxText,
             text = [i \in 1..m |-> IF i <= k THEN i ELSE 0]
      PROVE  text \in Text /\ text # Offsets(1, Len(text))
  <2>1. k \in Nat /\ m \in Nat /\ m <= MaxText /\ k <= n /\ n < m
    BY <1>1
  <2>2. \A i \in 1..m : (IF i <= k THEN i ELSE 0) \in 0..MaxText
    BY <1>1, <2>1
  <2>3. text \in Seq(0..MaxText) /\ Len(text) = m
    BY <1>3, <2>1, <2>2
  <2>4. text[m] = 0 /\ Offsets(1, m)[m] = m
    BY <1>3, <2>1 DEF Offsets
  <2>5. QED
    BY <2>1, <2>3, <2>4 DEF Text
<1>4. QED
  BY <1>2, <1>3 DEF Extracted

LEMMA FinalIsText ==
  ASSUME NEW t \in Turn, NEW c, NEW n \in 0..MaxText, NEW text \in FinalText(t, c, n)
  PROVE  text \in Text
<1>1. MaxText \in Nat /\ n \in Nat /\ n <= MaxText
  BY NothingYet
<1>2. PICK p \in 0..(MaxText - n) : text = [i \in 1..(p + n) |-> IF i <= p THEN 0 ELSE i - p]
  <2>1. PICK p \in IF c.kind = "arbiter" /\ shown[t].offsets # <<>>
                    THEN 0..(MaxText - n) ELSE {0} :
               text = [i \in 1..(p + n) |-> IF i <= p THEN 0 ELSE i - p]
    BY DEF FinalText
  <2>2. p \in 0..(MaxText - n)
    BY <1>1, <2>1
  <2>3. QED
    BY <2>1, <2>2, Zenon
<1>3. p + n \in Nat /\ p + n <= MaxText
  BY <1>1
<1>4. \A i \in 1..(p + n) : (IF i <= p THEN 0 ELSE i - p) \in 0..MaxText
  BY <1>1, <1>3
<1>5. text \in Seq(0..MaxText) /\ Len(text) = p + n
  BY <1>2, <1>3, <1>4
<1>6. QED
  BY <1>3, <1>5 DEF Text

(* A raised call is over.                                                  *)
LEMMA RaisedIsOver ==
  ASSUME NEW c \in CallRecord
  PROVE  /\ Raised(c) \in CallRecord /\ Raised(c).kind = c.kind
         /\ \A n : Streamed(c, n) => Streamed(Raised(c), n)
BY DEF Raised, CallRecord, Streamed, Ended

LEMMA WithoutSchemaIsQuiet ==
  ASSUME NEW c \in CallRecord
  PROVE  /\ WithoutSchema(c) \in CallRecord /\ WithoutSchema(c).kind = c.kind
         /\ ~ WithoutSchema(c).schema /\ WithoutSchema(c).round = c.round
         /\ WithoutSchema(c).at = c.at /\ WithoutSchema(c).todo = c.todo
BY NothingYet DEF WithoutSchema, CallRecord

LEMMA CallSpeaks ==
  ASSUME CallTyped, NEW t \in Turn, Streamed(call[t], shown[t]), CallStep(t)
  PROVE  Speaks(t) /\ call[t].at # "none"
<1> DEFINE c == call[t]
<1>0. c \in CallRecord /\ shown[t] \in Picture
  BY DEF CallTyped
<1>1. CASE Send(t)
  <2>1. CASE CancelSeen(t)
    <3>1. Replaced(t, Raised(c)) /\ Quiet(t, Raised(c))
      BY <1>0, <1>1, <2>1, RaisedIsOver DEF Send, Replaced, Quiet
    <3>2. QED
      BY <1>1, <3>1 DEF Send, CallIs, Speaks
  <2>2. CASE ~ CancelSeen(t)
    <3> DEFINE d == [c EXCEPT !.at = "waiting", !.schema = Structured(c.kind)]
    <3>1. d \in CallRecord /\ d.kind = c.kind
      BY <1>0 DEF CallRecord, Structured
    <3>2. Streamed(d, shown[t])
      BY <1>0, <1>1 DEF Streamed, CallRecord, Send, CallIs
    <3>3. Replaced(t, d) /\ Quiet(t, d)
      BY <1>1, <2>2, <3>1, <3>2 DEF Send, Replaced, Quiet
    <3>4. QED
      BY <1>1, <3>3 DEF Send, CallIs, Speaks
  <2>3. QED
    BY <2>1, <2>2
<1>2. CASE Delta(t)
  <2>1. PICK n \in c.seen + 1..MaxText :
          IF n <= c.emitted
          THEN call' = [call EXCEPT ![t].seen = n] /\ UNCHANGED shown
          ELSE /\ call' = [call EXCEPT ![t].seen = n, ![t].emitted = n]
               /\ \E text \in Extracted(n) : Show(t, text)
    BY <1>2 DEF Delta
  <2>2. /\ n \in 0..MaxText /\ c.kind = "arbiter" /\ c.emitted \in 0..MaxText
        /\ shown[t].apart \/ c.emitted = Len(shown[t].offsets)
    BY <1>0, <1>2, NothingYet DEF Delta, Heard, CallIs, Streamed, CallRecord
  <2>3. CASE n <= c.emitted
    <3> DEFINE d == [c EXCEPT !.seen = n]
    <3>1. d \in CallRecord /\ d.kind = c.kind /\ Streamed(d, shown[t])
      BY <1>0, <2>2 DEF CallRecord, Streamed
    <3>2. call' = [call EXCEPT ![t] = d]
      BY <2>1, <2>3
    <3>3. Replaced(t, d) /\ Quiet(t, d)
      BY <2>1, <2>3, <3>1, <3>2 DEF Replaced, Quiet
    <3>4. QED
      BY <1>2, <3>3 DEF Delta, CallIs, Speaks
  <2>4. CASE ~ (n <= c.emitted)
    <3> DEFINE d == [c EXCEPT !.seen = n, !.emitted = n]
    <3>1. d \in CallRecord /\ d.kind = c.kind /\ d.emitted = n
      BY <1>0, <2>2 DEF CallRecord
    <3>2. PICK text \in Extracted(n) : Show(t, text)
      BY <2>1, <2>4
    <3>3. text \in Text /\ (text = Offsets(1, Len(text)) => Len(text) = n)
      BY <2>2, <3>2, ExtractedIsText
    <3>4. Streamed(d, More(shown[t], text))
      <4>1. ~ More(shown[t], text).apart => Len(More(shown[t], text).offsets) = n
        <5>1. SUFFICES ASSUME ~ More(shown[t], text).apart
                       PROVE  Len(More(shown[t], text).offsets) = n
          OBVIOUS
        <5>2. /\ ~ shown[t].apart /\ text = Offsets(1, Len(text))
              /\ Len(More(shown[t], text).offsets)
                   = Longer(Len(shown[t].offsets), Len(text))
          BY <1>0, <3>3, <5>1, MoreIsShown
        <5>3. Longer(Len(shown[t].offsets), Len(text)) = n
          BY <2>2, <2>4, <3>3, <5>2 DEF Longer
        <5>4. QED
          BY <5>2, <5>3
      <4>2. d.at = c.at /\ d.round = c.round /\ d.todo = c.todo
        BY <1>0 DEF CallRecord
      <4> HIDE DEF d
      <4>3. QED
        BY <2>2, <3>1, <4>1, <4>2 DEF Streamed
    <3>5. call' = [call EXCEPT ![t] = d]
      BY <2>1, <2>4
    <3>6. Replaced(t, d) /\ Loud(t, d)
      <4>1. shown' = [shown EXCEPT ![t] = More(shown[t], text)]
        BY <3>2 DEF Show, More
      <4> HIDE DEF d
      <4>2. QED
        BY <2>2, <3>1, <3>3, <3>4, <3>5, <4>1 DEF Replaced, Loud
    <3>7. QED
      BY <1>2, <3>6 DEF Delta, CallIs, Speaks
  <2>5. QED
    BY <2>3, <2>4
<1>3. CASE RateLimited(t)
  <2> DEFINE d == [c EXCEPT !.tries = c.tries + 1, !.seen = 0]
  <2>0. c.tries + 1 \in 0..MaxRetries
    <3>1. c.tries \in 0..MaxRetries /\ MaxRetries \in Nat
      BY <1>0, NothingYet DEF CallRecord
    <3>2. c.tries < MaxRetries
      BY <1>3 DEF RateLimited
    <3>3. QED
      BY <3>1, <3>2
  <2>1. d \in CallRecord /\ d.kind = c.kind
    BY <1>0, <2>0, NothingYet DEF CallRecord
  <2>2. Streamed(d, shown[t])
    BY <1>0 DEF CallRecord, Streamed
  <2>3. Replaced(t, d) /\ Quiet(t, d)
    BY <1>3, <2>1, <2>2 DEF RateLimited, Replaced, Quiet
  <2>4. QED
    BY <1>3, <2>3 DEF RateLimited, CallIs, Speaks
<1>4. CASE RequestFails(t)
  <2> DEFINE d == IF c.provider = "local" \/ ~ c.schema THEN [c EXCEPT !.at = "failed"]
                  ELSE IF c.stream /\ c.round = 0
                  THEN [WithoutSchema(c) EXCEPT !.at = "request", !.stream = FALSE]
                  ELSE WithoutSchema(c)
  <2>1. [c EXCEPT !.at = "failed"] \in CallRecord
    BY <1>0 DEF CallRecord, Ended
  <2>2. [WithoutSchema(c) EXCEPT !.at = "request", !.stream = FALSE] \in CallRecord
    BY <1>0, WithoutSchemaIsQuiet DEF CallRecord
  <2>3. d \in CallRecord /\ d.kind = c.kind
    <3>1. c \in CallRecord /\ WithoutSchema(c) \in CallRecord /\ WithoutSchema(c).kind = c.kind
      BY <1>0, WithoutSchemaIsQuiet
    <3>2. [c EXCEPT !.at = "failed"].kind = c.kind
      BY <3>1 DEF CallRecord
    <3>3. [WithoutSchema(c) EXCEPT !.at = "request", !.stream = FALSE].kind = WithoutSchema(c).kind
      BY <3>1 DEF CallRecord
    <3>4. QED
      BY <2>1, <2>2, <3>1, <3>2, <3>3
  <2>4. Streamed(d, shown[t])
    BY <1>0, <1>4, WithoutSchemaIsQuiet DEF CallRecord, Streamed, RequestFails, CallIs
  <2>5. Replaced(t, d) /\ Quiet(t, d)
    BY <1>4, <2>3, <2>4 DEF RequestFails, Replaced, Quiet
  <2>6. QED
    BY <1>4, <2>5 DEF RequestFails, CallIs, Speaks
<1>5. CASE ServerPause(t)
  <2> DEFINE d == IF ~ CancelSeen(t) THEN [c EXCEPT !.pauses = @ + 1]
                  ELSE IF c.schema THEN WithoutSchema(c)
                  ELSE Raised(c)
  <2>1. [c EXCEPT !.pauses = @ + 1] \in CallRecord
    <3>1. c.pauses + 1 \in 0..MaxServerPauses
      BY <1>0, <1>5, NothingYet DEF CallRecord, ServerPause
    <3>2. QED
      BY <1>0, <3>1 DEF CallRecord
  <2>2. d \in CallRecord /\ d.kind = c.kind
    BY <1>0, <2>1, WithoutSchemaIsQuiet, RaisedIsOver DEF CallRecord
  <2>3. Streamed(d, shown[t])
    <3>1. CASE ~ CancelSeen(t)
      BY <1>0, <3>1 DEF Streamed, CallRecord
    <3>2. CASE CancelSeen(t) /\ c.schema
      BY <1>0, <1>5, <3>2, WithoutSchemaIsQuiet DEF Streamed, ServerPause, CallIs
    <3>3. CASE CancelSeen(t) /\ ~ c.schema
      BY <1>0, <3>3, RaisedIsOver
    <3>4. QED
      BY <3>1, <3>2, <3>3
  <2>4. Replaced(t, d) /\ Quiet(t, d)
    BY <1>5, <2>2, <2>3 DEF ServerPause, Replaced, Quiet
  <2>5. QED
    BY <1>5, <2>4 DEF ServerPause, CallIs, Speaks
<1>6. CASE Answer(t)
  <2>1. PICK n \in TextLength(t, c) :
          IF CancelSeen(t)
          THEN call' = [call EXCEPT ![t] = Raised(c)] /\ UNCHANGED shown
          ELSE /\ call' = [call EXCEPT ![t].at = "answered"]
               /\ ShowRest(t, c, n)
    BY <1>6 DEF Answer
  <2>2. n \in 0..MaxText
    BY <1>0, NothingYet DEF TextLength, CallRecord
  <2>3. CASE CancelSeen(t)
    <3>1. Replaced(t, Raised(c)) /\ Quiet(t, Raised(c))
      BY <1>0, <2>1, <2>3, RaisedIsOver DEF Replaced, Quiet
    <3>2. QED
      BY <1>6, <3>1 DEF Answer, CallIs, Speaks
  <2>4. CASE ~ CancelSeen(t)
    <3> DEFINE d == [c EXCEPT !.at = "answered"]
    <3>1. d \in CallRecord /\ d.kind = c.kind
      BY <1>0 DEF CallRecord, Ended
    <3>2. \A k : Streamed(d, k)
      BY <1>0 DEF CallRecord, Streamed
    <3>3. call' = [call EXCEPT ![t] = d]
      BY <2>1, <2>4
    <3>4. Replaced(t, d)
      BY <3>1, <3>3 DEF Replaced
    <3>5. Quiet(t, d) \/ Loud(t, d)
      <4>1. CASE t \in Streaming /\ c.kind \in {"answer", "arbiter"}
        <5>1. PICK text \in FinalText(t, c, n) : Show(t, text)
          BY <2>1, <2>4, <4>1 DEF ShowRest
        <5>2. text \in Text
          BY <2>2, <5>1, FinalIsText
        <5>3. shown' = [shown EXCEPT ![t] = More(shown[t], text)]
          BY <5>1 DEF Show, More
        <5>4. QED
          BY <3>2, <4>1, <5>2, <5>3 DEF Loud
      <4>2. CASE ~ (t \in Streaming /\ c.kind \in {"answer", "arbiter"})
        BY <2>1, <2>4, <3>2, <4>2 DEF ShowRest, Quiet
      <4>3. QED
        BY <4>1, <4>2
    <3>6. QED
      BY <1>6, <3>4, <3>5 DEF Answer, CallIs, Speaks
  <2>5. QED
    BY <2>3, <2>4
<1>7. CASE AskForTools(t)
  <2>1. PICK k \in 1..MaxToolCalls :
          call' = [call EXCEPT ![t] =
             IF CancelSeen(t) THEN Raised(c)
             ELSE IF c.round = ToolRounds THEN [c EXCEPT !.at = "failed"]
             ELSE [c EXCEPT !.at = "tools", !.todo = k, !.round = @ + 1]]
    BY <1>7 DEF AskForTools
  <2> DEFINE d == IF CancelSeen(t) THEN Raised(c)
                  ELSE IF c.round = ToolRounds THEN [c EXCEPT !.at = "failed"]
                  ELSE [c EXCEPT !.at = "tools", !.todo = k, !.round = @ + 1]
  <2>2. [c EXCEPT !.at = "failed"] \in CallRecord
    BY <1>0 DEF CallRecord, Ended
  <2>3. c.round # ToolRounds =>
          [c EXCEPT !.at = "tools", !.todo = k, !.round = @ + 1] \in CallRecord
    <3>1. c.round # ToolRounds => c.round + 1 \in 0..ToolRounds
      <4>1. c.round \in 0..ToolRounds /\ ToolRounds \in Nat
        BY <1>0, NothingYet DEF CallRecord
      <4>2. QED
        BY <4>1
    <3>2. k \in 0..MaxToolCalls
      BY NothingYet
    <3>3. QED
      BY <1>0, <3>1, <3>2 DEF CallRecord
  <2>4. d \in CallRecord /\ d.kind = c.kind /\ (d.at = "tools" => d.todo > 0)
    <3>1. CASE CancelSeen(t)
      BY <1>0, <3>1, RaisedIsOver DEF Raised, CallRecord
    <3>2. CASE ~ CancelSeen(t) /\ c.round = ToolRounds
      BY <1>0, <2>2, <3>2 DEF CallRecord
    <3>3. CASE ~ CancelSeen(t) /\ c.round # ToolRounds
      BY <1>0, <2>3, <3>3 DEF CallRecord
    <3>4. QED
      BY <3>1, <3>2, <3>3
  <2>5. c.kind # "arbiter"
    BY <1>7 DEF AskForTools, HasTools
  <2>6. Replaced(t, d) /\ Quiet(t, d)
    BY <1>7, <2>1, <2>4, <2>5 DEF AskForTools, Replaced, Quiet, Streamed
  <2>7. QED
    BY <1>7, <2>6 DEF AskForTools, CallIs, Speaks
<1>8. CASE UseTool(t)
  <2> DEFINE d == IF CancelSeen(t) THEN Raised(c)
                  ELSE [c EXCEPT !.todo = @ - 1,
                                 !.at = IF c.todo = 1 THEN "request" ELSE "tools",
                                 !.tries = 0, !.pauses = 0]
  <2>0. c.at = "tools" /\ c.todo > 0
    BY <1>8 DEF UseTool, CallIs, Streamed
  <2>1. [c EXCEPT !.todo = @ - 1, !.at = IF c.todo = 1 THEN "request" ELSE "tools",
                  !.tries = 0, !.pauses = 0] \in CallRecord
    <3>1. c.todo - 1 \in 0..MaxToolCalls
      BY <1>0, <2>0, NothingYet DEF CallRecord
    <3>2. (IF c.todo = 1 THEN "request" ELSE "tools") \in {"request", "tools"}
      OBVIOUS
    <3>3. QED
      BY <1>0, <3>1, <3>2, NothingYet DEF CallRecord
  <2>2. d \in CallRecord /\ d.kind = c.kind /\ (d.at = "tools" => d.todo > 0)
    <3>1. CASE CancelSeen(t)
      BY <1>0, <3>1, RaisedIsOver DEF Raised, CallRecord
    <3>2. CASE ~ CancelSeen(t)
      <4>1. d \in CallRecord
        BY <2>1, <3>2
      <4>2. /\ d.kind = c.kind /\ d.todo = c.todo - 1
            /\ d.at = IF c.todo = 1 THEN "request" ELSE "tools"
        BY <1>0, <3>2 DEF CallRecord
      <4>3. c.todo \in 0..MaxToolCalls
        BY <1>0 DEF CallRecord
      <4>4. c.todo # 1 => c.todo - 1 > 0
        BY <2>0, <4>3, NothingYet
      <4>5. QED
        BY <4>1, <4>2, <4>4
    <3>3. QED
      BY <3>1, <3>2
  <2>3. c.kind # "arbiter"
    BY <1>8 DEF UseTool, CallIs, Streamed
  <2>4. call' = [call EXCEPT ![t] = d]
    BY <1>8 DEF UseTool
  <2>5. Replaced(t, d) /\ Quiet(t, d)
    BY <1>8, <2>2, <2>3, <2>4 DEF UseTool, Replaced, Quiet, Streamed
  <2>6. QED
    BY <1>8, <2>5 DEF UseTool, CallIs, Speaks
<1>9. QED
  BY <1>1, <1>2, <1>3, <1>4, <1>5, <1>6, <1>7, <1>8 DEF CallStep

-----------------------------------------------------------------------------
(* The council, between two calls.                                         *)

Deciding == {"arbiter", "complete"}

Opens(t, k) ==
  \E p \in Provider, stream \in BOOLEAN :
    call' = [call EXCEPT ![t] = NewCall(k, p, stream)]

Closes(t) == call' = [call EXCEPT ![t] = NoCall]

CouncilTyped == DOMAIN council = Turn /\ \A t \in Turn : "at" \in DOMAIN council[t]

(* The council of a turn moves, and its next call is opened: the arbiter   *)
(* is called once, when all have closed.                                   *)
Convenes(t, d) == council' = [council EXCEPT ![t] = d] /\ "at" \in DOMAIN d

Deliberates(t) ==
  \E d : /\ Convenes(t, d) /\ d.at \notin Deciding
         /\ Closes(t) \/ Opens(t, "role") \/ Opens(t, "closing")

Rests(t) == \E d : Convenes(t, d) /\ d.at \notin Deciding /\ call' = call

CallsArbiter(t) == \E d : Convenes(t, d) /\ d.at = "arbiter" /\ Opens(t, "arbiter")

Decides(t) == \E d : Convenes(t, d) /\ d.at = "complete" /\ call' = call

LEMMA StartsOpen ==
  ASSUME NEW t \in Turn, NEW k, StartCall(t, k) PROVE Opens(t, k)
<1>1. PICK p \in ProviderOf[t] : call' = [call EXCEPT ![t] = NewCall(k, p, Streams(t, k, p))]
  BY DEF StartCall
<1>2. p \in Provider
  BY CallAssumption DEF Provider
<1>3. Streams(t, k, p) \in BOOLEAN
  BY DEF Streams
<1>4. QED
  BY <1>1, <1>2, <1>3 DEF Opens

LEMMA PlaceReached ==
  ASSUME NEW c, "at" \in DOMAIN c, NEW a, NEW r, NEW i, NEW rs,
         NEW d, d = [c EXCEPT !.at = a, !.round = r, !.index = i, !.rounds = rs]
  PROVE  "at" \in DOMAIN d /\ d.at = a
OBVIOUS

LEMMA ClosingsDeliberate ==
  ASSUME NEW t \in Turn, NEW c, "at" \in DOMAIN c, BeginClosings(t, c)
  PROVE  Deliberates(t)
<1> DEFINE d == [c EXCEPT !.at = "closing"]
<1>1. council' = [council EXCEPT ![t] = d]
  BY DEF BeginClosings, SetCouncil
<1>2. Opens(t, "closing")
  BY StartsOpen DEF BeginClosings
<1>3. "at" \in DOMAIN d /\ d.at = "closing"
  OBVIOUS
<1> HIDE DEF d
<1>4. Convenes(t, d) /\ d.at \notin Deciding
  BY <1>1, <1>3 DEF Convenes, Deciding
<1>5. QED
  BY <1>2, <1>4 DEF Deliberates

LEMMA RoundsDeliberate ==
  ASSUME NEW t \in Turn, NEW c, "at" \in DOMAIN c, NEW r, NEW i, EnterRound(t, c, r, i)
  PROVE  Deliberates(t)
<1>1. CASE r > MaxRounds
  <2>1. BeginClosings(t, c)
    BY <1>1 DEF EnterRound
  <2>2. QED
    BY <2>1, ClosingsDeliberate
<1>2. CASE ~ (r > MaxRounds)
  <2> DEFINE d == [c EXCEPT !.at = "before", !.round = r, !.index = i,
                            !.rounds = IF Len(@) < r THEN Append(@, NewRound) ELSE @]
  <2>1. council' = [council EXCEPT ![t] = d] /\ Closes(t)
    BY <1>2 DEF EnterRound, SetCouncil, Closes
  <2>2. "at" \in DOMAIN d /\ d.at = "before"
    BY PlaceReached
  <2>3. QED
    BY <2>1, <2>2 DEF Deliberates, Convenes, Deciding
<1>3. QED
  BY <1>1, <1>2

LEMMA CouncilMoves ==
  ASSUME CouncilTyped, NEW t \in Turn, CouncilStep(t)
  PROVE  /\ shown' = shown /\ council[t].at # "idle"
         /\ \/ council[t].at \notin Deciding /\ (Deliberates(t) \/ Rests(t) \/ CallsArbiter(t))
            \/ council[t].at \in Deciding /\ Decides(t)
<1> DEFINE c == council[t]
<1>0. "at" \in DOMAIN c
  BY DEF CouncilTyped
<1> USE DEF Going, CouncilAt, untouchedByCouncil, SetCouncil, Deciding
<1>1. CASE OpeningArgument(t)
  <2>1. CASE c.opened + 1 < Roles
    <3>1. Opens(t, "role") /\ council' = [council EXCEPT ![t] = [c EXCEPT !.opened = @ + 1]]
      BY <1>1, <2>1, StartsOpen DEF OpeningArgument
    <3>2. QED
      BY <1>0, <1>1, <3>1 DEF OpeningArgument, Deliberates, Convenes
  <2>2. CASE ~ (c.opened + 1 < Roles)
    <3>1. Closes(t)
          /\ council' = [council EXCEPT ![t] = [c EXCEPT !.opened = @ + 1, !.at = "gate"]]
      BY <1>1, <2>2 DEF OpeningArgument, Closes
    <3>2. QED
      BY <1>0, <1>1, <3>1 DEF OpeningArgument, Deliberates, Convenes
  <2>3. QED
    BY <2>1, <2>2
<1>2. ASSUME BeginClosings(t, c) PROVE Deliberates(t)
  BY <1>0, <1>2, ClosingsDeliberate
<1>3. CASE DiscussionGate(t)
  <2>1. c.at = "gate" /\ shown' = shown
    BY <1>3 DEF DiscussionGate
  <2>2. EnterRound(t, c, 1, 1) \/ BeginClosings(t, c)
    BY <1>3 DEF DiscussionGate
  <2>3. Deliberates(t)
    BY <1>0, <1>2, <2>2, RoundsDeliberate, Zenon
  <2>4. QED
    BY <2>1, <2>3
<1>4. CASE EndRound(t)
  <2>1. c.at = "roundEnd" /\ shown' = shown
    BY <1>4 DEF EndRound
  <2>2. EnterRound(t, c, c.round + 1, 1) \/ BeginClosings(t, c)
    BY <1>4 DEF EndRound
  <2>3. Deliberates(t)
    BY <1>0, <1>2, <2>2, RoundsDeliberate, Zenon
  <2>4. QED
    BY <2>1, <2>3
<1>5. ASSUME NEW held, NEW r, NEW i, Pause(t, held, r, i)
      PROVE  Rests(t) /\ shown' = shown
  <2> DEFINE d == [NewCouncil EXCEPT !.at = "paused"]
  <2>1. "at" \in DOMAIN d /\ d.at = "paused"
    BY DEF NewCouncil
  <2>2. council' = [council EXCEPT ![t] = d] /\ call' = call /\ shown' = shown
    BY <1>5 DEF Pause
  <2>3. QED
    BY <2>1, <2>2 DEF Rests, Convenes
<1>6. CASE PauseBeforeRole(t) \/ PauseAfterRole(t) \/ PauseAfterRound(t)
  BY <1>5, <1>6 DEF PauseBeforeRole, PauseAfterRole, PauseAfterRound
<1>7. CASE AskRole(t)
  <2>1. Opens(t, "role") /\ council' = [council EXCEPT ![t] = [c EXCEPT !.at = "speak"]]
    BY <1>7, StartsOpen DEF AskRole
  <2>2. QED
    BY <1>0, <1>7, <2>1 DEF AskRole, Deliberates, Convenes
<1>8. CASE Discuss(t)
  <2>1. PICK news \in BOOLEAN :
          council' = [council EXCEPT ![t] = [c EXCEPT !.at = "after",
             !.rounds[c.round] = WithPosition(@, RoleOrder[c.index], news)]]
    BY <1>8 DEF Discuss
  <2> DEFINE d == [c EXCEPT !.at = "after",
             !.rounds[c.round] = WithPosition(@, RoleOrder[c.index], news)]
  <2>2. "at" \in DOMAIN d /\ d.at = "after"
    BY <1>0
  <2>3. council' = [council EXCEPT ![t] = d] /\ Closes(t)
    BY <1>8, <2>1 DEF Discuss, Closes
  <2> HIDE DEF d
  <2>4. QED
    BY <1>8, <2>2, <2>3 DEF Discuss, Deliberates, Convenes
<1>9. CASE NextRole(t)
  <2> DEFINE d == IF c.index < Roles
                  THEN [c EXCEPT !.at = "before", !.index = @ + 1]
                  ELSE [c EXCEPT !.at = "roundEnd"]
  <2>1. "at" \in DOMAIN d /\ d.at \in {"before", "roundEnd"}
    BY <1>0
  <2>2. council' = [council EXCEPT ![t] = d] /\ call' = call
    BY <1>9 DEF NextRole
  <2> HIDE DEF d
  <2>3. QED
    BY <1>9, <2>1, <2>2 DEF NextRole, Rests, Convenes
<1>10. CASE ClosingArgument(t)
  <2> DEFINE d == [c EXCEPT !.closed = @ + 1,
                            !.at = IF c.closed + 1 < Roles THEN "closing" ELSE "arbiter"]
  <2>1. "at" \in DOMAIN d
    BY <1>0
  <2>2. council' = [council EXCEPT ![t] = d]
    BY <1>10 DEF ClosingArgument
  <2>3. CASE c.closed + 1 < Roles
    <3>1. d.at = "closing" /\ Opens(t, "closing")
      BY <1>0, <1>10, <2>3, StartsOpen DEF ClosingArgument
    <3> HIDE DEF d
    <3>2. QED
      BY <1>10, <2>1, <2>2, <3>1 DEF ClosingArgument, Deliberates, Convenes
  <2>4. CASE ~ (c.closed + 1 < Roles)
    <3>1. d.at = "arbiter" /\ Opens(t, "arbiter")
      BY <1>0, <1>10, <2>4, StartsOpen DEF ClosingArgument
    <3> HIDE DEF d
    <3>2. QED
      BY <1>10, <2>1, <2>2, <3>1 DEF ClosingArgument, CallsArbiter, Convenes
  <2>5. QED
    BY <2>3, <2>4
<1>11. CASE Verdict(t)
  <2>1. council' = [council EXCEPT ![t] = [c EXCEPT !.at = "complete"]] /\ call' = call
    BY <1>11 DEF Verdict
  <2>2. QED
    BY <1>0, <1>11, <2>1 DEF Verdict, Decides, Convenes
<1>12. QED
  BY <1>1, <1>3, <1>4, <1>6, <1>7, <1>8, <1>9, <1>10, <1>11 DEF CouncilStep

-----------------------------------------------------------------------------
(* The turn around them.                                                   *)

TurnRecord ==
  [at: RouterState, is: Standing, docs: BOOLEAN, resumed: BOOLEAN, followed: BOOLEAN]

BeforeAnswer ==
  {"START", "LOAD_MEMORY", "SUMMARIZE_CONVERSATION_HISTORY", "CLASSIFY",
   "DECIDE_RAG", "REWRITE_QUERY", "RETRIEVE_CONTEXT", "GENERATE_RESPONSE"}

(* Nothing of a council's answer is shown before the arbiter speaks, also  *)
(* when the council is paused and begun again.                             *)
AnswerInv(t) ==
  /\ Streamed(call[t], shown[t])
  /\ turn[t].is \in {"paused", "queued"} => turn[t].at = "GENERATE_RESPONSE"
  /\ Mode[t] # "council" => council[t].at = "idle"
  /\ Mode[t] = "council" =>
       /\ turn[t].at \in BeforeAnswer => shown[t] = NothingShown
       /\ turn[t].at = "RESPONDING" /\ council[t].at \notin Deciding =>
            /\ shown[t] = NothingShown
            /\ call[t].at = "none" \/ call[t].kind \in {"role", "closing"}

AnswersInv ==
  /\ CallTyped /\ CouncilTyped /\ turn \in [Turn -> TurnRecord]
  /\ \A t \in Turn : AnswerInv(t)

(* The steps of the router, as far as the answer goes.                     *)
Follows(t, x) ==
  /\ turn' = [turn EXCEPT ![t] = x] /\ x \in TurnRecord
  /\ x.at = "RESPONDING" => turn[t].at = "RESPONDING"
  /\ x.is \in {"paused", "queued"} => x.at = "GENERATE_RESPONSE"

Walks(t) ==
  /\ UNCHANGED <<shown, call, council>>
  /\ \E x : Follows(t, x) /\ (x.at \in BeforeAnswer => turn[t].at \in BeforeAnswer)

Leaves(t) ==
  /\ UNCHANGED <<shown, council>> /\ Closes(t)
  /\ \E x : /\ Follows(t, x)
            /\ \/ x.at \in BeforeAnswer => turn[t].at \in BeforeAnswer
               \/ turn[t].at = "RESPONDING" /\ council[t].at \notin Deciding

Begins(t) ==
  /\ turn[t].at = "GENERATE_RESPONSE" /\ UNCHANGED shown
  /\ turn' = [turn EXCEPT ![t].at = "RESPONDING"] /\ turn[t].is = "running"
  /\ \/ Mode[t] = "off" /\ Opens(t, "answer") /\ UNCHANGED council
     \/ Mode[t] = "council" /\ Deliberates(t)

Talks(t) ==
  /\ UNCHANGED <<turn, council>> /\ turn[t].at = "RESPONDING"
  /\ Speaks(t) /\ call[t].at # "none"

Confers(t) ==
  /\ UNCHANGED <<turn, shown>> /\ turn[t].at = "RESPONDING" /\ council[t].at # "idle"
  /\ \/ council[t].at \notin Deciding /\ (Deliberates(t) \/ Rests(t) \/ CallsArbiter(t))
     \/ council[t].at \in Deciding /\ Decides(t)

(* A move of the router to another of its states.                          *)
LEMMA RouterMoves ==
  ASSUME AnswersInv, NEW t \in Turn, NEW st \in RouterState \ {"RESPONDING"}, GoTo(t, st),
         Running(t), UNCHANGED <<shown, call, council>>,
         st \in BeforeAnswer => turn[t].at \in BeforeAnswer
  PROVE  Walks(t)
<1> DEFINE x == [turn[t] EXCEPT !.at = st]
<1>1. turn[t] \in TurnRecord
  BY DEF AnswersInv
<1>2. x \in TurnRecord /\ x.at = st /\ x.is = "running"
  BY <1>1 DEF TurnRecord, Running
<1>3. turn' = [turn EXCEPT ![t] = x]
  BY DEF GoTo
<1> HIDE DEF x
<1>4. QED
  BY <1>2, <1>3 DEF Walks, Follows

LEMMA TurnsEnd ==
  ASSUME AnswersInv, NEW t \in Turn, NEW st \in RouterState, NEW how \in Standing,
         EndTurn(t, st, how),
         st = "RESPONDING" => turn[t].at = "RESPONDING",
         how \in {"paused", "queued"} => st = "GENERATE_RESPONSE",
         \/ st \in BeforeAnswer => turn[t].at \in BeforeAnswer
         \/ turn[t].at = "RESPONDING" /\ council[t].at \notin Deciding
  PROVE  Leaves(t)
<1> DEFINE x == [turn[t] EXCEPT !.at = st, !.is = how]
<1>1. turn[t] \in TurnRecord
  BY DEF AnswersInv
<1>2. x \in TurnRecord /\ x.at = st /\ x.is = how
  BY <1>1 DEF TurnRecord
<1>3. turn' = [turn EXCEPT ![t] = x] /\ Closes(t) /\ UNCHANGED <<shown, council>>
  BY DEF EndTurn, Closes, councilUnchanged, councilVars
<1> HIDE DEF x
<1>4. QED
  BY <1>2, <1>3 DEF Leaves, Follows

LEMMA RouterSteps ==
  ASSUME AnswersInv, NEW t \in Turn, StepFor(t)
  PROVE  Walks(t) \/ Leaves(t) \/ Begins(t) \/ Talks(t) \/ Confers(t)
<1> USE DEF callUnchanged, councilUnchanged, callVars, councilVars, nothingButTheTurn,
            turnUnchanged
<1>0. turn[t] \in TurnRecord
  BY DEF AnswersInv
<1>1. ASSUME NEW here \in RouterState, NEW next \in RouterState \ {"RESPONDING"},
             next \in BeforeAnswer => here \in BeforeAnswer, Passes(t, here, next)
      PROVE  Walks(t)
  BY <1>1, RouterMoves DEF Passes, Enters
<1>2. CASE PlainState(t)
  BY <1>1, <1>2 DEF PlainState, Start, SummarizeHistory, Classify, DecideRag, RewriteQuery,
                    SummarizeDocs, UpdateHistory, DecideMemory, RouterState, BeforeAnswer
<1>3. CASE LoadMemory(t)
  BY <1>3, RouterMoves DEF LoadMemory, Enters, RouterState, BeforeAnswer
<1>4. CASE RetrieveContext(t)
  <2>1. PICK docs \in BOOLEAN :
          turn' = [turn EXCEPT ![t].at = "GENERATE_RESPONSE", ![t].docs = docs]
    BY <1>4 DEF RetrieveContext
  <2> DEFINE x == [turn[t] EXCEPT !.at = "GENERATE_RESPONSE", !.docs = docs]
  <2>2. x \in TurnRecord /\ x.at = "GENERATE_RESPONSE"
    BY <1>0 DEF TurnRecord, RouterState
  <2>3. turn' = [turn EXCEPT ![t] = x]
    BY <2>1
  <2> HIDE DEF x
  <2>4. QED
    BY <1>4, <2>2, <2>3 DEF RetrieveContext, Enters, Walks, Follows, BeforeAnswer
<1>5. CASE HandlerFails(t) \/ ResponseFails(t) \/ Finish(t)
  BY <1>5, TurnsEnd DEF HandlerFails, ResponseFails, Finish, RouterState, Standing, BeforeAnswer
<1>6. CASE TurnPauses(t)
  BY <1>6, TurnsEnd DEF TurnPauses, Responding, CouncilAt, Deciding, RouterState, Standing
<1>7. CASE Cancel(t)
  BY <1>0, <1>7, TurnsEnd DEF Cancel, TurnRecord, Standing
<1>8. CASE GenerateResponse(t)
  <2>1. CASE Mode[t] = "off"
    BY <1>8, <2>1, StartsOpen DEF GenerateResponse, Enters, Running, GoTo, Begins
  <2>2. CASE Mode[t] = "council" /\ turn[t].resumed
    <3>1. "at" \in DOMAIN Restored(snapshot[t], snapshot[t].notes)
      BY DEF Restored, NewCouncil
    <3>2. EnterRound(t, Restored(snapshot[t], snapshot[t].notes),
                     snapshot[t].nextRound, snapshot[t].nextIndex)
      BY <1>8, <2>2 DEF GenerateResponse, ResumeCouncil
    <3>3. Deliberates(t)
      BY <3>1, <3>2, RoundsDeliberate
    <3>4. QED
      BY <1>8, <2>2, <3>3 DEF GenerateResponse, Enters, Running, GoTo, Begins
  <2>3. CASE Mode[t] = "council" /\ ~ turn[t].resumed
    <3> DEFINE d == [NewCouncil EXCEPT !.at = "opening"]
    <3>1. "at" \in DOMAIN d /\ d.at = "opening"
      BY DEF NewCouncil
    <3>2. council' = [council EXCEPT ![t] = d] /\ Opens(t, "role")
      BY <1>8, <2>3, StartsOpen DEF GenerateResponse, BeginCouncil, SetCouncil
    <3>3. Deliberates(t)
      BY <3>1, <3>2 DEF Deliberates, Convenes, Deciding
    <3>4. QED
      BY <1>8, <2>3, <3>3 DEF GenerateResponse, Enters, Running, GoTo, Begins
  <2>4. QED
    BY <1>8, <2>1, <2>2, <2>3 DEF GenerateResponse
<1>9. CASE CallGoesOn(t)
  BY <1>9, CallSpeaks DEF CallGoesOn, Responding, Talks, AnswersInv, AnswerInv
<1>10. CASE CouncilGoesOn(t)
  BY <1>10, CouncilMoves DEF CouncilGoesOn, Responding, Confers, AnswersInv
<1>11. CASE Responded(t)
  <2> DEFINE st == IF turn[t].docs THEN "SUMMARIZE_RETRIEVED_DOCS" ELSE "UPDATE_HISTORY"
             x == [turn[t] EXCEPT !.at = st]
  <2>1. x \in TurnRecord /\ x.at \in {"SUMMARIZE_RETRIEVED_DOCS", "UPDATE_HISTORY"}
        /\ x.is = turn[t].is
    BY <1>0 DEF TurnRecord, RouterState
  <2>2. turn' = [turn EXCEPT ![t] = x]
    BY <1>11 DEF Responded, GoTo
  <2> HIDE DEF x
  <2>3. QED
    BY <1>11, <2>1, <2>2 DEF Responded, Responding, Running, Closes, Leaves, Follows, BeforeAnswer
<1>12. CASE ExtractMemory(t) \/ ResolveMemory(t)
  BY <1>12, RouterMoves DEF ExtractMemory, ResolveMemory, Enters, RouterState, BeforeAnswer
<1>13. CASE CommitMemory(t)
  BY <1>13, RouterMoves DEF CommitMemory, AfterMemory, Enters, RouterState, BeforeAnswer
<1>14. CASE AutoName(t) \/ ChatNamed(t)
  BY <1>14, RouterMoves DEF AutoName, ChatNamed, Enters, RouterState, BeforeAnswer
<1>15. CASE TakeUp(t)
  <2> DEFINE x == [turn[t] EXCEPT !.at = "GENERATE_RESPONSE", !.is = "running", !.resumed = TRUE]
  <2>1. x \in TurnRecord /\ x.at = "GENERATE_RESPONSE"
    BY <1>0 DEF TurnRecord, RouterState, Standing
  <2>2. turn' = [turn EXCEPT ![t] = x] /\ turn[t].at = "GENERATE_RESPONSE"
    BY <1>15 DEF TakeUp, AnswersInv, AnswerInv
  <2> HIDE DEF x
  <2>3. QED
    BY <1>15, <2>1, <2>2 DEF TakeUp, Walks, Follows, BeforeAnswer
<1>16. CASE NameInFollowUp(t)
  <2> DEFINE x == [turn[t] EXCEPT !.at = "AUTO_NAME", !.is = "running", !.followed = TRUE]
  <2>1. x \in TurnRecord /\ x.at = "AUTO_NAME" /\ x.is = "running"
    BY <1>0 DEF TurnRecord, RouterState, Standing
  <2>2. turn' = [turn EXCEPT ![t] = x]
    BY <1>16 DEF NameInFollowUp
  <2> HIDE DEF x
  <2>3. QED
    BY <1>16, <2>1, <2>2 DEF NameInFollowUp, Walks, Follows, BeforeAnswer
<1>17. CASE Resume(t)
  <2> DEFINE x == [turn[t] EXCEPT !.is = "queued"]
  <2>1. x \in TurnRecord /\ x.at = turn[t].at
    BY <1>0 DEF TurnRecord, Standing
  <2>2. turn' = [turn EXCEPT ![t] = x] /\ turn[t].at = "GENERATE_RESPONSE"
    BY <1>17 DEF Resume, AnswersInv, AnswerInv
  <2> HIDE DEF x
  <2>3. QED
    BY <1>17, <2>1, <2>2 DEF Resume, Walks, Follows
<1>18. CASE AskToCancel(t) \/ AskToPause(t) \/ UserNamesChat(t)
  <2>1. turn' = turn /\ UNCHANGED <<shown, call, council>>
    BY <1>18 DEF AskToCancel, AskToPause, UserNamesChat
  <2>2. turn' = [turn EXCEPT ![t] = turn[t]]
    BY <2>1 DEF AnswersInv
  <2>3. QED
    BY <1>0, <2>1, <2>2 DEF Walks, Follows, AnswersInv, AnswerInv
<1>19. QED
  BY <1>2, <1>3, <1>4, <1>5, <1>6, <1>7, <1>8, <1>9, <1>10, <1>11, <1>12, <1>13, <1>14,
     <1>15, <1>16, <1>17, <1>18 DEF StepFor, TurnStep

(* What a step of one turn leaves of the others.                           *)
LEMMA OtherTurnsKeepTheirAnswers ==
  ASSUME NEW u \in Turn, AnswerInv(u),
         turn'[u] = turn[u], shown'[u] = shown[u], call'[u] = call[u],
         council'[u] = council[u]
  PROVE  AnswerInv(u)'
BY DEF AnswerInv

(* A new call is well formed, and shows what has been shown: nothing.      *)
LEMMA NewCallIsTyped ==
  ASSUME NEW k \in Kind, NEW p \in Provider, NEW stream \in BOOLEAN
  PROVE  /\ NewCall(k, p, stream) \in CallRecord
         /\ NewCall(k, p, stream).kind = k
         /\ Streamed(NewCall(k, p, stream), NothingShown)
         /\ k # "arbiter" => \A n : Streamed(NewCall(k, p, stream), n)
BY NothingYet DEF NewCall, CallRecord, Structured, Streamed, NothingShown

LEMMA NoCallIsTyped ==
  NoCall \in CallRecord /\ NoCall.at = "none" /\ \A n : Streamed(NoCall, n)
<1>1. NewCall("answer", "local", FALSE) \in CallRecord
      /\ NewCall("answer", "local", FALSE).kind = "answer"
  BY NewCallIsTyped DEF Kind, Provider
<1>2. QED
  BY <1>1 DEF NoCall, CallRecord, Streamed

(* The call after a step of the council.                                   *)
LEMMA CallAfterCouncil ==
  ASSUME CallTyped, NEW t \in Turn, shown' = shown, Streamed(call[t], shown[t]),
         call' = call \/ Closes(t) \/ Opens(t, "answer") \/ Opens(t, "role")
           \/ Opens(t, "closing")
  PROVE  /\ CallTyped' /\ Streamed(call'[t], shown'[t])
         /\ \A u \in Turn \ {t} : call'[u] = call[u]
         /\ Opens(t, "role") \/ Opens(t, "closing") => call'[t].kind \in {"role", "closing"}
         /\ Closes(t) => call'[t].at = "none"
<1>1. CASE call' = call
  <2>1. Opens(t, "role") \/ Opens(t, "closing") => call'[t].kind \in {"role", "closing"}
    BY NewCallIsTyped DEF Opens, CallTyped, Kind
  <2>2. Closes(t) => call'[t].at = "none"
    BY NoCallIsTyped DEF Closes, CallTyped
  <2>3. QED
    BY <1>1, <2>1, <2>2 DEF CallTyped
<1>2. CASE Closes(t)
  <2>1. Opens(t, "role") \/ Opens(t, "closing") => call'[t].kind \in {"role", "closing"}
    BY NewCallIsTyped DEF Opens, CallTyped, Kind
  <2>2. QED
    BY <1>2, <2>1, NoCallIsTyped DEF Closes, CallTyped
<1>3. ASSUME NEW k \in {"answer", "role", "closing"}, Opens(t, k)
      PROVE  /\ CallTyped' /\ Streamed(call'[t], shown'[t])
             /\ \A u \in Turn \ {t} : call'[u] = call[u]
             /\ call'[t].kind = k
  <2>1. PICK p \in Provider, stream \in BOOLEAN :
          call' = [call EXCEPT ![t] = NewCall(k, p, stream)]
    BY <1>3 DEF Opens
  <2> DEFINE d == NewCall(k, p, stream)
  <2>2. d \in CallRecord /\ d.kind = k /\ \A n : Streamed(d, n)
    BY <1>3, NewCallIsTyped DEF Kind
  <2>3. call' = [call EXCEPT ![t] = d]
    BY <2>1
  <2> HIDE DEF d
  <2>4. QED
    BY <2>2, <2>3 DEF CallTyped
<1>4. ASSUME Opens(t, "answer") \/ Opens(t, "role") \/ Opens(t, "closing"), Closes(t)
      PROVE  call'[t].at = "none"
  BY <1>4, NoCallIsTyped DEF Closes, CallTyped
<1>5. ASSUME Opens(t, "answer"), Opens(t, "role") \/ Opens(t, "closing")
      PROVE  call'[t].kind \in {"role", "closing"}
  BY <1>3, <1>5
<1>6. QED
  BY <1>1, <1>2, <1>3, <1>4, <1>5

(* The inductive step.                                                     *)
LEMMA AnswersInvIsKept ==
  ASSUME AnswersInv, NEW t \in Turn,
         Walks(t) \/ Leaves(t) \/ Begins(t) \/ Talks(t) \/ Confers(t)
  PROVE  AnswersInv'
<1>0. /\ CallTyped /\ CouncilTyped /\ turn \in [Turn -> TurnRecord]
      /\ \A u \in Turn : AnswerInv(u)
  BY DEF AnswersInv
<1>1. CASE Walks(t)
  <2>1. PICK x : Follows(t, x) /\ (x.at \in BeforeAnswer => turn[t].at \in BeforeAnswer)
    BY <1>1 DEF Walks
  <2>2. CallTyped' /\ CouncilTyped' /\ turn' \in [Turn -> TurnRecord]
    BY <1>0, <1>1, <2>1 DEF Walks, Follows, CallTyped, CouncilTyped
  <2>3. AnswerInv(t)'
    BY <1>0, <1>1, <2>1 DEF Walks, Follows, AnswerInv
  <2>4. \A u \in Turn \ {t} : AnswerInv(u)'
    BY <1>0, <1>1, <2>1, OtherTurnsKeepTheirAnswers DEF Walks, Follows
  <2>5. QED
    BY <2>2, <2>3, <2>4 DEF AnswersInv
<1>2. CASE Leaves(t)
  <2>1. PICK x : /\ Follows(t, x)
                 /\ \/ x.at \in BeforeAnswer => turn[t].at \in BeforeAnswer
                    \/ turn[t].at = "RESPONDING" /\ council[t].at \notin Deciding
    BY <1>2 DEF Leaves
  <2>2. /\ CallTyped' /\ Streamed(call'[t], shown'[t])
        /\ \A u \in Turn \ {t} : call'[u] = call[u]
        /\ call'[t].at = "none"
    BY <1>0, <1>2, CallAfterCouncil DEF Leaves, AnswerInv
  <2>3. CouncilTyped' /\ turn' \in [Turn -> TurnRecord]
    BY <1>0, <1>2, <2>1 DEF Leaves, Follows, CouncilTyped
  <2>4. AnswerInv(t)'
    BY <1>0, <1>2, <2>1, <2>2 DEF Leaves, Follows, AnswerInv
  <2>5. \A u \in Turn \ {t} : AnswerInv(u)'
    BY <1>0, <1>2, <2>1, <2>2, OtherTurnsKeepTheirAnswers DEF Leaves, Follows
  <2>6. QED
    BY <2>2, <2>3, <2>4, <2>5 DEF AnswersInv
<1>3. ASSUME shown' = shown,
             \/ Deliberates(t)
             \/ Rests(t) /\ (call[t].at = "none" \/ call[t].kind \in {"role", "closing"}),
             turn' = turn \/ turn' = [turn EXCEPT ![t].at = "RESPONDING"],
             turn'[t].at = "RESPONDING", turn'[t].is \notin {"paused", "queued"},
             turn' \in [Turn -> TurnRecord],
             Mode[t] = "council", shown[t] = NothingShown
      PROVE  AnswersInv'
  <2>1. PICK d : Convenes(t, d) /\ d.at \notin Deciding
    BY <1>3 DEF Deliberates, Rests
  <2>2. /\ CallTyped' /\ Streamed(call'[t], shown'[t])
        /\ \A u \in Turn \ {t} : call'[u] = call[u]
        /\ Opens(t, "role") \/ Opens(t, "closing") => call'[t].kind \in {"role", "closing"}
        /\ Closes(t) => call'[t].at = "none"
    BY <1>0, <1>3, CallAfterCouncil DEF Deliberates, Rests, AnswerInv
  <2>3. CouncilTyped' /\ council'[t] = d /\ \A u \in Turn \ {t} : council'[u] = council[u]
    BY <1>0, <2>1 DEF Convenes, CouncilTyped
  <2>4. \A u \in Turn \ {t} : turn'[u] = turn[u]
    BY <1>0, <1>3
  <2>5. call'[t].at = "none" \/ call'[t].kind \in {"role", "closing"}
    BY <1>3, <2>2 DEF Deliberates, Rests
  <2>6. turn'[t].at \notin BeforeAnswer
    BY <1>3 DEF BeforeAnswer
  <2>7. AnswerInv(t)'
    BY <1>0, <1>3, <2>2, <2>5, <2>6 DEF AnswerInv
  <2>8. \A u \in Turn \ {t} : AnswerInv(u)'
    BY <1>0, <1>3, <2>2, <2>3, <2>4, OtherTurnsKeepTheirAnswers
  <2>9. QED
    BY <1>3, <2>2, <2>3, <2>7, <2>8 DEF AnswersInv
<1>4. CASE Begins(t)
  <2>1. /\ turn' \in [Turn -> TurnRecord] /\ turn'[t].at = "RESPONDING"
        /\ turn'[t].is = "running" /\ \A u \in Turn \ {t} : turn'[u] = turn[u]
    <3> DEFINE x == [turn[t] EXCEPT !.at = "RESPONDING"]
    <3>1. x \in TurnRecord /\ x.at = "RESPONDING" /\ x.is = turn[t].is
      BY <1>0 DEF TurnRecord, RouterState
    <3>2. turn' = [turn EXCEPT ![t] = x]
      BY <1>4 DEF Begins
    <3> HIDE DEF x
    <3>3. QED
      BY <1>0, <1>4, <3>1, <3>2 DEF Begins
  <2>2. CASE Mode[t] = "off"
    <3>1. CASE Opens(t, "answer") /\ UNCHANGED council
      <4>1. /\ CallTyped' /\ Streamed(call'[t], shown'[t])
            /\ \A u \in Turn \ {t} : call'[u] = call[u]
        BY <1>0, <1>4, <3>1, CallAfterCouncil DEF Begins, AnswerInv
      <4>2. AnswerInv(t)'
        BY <1>0, <1>4, <2>1, <2>2, <4>1 DEF Begins, AnswerInv
      <4>3. \A u \in Turn \ {t} : AnswerInv(u)'
        BY <1>0, <1>4, <2>1, <3>1, <4>1, OtherTurnsKeepTheirAnswers DEF Begins
      <4>4. QED
        BY <1>0, <2>1, <3>1, <4>1, <4>2, <4>3 DEF AnswersInv, CouncilTyped
    <3>2. QED
      BY <1>4, <2>2, <3>1 DEF Begins
  <2>3. CASE Mode[t] = "council"
    <3>1. Deliberates(t) /\ shown' = shown /\ turn[t].at = "GENERATE_RESPONSE"
      BY <1>4, <2>3 DEF Begins
    <3>2. shown[t] = NothingShown
      BY <1>0, <2>3, <3>1 DEF AnswerInv, BeforeAnswer
    <3>3. turn' = [turn EXCEPT ![t].at = "RESPONDING"]
      BY <1>4 DEF Begins
    <3>4. QED
      BY <1>3, <2>1, <2>3, <3>1, <3>2, <3>3
  <2>4. QED
    BY <1>4, <2>2, <2>3 DEF Begins
<1>5. CASE Talks(t)
  <2>1. PICK c : Replaced(t, c) /\ (Quiet(t, c) \/ Loud(t, c))
    BY <1>5 DEF Talks, Speaks
  <2>2. /\ call' \in [Turn -> CallRecord] /\ call'[t] = c
        /\ \A u \in Turn \ {t} : call'[u] = call[u]
    BY <1>0, <2>1 DEF Replaced, CallTyped
  <2>3. /\ shown' \in [Turn -> Picture] /\ Streamed(c, shown'[t])
        /\ \A u \in Turn \ {t} : shown'[u] = shown[u]
        /\ call[t].kind \in {"role", "closing"} => shown' = shown
    <3>1. shown \in [Turn -> Picture]
      BY <1>0 DEF CallTyped
    <3>2. CASE Quiet(t, c)
      BY <3>1, <3>2 DEF Quiet
    <3>3. CASE Loud(t, c)
      <4>1. PICK text \in Text :
              /\ shown' = [shown EXCEPT ![t] = More(shown[t], text)]
              /\ Streamed(c, More(shown[t], text))
        BY <3>3 DEF Loud
      <4>2. More(shown[t], text) \in Picture
        BY <3>1, MoreIsShown
      <4>3. call[t].kind \notin {"role", "closing"}
        BY <3>3 DEF Loud
      <4>4. QED
        BY <3>1, <4>1, <4>2, <4>3
    <3>4. QED
      BY <2>1, <3>2, <3>3
  <2>4. UNCHANGED <<turn, council>> /\ turn[t].at = "RESPONDING" /\ call[t].at # "none"
    BY <1>5 DEF Talks
  <2>5. c.kind = call[t].kind
    BY <2>1 DEF Replaced
  <2>6. turn[t].at \notin BeforeAnswer
    BY <2>4 DEF BeforeAnswer
  <2>7. AnswerInv(t)'
    BY <1>0, <2>2, <2>3, <2>4, <2>5, <2>6 DEF AnswerInv
  <2>8. \A u \in Turn \ {t} : AnswerInv(u)'
    BY <1>0, <2>2, <2>3, <2>4, OtherTurnsKeepTheirAnswers
  <2>9. QED
    BY <1>0, <2>2, <2>3, <2>4, <2>7, <2>8 DEF AnswersInv, CallTyped, CouncilTyped
<1>6. CASE Confers(t)
  <2>1. UNCHANGED <<turn, shown>> /\ turn[t].at = "RESPONDING"
    BY <1>6 DEF Confers
  <2>0. Mode[t] = "council"
    BY <1>0, <1>6 DEF Confers, AnswerInv
  <2>2. turn[t].is \notin {"paused", "queued"} /\ turn[t].at \notin BeforeAnswer
    BY <1>0, <2>1 DEF AnswerInv, BeforeAnswer
  <2>3. CASE council[t].at \notin Deciding /\ (Deliberates(t) \/ Rests(t))
    BY <1>0, <1>3, <2>0, <2>1, <2>2, <2>3 DEF AnswerInv
  <2>4. CASE council[t].at \notin Deciding /\ CallsArbiter(t)
    <3>1. PICK d : Convenes(t, d) /\ d.at = "arbiter"
      BY <2>4 DEF CallsArbiter
    <3>2. PICK p \in Provider, stream \in BOOLEAN :
            call' = [call EXCEPT ![t] = NewCall("arbiter", p, stream)]
      BY <2>4 DEF CallsArbiter, Opens
    <3> DEFINE c == NewCall("arbiter", p, stream)
    <3>3. c \in CallRecord /\ Streamed(c, NothingShown)
      BY NewCallIsTyped DEF Kind
    <3>4. call' = [call EXCEPT ![t] = c]
      BY <3>2
    <3> HIDE DEF c
    <3>5. CallTyped' /\ call'[t] = c /\ \A u \in Turn \ {t} : call'[u] = call[u]
      BY <1>0, <2>1, <3>3, <3>4 DEF CallTyped
    <3>6. CouncilTyped' /\ council'[t] = d /\ \A u \in Turn \ {t} : council'[u] = council[u]
      BY <1>0, <3>1 DEF Convenes, CouncilTyped
    <3>8. shown[t] = NothingShown
      BY <1>0, <2>1, <2>0, <2>4 DEF AnswerInv
    <3>9. AnswerInv(t)'
      BY <1>0, <2>1, <2>2, <3>1, <3>3, <2>0, <3>5, <3>6, <3>8 DEF AnswerInv, Deciding
    <3>10. \A u \in Turn \ {t} : AnswerInv(u)'
      BY <1>0, <2>1, <3>5, <3>6, OtherTurnsKeepTheirAnswers
    <3>11. QED
      BY <1>0, <2>1, <3>5, <3>6, <3>9, <3>10 DEF AnswersInv
  <2>5. CASE council[t].at \in Deciding /\ Decides(t)
    <3>1. PICK d : Convenes(t, d) /\ d.at = "complete" /\ call' = call
      BY <2>5 DEF Decides
    <3>2. CouncilTyped' /\ council'[t] = d /\ \A u \in Turn \ {t} : council'[u] = council[u]
      BY <1>0, <3>1 DEF Convenes, CouncilTyped
    <3>3. AnswerInv(t)'
      BY <1>0, <2>0, <2>1, <2>2, <3>1, <3>2 DEF AnswerInv, Deciding
    <3>4. \A u \in Turn \ {t} : AnswerInv(u)'
      BY <1>0, <2>1, <3>1, <3>2, OtherTurnsKeepTheirAnswers
    <3>5. QED
      BY <1>0, <2>1, <3>1, <3>2, <3>3, <3>4 DEF AnswersInv, CallTyped
  <2>6. QED
    BY <1>6, <2>3, <2>4, <2>5 DEF Confers
<1>7. QED
  BY <1>1, <1>2, <1>4, <1>5, <1>6

(* The inductive invariant of the answers holds throughout.                *)
LEMMA AnswersInvariant == Spec => []AnswersInv
<1>1. Init => AnswersInv
  <2> SUFFICES ASSUME Init PROVE AnswersInv
    OBVIOUS
  <2>1. call = [t \in Turn |-> NoCall] /\ shown = [t \in Turn |-> NothingShown]
    BY DEF Init, CallInit
  <2>2. CallTyped
    <3>1. Offsets(1, 0) = <<>> /\ MaxText \in Nat
      BY NothingYet DEF Offsets
    <3>2. <<>> \in Text /\ Len(<<>>) = 0
      BY <3>1 DEF Text
    <3>3. NothingShown \in Picture
      BY <3>1, <3>2 DEF Picture, NothingShown
    <3>4. QED
      BY <2>1, <3>3, NoCallIsTyped DEF CallTyped
  <2>3. CouncilTyped
    BY DEF Init, CouncilInit, CouncilTyped, NewCouncil
  <2>4. /\ turn \in [Turn -> TurnRecord]
        /\ \A t \in Turn : turn[t].at = "START" /\ turn[t].is \in {"running", "absent"}
    <3>1. PICK S \in Together :
            turn = [t \in Turn |-> [at |-> "START",
                                   is |-> IF t \in S THEN "running" ELSE "absent",
                                   docs |-> FALSE, resumed |-> FALSE, followed |-> FALSE]]
      BY DEF Init
    <3>2. \A b \in {"running", "absent"} :
            [at |-> "START", is |-> b, docs |-> FALSE, resumed |-> FALSE, followed |-> FALSE]
              \in TurnRecord
      BY DEF TurnRecord, RouterState, Standing
    <3>3. \A t \in Turn : (IF t \in S THEN "running" ELSE "absent") \in {"running", "absent"}
      OBVIOUS
    <3>4. QED
      BY <3>1, <3>2, <3>3
  <2>5. \A t \in Turn : AnswerInv(t)
    <3>2. \A t \in Turn : council[t].at = "idle"
      BY DEF Init, CouncilInit, NewCouncil
    <3>3. \A t \in Turn : shown[t] = NothingShown /\ call[t] = NoCall
      BY <2>1
    <3>4. QED
      BY <2>4, <3>2, <3>3, NoCallIsTyped DEF AnswerInv
  <2>6. QED
    BY <2>2, <2>3, <2>4, <2>5 DEF AnswersInv
<1>2. AnswersInv /\ [Next]_vars => AnswersInv'
  <2> SUFFICES ASSUME AnswersInv, [Next]_vars PROVE AnswersInv'
    OBVIOUS
  <2>1. CASE UNCHANGED vars
    BY <2>1 DEF vars, callVars, councilVars, AnswersInv, AnswerInv, CallTyped, CouncilTyped
  <2>2. ASSUME NEW t \in Turn, StepFor(t) PROVE AnswersInv'
    BY <2>2, RouterSteps, AnswersInvIsKept
  <2>3. QED
    BY <2>1, <2>2 DEF Next
<1>3. QED
  BY <1>1, <1>2, PTL DEF Spec

(* However often a stream breaks off, falls back or is taken up again, the *)
(* user is shown a prefix of the answer, each character once, unless the   *)
(* arbiter's listener took another text for the answer.                    *)
THEOREM AnswerInOrder == Spec => []OffsetsShownOnce
<1>1. AnswersInv => OffsetsShownOnce
  BY DEF AnswersInv, CallTyped, Picture, OffsetsShownOnce
<1>2. QED
  BY <1>1, AnswersInvariant, PTL

-----------------------------------------------------------------------------
(* Searches.                                                               *)

AllPages == UNION {TitlePages(c) : c \in Chunk}

CacheEntry == [key : Query \X (SUBSET AllPages) \X (SUBSET Chunk), answer : SUBSET Chunk]

PoolRecord ==
  [covered : SUBSET AllPages, singles : SUBSET Chunk, cache : SUBSET CacheEntry,
   results : Seq(SUBSET Chunk)]

(* A chunk that coverage, or the coverage that a fingerprint names, knows, *)
(* and one that it knows nothing of; one that cannot be noted is neither.  *)
ShownBefore(covered, singles, c) ==
  Noted(c) => IF PageLess(c) THEN c \in singles ELSE TitlePages(c) \subseteq covered

NotShownYet(covered, singles, c) ==
  Noted(c) => IF PageLess(c) THEN c \notin singles ELSE TitlePages(c) \cap covered = {}

(* What an answer showed is covered since; what it left out was covered    *)
(* when it was given.                                                      *)
SearchInv(p) ==
  /\ \A i \in DOMAIN p.results : \A c \in p.results[i] : ShownBefore(p.covered, p.singles, c)
  /\ \A e \in p.cache : \A c \in e.answer :
       ShownBefore(p.covered, p.singles, c) /\ NotShownYet(e.key[2], e.key[3], c)
  /\ \A i, j \in DOMAIN p.results :
       i < j => \A c \in p.results[i] \cap p.results[j] : ~ Noted(c)

SearchesInv ==
  /\ pool \in [Turn -> PoolRecord]
  /\ \A t \in Turn : SearchInv(pool[t]) /\ Len(pool[t].results) <= MaxSearches[t]

LEMMA ChunksHavePages ==
  ASSUME NEW c \in Chunk
  PROVE  /\ TitlePages(c) \subseteq AllPages
         /\ ~ PageLess(c) => TitlePages(c) # {}
<1>1. c.first \in Nat /\ c.last \in Nat /\ c.first <= c.last
  BY PoolAssumption
<1>2. ~ PageLess(c) => <<c.title, c.first>> \in TitlePages(c)
  BY <1>1 DEF TitlePages, PagesUnder
<1>3. QED
  BY <1>2 DEF AllPages

(* A chunk that can be noted is not both shown before and new.             *)
LEMMA KnownIsNotNew ==
  ASSUME NEW c \in Chunk, NEW covered, NEW singles, ShownBefore(covered, singles, c)
  PROVE  Noted(c) => ~ NotShownYet(covered, singles, c)
BY ChunksHavePages DEF ShownBefore, NotShownYet

LEMMA KnownStaysKnown ==
  ASSUME NEW c, NEW covered, NEW singles, ShownBefore(covered, singles, c),
         NEW pages, NEW more, covered \subseteq pages, singles \subseteq more
  PROVE  ShownBefore(pages, more, c)
BY DEF ShownBefore

(* A search shows only what nothing has shown.                             *)
LEMMA RetrievedIsNew ==
  ASSUME NEW p, NEW anchors \in Ranking
  PROVE  /\ Retrieve(p, anchors) \subseteq Chunk
         /\ \A c \in Retrieve(p, anchors) : NotShownYet(p.covered, p.singles, c)
<1> DEFINE reached == {n \in 0..Len(anchors) : \A m \in 1..n : ~ BreaksOff(p, anchors, m)}
<1>1. PICK n \in 0..TopK : anchors \in [1..n -> Chunk]
  BY DEF Ranking, SeqOf
<1>2. n \in Nat /\ Len(anchors) = n
  BY <1>1, PoolAssumption
<1>3. SUFFICES ASSUME NEW c \in Retrieve(p, anchors)
               PROVE  c \in Chunk /\ NotShownYet(p.covered, p.singles, c)
  OBVIOUS
<1>4. PICK k \in 0..n : c \in Gathered(p, anchors, k)
  BY <1>2, <1>3 DEF Retrieve
<1>5. PICK i \in 1..k : c \in Bundle(anchors[i])
  BY <1>4 DEF Gathered
<1>6. ~ Excluded(p, c)
  BY <1>4 DEF Gathered
<1>7. anchors[i] \in Chunk
  BY <1>1, <1>2, <1>4, <1>5
<1>8. c \in Chunk
  BY <1>5, <1>7 DEF Bundle
<1>9. NotShownYet(p.covered, p.singles, c)
  BY <1>6 DEF Excluded, NotShownYet
<1>10. QED
  BY <1>8, <1>9

(* An answer is found again only if it has shown nothing that was noted.   *)
LEMMA CachedIsNotNoted ==
  ASSUME NEW p \in PoolRecord, SearchInv(p), NEW q \in Query, NEW found \in Cached(p, q)
  PROVE  found \in SUBSET Chunk /\ \A c \in found : ~ Noted(c)
<1>1. PICK e \in p.cache : e.key = Fingerprint(p, q) /\ found = e.answer
  BY DEF Cached
<1>2. e \in CacheEntry
  BY DEF PoolRecord
<1>3. e.key[2] = p.covered /\ e.key[3] = p.singles
  BY <1>1 DEF Fingerprint
<1>4. found \in SUBSET Chunk /\ \A c \in found : c \in Chunk
  BY <1>1, <1>2 DEF CacheEntry
<1>5. \A c \in found : ShownBefore(p.covered, p.singles, c)
                       /\ NotShownYet(p.covered, p.singles, c)
  BY <1>1, <1>3 DEF SearchInv
<1>6. QED
  BY <1>4, <1>5, KnownIsNotNew

LEMMA AppendedResult ==
  ASSUME NEW rs \in Seq(SUBSET Chunk), NEW found \in SUBSET Chunk
  PROVE  /\ Append(rs, found) \in Seq(SUBSET Chunk)
         /\ Len(Append(rs, found)) = Len(rs) + 1
         /\ DOMAIN Append(rs, found) = 1..(Len(rs) + 1)
         /\ \A i \in 1..Len(rs) : Append(rs, found)[i] = rs[i]
         /\ Append(rs, found)[Len(rs) + 1] = found
         /\ DOMAIN rs = 1..Len(rs) /\ Len(rs) \in Nat
OBVIOUS

(* One answer more, which has shown what was new.                          *)
LEMMA OneAnswerMore ==
  ASSUME NEW p \in PoolRecord, SearchInv(p), NEW found \in SUBSET Chunk,
         \A c \in found : NotShownYet(p.covered, p.singles, c),
         NEW r \in PoolRecord, r.results = Append(p.results, found),
         p.covered \subseteq r.covered, p.singles \subseteq r.singles,
         \A c \in found : ShownBefore(r.covered, r.singles, c),
         \A e \in r.cache \ p.cache :
           e.answer = found /\ e.key[2] = p.covered /\ e.key[3] = p.singles
  PROVE  SearchInv(r)
<1> DEFINE rs == p.results
           n == Len(rs)
<1>1. rs \in Seq(SUBSET Chunk) /\ p.covered \in SUBSET AllPages
  BY DEF PoolRecord
<1>2. /\ n \in Nat /\ DOMAIN rs = 1..n /\ DOMAIN r.results = 1..(n + 1)
      /\ \A i \in 1..n : r.results[i] = rs[i]
      /\ r.results[n + 1] = found
  BY <1>1, AppendedResult
<1>3. \A i \in 1..n : rs[i] \in SUBSET Chunk
  BY <1>1
<1> HIDE DEF rs, n
<1>4. \A i \in 1..n : \A c \in rs[i] : ShownBefore(p.covered, p.singles, c)
  BY <1>2 DEF SearchInv, rs
<1>5. ASSUME NEW i \in DOMAIN r.results, NEW c \in r.results[i]
      PROVE  ShownBefore(r.covered, r.singles, c)
  <2>1. CASE i \in 1..n
    BY <1>2, <1>4, <1>5, <2>1, KnownStaysKnown
  <2>2. CASE i = n + 1
    BY <1>2, <1>5, <2>2
  <2>3. QED
    BY <1>2, <1>5, <2>1, <2>2
<1>6. ASSUME NEW e \in r.cache, NEW c \in e.answer
      PROVE  ShownBefore(r.covered, r.singles, c) /\ NotShownYet(e.key[2], e.key[3], c)
  <2>1. CASE e \in p.cache
    <3>1. ShownBefore(p.covered, p.singles, c) /\ NotShownYet(e.key[2], e.key[3], c)
      BY <1>6, <2>1 DEF SearchInv
    <3>2. QED
      BY <3>1, KnownStaysKnown
  <2>2. CASE e \notin p.cache
    BY <1>6, <2>2
  <2>3. QED
    BY <2>1, <2>2
<1>7. ASSUME NEW i \in DOMAIN r.results, NEW j \in DOMAIN r.results, i < j
      PROVE  \A c \in r.results[i] \cap r.results[j] : ~ Noted(c)
  <2>1. i \in 1..n
    BY <1>2, <1>7
  <2>2. CASE j \in 1..n
    BY <1>2, <1>7, <2>1, <2>2 DEF SearchInv, rs
  <2>3. CASE j = n + 1
    <3>1. \A c \in rs[i] :
            c \in Chunk /\ (Noted(c) => ~ NotShownYet(p.covered, p.singles, c))
      BY <1>3, <1>4, <2>1, KnownIsNotNew
    <3>2. QED
      BY <1>2, <2>1, <2>3, <3>1
  <2>4. QED
    BY <1>2, <1>7, <2>2, <2>3
<1>8. QED
  BY <1>5, <1>6, <1>7 DEF SearchInv

LEMMA Triples ==
  ASSUME NEW A, NEW B, NEW C, NEW a \in A, NEW b \in B, NEW c \in C
  PROVE  <<a, b, c>> \in A \X B \X C
OBVIOUS

LEMMA FreshAnswerIsNew ==
  ASSUME NEW p \in PoolRecord, SearchInv(p), NEW q \in Query, NEW anchors \in Ranking
  PROVE  /\ FreshAnswer(p, q, anchors) \in PoolRecord
         /\ SearchInv(FreshAnswer(p, q, anchors))
         /\ Len(FreshAnswer(p, q, anchors).results) = Len(p.results) + 1
<1> DEFINE found == Retrieve(p, anchors)
           new   == [key |-> Fingerprint(p, q), answer |-> found]
           noted == {c \in found : Noted(c)}
           pages == DeliveredPages(noted)
           alone == {c \in noted : PageLess(c)}
           r == FreshAnswer(p, q, anchors)
<1>1. found \subseteq Chunk /\ \A c \in found : NotShownYet(p.covered, p.singles, c)
  BY RetrievedIsNew
<1>2. /\ p.covered \in SUBSET AllPages /\ p.singles \in SUBSET Chunk
      /\ p.cache \in SUBSET CacheEntry /\ p.results \in Seq(SUBSET Chunk)
  BY DEF PoolRecord
<1>3. /\ new \in CacheEntry /\ new.answer = found
      /\ new.key[2] = p.covered /\ new.key[3] = p.singles
  <2>1. Fingerprint(p, q) \in Query \X (SUBSET AllPages) \X (SUBSET Chunk)
    BY <1>2, Triples DEF Fingerprint
  <2>2. found \in SUBSET Chunk
    BY <1>1
  <2>3. Fingerprint(p, q)[2] = p.covered /\ Fingerprint(p, q)[3] = p.singles
    BY DEF Fingerprint
  <2> HIDE DEF found
  <2>4. QED
    BY <2>1, <2>2, <2>3 DEF CacheEntry
<1>4. pages \subseteq AllPages
  BY <1>1, ChunksHavePages DEF DeliveredPages
<1>5. r = [p EXCEPT !.covered = @ \cup pages, !.singles = @ \cup alone,
                    !.cache = @ \cup {new}, !.results = Append(@, found)]
  BY DEF FreshAnswer, RecordEvidence, Delivered
<1> HIDE DEF found, new, r
<1>6. /\ r.covered = p.covered \cup pages /\ r.singles = p.singles \cup alone
      /\ r.cache = p.cache \cup {new} /\ r.results = Append(p.results, found)
      /\ r \in PoolRecord
  <2>1. /\ p.covered \cup pages \in SUBSET AllPages /\ p.singles \cup alone \in SUBSET Chunk
        /\ p.cache \cup {new} \in SUBSET CacheEntry
        /\ Append(p.results, found) \in Seq(SUBSET Chunk)
    BY <1>1, <1>2, <1>3, <1>4
  <2> HIDE DEF alone, pages, noted
  <2>2. QED
    BY <1>5, <2>1 DEF PoolRecord
<1>7. \A c \in found : ShownBefore(r.covered, r.singles, c)
  BY <1>6 DEF ShownBefore, DeliveredPages
<1>8. SearchInv(r)
  BY <1>1, <1>3, <1>6, <1>7, OneAnswerMore
<1>9. Len(r.results) = Len(p.results) + 1
  BY <1>1, <1>2, <1>6
<1>10. QED
  BY <1>6, <1>8, <1>9 DEF r

LEMMA SearchKeeps ==
  ASSUME SearchesInv, NEW t \in Turn, Search(t)
  PROVE  SearchesInv'
<1> DEFINE p == pool[t]
<1>1. /\ p \in PoolRecord /\ SearchInv(p) /\ p.results \in Seq(SUBSET Chunk)
      /\ Len(p.results) < MaxSearches[t] /\ MaxSearches[t] \in Nat /\ Len(p.results) \in Nat
  BY PoolAssumption DEF SearchesInv, Search, PoolRecord
<1>2. PICK q \in Query :
        IF Cached(p, q) # {}
        THEN \E found \in Cached(p, q) :
               pool' = [pool EXCEPT ![t].results = Append(@, found)]
        ELSE \E anchors \in Ranking : pool' = [pool EXCEPT ![t] = FreshAnswer(p, q, anchors)]
  BY DEF Search
<1>3. SUFFICES \E r \in PoolRecord : /\ pool' = [pool EXCEPT ![t] = r] /\ SearchInv(r)
                                     /\ Len(r.results) = Len(p.results) + 1
  BY <1>1 DEF SearchesInv
<1>4. CASE Cached(p, q) # {}
  <2>1. PICK found \in Cached(p, q) : pool' = [pool EXCEPT ![t].results = Append(@, found)]
    BY <1>2, <1>4
  <2>2. found \in SUBSET Chunk /\ \A c \in found : ~ Noted(c)
    BY <1>1, <2>1, CachedIsNotNoted
  <2> DEFINE r == [p EXCEPT !.results = Append(@, found)]
  <2>3. Append(p.results, found) \in Seq(SUBSET Chunk)
    BY <1>1, <2>2
  <2>4. /\ r \in PoolRecord /\ r.results = Append(p.results, found)
        /\ r.covered = p.covered /\ r.singles = p.singles /\ r.cache = p.cache
    BY <1>1, <2>3 DEF PoolRecord
  <2>5. pool' = [pool EXCEPT ![t] = r]
    BY <2>1
  <2> HIDE DEF r, p
  <2>6. SearchInv(r)
    <3>1. /\ found \in SUBSET Chunk /\ r.cache \ p.cache = {}
          /\ p.covered \subseteq r.covered /\ p.singles \subseteq r.singles
          /\ \A c \in found : NotShownYet(p.covered, p.singles, c)
          /\ \A c \in found : ShownBefore(r.covered, r.singles, c)
      BY <2>2, <2>4 DEF ShownBefore, NotShownYet
    <3>2. \A e \in r.cache \ p.cache :
            e.answer = found /\ e.key[2] = p.covered /\ e.key[3] = p.singles
      BY <3>1
    <3>3. QED
      BY <1>1, <2>4, <3>1, <3>2, OneAnswerMore
  <2>7. Len(r.results) = Len(p.results) + 1
    <3>1. found \in SUBSET Chunk
      BY <2>2
    <3>2. QED
      BY <1>1, <2>4, <3>1, AppendedResult
  <2>8. QED
    BY <2>4, <2>5, <2>6, <2>7
<1>5. CASE Cached(p, q) = {}
  <2>1. PICK anchors \in Ranking : pool' = [pool EXCEPT ![t] = FreshAnswer(p, q, anchors)]
    BY <1>2, <1>5
  <2>2. QED
    BY <1>1, <2>1, FreshAnswerIsNew
<1>6. QED
  BY <1>4, <1>5

LEMMA EmptyPoolIsNew ==
  EmptyPool \in PoolRecord /\ SearchInv(EmptyPool) /\ Len(EmptyPool.results) = 0
BY DEF EmptyPool, PoolRecord, SearchInv

(* What a step of the router does to what turns have read.                 *)
LEMMA TurnStepsThePool ==
  ASSUME [Next]_vars
  PROVE  \/ pool' = pool
         \/ \E t \in Turn : Search(t) \/ pool' = [pool EXCEPT ![t] = EmptyPool]
<1> USE DEF poolUnchanged, nothingButTheTurn
<1>1. CASE UNCHANGED vars
  BY <1>1 DEF vars
<1>2. ASSUME NEW t \in Turn, StepFor(t)
      PROVE  pool' = pool \/ Search(t) \/ pool' = [pool EXCEPT ![t] = EmptyPool]
  <2>1. CASE PlainState(t)
    BY <2>1 DEF PlainState, Start, SummarizeHistory, Classify, DecideRag, RewriteQuery,
                SummarizeDocs, UpdateHistory, DecideMemory, Passes
  <2>2. CASE LoadMemory(t) \/ RetrieveContext(t) \/ GenerateResponse(t)
    BY <2>2 DEF LoadMemory, RetrieveContext, GenerateResponse
  <2>3. CASE HandlerFails(t) \/ ResponseFails(t) \/ TurnPauses(t) \/ Finish(t) \/ Cancel(t)
    BY <2>3 DEF HandlerFails, ResponseFails, TurnPauses, Finish, Cancel, EndTurn
  <2>4. CASE CallGoesOn(t)
    BY <2>4 DEF CallGoesOn, CallStep, Send, Delta, RateLimited, RequestFails, ServerPause,
                Answer, AskForTools, UseTool
  <2>5. CASE CouncilGoesOn(t)
    BY <2>5 DEF CouncilGoesOn, CouncilStep, OpeningArgument, DiscussionGate, PauseBeforeRole,
                AskRole, Discuss, PauseAfterRole, NextRole, PauseAfterRound, EndRound,
                ClosingArgument, Verdict, Pause, untouchedByCouncil
  <2>6. CASE Responded(t) \/ ExtractMemory(t) \/ ResolveMemory(t) \/ CommitMemory(t)
    BY <2>6 DEF Responded, ExtractMemory, ResolveMemory, CommitMemory
  <2>7. CASE AutoName(t) \/ ChatNamed(t) \/ TakeUp(t) \/ NameInFollowUp(t)
             \/ Resume(t) \/ AskToCancel(t) \/ AskToPause(t) \/ UserNamesChat(t)
    BY <2>7 DEF AutoName, ChatNamed, TakeUp, NameInFollowUp, Resume, AskToCancel,
                AskToPause, UserNamesChat
  <2>8. QED
    BY <1>2, <2>1, <2>2, <2>3, <2>4, <2>5, <2>6, <2>7 DEF StepFor, TurnStep
<1>3. QED
  BY <1>1, <1>2 DEF Next

LEMMA SearchesInvariant == Spec => []SearchesInv
<1>1. Init => SearchesInv
  <2>1. SUFFICES ASSUME Init PROVE SearchesInv
    OBVIOUS
  <2>2. pool = [t \in Turn |-> EmptyPool] /\ MaxSearches \in [Turn -> Nat]
    BY <2>1, PoolAssumption DEF Init, PoolInit
  <2>3. \A t \in Turn : pool[t] = EmptyPool /\ Len(pool[t].results) <= MaxSearches[t]
    <3> TAKE t \in Turn
    <3>1. MaxSearches[t] \in Nat
      BY <2>2
    <3>2. pool[t] = EmptyPool
      BY <2>2
    <3>3. QED
      BY <3>1, <3>2, EmptyPoolIsNew
  <2>4. QED
    BY <2>2, <2>3, EmptyPoolIsNew DEF SearchesInv
<1>2. SearchesInv /\ [Next]_vars => SearchesInv'
  <2> SUFFICES ASSUME SearchesInv, [Next]_vars PROVE SearchesInv'
    OBVIOUS
  <2>1. CASE pool' = pool
    BY <2>1 DEF SearchesInv
  <2>2. ASSUME NEW t \in Turn, pool' = [pool EXCEPT ![t] = EmptyPool] PROVE SearchesInv'
    <3>1. pool \in [Turn -> PoolRecord] /\ MaxSearches \in [Turn -> Nat]
      BY PoolAssumption DEF SearchesInv
    <3>2. /\ pool' \in [Turn -> PoolRecord]
          /\ \A u \in Turn : pool'[u] = EmptyPool \/ pool'[u] = pool[u]
      BY <2>2, <3>1, EmptyPoolIsNew
    <3>3. \A u \in Turn : SearchInv(pool'[u]) /\ Len(pool'[u].results) <= MaxSearches[u]
      <4> SUFFICES ASSUME NEW u \in Turn
                   PROVE  SearchInv(pool'[u]) /\ Len(pool'[u].results) <= MaxSearches[u]
        OBVIOUS
      <4>1. CASE pool'[u] = EmptyPool
        BY <3>1, <4>1, EmptyPoolIsNew
      <4>2. CASE pool'[u] = pool[u]
        BY <4>2 DEF SearchesInv
      <4>3. QED
        BY <3>2, <4>1, <4>2
    <3>4. QED
      BY <3>2, <3>3 DEF SearchesInv
  <2>3. QED
    BY <2>1, <2>2, SearchKeeps, TurnStepsThePool
<1>3. QED
  BY <1>1, <1>2, PTL DEF Spec

(* No search of a turn shows what another one has shown, whoever asked and *)
(* whether the answer is fresh or was kept, unless the pool cannot note    *)
(* the document: an answer is left out while its coverage stands, and a    *)
(* kept one is found again only if it showed nothing that could be noted.  *)
THEOREM ReadOnce == Spec => []NothingIsReadTwice
<1>1. SearchesInv => NothingIsReadTwice
  BY DEF SearchesInv, SearchInv, NothingIsReadTwice
<1>2. QED
  BY <1>1, SearchesInvariant, PTL

-----------------------------------------------------------------------------
(* The council: its place in the deliberation, and its discussion.         *)

Speaker == {RoleOrder[1], RoleOrder[2], RoleOrder[3]}

(* What may have been said in a round: the roles so far, in their order.   *)
Spoken ==
  {said \in Seq(Speaker) : Len(said) \in 0..Roles /\ \A i \in 1..Len(said) : said[i] = RoleOrder[i]}

Round == [said : Spoken, news : BOOLEAN, held : BOOLEAN]

Note == [round : Nat, after : Nat]

CouncilRecord ==
  [at : CouncilState, opened : 0..Roles, rounds : Seq(Round), round : 0..MaxRounds,
   index : 0..Roles, closed : 0..Roles, notes : Seq(Note)]

SnapshotRecord ==
  [rounds : Seq(Round), notes : Seq(Note), round : Nat, after : Nat,
   nextRound : 0..MaxRounds + 1, nextIndex : Nat]

LastRound(rounds) == rounds[Len(rounds)]

(* Another round follows only one that all have spoken in and that was     *)
(* worth it.                                                               *)
MayFollow(r) == r.said = RoleOrder /\ (r.news \/ r.held)

Orderly(rounds) ==
  /\ Len(rounds) <= MaxRounds
  /\ \A r \in 1..(Len(rounds) - 1) : MayFollow(rounds[r])

(* The discussion is over: nobody has more to say, or there is no more     *)
(* room.                                                                   *)
TalkedOut(rounds) ==
  rounds # <<>> =>
    /\ LastRound(rounds).said = RoleOrder
    /\ Len(rounds) < MaxRounds => ~ MayFollow(LastRound(rounds))

(* Where a discussion goes on: behind the last speaker of a round, or in   *)
(* the next round.                                                         *)
GoesOnAt(rounds, r, i) ==
  \/ /\ r = Len(rounds) + 1 /\ i = 1
     /\ rounds # <<>> => MayFollow(LastRound(rounds))
  \/ /\ r = Len(rounds) /\ rounds # <<>>
     /\ ~ LastRound(rounds).held
     /\ i = Len(LastRound(rounds).said) + 1 /\ i <= Roles

InRound == {"before", "speak", "after", "roundEnd"}

InPlace(c) ==
  /\ c \in CouncilRecord /\ Orderly(c.rounds)
  /\ c.at = "idle" => c.opened = 0 /\ c.notes = <<>>
  /\ c.at \in {"idle", "opening", "gate", "paused"} => c.rounds = <<>>
  /\ c.at \in {"idle", "opening", "gate", "paused"} \cup InRound => c.closed = 0
  /\ c.at \in {"idle", "opening", "paused"} => c.opened < Roles
  /\ c.at \notin {"idle", "opening", "paused"} => c.opened = Roles
  /\ c.at \in InRound =>
       c.rounds # <<>> /\ c.round = Len(c.rounds) /\ ~ LastRound(c.rounds).held
  /\ c.at \in {"before", "speak"} => c.index = Len(LastRound(c.rounds).said) + 1
  /\ c.at = "after" => c.index = Len(LastRound(c.rounds).said) /\ c.index > 0
  /\ c.at = "roundEnd" => LastRound(c.rounds).said = RoleOrder
  /\ c.at \in {"closing", "arbiter", "complete"} => TalkedOut(c.rounds)
  /\ c.at = "closing" => c.closed < Roles
  /\ c.at \in Deciding => c.closed = Roles

Checkpoint(s) ==
  /\ Orderly(s.rounds) /\ s.rounds # <<>>
  /\ s.round = Len(s.rounds) /\ s.after = Len(LastRound(s.rounds).said)
  /\ GoesOnAt(s.rounds, s.nextRound, s.nextIndex)

(* What there is of a deliberation: what the council has in hand, or what  *)
(* is written of it.                                                       *)
Kept(c, s) == IF c.at = "paused" THEN [rounds |-> s.rounds, notes |-> s.notes]
                                 ELSE [rounds |-> c.rounds, notes |-> c.notes]

(* As Council sees it.                                                     *)
View(c, s) ==
  [opened |-> IF c.at = "paused" THEN Roles ELSE c.opened,
   rounds |-> Begun(Kept(c, s).rounds),
   closed |-> c.closed,
   decided |-> c.at = "complete"]

(* One more speaks in a round.                                             *)
WithSpeaker(r, news) == WithPosition(r, RoleOrder[Len(r.said) + 1], news)

(* The last round of a discussion is another one now.                      *)
LastIsNow(rs, qs, x) == qs = [rs EXCEPT ![Len(rs)] = x]

(* The steps of Council, of one turn.                                      *)
AnotherOpening(v, w) ==
  /\ v.opened < Roles /\ w.opened = v.opened + 1
  /\ w.rounds = v.rounds /\ w.closed = v.closed /\ w.decided = v.decided

DiscussionGoesOn(rs, qs) ==
  \/ /\ Len(rs) < MaxRounds /\ (rs # <<>> => MayFollow(LastRound(rs)))
     /\ \E news \in BOOLEAN :
          qs = Append(rs, [said |-> <<RoleOrder[1]>>, news |-> news, held |-> FALSE])
  \/ /\ rs # <<>> /\ LastRound(rs).said # RoleOrder
     /\ \E news \in BOOLEAN :
          LastIsNow(rs, qs, WithSpeaker(LastRound(rs), news))
  \/ /\ rs # <<>> /\ LastRound(rs).said = RoleOrder
     /\ LastIsNow(rs, qs, [LastRound(rs) EXCEPT !.held = TRUE])

Discusses(v, w) ==
  /\ v.opened = Roles /\ v.closed = 0 /\ DiscussionGoesOn(v.rounds, w.rounds)
  /\ w.opened = v.opened /\ w.closed = v.closed /\ w.decided = v.decided

AnotherClosing(v, w) ==
  /\ v.opened = Roles /\ v.closed < Roles /\ TalkedOut(v.rounds)
  /\ w.closed = v.closed + 1
  /\ w.opened = v.opened /\ w.rounds = v.rounds /\ w.decided = v.decided

TheVerdict(v, w) ==
  /\ v.closed = Roles /\ ~ v.decided /\ w.decided
  /\ w.opened = v.opened /\ w.rounds = v.rounds /\ w.closed = v.closed

Advances(v, w) == AnotherOpening(v, w) \/ Discusses(v, w) \/ AnotherClosing(v, w) \/ TheVerdict(v, w)

(* What was said before a place is still what was said before it.          *)
Continues(rs, qs) ==
  /\ Len(rs) <= Len(qs)
  /\ \A r \in 1..Len(rs) : \A a \in 0..Len(rs[r].said) :
       a <= Len(qs[r].said) /\ Before(qs, r, a) = Before(rs, r, a)

(* A step of a council: it is a step of Council or none, the place stays a *)
(* place, and the user's words stay where they were said.                  *)
StepsTo(c, s, d, z) ==
  /\ InPlace(d) /\ z \in SnapshotRecord
  /\ d.at = "paused" => Checkpoint(z)
  /\ View(d, z) = View(c, s) \/ Advances(View(c, s), View(d, z))
  /\ Kept(d, z).notes = Kept(c, s).notes
  /\ Continues(Kept(c, s).rounds, Kept(d, z).rounds)

LEMMA RolesAreThree ==
  /\ Roles = 3 /\ Len(RoleOrder) = 3 /\ RoleOrder \in Seq(Speaker)
<1>1. Roles = 3 /\ Len(RoleOrder) = 3
  BY DEF Roles, RoleOrder
<1>2. RoleOrder = [i \in 1..3 |-> RoleOrder[i]]
  BY DEF RoleOrder
<1>3. RoleOrder[1] \in Speaker /\ RoleOrder[2] \in Speaker /\ RoleOrder[3] \in Speaker
  BY DEF Speaker
<1>4. \A i \in 1..3 : i = 1 \/ i = 2 \/ i = 3
  OBVIOUS
<1>5. \A i \in 1..3 : RoleOrder[i] \in Speaker
  BY <1>3, <1>4
<1>6. [i \in 1..3 |-> RoleOrder[i]] \in Seq(Speaker)
  BY <1>5, IsASeq
<1>7. QED
  BY <1>1, <1>2, <1>6

LEMMA SpokenInTurn ==
  ASSUME NEW said \in Spoken
  PROVE  /\ said \in Seq(Speaker) /\ Len(said) \in 0..3
         /\ said = <<>> <=> Len(said) = 0
         /\ said = RoleOrder <=> Len(said) = 3
<1>0. said \in Seq(Speaker) /\ Len(said) \in 0..Roles
  BY DEF Spoken
<1>r. Roles = 3
  BY RolesAreThree
<1>1. said \in Seq(Speaker) /\ Len(said) \in 0..3
  BY <1>0, <1>r
<1>2. said = <<>> <=> Len(said) = 0
  BY <1>1
<1>3. ASSUME Len(said) = 3 PROVE said = RoleOrder
  BY <1>1, <1>3, RolesAreThree, SeqEqual DEF Spoken
<1>4. QED
  BY <1>1, <1>2, <1>3, RolesAreThree

LEMMA NextSpeaker ==
  ASSUME NEW said \in Spoken, Len(said) < 3
  PROVE  /\ Append(said, RoleOrder[Len(said) + 1]) \in Spoken
         /\ Len(Append(said, RoleOrder[Len(said) + 1])) = Len(said) + 1
         /\ Append(said, RoleOrder[Len(said) + 1]) # <<>>
<1> DEFINE n == Len(said)
           x == RoleOrder[n + 1]
           q == Append(said, x)
<1>0. said \in Seq(Speaker) /\ n \in 0..3 /\ n < 3
  BY SpokenInTurn
<1>1. said \in Seq(Speaker) /\ n \in 0..2 /\ \A i \in 1..n : said[i] = RoleOrder[i]
  <2>1. \A i \in 1..n : said[i] = RoleOrder[i]
    BY DEF Spoken
  <2>2. QED
    BY <1>0, <2>1
<1>2. x \in Speaker
  BY <1>1, RolesAreThree
<1> HIDE DEF x
<1>3. /\ q \in Seq(Speaker) /\ Len(q) = n + 1 /\ q[n + 1] = x
      /\ \A i \in 1..n : q[i] = said[i]
  BY <1>1, <1>2
<1> HIDE DEF q, n
<1>4. \A i \in 1..Len(q) : q[i] = RoleOrder[i]
  BY <1>1, <1>3 DEF x
<1>5. q \in Spoken
  BY <1>1, <1>3, <1>4, RolesAreThree DEF Spoken
<1>6. q # <<>>
  BY <1>1, <1>3
<1>7. QED
  BY <1>3, <1>5, <1>6 DEF q, x, n

(* A discussion from one of its rounds on.                                 *)
LEMMA NewRoundIsRound ==
  /\ NewRound \in Round /\ NewRound.said = <<>> /\ Len(NewRound.said) = 0
  /\ ~ NewRound.held
<1>1. <<>> \in Seq(Speaker) /\ Len(<<>>) = 0
  OBVIOUS
<1>2. <<>> \in Spoken
  BY <1>1, RolesAreThree DEF Spoken
<1>3. QED
  BY <1>1, <1>2 DEF NewRound, Round

LEMMA OneRound ==
  ASSUME NEW rs \in Seq(Round), NEW r \in 1..Len(rs)
  PROVE  /\ rs[r] \in Round /\ rs[r].said \in Spoken /\ rs[r].said \in Seq(Speaker)
         /\ Len(rs[r].said) \in 0..3
<1>1. rs[r] \in Round
  BY ElementOfSeq
<1>2. rs[r].said \in Spoken
  BY <1>1 DEF Round
<1>3. QED
  BY <1>1, <1>2, SpokenInTurn

LEMMA PositionSaid ==
  ASSUME NEW rs \in Seq(Round), NEW p
  PROVE  p \in PositionsSaid(rs) <=>
           \E r \in 1..Len(rs) : \E k \in 1..Len(rs[r].said) : p = <<r, k>>
<1>1. DOMAIN rs = 1..Len(rs)
  OBVIOUS
<1>2. \A r \in 1..Len(rs) : DOMAIN rs[r].said = 1..Len(rs[r].said)
  BY OneRound
<1>3. p \in PositionsSaid(rs) <=> \E r \in DOMAIN rs : p \in {<<r, k>> : k \in DOMAIN rs[r].said}
  BY DEF PositionsSaid
<1>4. \A r \in DOMAIN rs : p \in {<<r, k>> : k \in DOMAIN rs[r].said}
                          <=> \E k \in DOMAIN rs[r].said : p = <<r, k>>
  OBVIOUS
<1>5. QED
  BY <1>1, <1>2, <1>3, <1>4, Zenon

LEMMA SaidBefore ==
  ASSUME NEW rs \in Seq(Round), NEW qs \in Seq(Round), Len(rs) <= Len(qs),
         NEW r \in 1..Len(rs), NEW a \in 0..Len(rs[r].said), a <= Len(qs[r].said),
         \A j \in 1..Len(rs) : j < r => qs[j].said = rs[j].said
  PROVE  Before(qs, r, a) = Before(rs, r, a)
<1>0. Len(rs) \in Nat /\ Len(qs) \in Nat /\ Len(rs[r].said) \in Nat /\ Len(qs[r].said) \in Nat
  <2>1. Len(rs) \in Nat /\ Len(qs) \in Nat
    OBVIOUS
  <2>2. r \in 1..Len(qs)
    BY <2>1
  <2>3. QED
    BY <2>1, <2>2, OneRound
<1>1. ASSUME NEW p PROVE p \in Before(qs, r, a) <=> p \in Before(rs, r, a)
  <2>1. ASSUME p \in Before(qs, r, a) PROVE p \in Before(rs, r, a)
    <3>1. p \in PositionsSaid(qs) /\ (p[1] < r \/ (p[1] = r /\ p[2] <= a))
      BY <2>1 DEF Before
    <3>2. PICK j \in 1..Len(qs) : \E k \in 1..Len(qs[j].said) : p = <<j, k>>
      BY <3>1, PositionSaid
    <3>3. PICK k \in 1..Len(qs[j].said) : p = <<j, k>>
      BY <3>2
    <3>4. p[1] = j /\ p[2] = k
      BY <3>3
    <3>5. j \in 1..Len(rs) /\ (j < r \/ (j = r /\ k <= a))
      BY <1>0, <3>1, <3>4
    <3>6. k \in 1..Len(rs[j].said)
      BY <1>0, <3>5
    <3>7. p \in PositionsSaid(rs)
      BY <3>3, <3>5, <3>6, PositionSaid
    <3>8. QED
      BY <3>1, <3>7 DEF Before
  <2>2. ASSUME p \in Before(rs, r, a) PROVE p \in Before(qs, r, a)
    <3>1. p \in PositionsSaid(rs) /\ (p[1] < r \/ (p[1] = r /\ p[2] <= a))
      BY <2>2 DEF Before
    <3>2. PICK j \in 1..Len(rs) : \E k \in 1..Len(rs[j].said) : p = <<j, k>>
      BY <3>1, PositionSaid
    <3>3. PICK k \in 1..Len(rs[j].said) : p = <<j, k>>
      BY <3>2
    <3>4. p[1] = j /\ p[2] = k
      BY <3>3
    <3>5. j \in 1..Len(qs) /\ (j < r \/ (j = r /\ k <= a))
      BY <1>0, <3>1, <3>4
    <3>6. k \in 1..Len(qs[j].said)
      BY <1>0, <3>5
    <3>7. p \in PositionsSaid(qs)
      BY <3>3, <3>5, <3>6, PositionSaid
    <3>8. QED
      BY <3>1, <3>7 DEF Before
  <2>3. QED
    BY <2>1, <2>2
<1>2. QED
  BY <1>1

(* All that has been said stands before the place behind the last speaker. *)
LEMMA AllSaidBefore ==
  ASSUME NEW rs \in Seq(Round), rs # <<>>
  PROVE  Before(rs, Len(rs), Len(LastRound(rs).said)) = PositionsSaid(rs)
<1>1. Len(rs) \in Nat /\ Len(rs) \in 1..Len(rs)
  OBVIOUS
<1>2. ASSUME NEW p \in PositionsSaid(rs)
      PROVE  p[1] < Len(rs) \/ (p[1] = Len(rs) /\ p[2] <= Len(LastRound(rs).said))
  <2>1. PICK j \in 1..Len(rs) : \E i \in 1..Len(rs[j].said) : p = <<j, i>>
    BY PositionSaid
  <2>2. PICK i \in 1..Len(rs[j].said) : p = <<j, i>>
    BY <2>1
  <2>3. p[1] = j /\ p[2] = i /\ Len(rs[j].said) \in Nat
    BY <2>2, OneRound
  <2>4. QED
    BY <1>1, <2>3 DEF LastRound
<1>3. QED
  BY <1>2 DEF Before

LEMMA RoundsBeforeTheLast ==
  ASSUME NEW rs \in Seq(Round), rs # <<>>
  PROVE  /\ Front(rs) \in Seq(Round) /\ Len(Front(rs)) = Len(rs) - 1
         /\ \A r \in 1..(Len(rs) - 1) : Front(rs)[r] = rs[r]
<1> DEFINE n == Len(rs) - 1
<1>1. n \in Nat /\ Len(rs) = n + 1
  OBVIOUS
<1>2. Front(rs) = SubSeq(rs, 1, n)
  BY DEF Front
<1>3. \A i \in 1..n : rs[i] \in Round
  BY <1>1
<1> HIDE DEF n
<1>4. /\ SubSeq(rs, 1, n) \in Seq(Round)
      /\ Len(SubSeq(rs, 1, n)) = IF 1 <= n THEN n - 1 + 1 ELSE 0
      /\ \A i \in 1..(n - 1 + 1) : SubSeq(rs, 1, n)[i] = rs[1 + i - 1]
  BY <1>1, <1>3, SubSeqProperties
<1>5. Len(SubSeq(rs, 1, n)) = n
  BY <1>1, <1>4
<1>6. \A i \in 1..n : SubSeq(rs, 1, n)[i] = rs[i]
  <2> TAKE i \in 1..n
  <2>1. n - 1 + 1 = n /\ 1 + i - 1 = i
    BY <1>1
  <2>2. QED
    BY <1>4, <2>1
<1>7. QED
  BY <1>2, <1>4, <1>5, <1>6 DEF n

(* A round more.                                                           *)
LEMMA RoundAdded ==
  ASSUME NEW rs \in Seq(Round), NEW x \in Round
  PROVE  /\ Append(rs, x) \in Seq(Round) /\ Len(Append(rs, x)) = Len(rs) + 1
         /\ Append(rs, x) # <<>> /\ LastRound(Append(rs, x)) = x
         /\ Front(Append(rs, x)) = rs /\ Last(Append(rs, x)) = x
         /\ \A r \in 1..Len(rs) : Append(rs, x)[r] = rs[r]
<1> DEFINE qs == Append(rs, x)
<1>1. /\ qs \in Seq(Round) /\ Len(qs) = Len(rs) + 1 /\ Len(rs) \in Nat
      /\ qs[Len(rs) + 1] = x /\ \A r \in 1..Len(rs) : qs[r] = rs[r]
  OBVIOUS
<1> HIDE DEF qs
<1>2. qs # <<>> /\ LastRound(qs) = x /\ Last(qs) = x
  BY <1>1 DEF LastRound, Last
<1>3. /\ Front(qs) \in Seq(Round) /\ Len(Front(qs)) = Len(rs)
      /\ \A r \in 1..Len(rs) : Front(qs)[r] = qs[r]
  <2>1. Len(qs) - 1 = Len(rs)
    BY <1>1
  <2>2. QED
    BY <1>1, <1>2, <2>1, RoundsBeforeTheLast
<1>4. Front(qs) = rs
  BY <1>1, <1>3, SeqEqual
<1>5. QED
  BY <1>1, <1>2, <1>3, <1>4 DEF qs

(* The last round goes on.                                                 *)
LEMMA RoundGoesOn ==
  ASSUME NEW rs \in Seq(Round), rs # <<>>, NEW x \in Round, NEW qs, LastIsNow(rs, qs, x)
  PROVE  /\ qs \in Seq(Round) /\ Len(qs) = Len(rs) /\ qs # <<>>
         /\ LastRound(qs) = x /\ Front(qs) = Front(rs) /\ Last(qs) = x
         /\ \A r \in 1..Len(rs) : r < Len(rs) => qs[r] = rs[r]
<1> DEFINE n == Len(rs)
<1>1. n \in Nat /\ n \in 1..n
  OBVIOUS
<1>2. /\ qs \in Seq(Round) /\ Len(qs) = n
      /\ \A j \in 1..n : qs[j] = IF j = n THEN x ELSE rs[j]
  BY <1>1, ExceptSeq DEF LastIsNow
<1>3. qs # <<>> /\ LastRound(qs) = x /\ Last(qs) = x
  BY <1>1, <1>2 DEF LastRound, Last
<1>4. \A r \in 1..(n - 1) : qs[r] = rs[r]
  BY <1>1, <1>2
<1>5. Front(qs) = Front(rs)
  <2>1. /\ Front(qs) \in Seq(Round) /\ Len(Front(qs)) = n - 1
        /\ \A r \in 1..(n - 1) : Front(qs)[r] = qs[r]
    BY <1>2, <1>3, RoundsBeforeTheLast
  <2>2. /\ Front(rs) \in Seq(Round) /\ Len(Front(rs)) = n - 1
        /\ \A r \in 1..(n - 1) : Front(rs)[r] = rs[r]
    BY RoundsBeforeTheLast
  <2> HIDE DEF n
  <2>3. \A r \in 1..Len(Front(qs)) : Front(qs)[r] = Front(rs)[r]
    BY <1>4, <2>1, <2>2
  <2>4. QED
    BY <2>1, <2>2, <2>3, SeqEqual
<1>6. QED
  BY <1>1, <1>2, <1>3, <1>4, <1>5

(* A discussion continues itself, and whatever follows the rounds it has.  *)
LEMMA RoundsContinue ==
  ASSUME NEW rs \in Seq(Round), NEW qs \in Seq(Round), Len(rs) <= Len(qs),
         \A r \in 1..Len(rs) : r < Len(rs) => qs[r].said = rs[r].said,
         \A r \in 1..Len(rs) : Len(rs[r].said) <= Len(qs[r].said)
  PROVE  Continues(rs, qs)
<1>1. Len(rs) \in Nat /\ Len(qs) \in Nat
  OBVIOUS
<1>2. SUFFICES ASSUME NEW r \in 1..Len(rs), NEW a \in 0..Len(rs[r].said)
               PROVE  a <= Len(qs[r].said) /\ Before(qs, r, a) = Before(rs, r, a)
  BY DEF Continues
<1>3. Len(rs[r].said) \in Nat /\ Len(qs[r].said) \in Nat
  <2>1. r \in 1..Len(qs)
    BY <1>1
  <2>2. QED
    BY <2>1, OneRound
<1>4. Len(rs[r].said) <= Len(qs[r].said)
  OBVIOUS
<1>5. a <= Len(qs[r].said)
  BY <1>3, <1>4
<1>6. \A j \in 1..Len(rs) : j < r => qs[j].said = rs[j].said
  BY <1>1
<1>7. QED
  BY <1>5, <1>6, SaidBefore

LEMMA BegunRounds ==
  ASSUME NEW rs \in Seq(Round)
  PROVE  /\ rs = <<>> => Begun(rs) = rs
         /\ rs # <<>> /\ Len(LastRound(rs).said) > 0 => Begun(rs) = rs
         /\ rs # <<>> /\ Len(LastRound(rs).said) = 0 => Begun(rs) = Front(rs)
<1>1. CASE rs = <<>>
  BY <1>1 DEF Begun
<1>2. CASE rs # <<>>
  <2>1. Len(rs) \in 1..Len(rs) /\ Last(rs) = LastRound(rs)
    BY <1>2 DEF Last, LastRound
  <2>2. LastRound(rs).said \in Spoken
    BY <2>1, OneRound DEF LastRound
  <2>3. /\ Len(LastRound(rs).said) \in Nat
        /\ LastRound(rs).said = <<>> <=> Len(LastRound(rs).said) = 0
    BY <2>2, SpokenInTurn
  <2>4. Begun(rs) = IF LastRound(rs).said = <<>> THEN Front(rs) ELSE rs
    BY <1>2, <2>1 DEF Begun
  <2>5. QED
    BY <1>2, <2>3, <2>4
<1>3. QED
  BY <1>1, <1>2

LEMMA WholeRoundsBegun ==
  ASSUME NEW rs \in Seq(Round), rs # <<>> => LastRound(rs).said = RoleOrder
  PROVE  Begun(rs) = rs
<1>1. Len(RoleOrder) > 0
  BY RolesAreThree
<1>2. QED
  BY <1>1, BegunRounds

LEMMA RoundsStayOrderly ==
  ASSUME NEW rs \in Seq(Round), Orderly(rs), NEW x \in Round, NEW qs
  PROVE  /\ /\ qs = Append(rs, x) /\ Len(rs) < MaxRounds
            /\ rs # <<>> => MayFollow(LastRound(rs))
            => Orderly(qs)
         /\ rs # <<>> /\ LastIsNow(rs, qs, x) => Orderly(qs)
<1>0. Len(rs) \in Nat /\ MaxRounds \in Nat /\ (rs # <<>> <=> Len(rs) > 0)
  BY CouncilAssumption
<1>1. ASSUME qs = Append(rs, x), Len(rs) < MaxRounds, rs # <<>> => MayFollow(LastRound(rs))
      PROVE  Orderly(qs)
  <2>1. /\ Len(qs) = Len(rs) + 1
        /\ \A r \in 1..Len(rs) : qs[r] = rs[r]
    BY <1>1, RoundAdded
  <2>2. ASSUME NEW r \in 1..Len(rs) PROVE MayFollow(qs[r])
    <3>1. CASE r = Len(rs)
      BY <1>0, <1>1, <2>1, <3>1 DEF LastRound
    <3>2. CASE r # Len(rs)
      BY <1>0, <2>1, <3>2 DEF Orderly
    <3>3. QED
      BY <3>1, <3>2
  <2>3. Len(qs) <= MaxRounds /\ Len(qs) - 1 = Len(rs)
    BY <1>0, <1>1, <2>1
  <2>4. QED
    BY <2>2, <2>3 DEF Orderly
<1>2. ASSUME rs # <<>>, LastIsNow(rs, qs, x) PROVE Orderly(qs)
  <2>1. /\ Len(qs) = Len(rs)
        /\ \A r \in 1..Len(rs) : r < Len(rs) => qs[r] = rs[r]
    BY <1>2, RoundGoesOn
  <2>2. \A r \in 1..(Len(rs) - 1) : qs[r] = rs[r] /\ MayFollow(rs[r])
    BY <1>0, <2>1 DEF Orderly
  <2>3. QED
    BY <2>1, <2>2 DEF Orderly
<1>3. QED
  BY <1>1, <1>2

(* What _resume_discussion finds, and what it makes of the council.        *)
Entered(c, r, i) ==
  IF r > MaxRounds THEN [c EXCEPT !.at = "closing"]
  ELSE [c EXCEPT !.at = "before", !.round = r, !.index = i,
                 !.rounds = IF Len(@) < r THEN Append(@, NewRound) ELSE @]

(* The council goes on from where its discussion stands.                   *)
GoesOnFrom(c, d) ==
  /\ InPlace(d) /\ d.at \in {"before", "closing"}
  /\ d.opened = Roles /\ d.closed = 0 /\ d.notes = c.notes
  /\ Begun(d.rounds) = Begun(c.rounds) /\ Continues(c.rounds, d.rounds)

Discussed(c) ==
  c \in CouncilRecord /\ c.opened = Roles /\ c.closed = 0 /\ Orderly(c.rounds)

LEMMA ContinuesItself == ASSUME NEW rs \in Seq(Round) PROVE Continues(rs, rs)
<1>1. Len(rs) \in Nat /\ \A r \in 1..Len(rs) : Len(rs[r].said) \in Nat
  BY OneRound
<1>2. QED
  BY <1>1, RoundsContinue

LEMMA ClosesFrom ==
  ASSUME NEW c, Discussed(c), TalkedOut(c.rounds), NEW d, d = [c EXCEPT !.at = "closing"]
  PROVE  GoesOnFrom(c, d)
<1>1. /\ d \in CouncilRecord /\ d.at = "closing" /\ d.opened = Roles /\ d.closed = 0
      /\ d.notes = c.notes /\ d.rounds = c.rounds /\ d.rounds \in Seq(Round)
  BY DEF Discussed, CouncilRecord, CouncilState
<1>2. Roles > 0
  BY RolesAreThree
<1>3. InPlace(d)
  BY <1>1, <1>2 DEF InPlace, Discussed, InRound, Deciding
<1>4. Continues(c.rounds, d.rounds)
  BY <1>1, ContinuesItself
<1>5. QED
  BY <1>1, <1>3, <1>4 DEF GoesOnFrom

LEMMA AnotherRound ==
  ASSUME NEW c, Discussed(c), NEW r \in Nat, NEW i \in Nat, GoesOnAt(c.rounds, r, i),
         r <= MaxRounds, NEW d, d = Entered(c, r, i)
  PROVE  GoesOnFrom(c, d)
<1> DEFINE rs == c.rounds
           qs == IF Len(rs) < r THEN Append(rs, NewRound) ELSE rs
<1>0. /\ rs \in Seq(Round) /\ Len(rs) \in Nat /\ MaxRounds \in Nat /\ Orderly(rs)
      /\ rs # <<>> <=> Len(rs) > 0
  BY CouncilAssumption DEF Discussed, CouncilRecord
<1>1. d = [c EXCEPT !.at = "before", !.round = r, !.index = i, !.rounds = qs]
  BY <1>0 DEF Entered
<1>2. /\ qs \in Seq(Round) /\ Orderly(qs) /\ qs # <<>> /\ r = Len(qs)
      /\ ~ LastRound(qs).held /\ i = Len(LastRound(qs).said) + 1 /\ i <= Roles
      /\ Begun(qs) = Begun(rs) /\ Continues(rs, qs)
  <2>1. CASE /\ r = Len(rs) + 1 /\ i = 1
             /\ rs # <<>> => MayFollow(LastRound(rs))
    <3>1. qs = Append(rs, NewRound) /\ Len(rs) < MaxRounds
      BY <1>0, <2>1
    <3> HIDE DEF qs, rs
    <3>2. /\ qs \in Seq(Round) /\ Len(qs) = Len(rs) + 1 /\ qs # <<>>
          /\ LastRound(qs) = NewRound /\ Front(qs) = rs
          /\ \A j \in 1..Len(rs) : qs[j] = rs[j]
      <4>1. NewRound \in Round
        BY NewRoundIsRound
      <4>2. QED
        BY <1>0, <3>1, <4>1, RoundAdded
    <3>3. Orderly(qs)
      BY <1>0, <2>1, <3>1, NewRoundIsRound, RoundsStayOrderly
    <3>4. Begun(qs) = rs /\ Begun(rs) = rs
      BY <1>0, <2>1, <3>2, NewRoundIsRound, BegunRounds, WholeRoundsBegun DEF MayFollow
    <3>5. Continues(rs, qs)
      <4>1. \A j \in 1..Len(rs) : Len(rs[j].said) \in Nat
        BY <1>0, OneRound
      <4>2. Len(rs) <= Len(qs) /\ \A j \in 1..Len(rs) : Len(rs[j].said) <= Len(qs[j].said)
        BY <1>0, <3>2, <4>1
      <4>3. \A j \in 1..Len(rs) : j < Len(rs) => qs[j].said = rs[j].said
        BY <3>2
      <4>4. QED
        BY <1>0, <3>2, <4>1, <4>2, <4>3, RoundsContinue
    <3>6. i = Len(LastRound(qs).said) + 1 /\ i <= Roles /\ ~ LastRound(qs).held
      BY <2>1, <3>2, NewRoundIsRound, RolesAreThree
    <3>7. QED
      BY <2>1, <3>2, <3>3, <3>4, <3>5, <3>6
  <2>2. CASE /\ r = Len(rs) /\ rs # <<>> /\ ~ LastRound(rs).held
             /\ i = Len(LastRound(rs).said) + 1 /\ i <= Roles
    <3>1. qs = rs
      BY <1>0, <2>2
    <3> HIDE DEF qs, rs
    <3>2. Continues(rs, qs)
      BY <1>0, <3>1, ContinuesItself
    <3>3. QED
      BY <1>0, <2>2, <3>1, <3>2
  <2> HIDE DEF qs, rs
  <2>3. QED
    BY <2>1, <2>2 DEF GoesOnAt, rs
<1> HIDE DEF qs
<1>3. r \in 0..MaxRounds /\ i \in 0..Roles
  <2>1. Roles \in Nat
    BY RolesAreThree
  <2>2. QED
    BY <1>0, <1>2, <2>1
<1>4. /\ d \in CouncilRecord /\ d.at = "before" /\ d.opened = Roles /\ d.closed = 0
      /\ d.notes = c.notes /\ d.rounds = qs /\ d.round = r /\ d.index = i
  <2>1. c \in CouncilRecord /\ c.opened = Roles /\ c.closed = 0
    BY DEF Discussed
  <2>2. "before" \in CouncilState /\ qs \in Seq(Round)
    BY <1>2 DEF CouncilState
  <2>3. d \in CouncilRecord
    BY <1>1, <1>3, <2>1, <2>2 DEF CouncilRecord
  <2>4. QED
    BY <1>1, <2>1, <2>3 DEF CouncilRecord
<1>5. InPlace(d)
  BY <1>2, <1>4 DEF InPlace, InRound, Deciding
<1>6. QED
  BY <1>2, <1>4, <1>5 DEF GoesOnFrom

LEMMA EntersWhereItStood ==
  ASSUME NEW c, Discussed(c), NEW r \in Nat, NEW i \in Nat, GoesOnAt(c.rounds, r, i),
         NEW d, d = Entered(c, r, i)
  PROVE  GoesOnFrom(c, d)
<1>0. Len(c.rounds) \in Nat /\ MaxRounds \in Nat /\ Len(c.rounds) <= MaxRounds
  BY CouncilAssumption DEF Discussed, CouncilRecord, Orderly
<1>1. CASE r <= MaxRounds
  BY <1>1, AnotherRound
<1>2. CASE r > MaxRounds
  <2>1. r = Len(c.rounds) + 1 /\ (c.rounds # <<>> => MayFollow(LastRound(c.rounds)))
    BY <1>0, <1>2 DEF GoesOnAt
  <2>2. TalkedOut(c.rounds)
    BY <1>0, <1>2, <2>1 DEF TalkedOut, MayFollow
  <2>3. d = [c EXCEPT !.at = "closing"]
    BY <1>2 DEF Entered
  <2>4. QED
    BY <2>2, <2>3, ClosesFrom
<1>3. QED
  BY <1>0, <1>1, <1>2

-----------------------------------------------------------------------------
(* Each step of a council is a step of Council, or none.                   *)

Placed(c, s) ==
  InPlace(c) /\ s \in SnapshotRecord /\ (c.at = "paused" => Checkpoint(s))

LEMMA AtWork ==
  ASSUME NEW c, NEW s, c.at # "paused"
  PROVE  /\ View(c, s).opened = c.opened /\ View(c, s).rounds = Begun(c.rounds)
         /\ View(c, s).closed = c.closed
         /\ c.at # "complete" => View(c, s).decided = FALSE
         /\ c.at = "complete" => View(c, s).decided = TRUE
         /\ Kept(c, s).rounds = c.rounds /\ Kept(c, s).notes = c.notes
BY DEF View, Kept

LEMMA Waiting ==
  ASSUME NEW c, NEW s, c.at = "paused"
  PROVE  /\ View(c, s).opened = Roles /\ View(c, s).rounds = Begun(s.rounds)
         /\ View(c, s).closed = c.closed /\ View(c, s).decided = FALSE
         /\ Kept(c, s).rounds = s.rounds /\ Kept(c, s).notes = s.notes
BY DEF View, Kept

(* Council sees nothing of it.                                             *)
LEMMA SameView ==
  ASSUME NEW c, NEW s, NEW d, NEW z,
         View(c, s).opened = View(d, z).opened, View(c, s).rounds = View(d, z).rounds,
         View(c, s).closed = View(d, z).closed, View(c, s).decided = View(d, z).decided
  PROVE  View(d, z) = View(c, s)
BY DEF View

LEMMA StepOpening ==
  ASSUME NEW c, NEW s, Placed(c, s), c.at = "opening", NEW d,
         d = IF c.opened + 1 < Roles THEN [c EXCEPT !.opened = @ + 1]
                                     ELSE [c EXCEPT !.opened = @ + 1, !.at = "gate"]
  PROVE  StepsTo(c, s, d, s)
<1>0. /\ c \in CouncilRecord /\ c.rounds = <<>> /\ c.rounds \in Seq(Round)
      /\ c.closed = 0 /\ c.opened \in Nat /\ c.opened < Roles /\ Roles = 3
  BY RolesAreThree DEF Placed, InPlace, CouncilRecord
<1>1. /\ d \in CouncilRecord /\ d.opened = c.opened + 1 /\ d.rounds = c.rounds
      /\ d.closed = 0 /\ d.notes = c.notes
      /\ d.at = IF c.opened + 1 < Roles THEN "opening" ELSE "gate"
  <2>1. c.opened + 1 \in 0..Roles
    BY <1>0
  <2>2. CASE c.opened + 1 < Roles
    <3>1. d = [c EXCEPT !.opened = c.opened + 1]
      BY <2>2
    <3>2. QED
      BY <1>0, <2>1, <2>2, <3>1 DEF CouncilRecord
  <2>3. CASE ~ (c.opened + 1 < Roles)
    <3>1. d = [c EXCEPT !.opened = c.opened + 1, !.at = "gate"]
      BY <2>3
    <3>2. QED
      BY <1>0, <2>1, <2>3, <3>1 DEF CouncilRecord, CouncilState
  <2>4. QED
    BY <2>2, <2>3
<1>2. d.opened < Roles <=> d.at = "opening"
  BY <1>0, <1>1
<1>3. d.at = "gate" => d.opened = Roles
  BY <1>0, <1>1
<1>4. InPlace(d)
  BY <1>0, <1>1, <1>2, <1>3 DEF InPlace, InRound, Deciding, Placed
<1>5. d.at # "paused" /\ d.at # "complete"
  BY <1>1
<1>6. /\ View(c, s).opened = c.opened /\ View(c, s).rounds = Begun(c.rounds)
      /\ View(c, s).closed = c.closed /\ View(c, s).decided = FALSE
      /\ View(d, s).opened = d.opened /\ View(d, s).rounds = Begun(d.rounds)
      /\ View(d, s).closed = d.closed /\ View(d, s).decided = FALSE
  <2>1. /\ View(c, s).opened = c.opened /\ View(c, s).rounds = Begun(c.rounds)
        /\ View(c, s).closed = c.closed /\ View(c, s).decided = FALSE
    BY AtWork
  <2>2. /\ View(d, s).opened = d.opened /\ View(d, s).rounds = Begun(d.rounds)
        /\ View(d, s).closed = d.closed /\ View(d, s).decided = FALSE
    BY <1>5 DEF View, Kept
  <2>3. QED
    BY <2>1, <2>2
<1>7. AnotherOpening(View(c, s), View(d, s))
  <2>1. View(c, s).opened < Roles
    BY <1>0, <1>6
  <2>2. View(d, s).opened = View(c, s).opened + 1
    BY <1>1, <1>6
  <2>3. View(d, s).rounds = View(c, s).rounds /\ View(d, s).closed = View(c, s).closed
    BY <1>0, <1>1, <1>6
  <2>4. QED
    BY <1>6, <2>1, <2>2, <2>3 DEF AnotherOpening
<1>8. Continues(c.rounds, d.rounds)
  BY <1>0, <1>1, ContinuesItself
<1>9. /\ Kept(c, s).rounds = c.rounds /\ Kept(c, s).notes = c.notes
      /\ Kept(d, s).rounds = d.rounds /\ Kept(d, s).notes = d.notes
  BY <1>5 DEF Kept
<1>10. QED
  BY <1>1, <1>4, <1>5, <1>7, <1>8, <1>9 DEF StepsTo, Advances, Placed

LEMMA StepGoingOn ==
  ASSUME NEW c, NEW s, Placed(c, s), c.at \notin {"paused", "complete"},
         c.opened = Roles, c.closed = 0, NEW d, GoesOnFrom(c, d)
  PROVE  StepsTo(c, s, d, s)
<1>1. d.at # "paused" /\ d.at # "complete"
  BY DEF GoesOnFrom
<1>2. View(d, s) = View(c, s)
  <2>1. /\ View(c, s).opened = c.opened /\ View(c, s).rounds = Begun(c.rounds)
        /\ View(c, s).closed = c.closed /\ View(c, s).decided = FALSE
    BY AtWork
  <2>2. /\ View(d, s).opened = d.opened /\ View(d, s).rounds = Begun(d.rounds)
        /\ View(d, s).closed = d.closed /\ View(d, s).decided = FALSE
    BY <1>1, AtWork
  <2>3. /\ View(c, s).opened = View(d, s).opened /\ View(c, s).rounds = View(d, s).rounds
        /\ View(c, s).closed = View(d, s).closed /\ View(c, s).decided = View(d, s).decided
    BY <2>1, <2>2 DEF GoesOnFrom
  <2>4. QED
    BY <2>3, SameView
<1>3. QED
  BY <1>1, <1>2, AtWork DEF StepsTo, GoesOnFrom, Placed

LEMMA StepEntering ==
  ASSUME NEW c, NEW s, Placed(c, s), NEW d,
         \/ c.at = "gate" /\ (d = Entered(c, 1, 1) \/ d = [c EXCEPT !.at = "closing"])
         \/ /\ c.at = "roundEnd"
            /\ d = IF c.rounds[c.round].news THEN Entered(c, c.round + 1, 1)
                                             ELSE [c EXCEPT !.at = "closing"]
  PROVE  StepsTo(c, s, d, s)
<1>0. Discussed(c) /\ c.rounds \in Seq(Round) /\ Len(c.rounds) \in Nat
  BY DEF Placed, InPlace, InRound, Discussed, CouncilRecord
<1>1. CASE c.at = "gate"
  <2>1. c.rounds = <<>>
    BY <1>1 DEF Placed, InPlace
  <2>2. GoesOnAt(c.rounds, 1, 1) /\ TalkedOut(c.rounds)
    BY <2>1 DEF GoesOnAt, TalkedOut
  <2>3. GoesOnFrom(c, d)
    BY <1>0, <1>1, <2>2, EntersWhereItStood, ClosesFrom
  <2>4. QED
    BY <1>0, <1>1, <2>3, StepGoingOn DEF Discussed
<1>2. CASE c.at = "roundEnd"
  <2>1. /\ c.rounds # <<>> /\ c.round = Len(c.rounds) /\ ~ LastRound(c.rounds).held
        /\ LastRound(c.rounds).said = RoleOrder
    BY <1>2 DEF Placed, InPlace, InRound
  <2>2. LastRound(c.rounds) = c.rounds[c.round]
    BY <2>1 DEF LastRound
  <2>3. CASE c.rounds[c.round].news
    <3>1. MayFollow(LastRound(c.rounds))
      BY <2>1, <2>2, <2>3 DEF MayFollow
    <3>2. GoesOnAt(c.rounds, c.round + 1, 1) /\ c.round + 1 \in Nat
      BY <1>0, <2>1, <3>1 DEF GoesOnAt
    <3>3. d = Entered(c, c.round + 1, 1)
      BY <1>2, <2>3
    <3>4. GoesOnFrom(c, d)
      BY <1>0, <3>2, <3>3, EntersWhereItStood
    <3>5. QED
      BY <1>0, <1>2, <3>4, StepGoingOn DEF Discussed
  <2>4. CASE ~ c.rounds[c.round].news
    <3>1. TalkedOut(c.rounds)
      BY <2>1, <2>2, <2>4 DEF TalkedOut, MayFollow
    <3>2. d = [c EXCEPT !.at = "closing"]
      BY <1>2, <2>4
    <3>3. GoesOnFrom(c, d)
      BY <1>0, <3>1, <3>2, ClosesFrom
    <3>4. QED
      BY <1>0, <1>2, <3>3, StepGoingOn DEF Discussed
  <2>5. QED
    BY <2>3, <2>4
<1>3. QED
  BY <1>1, <1>2

LEMMA StepStill ==
  ASSUME NEW c, NEW s, Placed(c, s), c.at \notin {"paused", "complete"},
         NEW d, InPlace(d), d.at \notin {"paused", "complete"},
         d.opened = c.opened, d.rounds = c.rounds, d.closed = c.closed, d.notes = c.notes
  PROVE  StepsTo(c, s, d, s)
<1>1. /\ View(c, s).opened = c.opened /\ View(c, s).rounds = Begun(c.rounds)
      /\ View(c, s).closed = c.closed /\ View(c, s).decided = FALSE
  BY AtWork
<1>2. /\ View(d, s).opened = d.opened /\ View(d, s).rounds = Begun(d.rounds)
      /\ View(d, s).closed = d.closed /\ View(d, s).decided = FALSE
  BY AtWork
<1>3. /\ View(c, s).opened = View(d, s).opened /\ View(c, s).rounds = View(d, s).rounds
      /\ View(c, s).closed = View(d, s).closed /\ View(c, s).decided = View(d, s).decided
  BY <1>1, <1>2
<1>4. View(d, s) = View(c, s)
  BY <1>3, SameView
<1>5. c.rounds \in Seq(Round)
  BY DEF Placed, InPlace, CouncilRecord
<1>6. /\ Kept(c, s).rounds = c.rounds /\ Kept(c, s).notes = c.notes
      /\ Kept(d, s).rounds = d.rounds /\ Kept(d, s).notes = d.notes
  BY AtWork
<1>7. Continues(Kept(c, s).rounds, Kept(d, s).rounds)
  BY <1>5, <1>6, ContinuesItself
<1>8. QED
  BY <1>4, <1>6, <1>7 DEF StepsTo, Placed

(* A council in a round.                                                   *)
LEMMA RoundInHand ==
  ASSUME NEW c, InPlace(c), c.at \in InRound
  PROVE  /\ c \in CouncilRecord /\ c.rounds \in Seq(Round) /\ c.rounds # <<>>
         /\ Orderly(c.rounds) /\ c.opened = Roles /\ c.closed = 0
         /\ c.round = Len(c.rounds) /\ c.round \in 1..Len(c.rounds)
         /\ c.rounds[c.round] = LastRound(c.rounds) /\ LastRound(c.rounds) \in Round
         /\ ~ LastRound(c.rounds).held
         /\ LastRound(c.rounds).said \in Spoken /\ Len(LastRound(c.rounds).said) \in 0..3
         /\ c.index \in 0..3 /\ c.notes \in Seq(Note)
<1>1. /\ c \in CouncilRecord /\ c.rounds \in Seq(Round) /\ c.rounds # <<>>
      /\ Orderly(c.rounds) /\ c.closed = 0 /\ c.round = Len(c.rounds)
      /\ ~ LastRound(c.rounds).held /\ c.notes \in Seq(Note) /\ c.index \in 0..Roles
  BY DEF InPlace, CouncilRecord
<1>2. c.opened = Roles
  BY DEF InPlace, InRound
<1>3. c.round \in 1..Len(c.rounds) /\ c.rounds[c.round] = LastRound(c.rounds)
  BY <1>1 DEF LastRound
<1>4. c.index \in 0..3
  BY <1>1, RolesAreThree
<1>5. QED
  BY <1>1, <1>2, <1>3, <1>4, OneRound

LEMMA StepAsking ==
  ASSUME NEW c, NEW s, Placed(c, s), c.at = "before", NEW d, d = [c EXCEPT !.at = "speak"]
  PROVE  StepsTo(c, s, d, s)
<1>1. InPlace(c) /\ c.at \in InRound
  BY DEF Placed, InRound
<1>2. /\ d \in CouncilRecord /\ d.at = "speak" /\ d.opened = c.opened /\ d.rounds = c.rounds
      /\ d.closed = c.closed /\ d.notes = c.notes /\ d.round = c.round /\ d.index = c.index
  BY <1>1, RoundInHand DEF CouncilRecord, CouncilState
<1>3. InPlace(d)
  BY <1>1, <1>2 DEF InPlace, InRound, Deciding
<1>4. QED
  BY <1>2, <1>3, StepStill

LEMMA StepToNextRole ==
  ASSUME NEW c, NEW s, Placed(c, s), c.at = "after", NEW d,
         d = IF c.index < Roles THEN [c EXCEPT !.at = "before", !.index = @ + 1]
                                ELSE [c EXCEPT !.at = "roundEnd"]
  PROVE  StepsTo(c, s, d, s)
<1>1. InPlace(c) /\ c.at \in InRound /\ Roles = 3
  BY RolesAreThree DEF Placed, InRound
<1>2. /\ c \in CouncilRecord /\ c.rounds # <<>> /\ c.index = Len(LastRound(c.rounds).said)
      /\ c.index \in 0..3 /\ LastRound(c.rounds).said \in Spoken
  BY <1>1, RoundInHand DEF InPlace
<1>3. CASE c.index < Roles
  <2>1. d = [c EXCEPT !.at = "before", !.index = c.index + 1] /\ c.index + 1 \in 0..Roles
    BY <1>1, <1>2, <1>3
  <2>2. /\ d \in CouncilRecord /\ d.at = "before" /\ d.opened = c.opened /\ d.rounds = c.rounds
        /\ d.closed = c.closed /\ d.notes = c.notes /\ d.round = c.round
        /\ d.index = c.index + 1
    BY <1>2, <2>1 DEF CouncilRecord, CouncilState
  <2>3. InPlace(d)
    BY <1>1, <1>2, <2>2 DEF InPlace, InRound, Deciding
  <2>4. QED
    BY <2>2, <2>3, StepStill
<1>4. CASE ~ (c.index < Roles)
  <2>1. d = [c EXCEPT !.at = "roundEnd"]
    BY <1>4
  <2>2. /\ d \in CouncilRecord /\ d.at = "roundEnd" /\ d.opened = c.opened
        /\ d.rounds = c.rounds /\ d.closed = c.closed /\ d.notes = c.notes
        /\ d.round = c.round
    BY <1>2, <2>1 DEF CouncilRecord, CouncilState
  <2>3. LastRound(c.rounds).said = RoleOrder
    <3>0. c.index \in 0..3 /\ ~ (c.index < 3)
      BY <1>1, <1>2, <1>4
    <3>1. c.index = 3
      BY <3>0
    <3>2. Len(LastRound(c.rounds).said) = 3
      BY <1>2, <3>1
    <3>3. QED
      BY <1>2, <3>2, SpokenInTurn
  <2>4. InPlace(d)
    BY <1>1, <1>2, <2>2, <2>3 DEF InPlace, InRound, Deciding
  <2>5. QED
    BY <2>2, <2>4, StepStill
<1>5. QED
  BY <1>3, <1>4

LEMMA OneMoreSpeaks ==
  ASSUME NEW r \in Round, Len(r.said) < 3, NEW news \in BOOLEAN, NEW x, x = WithSpeaker(r, news)
  PROVE  /\ x \in Round /\ x.held = r.held /\ x.news = (r.news \/ news)
         /\ x.said = Append(r.said, RoleOrder[Len(r.said) + 1])
         /\ Len(x.said) = Len(r.said) + 1
<1> DEFINE q == Append(r.said, RoleOrder[Len(r.said) + 1])
<1>1. r.said \in Spoken
  BY DEF Round
<1>2. q \in Spoken /\ Len(q) = Len(r.said) + 1
  BY <1>1, NextSpeaker
<1>3. x = [r EXCEPT !.said = q, !.news = r.news \/ news]
  BY DEF WithSpeaker, WithPosition
<1> HIDE DEF q
<1>4. x \in Round /\ x.held = r.held /\ x.news = (r.news \/ news) /\ x.said = q
  BY <1>2, <1>3 DEF Round
<1>5. QED
  BY <1>2, <1>4 DEF q

LEMMA FirstSpeaks ==
  ASSUME NEW r \in Round, Len(r.said) = 0, ~ r.held, NEW news \in BOOLEAN
  PROVE  WithSpeaker(r, news)
           = [said |-> <<RoleOrder[1]>>, news |-> WithSpeaker(r, news).news, held |-> FALSE]
<1>1. r.said = <<>>
  BY SpokenInTurn DEF Round
<1>2. PICK x : x = WithSpeaker(r, news)
  OBVIOUS
<1>3. /\ x \in Round /\ x.held = r.held
      /\ x.said = Append(r.said, RoleOrder[Len(r.said) + 1])
  BY <1>2, OneMoreSpeaks
<1>4. x.said = <<RoleOrder[1]>>
  BY <1>1, <1>3
<1>5. x.held = FALSE
  BY <1>3 DEF Round
<1>6. x = [said |-> x.said, news |-> x.news, held |-> x.held]
  BY <1>3 DEF Round
<1>7. QED
  BY <1>2, <1>4, <1>5, <1>6

LEMMA DiscussionSpeaks ==
  ASSUME NEW rs \in Seq(Round), rs # <<>>, Orderly(rs), ~ LastRound(rs).held,
         Len(LastRound(rs).said) < 3, NEW news \in BOOLEAN,
         NEW qs, LastIsNow(rs, qs, WithSpeaker(LastRound(rs), news))
  PROVE  /\ qs \in Seq(Round) /\ qs # <<>> /\ Len(qs) = Len(rs) /\ Orderly(qs)
         /\ ~ LastRound(qs).held /\ Len(LastRound(qs).said) = Len(LastRound(rs).said) + 1
         /\ DiscussionGoesOn(Begun(rs), Begun(qs)) /\ Continues(rs, qs)
<1> DEFINE r == LastRound(rs)
           x == WithSpeaker(r, news)
<1>0. /\ Len(rs) \in Nat /\ Len(rs) \in 1..Len(rs) /\ MaxRounds \in Nat
      /\ Len(rs) <= MaxRounds
  BY CouncilAssumption DEF Orderly
<1>1. r \in Round /\ r.said \in Spoken /\ Len(r.said) \in 0..3 /\ r = rs[Len(rs)]
  BY <1>0, OneRound DEF LastRound
<1>2. /\ x \in Round /\ x.held = r.held
      /\ x.said = Append(r.said, RoleOrder[Len(r.said) + 1]) /\ Len(x.said) = Len(r.said) + 1
  BY <1>1, OneMoreSpeaks
<1>3. /\ qs \in Seq(Round) /\ Len(qs) = Len(rs) /\ qs # <<>>
      /\ LastRound(qs) = x /\ Front(qs) = Front(rs)
      /\ \A j \in 1..Len(rs) : j < Len(rs) => qs[j] = rs[j]
  BY <1>2, RoundGoesOn
<1>4. Orderly(qs)
  BY <1>2, RoundsStayOrderly
<1> HIDE DEF x, r
<1>5. Begun(qs) = qs
  <2>1. Len(LastRound(qs).said) > 0
    BY <1>1, <1>2, <1>3
  <2>2. QED
    BY <1>3, <2>1, BegunRounds
<1>6. DiscussionGoesOn(Begun(rs), Begun(qs))
  <2>1. CASE Len(r.said) = 0
    <3> DEFINE ps == Front(rs)
    <3>1. /\ ps \in Seq(Round) /\ Len(ps) = Len(rs) - 1
          /\ \A j \in 1..(Len(rs) - 1) : ps[j] = rs[j]
      BY RoundsBeforeTheLast
    <3>2. Begun(rs) = ps
      BY <2>1, BegunRounds DEF r
    <3> HIDE DEF ps
    <3>3. Len(ps) < MaxRounds /\ (ps # <<>> => MayFollow(LastRound(ps)))
      <4>1. Len(ps) \in Nat /\ Len(ps) < MaxRounds
        BY <1>0, <3>1
      <4>2. ASSUME ps # <<>> PROVE MayFollow(LastRound(ps))
        <5>1. Len(ps) \in 1..(Len(rs) - 1)
          BY <1>0, <3>1, <4>2
        <5>2. LastRound(ps) = rs[Len(ps)]
          BY <3>1, <5>1 DEF LastRound
        <5>3. QED
          BY <5>1, <5>2 DEF Orderly
      <4>3. QED
        BY <4>1, <4>2
    <3>4. qs = Append(ps, x)
      <4> DEFINE ys == Append(ps, x)
      <4>1. /\ ys \in Seq(Round) /\ Len(ys) = Len(rs) /\ ys[Len(rs)] = x
            /\ \A j \in 1..(Len(rs) - 1) : ys[j] = ps[j]
        BY <1>0, <1>2, <3>1
      <4> HIDE DEF ys
      <4>2. qs[Len(rs)] = x
        BY <1>3 DEF LastRound
      <4>3. \A j \in 1..Len(rs) : qs[j] = ys[j]
        <5> TAKE j \in 1..Len(rs)
        <5>1. CASE j = Len(rs)
          BY <4>1, <4>2, <5>1
        <5>2. CASE j # Len(rs)
          <6>1. j \in 1..(Len(rs) - 1) /\ j < Len(rs)
            BY <1>0, <5>2
          <6>2. QED
            BY <1>3, <3>1, <4>1, <6>1
        <5>3. QED
          BY <5>1, <5>2
      <4>4. QED
        BY <1>3, <4>1, <4>3, SeqEqual DEF ys
    <3>5. x = [said |-> <<RoleOrder[1]>>, news |-> x.news, held |-> FALSE]
      BY <1>1, <2>1, FirstSpeaks DEF x, r
    <3>6. x.news \in BOOLEAN
      BY <1>2 DEF Round
    <3>7. QED
      BY <1>5, <3>2, <3>3, <3>4, <3>5, <3>6 DEF DiscussionGoesOn
  <2>2. CASE Len(r.said) > 0
    <3>1. Begun(rs) = rs
      BY <2>2, BegunRounds DEF r
    <3>2. LastRound(rs).said # RoleOrder
      <4>1. Len(RoleOrder) = 3 /\ ~ (3 < 3)
        BY RolesAreThree
      <4>2. ASSUME LastRound(rs).said = RoleOrder PROVE FALSE
        <5>1. Len(LastRound(rs).said) = 3
          BY <4>1, <4>2
        <5>2. QED
          BY <4>1, <5>1
      <4>3. QED
        BY <4>2
    <3>3. QED
      BY <1>5, <3>1, <3>2 DEF DiscussionGoesOn
  <2>3. QED
    BY <1>1, <2>1, <2>2
<1>7. Continues(rs, qs)
  <2>1. \A j \in 1..Len(rs) : Len(rs[j].said) <= Len(qs[j].said)
    <3> TAKE j \in 1..Len(rs)
    <3>1. Len(rs[j].said) \in Nat
      BY OneRound
    <3>2. CASE j = Len(rs)
      <4>1. rs[j] = r /\ qs[j] = x
        BY <1>1, <1>3, <3>2 DEF LastRound
      <4>2. QED
        BY <1>1, <1>2, <4>1
    <3>3. CASE j # Len(rs)
      BY <1>0, <1>3, <3>1, <3>3
    <3>4. QED
      BY <3>2, <3>3
  <2>2. QED
    BY <1>3, <2>1, RoundsContinue
<1>8. ~ LastRound(qs).held /\ Len(LastRound(qs).said) = Len(LastRound(rs).said) + 1
  BY <1>2, <1>3 DEF r
<1>9. QED
  BY <1>3, <1>4, <1>6, <1>7, <1>8

LEMMA StepDiscussing ==
  ASSUME NEW c, NEW s, Placed(c, s), c.at \notin {"paused", "complete"},
         c.opened = Roles, c.closed = 0,
         NEW d, InPlace(d), d.at \notin {"paused", "complete"},
         d.opened = Roles, d.closed = 0, d.notes = c.notes,
         DiscussionGoesOn(Begun(c.rounds), Begun(d.rounds)), Continues(c.rounds, d.rounds)
  PROVE  StepsTo(c, s, d, s)
<1>1. /\ View(c, s).opened = c.opened /\ View(c, s).rounds = Begun(c.rounds)
      /\ View(c, s).closed = c.closed /\ View(c, s).decided = FALSE
      /\ Kept(c, s).rounds = c.rounds /\ Kept(c, s).notes = c.notes
  BY AtWork
<1>2. /\ View(d, s).opened = d.opened /\ View(d, s).rounds = Begun(d.rounds)
      /\ View(d, s).closed = d.closed /\ View(d, s).decided = FALSE
      /\ Kept(d, s).rounds = d.rounds /\ Kept(d, s).notes = d.notes
  BY AtWork
<1>3. Discusses(View(c, s), View(d, s))
  BY <1>1, <1>2 DEF Discusses
<1>4. QED
  BY <1>1, <1>2, <1>3 DEF StepsTo, Advances, Placed

LEMMA StepSpeaking ==
  ASSUME NEW c, NEW s, Placed(c, s), c.at = "speak", NEW news \in BOOLEAN, NEW d,
         d = [c EXCEPT !.at = "after",
                !.rounds[c.round] = WithPosition(@, RoleOrder[c.index], news)]
  PROVE  StepsTo(c, s, d, s)
<1> DEFINE rs == c.rounds
           r  == LastRound(rs)
           qs == [rs EXCEPT ![Len(rs)] = WithSpeaker(r, news)]
<1>1. InPlace(c) /\ c.at \in InRound /\ Roles = 3
  BY RolesAreThree DEF Placed, InRound
<1>2. /\ c \in CouncilRecord /\ rs \in Seq(Round) /\ rs # <<>> /\ Orderly(rs)
      /\ c.opened = Roles /\ c.closed = 0 /\ c.round = Len(rs) /\ rs[c.round] = r
      /\ ~ r.held /\ Len(r.said) \in 0..3 /\ c.index \in 0..3
  BY <1>1, RoundInHand
<1>3. c.index = Len(r.said) + 1
  BY <1>1 DEF InPlace
<1>4. Len(r.said) < 3
  BY <1>2, <1>3
<1>5. d = [c EXCEPT !.at = "after", !.rounds = qs]
  <2>1. WithSpeaker(r, news) = WithPosition(rs[c.round], RoleOrder[c.index], news)
    BY <1>2, <1>3 DEF WithSpeaker
  <2>2. d = [c EXCEPT !.at = "after", !.rounds = [rs EXCEPT ![c.round] =
               WithPosition(rs[c.round], RoleOrder[c.index], news)]]
    OBVIOUS
  <2>3. QED
    BY <1>2, <2>1, <2>2
<1>6. /\ qs \in Seq(Round) /\ qs # <<>> /\ Len(qs) = Len(rs) /\ Orderly(qs)
      /\ ~ LastRound(qs).held /\ Len(LastRound(qs).said) = Len(r.said) + 1
      /\ DiscussionGoesOn(Begun(rs), Begun(qs)) /\ Continues(rs, qs)
  BY <1>2, <1>4, DiscussionSpeaks DEF LastIsNow
<1> HIDE DEF qs
<1>7. /\ d \in CouncilRecord /\ d.at = "after" /\ d.opened = Roles /\ d.rounds = qs
      /\ d.closed = 0 /\ d.notes = c.notes /\ d.round = c.round /\ d.index = c.index
  BY <1>2, <1>5, <1>6 DEF CouncilRecord, CouncilState
<1>8. c.index > 0
  BY <1>2, <1>3
<1> HIDE DEF r, rs
<1>9. InPlace(d)
  BY <1>2, <1>3, <1>6, <1>7, <1>8 DEF InPlace, InRound, Deciding
<1>10. DiscussionGoesOn(Begun(c.rounds), Begun(d.rounds)) /\ Continues(c.rounds, d.rounds)
  BY <1>6, <1>7 DEF rs
<1>11. d.at \notin {"paused", "complete"}
  BY <1>7
<1>12. QED
  BY <1>2, <1>7, <1>9, <1>10, <1>11, StepDiscussing

(* The council is put away: its discussion is kept, or its last round is   *)
(* held.                                                                   *)
Held(rs) == [rs EXCEPT ![Len(rs)].held = TRUE]

LEMMA DiscussionHeld ==
  ASSUME NEW rs \in Seq(Round), rs # <<>>, Orderly(rs), LastRound(rs).said = RoleOrder,
         NEW qs, qs = Held(rs)
  PROVE  /\ qs \in Seq(Round) /\ qs # <<>> /\ Len(qs) = Len(rs) /\ Orderly(qs)
         /\ LastRound(qs).said = RoleOrder /\ LastRound(qs).held
         /\ DiscussionGoesOn(Begun(rs), Begun(qs)) /\ Continues(rs, qs)
<1> DEFINE r == LastRound(rs)
           x == [r EXCEPT !.held = TRUE]
<1>0. Len(rs) \in 1..Len(rs) /\ Len(rs) \in Nat
  OBVIOUS
<1>1. r \in Round /\ r = rs[Len(rs)]
  BY <1>0, OneRound DEF LastRound
<1>2. x \in Round /\ x.said = r.said /\ x.held
  BY <1>1 DEF Round
<1>3. LastIsNow(rs, qs, x)
  BY <1>1 DEF LastIsNow, Held
<1> HIDE DEF x
<1>4. /\ qs \in Seq(Round) /\ Len(qs) = Len(rs) /\ qs # <<>> /\ LastRound(qs) = x
      /\ \A j \in 1..Len(rs) : j < Len(rs) => qs[j] = rs[j]
  BY <1>2, <1>3, RoundGoesOn
<1>5. Orderly(qs)
  BY <1>2, <1>3, RoundsStayOrderly
<1>6. Begun(qs) = qs /\ Begun(rs) = rs
  BY <1>2, <1>4, WholeRoundsBegun
<1>7. DiscussionGoesOn(Begun(rs), Begun(qs))
  BY <1>3, <1>6 DEF DiscussionGoesOn, x
<1>8. Continues(rs, qs)
  <2>1. \A j \in 1..Len(rs) : Len(rs[j].said) <= Len(qs[j].said)
    <3> TAKE j \in 1..Len(rs)
    <3>1. Len(rs[j].said) \in Nat
      BY OneRound
    <3>2. CASE j = Len(rs)
      BY <1>1, <1>2, <1>4, <3>1, <3>2 DEF LastRound
    <3>3. CASE j # Len(rs)
      BY <1>0, <1>4, <3>1, <3>3
    <3>4. QED
      BY <3>2, <3>3
  <2>2. QED
    BY <1>4, <2>1, RoundsContinue
<1>9. QED
  BY <1>2, <1>4, <1>5, <1>7, <1>8

PutAway(c, rounds, r, i) ==
  [rounds |-> rounds, notes |-> c.notes, round |-> c.round,
   after |-> Len(c.rounds[c.round].said), nextRound |-> r, nextIndex |-> i]

LEMMA CouncilTyping ==
  ASSUME NEW a \in CouncilState, NEW o \in 0..Roles, NEW rs \in Seq(Round),
         NEW r \in 0..MaxRounds, NEW i \in 0..Roles, NEW k \in 0..Roles, NEW ns \in Seq(Note)
  PROVE  [at |-> a, opened |-> o, rounds |-> rs, round |-> r, index |-> i,
          closed |-> k, notes |-> ns] \in CouncilRecord
BY DEF CouncilRecord

LEMMA PausedCouncil ==
  ASSUME NEW d, d = [NewCouncil EXCEPT !.at = "paused"]
  PROVE  /\ InPlace(d) /\ d.at = "paused" /\ d.closed = 0
<1>1. d = [at |-> "paused", opened |-> 0, rounds |-> <<>>, round |-> 0, index |-> 0,
           closed |-> 0, notes |-> <<>>]
  BY DEF NewCouncil
<1>2. /\ d.at = "paused" /\ d.opened = 0 /\ d.rounds = <<>> /\ d.round = 0 /\ d.index = 0
      /\ d.closed = 0 /\ d.notes = <<>>
  BY <1>1
<1>3. /\ 0 \in 0..Roles /\ 0 \in 0..MaxRounds /\ <<>> \in Seq(Round) /\ <<>> \in Seq(Note)
      /\ 0 < Roles /\ MaxRounds \in Nat
  BY CouncilAssumption, RolesAreThree
<1>4. "paused" \in CouncilState
  BY DEF CouncilState
<1>5. d \in CouncilRecord
  <2>1. \A rs \in Seq(Round), ns \in Seq(Note) :
          [at |-> "paused", opened |-> 0, rounds |-> rs, round |-> 0, index |-> 0,
           closed |-> 0, notes |-> ns] \in CouncilRecord
    BY <1>3, <1>4, CouncilTyping
  <2>2. QED
    BY <1>1, <1>3, <2>1, Zenon
<1>6. Orderly(<<>>)
  BY <1>3 DEF Orderly
<1>7. InPlace(d)
  BY <1>2, <1>3, <1>5, <1>6 DEF InPlace, InRound, Deciding
<1>8. QED
  BY <1>2, <1>7

(* Putting the council away is a step, as long as what is kept of it is.   *)
LEMMA StepAway ==
  ASSUME NEW c, NEW s, Placed(c, s), c.at \notin {"paused", "complete"},
         c.opened = Roles, c.closed = 0,
         NEW d, InPlace(d), d.at = "paused", d.closed = 0,
         NEW z \in SnapshotRecord, Checkpoint(z), z.notes = c.notes,
         \/ Begun(z.rounds) = Begun(c.rounds)
         \/ DiscussionGoesOn(Begun(c.rounds), Begun(z.rounds)),
         Continues(c.rounds, z.rounds)
  PROVE  StepsTo(c, s, d, z)
<1>1. /\ View(c, s).opened = c.opened /\ View(c, s).rounds = Begun(c.rounds)
      /\ View(c, s).closed = c.closed /\ View(c, s).decided = FALSE
      /\ Kept(c, s).rounds = c.rounds /\ Kept(c, s).notes = c.notes
  BY AtWork
<1>2. /\ View(d, z).opened = Roles /\ View(d, z).rounds = Begun(z.rounds)
      /\ View(d, z).closed = d.closed /\ View(d, z).decided = FALSE
      /\ Kept(d, z).rounds = z.rounds /\ Kept(d, z).notes = z.notes
  BY Waiting
<1>3. View(d, z) = View(c, s) \/ Discusses(View(c, s), View(d, z))
  <2>1. CASE Begun(z.rounds) = Begun(c.rounds)
    <3>1. /\ View(c, s).opened = View(d, z).opened /\ View(c, s).rounds = View(d, z).rounds
          /\ View(c, s).closed = View(d, z).closed /\ View(c, s).decided = View(d, z).decided
      BY <1>1, <1>2, <2>1
    <3>2. QED
      BY <3>1, SameView
  <2>2. CASE DiscussionGoesOn(Begun(c.rounds), Begun(z.rounds))
    BY <1>1, <1>2, <2>2 DEF Discusses
  <2>3. QED
    BY <2>1, <2>2
<1>4. QED
  BY <1>1, <1>2, <1>3 DEF StepsTo, Advances

LEMMA StepPausing ==
  ASSUME NEW c, NEW s, Placed(c, s), c.at \in InRound, NEW r \in Nat, NEW i \in Nat,
         NEW held \in BOOLEAN, held => LastRound(c.rounds).said = RoleOrder,
         NEW rounds, rounds = IF held THEN Held(c.rounds) ELSE c.rounds,
         GoesOnAt(rounds, r, i), r <= MaxRounds + 1,
         NEW d, d = [NewCouncil EXCEPT !.at = "paused"],
         NEW z, z = PutAway(c, rounds, r, i)
  PROVE  StepsTo(c, s, d, z)
<1>1. InPlace(c)
  BY DEF Placed
<1>2. /\ c \in CouncilRecord /\ c.rounds \in Seq(Round) /\ c.rounds # <<>> /\ Orderly(c.rounds)
      /\ c.opened = Roles /\ c.closed = 0 /\ c.round = Len(c.rounds) /\ c.round \in Nat
      /\ c.rounds[c.round] = LastRound(c.rounds)
      /\ Len(LastRound(c.rounds).said) \in 0..3 /\ c.notes \in Seq(Note)
  BY <1>1, RoundInHand
<1>3. /\ rounds \in Seq(Round) /\ rounds # <<>> /\ Len(rounds) = Len(c.rounds)
      /\ Orderly(rounds) /\ LastRound(rounds).said = LastRound(c.rounds).said
      /\ Begun(rounds) = Begun(c.rounds) \/ DiscussionGoesOn(Begun(c.rounds), Begun(rounds))
      /\ Continues(c.rounds, rounds)
  <2>1. CASE held
    BY <1>2, <2>1, DiscussionHeld
  <2>2. CASE ~ held
    BY <1>2, <2>2, ContinuesItself
  <2>3. QED
    BY <2>1, <2>2
<1>4. /\ z.rounds = rounds /\ z.notes = c.notes /\ z.round = Len(rounds)
      /\ z.after = Len(LastRound(rounds).said) /\ z.nextRound = r /\ z.nextIndex = i
  BY <1>2, <1>3 DEF PutAway
<1>5. z \in SnapshotRecord
  <2>1. MaxRounds \in Nat
    BY CouncilAssumption
  <2>2. r \in 0..MaxRounds + 1 /\ Len(LastRound(c.rounds).said) \in Nat
    BY <1>2, <2>1
  <2>3. QED
    BY <1>2, <1>3, <2>2 DEF SnapshotRecord, PutAway
<1>6. Checkpoint(z)
  BY <1>3, <1>4 DEF Checkpoint
<1>7. InPlace(d) /\ d.at = "paused" /\ d.closed = 0
  BY PausedCouncil
<1>8. c.at \notin {"paused", "complete"}
  BY DEF InRound
<1>9. QED
  BY <1>2, <1>3, <1>4, <1>5, <1>6, <1>7, <1>8, StepAway

LEMMA StepToClosed ==
  ASSUME NEW c, NEW s, Placed(c, s), c.at = "closing",
         NEW d, InPlace(d), d.at \notin {"paused", "complete"},
         d.opened = Roles, d.rounds = c.rounds, d.notes = c.notes, d.closed = c.closed + 1
  PROVE  StepsTo(c, s, d, s)
<1>1. /\ View(c, s).opened = c.opened /\ View(c, s).rounds = Begun(c.rounds)
      /\ View(c, s).closed = c.closed /\ View(c, s).decided = FALSE
      /\ Kept(c, s).rounds = c.rounds /\ Kept(c, s).notes = c.notes
  BY AtWork
<1>2. /\ View(d, s).opened = d.opened /\ View(d, s).rounds = Begun(d.rounds)
      /\ View(d, s).closed = d.closed /\ View(d, s).decided = FALSE
      /\ Kept(d, s).rounds = d.rounds /\ Kept(d, s).notes = d.notes
  BY AtWork
<1>3. /\ c.opened = Roles /\ c.closed < Roles /\ TalkedOut(c.rounds)
      /\ c.rounds \in Seq(Round)
  BY DEF Placed, InPlace, CouncilRecord
<1>4. Begun(c.rounds) = c.rounds
  BY <1>3, WholeRoundsBegun DEF TalkedOut
<1>5. AnotherClosing(View(c, s), View(d, s))
  BY <1>1, <1>2, <1>3, <1>4 DEF AnotherClosing
<1>6. Continues(c.rounds, d.rounds)
  BY <1>3, ContinuesItself
<1>7. QED
  BY <1>1, <1>2, <1>5, <1>6 DEF StepsTo, Advances, Placed

LEMMA StepToDecided ==
  ASSUME NEW c, NEW s, Placed(c, s), c.at = "arbiter", c.closed = Roles,
         c.rounds \in Seq(Round),
         NEW d, InPlace(d), d.at = "complete",
         d.opened = c.opened, d.rounds = c.rounds, d.notes = c.notes, d.closed = c.closed
  PROVE  StepsTo(c, s, d, s)
<1>1. /\ View(c, s).opened = c.opened /\ View(c, s).rounds = Begun(c.rounds)
      /\ View(c, s).closed = c.closed /\ View(c, s).decided = FALSE
      /\ Kept(c, s).rounds = c.rounds /\ Kept(c, s).notes = c.notes
  BY AtWork
<1>2. /\ View(d, s).opened = d.opened /\ View(d, s).rounds = Begun(d.rounds)
      /\ View(d, s).closed = d.closed /\ View(d, s).decided = TRUE
      /\ Kept(d, s).rounds = d.rounds /\ Kept(d, s).notes = d.notes
  BY AtWork
<1>3. TheVerdict(View(c, s), View(d, s))
  BY <1>1, <1>2 DEF TheVerdict
<1>4. Continues(c.rounds, d.rounds)
  BY ContinuesItself
<1>5. QED
  BY <1>1, <1>2, <1>3, <1>4 DEF StepsTo, Advances, Placed

LEMMA StepClosing ==
  ASSUME NEW c, NEW s, Placed(c, s), c.at = "closing", NEW d,
         d = [c EXCEPT !.closed = @ + 1,
                       !.at = IF c.closed + 1 < Roles THEN "closing" ELSE "arbiter"]
  PROVE  StepsTo(c, s, d, s)
<1>1. InPlace(c) /\ Roles = 3
  BY RolesAreThree DEF Placed
<1>2. /\ c \in CouncilRecord /\ c.rounds \in Seq(Round) /\ Orderly(c.rounds)
      /\ c.opened = Roles /\ TalkedOut(c.rounds) /\ c.closed \in Nat /\ c.closed < Roles
  BY <1>1 DEF InPlace, CouncilRecord
<1>3. PICK at : at = IF c.closed + 1 < Roles THEN "closing" ELSE "arbiter"
  OBVIOUS
<1>4. at \in CouncilState /\ at \in {"closing", "arbiter"} /\ c.closed + 1 \in 0..Roles
  BY <1>1, <1>2, <1>3 DEF CouncilState
<1>5. at = "closing" => c.closed + 1 < Roles
  BY <1>3
<1>6. at = "arbiter" => c.closed + 1 = Roles
  BY <1>1, <1>2, <1>3
<1>7. d = [c EXCEPT !.closed = c.closed + 1, !.at = at]
  BY <1>3
<1>8. /\ d \in CouncilRecord /\ d.at = at /\ d.opened = Roles /\ d.rounds = c.rounds
      /\ d.closed = c.closed + 1 /\ d.notes = c.notes
  BY <1>2, <1>4, <1>7 DEF CouncilRecord
<1>9. InPlace(d)
  BY <1>2, <1>4, <1>5, <1>6, <1>8 DEF InPlace, InRound, Deciding
<1>10. d.at \notin {"paused", "complete"}
  BY <1>4, <1>8
<1>11. QED
  BY <1>2, <1>8, <1>9, <1>10, StepToClosed

LEMMA StepDeciding ==
  ASSUME NEW c, NEW s, Placed(c, s), c.at = "arbiter", NEW d, d = [c EXCEPT !.at = "complete"]
  PROVE  StepsTo(c, s, d, s)
<1>1. /\ c \in CouncilRecord /\ c.rounds \in Seq(Round) /\ Orderly(c.rounds)
      /\ c.opened = Roles /\ TalkedOut(c.rounds) /\ c.closed = Roles
  BY DEF Placed, InPlace, Deciding, CouncilRecord
<1>2. /\ d \in CouncilRecord /\ d.at = "complete" /\ d.opened = c.opened
      /\ d.rounds = c.rounds /\ d.closed = c.closed /\ d.notes = c.notes
  BY <1>1 DEF CouncilRecord, CouncilState
<1>3. InPlace(d)
  BY <1>1, <1>2 DEF InPlace, InRound, Deciding
<1>4. QED
  BY <1>1, <1>2, <1>3, StepToDecided

LEMMA SnapshotTyping ==
  ASSUME NEW rs \in Seq(Round), NEW ns \in Seq(Note), NEW r \in Nat, NEW a \in Nat,
         NEW nr \in 0..MaxRounds + 1, NEW ni \in Nat
  PROVE  [rounds |-> rs, notes |-> ns, round |-> r, after |-> a,
          nextRound |-> nr, nextIndex |-> ni] \in SnapshotRecord
BY DEF SnapshotRecord

LEMMA NoSnapshotIsTyped == NoSnapshot \in SnapshotRecord
<1>1. <<>> \in Seq(Round) /\ <<>> \in Seq(Note) /\ 0 \in 0..MaxRounds + 1
  BY CouncilAssumption
<1>2. \A rs \in Seq(Round), ns \in Seq(Note) :
        [rounds |-> rs, notes |-> ns, round |-> 0, after |-> 0,
         nextRound |-> 0, nextIndex |-> 0] \in SnapshotRecord
  BY <1>1, SnapshotTyping
<1>3. QED
  BY <1>1, <1>2, Zenon DEF NoSnapshot

(* The council is called, and called again.                                *)
LEMMA StepBeginning ==
  ASSUME NEW c, NEW s, Placed(c, s), c.at = "idle", NEW d, d = [NewCouncil EXCEPT !.at = "opening"]
  PROVE  StepsTo(c, s, d, s)
<1>1. d = [at |-> "opening", opened |-> 0, rounds |-> <<>>, round |-> 0, index |-> 0,
           closed |-> 0, notes |-> <<>>]
  BY DEF NewCouncil
<1>2. /\ d.at = "opening" /\ d.opened = 0 /\ d.rounds = <<>> /\ d.closed = 0 /\ d.notes = <<>>
  BY <1>1
<1>3. /\ 0 \in 0..Roles /\ 0 \in 0..MaxRounds /\ <<>> \in Seq(Round) /\ <<>> \in Seq(Note)
      /\ 0 < Roles /\ MaxRounds \in Nat
  BY CouncilAssumption, RolesAreThree
<1>4. "opening" \in CouncilState
  BY DEF CouncilState
<1>5. d \in CouncilRecord
  <2>1. \A rs \in Seq(Round), ns \in Seq(Note) :
          [at |-> "opening", opened |-> 0, rounds |-> rs, round |-> 0, index |-> 0,
           closed |-> 0, notes |-> ns] \in CouncilRecord
    BY <1>3, <1>4, CouncilTyping
  <2>2. QED
    BY <1>1, <1>3, <2>1, Zenon
<1>6. Orderly(<<>>)
  BY <1>3 DEF Orderly
<1>7. InPlace(d)
  BY <1>2, <1>3, <1>5, <1>6 DEF InPlace, InRound, Deciding
<1>8. c.opened = 0 /\ c.rounds = <<>> /\ c.closed = 0 /\ c.notes = <<>>
  BY DEF Placed, InPlace
<1>9. d.at \notin {"paused", "complete"} /\ c.at \notin {"paused", "complete"}
  BY <1>2
<1>10. QED
  BY <1>2, <1>7, <1>8, <1>9, StepStill

LEMMA StepTakingUp ==
  ASSUME NEW c, NEW s, Placed(c, s), c.at = "paused", NEW e, NEW d, GoesOnFrom(e, d),
         e.rounds = s.rounds, e.notes = s.notes,
         NEW z \in SnapshotRecord
  PROVE  StepsTo(c, s, d, z)
<1>1. /\ View(c, s).opened = Roles /\ View(c, s).rounds = Begun(s.rounds)
      /\ View(c, s).closed = c.closed /\ View(c, s).decided = FALSE
      /\ Kept(c, s).rounds = s.rounds /\ Kept(c, s).notes = s.notes
  BY Waiting
<1>2. d.at \notin {"paused", "complete"}
  BY DEF GoesOnFrom
<1>3. /\ View(d, z).opened = d.opened /\ View(d, z).rounds = Begun(d.rounds)
      /\ View(d, z).closed = d.closed /\ View(d, z).decided = FALSE
      /\ Kept(d, z).rounds = d.rounds /\ Kept(d, z).notes = d.notes
  BY <1>2, AtWork
<1>4. c.closed = 0
  BY DEF Placed, InPlace
<1>5. /\ View(c, s).opened = View(d, z).opened /\ View(c, s).rounds = View(d, z).rounds
      /\ View(c, s).closed = View(d, z).closed /\ View(c, s).decided = View(d, z).decided
  BY <1>1, <1>3, <1>4 DEF GoesOnFrom
<1>6. View(d, z) = View(c, s)
  BY <1>5, SameView
<1>7. QED
  BY <1>1, <1>2, <1>3, <1>6 DEF StepsTo, GoesOnFrom

LEMMA NewCouncilIsTyped == NewCouncil \in CouncilRecord /\ NewCouncil.closed = 0
<1>1. /\ 0 \in 0..Roles /\ 0 \in 0..MaxRounds /\ <<>> \in Seq(Round) /\ <<>> \in Seq(Note)
  BY CouncilAssumption, RolesAreThree
<1>2. "idle" \in CouncilState
  BY DEF CouncilState
<1>3. \A rs \in Seq(Round), ns \in Seq(Note) :
        [at |-> "idle", opened |-> 0, rounds |-> rs, round |-> 0, index |-> 0,
         closed |-> 0, notes |-> ns] \in CouncilRecord
  BY <1>1, <1>2, CouncilTyping
<1>4. NewCouncil \in CouncilRecord
  BY <1>1, <1>3, Zenon DEF NewCouncil
<1>5. NewCouncil.closed = 0
  BY DEF NewCouncil
<1>6. QED
  BY <1>4, <1>5

LEMMA RestoredCouncil ==
  ASSUME NEW s, NEW notes \in Seq(Note), s.rounds \in Seq(Round), NEW e, e = Restored(s, notes)
  PROVE  /\ e \in CouncilRecord /\ e.opened = Roles /\ e.rounds = s.rounds
         /\ e.closed = 0 /\ e.notes = notes
<1>1. Roles \in 0..Roles
  BY RolesAreThree
<1>2. QED
  BY <1>1, NewCouncilIsTyped DEF Restored, CouncilRecord

LEMMA StepResuming ==
  ASSUME NEW c, NEW s, Placed(c, s), c.at = "paused", NEW d,
         d = Entered(Restored(s, s.notes), s.nextRound, s.nextIndex)
  PROVE  StepsTo(c, s, d, NoSnapshot)
<1> DEFINE e == Restored(s, s.notes)
<1>1. /\ s.rounds \in Seq(Round) /\ s.notes \in Seq(Note)
      /\ s.nextRound \in 0..MaxRounds + 1 /\ s.nextIndex \in Nat /\ MaxRounds \in Nat
      /\ Orderly(s.rounds) /\ GoesOnAt(s.rounds, s.nextRound, s.nextIndex)
  BY CouncilAssumption DEF Placed, SnapshotRecord, Checkpoint
<1>2. /\ e \in CouncilRecord /\ e.opened = Roles /\ e.rounds = s.rounds
      /\ e.closed = 0 /\ e.notes = s.notes
  BY <1>1, RestoredCouncil
<1>3. Discussed(e)
  BY <1>1, <1>2 DEF Discussed
<1>4. s.nextRound \in Nat
  BY <1>1
<1> HIDE DEF e
<1>5. GoesOnFrom(e, d)
  BY <1>1, <1>2, <1>3, <1>4, EntersWhereItStood DEF e
<1>6. NoSnapshot \in SnapshotRecord
  BY NoSnapshotIsTyped
<1>7. QED
  BY <1>2, <1>5, <1>6, StepTakingUp

-----------------------------------------------------------------------------
(* The steps of a council, as they are taken.                              *)

MovesTo(t, d, z) ==
  /\ council' = [council EXCEPT ![t] = d]
  /\ snapshot' = [snapshot EXCEPT ![t] = z]
  /\ StepsTo(council[t], snapshot[t], d, z)

CouncilProceeds(t) == accepted' = accepted /\ \E d, z : MovesTo(t, d, z)

CouncilsPlaced ==
  /\ council \in [Turn -> CouncilRecord] /\ snapshot \in [Turn -> SnapshotRecord]
  /\ \A t \in Turn : Placed(council[t], snapshot[t])

LEMMA Proceeding ==
  ASSUME CouncilsPlaced, NEW t \in Turn, NEW d, StepsTo(council[t], snapshot[t], d, snapshot[t]),
         council' = [council EXCEPT ![t] = d], snapshot' = snapshot, accepted' = accepted
  PROVE  CouncilProceeds(t)
<1>1. snapshot' = [snapshot EXCEPT ![t] = snapshot[t]]
  BY DEF CouncilsPlaced
<1>2. QED
  BY <1>1 DEF CouncilProceeds, MovesTo

LEMMA EnteringRounds ==
  ASSUME NEW t, NEW c, c \in CouncilRecord, NEW r, NEW i, EnterRound(t, c, r, i)
  PROVE  council' = [council EXCEPT ![t] = Entered(c, r, i)]
BY DEF EnterRound, BeginClosings, SetCouncil, Entered

LEMMA PausingProceeds ==
  ASSUME CouncilsPlaced, NEW t \in Turn, council[t].at \in InRound, NEW r \in Nat, NEW i \in Nat,
         NEW held \in BOOLEAN, held => LastRound(council[t].rounds).said = RoleOrder,
         GoesOnAt(IF held THEN Held(council[t].rounds) ELSE council[t].rounds, r, i),
         r <= MaxRounds + 1, Pause(t, held, r, i)
  PROVE  CouncilProceeds(t)
<1> DEFINE c == council[t]
           rounds == IF held THEN Held(c.rounds) ELSE c.rounds
           d == [NewCouncil EXCEPT !.at = "paused"]
           z == PutAway(c, rounds, r, i)
<1>1. Placed(c, snapshot[t])
  BY DEF CouncilsPlaced
<1>2. c.round = Len(c.rounds)
  BY <1>1, RoundInHand DEF Placed
<1>3. Held(c.rounds) = [c.rounds EXCEPT ![c.round].held = TRUE]
  BY <1>2 DEF Held
<1>4. snapshot' = [snapshot EXCEPT ![t] = z]
  BY <1>3 DEF Pause, PutAway
<1>5. council' = [council EXCEPT ![t] = d] /\ accepted' = accepted
  BY DEF Pause, SetCouncil
<1>6. GoesOnAt(rounds, r, i)
  OBVIOUS
<1> HIDE DEF rounds, d, z
<1>7. StepsTo(c, snapshot[t], d, z)
  BY <1>1, <1>6, StepPausing DEF rounds, d, z
<1> HIDE DEF c
<1>8. QED
  BY <1>4, <1>5, <1>7 DEF CouncilProceeds, MovesTo, c

LEMMA PausesProceed ==
  ASSUME CouncilsPlaced, NEW t \in Turn,
         PauseBeforeRole(t) \/ PauseAfterRole(t) \/ PauseAfterRound(t)
  PROVE  CouncilProceeds(t)
<1> DEFINE c == council[t]
<1>0. Placed(c, snapshot[t]) /\ InPlace(c) /\ Roles = 3
  BY RolesAreThree DEF CouncilsPlaced, Placed
<1>1. c.at \in {"before", "after", "roundEnd"} /\ c.at \in InRound
  BY DEF PauseBeforeRole, PauseAfterRole, PauseAfterRound, Going, CouncilAt, InRound
<1>2. /\ c.rounds \in Seq(Round) /\ c.rounds # <<>> /\ c.round = Len(c.rounds) /\ c.round \in Nat
      /\ ~ LastRound(c.rounds).held /\ Len(LastRound(c.rounds).said) \in 0..3
      /\ LastRound(c.rounds).said \in Spoken /\ Orderly(c.rounds)
      /\ c.index \in 0..3 /\ MaxRounds \in Nat /\ c.round <= MaxRounds
  <2>1. /\ c.rounds \in Seq(Round) /\ c.rounds # <<>> /\ c.round = Len(c.rounds)
        /\ ~ LastRound(c.rounds).held /\ Len(LastRound(c.rounds).said) \in 0..3
        /\ LastRound(c.rounds).said \in Spoken /\ Orderly(c.rounds) /\ c.index \in 0..3
    BY <1>0, <1>1, RoundInHand
  <2>2. Len(c.rounds) \in Nat /\ Len(c.rounds) <= MaxRounds /\ MaxRounds \in Nat
    BY <2>1, CouncilAssumption DEF Orderly
  <2>3. QED
    BY <2>1, <2>2
<1>3. c.round + 1 \in Nat /\ c.round <= MaxRounds + 1 /\ c.round + 1 <= MaxRounds + 1
  BY <1>2
<1>4. ASSUME LastRound(c.rounds).said = RoleOrder, Pause(t, TRUE, c.round + 1, 1)
      PROVE  CouncilProceeds(t)
  <2> DEFINE qs == Held(c.rounds)
  <2>1. qs # <<>> /\ Len(qs) = Len(c.rounds) /\ MayFollow(LastRound(qs))
    BY <1>2, <1>4, DiscussionHeld DEF MayFollow
  <2>2. GoesOnAt(qs, c.round + 1, 1)
    BY <1>2, <2>1 DEF GoesOnAt
  <2>3. QED
    BY <1>1, <1>3, <1>4, <2>2, PausingProceeds
<1>5. ASSUME NEW i \in Nat, i = Len(LastRound(c.rounds).said) + 1, i <= Roles,
             Pause(t, FALSE, c.round, i)
      PROVE  CouncilProceeds(t)
  <2>1. GoesOnAt(c.rounds, c.round, i)
    BY <1>2, <1>5 DEF GoesOnAt
  <2>2. QED
    BY <1>1, <1>2, <1>3, <1>5, <2>1, PausingProceeds
<1>6. CASE PauseBeforeRole(t)
  <2>1. c.at = "before" /\ Pause(t, FALSE, c.round, c.index)
    BY <1>6 DEF PauseBeforeRole, Going, CouncilAt
  <2>2. c.index = Len(LastRound(c.rounds).said) + 1
    BY <1>0, <2>1 DEF InPlace
  <2>3. c.index \in Nat /\ c.index <= 3
    BY <1>2
  <2>4. QED
    BY <1>0, <1>5, <2>1, <2>2, <2>3
<1>7. CASE PauseAfterRole(t)
  <2>1. c.at = "after" /\ c.index = Len(LastRound(c.rounds).said)
    BY <1>0, <1>7 DEF PauseAfterRole, Going, CouncilAt, InPlace
  <2>2. CASE c.index < Roles
    <3>1. Pause(t, FALSE, c.round, c.index + 1)
      BY <1>7, <2>2 DEF PauseAfterRole
    <3>2. c.index + 1 \in Nat /\ c.index + 1 <= Roles
      BY <1>0, <1>2, <2>2
    <3>3. QED
      BY <1>5, <2>1, <3>1, <3>2
  <2>3. CASE ~ (c.index < Roles)
    <3>1. Pause(t, TRUE, c.round + 1, 1)
      BY <1>7, <2>3 DEF PauseAfterRole
    <3>2. c.index \in 0..3 /\ ~ (c.index < 3)
      BY <1>0, <1>2, <2>3
    <3>3. c.index = 3
      BY <3>2
    <3>4. Len(LastRound(c.rounds).said) = 3
      BY <2>1, <3>3
    <3>5. LastRound(c.rounds).said = RoleOrder
      BY <1>2, <3>4, SpokenInTurn
    <3>6. QED
      BY <1>4, <3>1, <3>5
  <2>4. QED
    BY <2>2, <2>3
<1>8. CASE PauseAfterRound(t)
  <2>1. c.at = "roundEnd" /\ Pause(t, TRUE, c.round + 1, 1)
    BY <1>8 DEF PauseAfterRound, Going, CouncilAt
  <2>2. LastRound(c.rounds).said = RoleOrder
    BY <1>0, <2>1 DEF InPlace
  <2>3. QED
    BY <1>4, <2>1, <2>2
<1>9. QED
  BY <1>6, <1>7, <1>8

(* Every step of a council, but the first, is one of them.                 *)
LEMMA CouncilStepProceeds ==
  ASSUME CouncilsPlaced, NEW t \in Turn, CouncilStep(t)
  PROVE  CouncilProceeds(t)
<1> DEFINE c == council[t]
           s == snapshot[t]
<1>0. Placed(c, s) /\ c \in CouncilRecord
  BY DEF CouncilsPlaced
<1>1. ASSUME ~ (PauseBeforeRole(t) \/ PauseAfterRole(t) \/ PauseAfterRound(t))
      PROVE  snapshot' = snapshot /\ accepted' = accepted
  BY <1>1 DEF CouncilStep, OpeningArgument, DiscussionGate, AskRole, Discuss, NextRole, EndRound,
              ClosingArgument, Verdict, untouchedByCouncil
<1>2. ASSUME snapshot' = snapshot, accepted' = accepted, NEW d,
             council' = [council EXCEPT ![t] = d], StepsTo(c, s, d, s)
      PROVE  CouncilProceeds(t)
  BY <1>2, Proceeding
<1>e. \A r, i : EnterRound(t, c, r, i) => council' = [council EXCEPT ![t] = Entered(c, r, i)]
  <2>1. \A x \in CouncilRecord : \A r, i :
          EnterRound(t, x, r, i) => council' = [council EXCEPT ![t] = Entered(x, r, i)]
    BY EnteringRounds
  <2>2. QED
    BY <1>0, <2>1, Zenon
<1>3. CASE OpeningArgument(t)
  <2> DEFINE d == IF c.opened + 1 < Roles THEN [c EXCEPT !.opened = @ + 1]
                                          ELSE [c EXCEPT !.opened = @ + 1, !.at = "gate"]
  <2>1. council' = [council EXCEPT ![t] = d] /\ snapshot' = snapshot /\ accepted' = accepted
    BY <1>3 DEF OpeningArgument, SetCouncil, untouchedByCouncil
  <2>2. c.at = "opening"
    BY <1>3 DEF OpeningArgument, Going, CouncilAt
  <2>3. StepsTo(c, s, d, s)
    BY <1>0, <2>2, StepOpening
  <2> HIDE DEF d
  <2>4. QED
    BY <1>2, <2>1, <2>3
<1>4. CASE DiscussionGate(t)
  <2>0. c.at = "gate" /\ snapshot' = snapshot /\ accepted' = accepted
    BY <1>4 DEF DiscussionGate, Going, CouncilAt, untouchedByCouncil
  <2>1. CASE EnterRound(t, c, 1, 1)
    <3>1. council' = [council EXCEPT ![t] = Entered(c, 1, 1)]
      BY <1>e, <2>1, Zenon
    <3>2. StepsTo(c, s, Entered(c, 1, 1), s)
      BY <1>0, <2>0, StepEntering
    <3>3. QED
      BY <1>2, <2>0, <3>1, <3>2
  <2>2. CASE BeginClosings(t, c)
    <3>1. council' = [council EXCEPT ![t] = [c EXCEPT !.at = "closing"]]
      BY <2>2 DEF BeginClosings, SetCouncil
    <3>2. StepsTo(c, s, [c EXCEPT !.at = "closing"], s)
      BY <1>0, <2>0, StepEntering
    <3>3. QED
      BY <1>2, <2>0, <3>1, <3>2
  <2>3. QED
    BY <1>4, <2>1, <2>2 DEF DiscussionGate
<1>5. CASE PauseBeforeRole(t) \/ PauseAfterRole(t) \/ PauseAfterRound(t)
  BY <1>5, PausesProceed
<1>6. CASE AskRole(t)
  <2>1. c.at = "before" /\ council' = [council EXCEPT ![t] = [c EXCEPT !.at = "speak"]]
        /\ snapshot' = snapshot /\ accepted' = accepted
    BY <1>6 DEF AskRole, Going, CouncilAt, SetCouncil, untouchedByCouncil
  <2>2. StepsTo(c, s, [c EXCEPT !.at = "speak"], s)
    BY <1>0, <2>1, StepAsking
  <2>3. QED
    BY <1>2, <2>1, <2>2
<1>7. CASE Discuss(t)
  <2>1. PICK news \in BOOLEAN :
          SetCouncil(t, [c EXCEPT !.at = "after",
            !.rounds[c.round] = WithPosition(@, RoleOrder[c.index], news)])
    BY <1>7 DEF Discuss
  <2> DEFINE d == [c EXCEPT !.at = "after",
                     !.rounds[c.round] = WithPosition(@, RoleOrder[c.index], news)]
  <2>2. council' = [council EXCEPT ![t] = d]
    BY <2>1 DEF SetCouncil
  <2>3. c.at = "speak" /\ snapshot' = snapshot /\ accepted' = accepted
    BY <1>7 DEF Discuss, Going, CouncilAt, untouchedByCouncil
  <2>4. StepsTo(c, s, d, s)
    BY <1>0, <2>3, StepSpeaking
  <2> HIDE DEF d
  <2>5. QED
    BY <1>2, <2>2, <2>3, <2>4
<1>8. CASE NextRole(t)
  <2> DEFINE d == IF c.index < Roles THEN [c EXCEPT !.at = "before", !.index = @ + 1]
                                     ELSE [c EXCEPT !.at = "roundEnd"]
  <2>1. c.at = "after" /\ council' = [council EXCEPT ![t] = d]
        /\ snapshot' = snapshot /\ accepted' = accepted
    BY <1>8 DEF NextRole, Going, CouncilAt, SetCouncil, untouchedByCouncil
  <2>2. StepsTo(c, s, d, s)
    BY <1>0, <2>1, StepToNextRole
  <2> HIDE DEF d
  <2>3. QED
    BY <1>2, <2>1, <2>2
<1>9. CASE EndRound(t)
  <2>0. c.at = "roundEnd" /\ snapshot' = snapshot /\ accepted' = accepted
    BY <1>9 DEF EndRound, Going, CouncilAt, untouchedByCouncil
  <2>1. CASE c.rounds[c.round].news
    <3>1. EnterRound(t, c, c.round + 1, 1)
      BY <1>9, <2>1 DEF EndRound
    <3>2. council' = [council EXCEPT ![t] = Entered(c, c.round + 1, 1)]
      BY <1>e, <3>1, Zenon
    <3>3. StepsTo(c, s, Entered(c, c.round + 1, 1), s)
      BY <1>0, <2>0, <2>1, StepEntering
    <3>4. QED
      BY <1>2, <2>0, <3>2, <3>3
  <2>2. CASE ~ c.rounds[c.round].news
    <3>1. council' = [council EXCEPT ![t] = [c EXCEPT !.at = "closing"]]
      BY <1>9, <2>2 DEF EndRound, BeginClosings, SetCouncil
    <3>2. StepsTo(c, s, [c EXCEPT !.at = "closing"], s)
      BY <1>0, <2>0, <2>2, StepEntering
    <3>3. QED
      BY <1>2, <2>0, <3>1, <3>2
  <2>3. QED
    BY <2>1, <2>2
<1>10. CASE ClosingArgument(t)
  <2> DEFINE d == [c EXCEPT !.closed = @ + 1,
                            !.at = IF c.closed + 1 < Roles THEN "closing" ELSE "arbiter"]
  <2>1. c.at = "closing" /\ council' = [council EXCEPT ![t] = d]
        /\ snapshot' = snapshot /\ accepted' = accepted
    BY <1>10 DEF ClosingArgument, Going, CouncilAt, SetCouncil, untouchedByCouncil
  <2>2. StepsTo(c, s, d, s)
    BY <1>0, <2>1, StepClosing
  <2> HIDE DEF d
  <2>3. QED
    BY <1>2, <2>1, <2>2
<1>11. CASE Verdict(t)
  <2>1. c.at = "arbiter" /\ council' = [council EXCEPT ![t] = [c EXCEPT !.at = "complete"]]
        /\ snapshot' = snapshot /\ accepted' = accepted
    BY <1>11 DEF Verdict, Going, CouncilAt, SetCouncil, untouchedByCouncil
  <2>2. StepsTo(c, s, [c EXCEPT !.at = "complete"], s)
    BY <1>0, <2>1, StepDeciding
  <2>3. QED
    BY <1>2, <2>1, <2>2
<1>12. QED
  BY <1>3, <1>4, <1>5, <1>6, <1>7, <1>8, <1>9, <1>10, <1>11 DEF CouncilStep

(* So are its beginning and its resumption.                                *)
LEMMA CouncilBegins ==
  ASSUME CouncilsPlaced, NEW t \in Turn, BeginCouncil(t), council[t].at = "idle",
         UNCHANGED <<snapshot, accepted>>
  PROVE  CouncilProceeds(t)
<1> DEFINE d == [NewCouncil EXCEPT !.at = "opening"]
<1>1. council' = [council EXCEPT ![t] = d]
  BY DEF BeginCouncil, SetCouncil
<1>2. StepsTo(council[t], snapshot[t], d, snapshot[t])
  BY StepBeginning DEF CouncilsPlaced
<1> HIDE DEF d
<1>3. QED
  BY <1>1, <1>2, Proceeding

LEMMA CouncilResumes ==
  ASSUME CouncilsPlaced, NEW t \in Turn, ResumeCouncil(t), council[t].at = "paused",
         accepted' = accepted
  PROVE  CouncilProceeds(t)
<1> DEFINE s == snapshot[t]
           d == Entered(Restored(s, s.notes), s.nextRound, s.nextIndex)
<1>0. s \in SnapshotRecord /\ Placed(council[t], s)
  BY DEF CouncilsPlaced
<1>1. s.rounds \in Seq(Round) /\ s.notes \in Seq(Note) /\ Placed(council[t], s)
  BY <1>0 DEF SnapshotRecord
<1>2. Restored(s, s.notes) \in CouncilRecord
  BY <1>1, RestoredCouncil
<1>3. EnterRound(t, Restored(s, s.notes), s.nextRound, s.nextIndex)
      /\ snapshot' = [snapshot EXCEPT ![t] = NoSnapshot]
  BY DEF ResumeCouncil
<1>4. council' = [council EXCEPT ![t] = d]
  <2>1. \A c \in CouncilRecord : \A r, i :
          EnterRound(t, c, r, i) => council' = [council EXCEPT ![t] = Entered(c, r, i)]
    BY EnteringRounds
  <2>2. QED
    BY <1>2, <1>3, <2>1, Zenon
<1>5. StepsTo(council[t], s, d, NoSnapshot)
  BY <1>1, StepResuming
<1> HIDE DEF d
<1>6. QED
  BY <1>3, <1>4, <1>5 DEF CouncilProceeds, MovesTo

-----------------------------------------------------------------------------
(* The turn around the council.                                            *)

(* The user's words stand where they were said.                            *)
Remembered(kept, taken) ==
  /\ Len(kept.notes) = Len(taken)
  /\ \A i \in 1..Len(taken) :
       LET r == kept.notes[i].round
           a == kept.notes[i].after
       IN  /\ r \in 1..Len(kept.rounds) /\ a \in 0..Len(kept.rounds[r].said)
           /\ taken[i] = Before(kept.rounds, r, a)

(* A turn that waits has a council that is written down; one that is on    *)
(* its way to the answer has none yet, unless it goes on with that one.    *)
Stood(x, c) ==
  /\ x.is \in {"paused", "queued"} => x.at = "GENERATE_RESPONSE" /\ c.at = "paused"
  /\ x.is = "running" /\ x.at \in BeforeAnswer =>
       IF x.resumed THEN x.at = "GENERATE_RESPONSE" /\ c.at = "paused" ELSE c.at = "idle"

Said == SUBSET (Nat \X Nat)

CouncilInv ==
  /\ CouncilsPlaced
  /\ accepted \in [Turn -> Seq(Said)]
  /\ \A t \in Turn : Remembered(Kept(council[t], snapshot[t]), accepted[t])
  /\ \A t \in Turn : Stood(turn[t], council[t])

(* The steps of the router, as far as the council goes.                    *)
Stays(t) ==
  /\ UNCHANGED <<council, snapshot, accepted>>
  /\ \E x : turn' = [turn EXCEPT ![t] = x] /\ Stood(x, council[t])

Proceeds(t) ==
  /\ CouncilProceeds(t)
  /\ \E x : turn' = [turn EXCEPT ![t] = x] /\ x.is = "running" /\ x.at = "RESPONDING"

Hears(t) ==
  /\ council' = council /\ council[t].at = "paused"
  /\ \E words \in BOOLEAN : TakeWords(t, snapshot[t], words)
  /\ \E x : turn' = [turn EXCEPT ![t] = x] /\ Stood(x, council[t])

(* A turn that moves to another state, or ends.                            *)
LEMMA TurnMoves ==
  ASSUME CouncilInv, turn \in [Turn -> TurnRecord], NEW t \in Turn, NEW st, GoTo(t, st),
         Running(t), UNCHANGED <<council, snapshot, accepted>>,
         st \in BeforeAnswer => turn[t].at \in BeforeAnswer \ {"GENERATE_RESPONSE"}
  PROVE  Stays(t)
<1> DEFINE x == [turn[t] EXCEPT !.at = st]
<1>1. turn[t] \in TurnRecord /\ Stood(turn[t], council[t])
  BY DEF CouncilInv
<1>2. x.at = st /\ x.is = turn[t].is /\ x.resumed = turn[t].resumed
  BY <1>1 DEF TurnRecord
<1>3. turn' = [turn EXCEPT ![t] = x]
  BY DEF GoTo
<1> HIDE DEF x
<1>4. Stood(x, council[t])
  BY <1>1, <1>2 DEF Stood, Running
<1>5. QED
  BY <1>3, <1>4 DEF Stays

LEMMA TurnIsOver ==
  ASSUME turn \in [Turn -> TurnRecord], NEW t \in Turn, NEW st, NEW how, EndTurn(t, st, how),
         how \notin {"running", "queued"},
         how = "paused" => st = "GENERATE_RESPONSE" /\ council[t].at = "paused"
  PROVE  Stays(t)
<1> DEFINE x == [turn[t] EXCEPT !.at = st, !.is = how]
<1>1. x.at = st /\ x.is = how
  BY DEF TurnRecord
<1>2. turn' = [turn EXCEPT ![t] = x] /\ UNCHANGED <<council, snapshot, accepted>>
  BY DEF EndTurn, councilUnchanged, councilVars
<1> HIDE DEF x
<1>3. Stood(x, council[t])
  BY <1>1 DEF Stood
<1>4. QED
  BY <1>2, <1>3 DEF Stays

LEMMA RouterAroundCouncil ==
  ASSUME CouncilInv, turn \in [Turn -> TurnRecord], NEW t \in Turn, StepFor(t)
  PROVE  Stays(t) \/ Proceeds(t) \/ Hears(t)
<1> USE DEF councilUnchanged, councilVars, nothingButTheTurn
<1>0. turn[t] \in TurnRecord /\ Stood(turn[t], council[t]) /\ CouncilsPlaced
  BY DEF CouncilInv
<1>1. ASSUME NEW here \in RouterState, NEW next,
             next \in BeforeAnswer => here \in BeforeAnswer \ {"GENERATE_RESPONSE"},
             Passes(t, here, next)
      PROVE  Stays(t)
  BY <1>1, TurnMoves DEF Passes, Enters
<1>2. CASE PlainState(t)
  BY <1>1, <1>2 DEF PlainState, Start, SummarizeHistory, Classify, DecideRag, RewriteQuery,
                    SummarizeDocs, UpdateHistory, DecideMemory, RouterState, BeforeAnswer
<1>3. CASE LoadMemory(t)
  BY <1>3, TurnMoves DEF LoadMemory, Enters, BeforeAnswer
<1>4. CASE RetrieveContext(t)
  <2>1. PICK docs \in BOOLEAN :
          turn' = [turn EXCEPT ![t].at = "GENERATE_RESPONSE", ![t].docs = docs]
    BY <1>4 DEF RetrieveContext
  <2> DEFINE x == [turn[t] EXCEPT !.at = "GENERATE_RESPONSE", !.docs = docs]
  <2>2. x.at = "GENERATE_RESPONSE" /\ x.is = turn[t].is /\ x.resumed = turn[t].resumed
    BY <1>0 DEF TurnRecord
  <2>3. turn' = [turn EXCEPT ![t] = x]
    BY <2>1
  <2> HIDE DEF x
  <2>4. turn[t].is = "running" /\ turn[t].at = "RETRIEVE_CONTEXT"
    BY <1>4 DEF RetrieveContext, Enters, Running
  <2>5. Stood(x, council[t])
    BY <1>0, <2>2, <2>4 DEF Stood, BeforeAnswer
  <2>6. QED
    BY <1>4, <2>3, <2>5 DEF RetrieveContext, Stays
<1>5. CASE HandlerFails(t) \/ ResponseFails(t) \/ Finish(t) \/ Cancel(t)
  BY <1>5, TurnIsOver DEF HandlerFails, ResponseFails, Finish, Cancel
<1>6. CASE TurnPauses(t)
  BY <1>6, TurnIsOver DEF TurnPauses, CouncilAt
<1>7. CASE GenerateResponse(t)
  <2> DEFINE x == [turn[t] EXCEPT !.at = "RESPONDING"]
  <2>1. x.at = "RESPONDING" /\ x.is = turn[t].is
    BY <1>0 DEF TurnRecord
  <2>2. turn' = [turn EXCEPT ![t] = x] /\ turn[t].is = "running"
        /\ turn[t].at = "GENERATE_RESPONSE"
    BY <1>7 DEF GenerateResponse, GoTo, Enters, Running
  <2> HIDE DEF x
  <2>3. CASE councilUnchanged
    <3>1. Stood(x, council[t])
      BY <2>1, <2>2 DEF Stood, BeforeAnswer
    <3>2. QED
      BY <2>2, <2>3, <3>1 DEF Stays
  <2>4. CASE turn[t].resumed /\ ResumeCouncil(t) /\ accepted' = accepted
    <3>1. council[t].at = "paused"
      BY <1>0, <2>2, <2>4 DEF Stood, BeforeAnswer
    <3>2. QED
      BY <1>0, <2>1, <2>2, <2>4, <3>1, CouncilResumes DEF Proceeds
  <2>5. CASE ~ turn[t].resumed /\ BeginCouncil(t) /\ UNCHANGED <<snapshot, accepted>>
    <3>1. council[t].at = "idle"
      BY <1>0, <2>2, <2>5 DEF Stood, BeforeAnswer
    <3>2. QED
      BY <1>0, <2>1, <2>2, <2>5, <3>1, CouncilBegins DEF Proceeds
  <2>6. QED
    BY <1>7, <2>3, <2>4, <2>5 DEF GenerateResponse
<1>8. CASE CallGoesOn(t) \/ AskToCancel(t) \/ AskToPause(t) \/ UserNamesChat(t)
  <2>1. turn' = turn /\ UNCHANGED <<council, snapshot, accepted>>
    BY <1>8 DEF CallGoesOn, AskToCancel, AskToPause, UserNamesChat, turnUnchanged
  <2>2. turn' = [turn EXCEPT ![t] = turn[t]]
    BY <2>1
  <2>3. QED
    BY <1>0, <2>1, <2>2 DEF Stays
<1>9. CASE CouncilGoesOn(t)
  <2>1. turn' = turn /\ turn[t].is = "running" /\ turn[t].at = "RESPONDING"
    BY <1>9 DEF CouncilGoesOn, turnUnchanged, Responding, Running
  <2>2. turn' = [turn EXCEPT ![t] = turn[t]]
    BY <2>1
  <2>3. CouncilProceeds(t)
    BY <1>0, <1>9, CouncilStepProceeds DEF CouncilGoesOn
  <2>4. QED
    BY <2>1, <2>2, <2>3 DEF Proceeds
<1>10. CASE Responded(t)
  BY <1>10, TurnMoves DEF Responded, Responding, BeforeAnswer
<1>11. CASE ExtractMemory(t) \/ ResolveMemory(t) \/ CommitMemory(t)
  BY <1>11, TurnMoves DEF ExtractMemory, ResolveMemory, CommitMemory, AfterMemory, Enters,
                          BeforeAnswer
<1>12. CASE AutoName(t) \/ ChatNamed(t)
  BY <1>12, TurnMoves DEF AutoName, ChatNamed, Enters, BeforeAnswer
<1>13. CASE TakeUp(t)
  <2> DEFINE x == [turn[t] EXCEPT !.at = "GENERATE_RESPONSE", !.is = "running", !.resumed = TRUE]
  <2>1. x.at = "GENERATE_RESPONSE" /\ x.is = "running" /\ x.resumed
    BY <1>0 DEF TurnRecord
  <2>2. turn' = [turn EXCEPT ![t] = x] /\ turn[t].is = "queued"
    BY <1>13 DEF TakeUp
  <2> HIDE DEF x
  <2>3. Stood(x, council[t])
    BY <1>0, <2>1, <2>2 DEF Stood
  <2>4. QED
    BY <1>13, <2>2, <2>3 DEF TakeUp, Stays
<1>14. CASE NameInFollowUp(t)
  <2> DEFINE x == [turn[t] EXCEPT !.at = "AUTO_NAME", !.is = "running", !.followed = TRUE]
  <2>1. x.at = "AUTO_NAME" /\ x.is = "running"
    BY <1>0 DEF TurnRecord
  <2>2. turn' = [turn EXCEPT ![t] = x]
    BY <1>14 DEF NameInFollowUp
  <2> HIDE DEF x
  <2>3. Stood(x, council[t])
    BY <2>1 DEF Stood, BeforeAnswer
  <2>4. QED
    BY <1>14, <2>2, <2>3 DEF NameInFollowUp, Stays
<1>15. CASE Resume(t)
  <2> DEFINE x == [turn[t] EXCEPT !.is = "queued"]
  <2>1. x.at = turn[t].at /\ x.is = "queued"
    BY <1>0 DEF TurnRecord
  <2>2. turn' = [turn EXCEPT ![t] = x] /\ turn[t].is = "paused"
    BY <1>15 DEF Resume
  <2> HIDE DEF x
  <2>3. Stood(x, council[t]) /\ council[t].at = "paused"
    BY <1>0, <2>1, <2>2 DEF Stood
  <2>4. QED
    BY <1>15, <2>2, <2>3 DEF Resume, Hears
<1>16. QED
  BY <1>2, <1>3, <1>4, <1>5, <1>6, <1>7, <1>8, <1>9, <1>10, <1>11, <1>12, <1>13, <1>14,
     <1>15 DEF StepFor, TurnStep

(* The words the user has said, as the discussion goes on and as more are  *)
(* said.                                                                   *)
LEMMA KeptIsTyped ==
  ASSUME NEW c, NEW s, Placed(c, s)
  PROVE  Kept(c, s).rounds \in Seq(Round) /\ Kept(c, s).notes \in Seq(Note)
<1>1. CASE c.at = "paused"
  <2>1. Kept(c, s).rounds = s.rounds /\ Kept(c, s).notes = s.notes
    BY <1>1, Waiting
  <2>2. s \in SnapshotRecord
    BY DEF Placed
  <2>3. s.rounds \in Seq(Round) /\ s.notes \in Seq(Note)
    BY <2>2 DEF SnapshotRecord
  <2>4. QED
    BY <2>1, <2>3
<1>2. CASE c.at # "paused"
  <2>1. Kept(c, s).rounds = c.rounds /\ Kept(c, s).notes = c.notes
    BY <1>2, AtWork
  <2>2. c \in CouncilRecord
    BY DEF Placed, InPlace
  <2>3. c.rounds \in Seq(Round) /\ c.notes \in Seq(Note)
    BY <2>2 DEF CouncilRecord
  <2>4. QED
    BY <2>1, <2>3
<1>3. QED
  BY <1>1, <1>2

LEMMA StillRemembered ==
  ASSUME NEW k, NEW l, NEW taken \in Seq(Said), Remembered(k, taken),
         k.rounds \in Seq(Round), l.rounds \in Seq(Round),
         l.notes = k.notes, Continues(k.rounds, l.rounds)
  PROVE  Remembered(l, taken)
<1> SUFFICES ASSUME NEW i \in 1..Len(taken)
             PROVE  /\ k.notes[i].round \in 1..Len(l.rounds)
                    /\ k.notes[i].after \in 0..Len(l.rounds[k.notes[i].round].said)
                    /\ taken[i] = Before(l.rounds, k.notes[i].round, k.notes[i].after)
  BY DEF Remembered
<1> DEFINE r == k.notes[i].round
           a == k.notes[i].after
<1>1. /\ r \in 1..Len(k.rounds) /\ a \in 0..Len(k.rounds[r].said)
      /\ taken[i] = Before(k.rounds, r, a)
  BY DEF Remembered
<1>2. Len(k.rounds) \in Nat /\ Len(l.rounds) \in Nat /\ Len(k.rounds) <= Len(l.rounds)
  BY DEF Continues
<1>3. a <= Len(l.rounds[r].said) /\ Before(l.rounds, r, a) = Before(k.rounds, r, a)
  BY <1>1 DEF Continues
<1>4. r \in 1..Len(l.rounds)
  BY <1>1, <1>2
<1>5. Len(l.rounds[r].said) \in Nat
  <2>1. \A q \in 1..Len(l.rounds) : Len(l.rounds[q].said) \in Nat
    BY OneRound
  <2>2. QED
    BY <1>4, <2>1
<1>6. a \in 0..Len(l.rounds[r].said)
  BY <1>1, <1>3, <1>5
<1>7. QED
  BY <1>1, <1>3, <1>4, <1>6

LEMMA WordsAreRemembered ==
  ASSUME NEW k, NEW l, NEW taken \in Seq(Said), Remembered(k, taken),
         k.rounds \in Seq(Round), k.rounds # <<>>, k.notes \in Seq(Note), l.rounds = k.rounds,
         NEW n \in Note, n.round = Len(k.rounds), n.after = Len(LastRound(k.rounds).said),
         l.notes = Append(k.notes, n)
  PROVE  /\ PositionsSaid(k.rounds) \in Said
         /\ Remembered(l, Append(taken, PositionsSaid(k.rounds)))
<1> DEFINE all == PositionsSaid(k.rounds)
<1>1. all \in Said
  <2>1. \A r \in 1..Len(k.rounds) : Len(k.rounds[r].said) \in Nat
    BY OneRound
  <2>2. \A p \in all : p \in Nat \X Nat
    BY <2>1, PositionSaid
  <2>3. QED
    BY <2>2 DEF Said
<1>2. Len(k.notes) = Len(taken) /\ Len(taken) \in Nat
  BY DEF Remembered
<1>3. /\ Len(l.notes) = Len(taken) + 1
      /\ \A i \in 1..Len(taken) : l.notes[i] = k.notes[i]
      /\ l.notes[Len(taken) + 1] = n
  BY <1>2
<1> HIDE DEF all
<1>4. /\ Len(Append(taken, all)) = Len(taken) + 1
      /\ \A i \in 1..Len(taken) : Append(taken, all)[i] = taken[i]
      /\ Append(taken, all)[Len(taken) + 1] = all
  BY <1>1
<1>5. all = Before(k.rounds, n.round, n.after)
  BY AllSaidBefore DEF all
<1>6. n.round \in 1..Len(k.rounds) /\ n.after \in 0..Len(k.rounds[n.round].said)
  <2>1. Len(k.rounds) \in Nat /\ Len(k.rounds) > 0
    OBVIOUS
  <2>2. Len(k.rounds[Len(k.rounds)].said) \in Nat
    BY <2>1, OneRound
  <2>3. QED
    BY <2>1, <2>2 DEF LastRound
<1>7. ASSUME NEW i \in 1..(Len(taken) + 1)
      PROVE  /\ l.notes[i].round \in 1..Len(k.rounds)
             /\ l.notes[i].after \in 0..Len(k.rounds[l.notes[i].round].said)
             /\ Append(taken, all)[i] = Before(k.rounds, l.notes[i].round, l.notes[i].after)
  <2>1. CASE i = Len(taken) + 1
    BY <1>3, <1>4, <1>5, <1>6, <2>1
  <2>2. CASE i # Len(taken) + 1
    <3>1. i \in 1..Len(taken)
      BY <1>2, <2>2
    <3>2. QED
      BY <1>3, <1>4, <3>1 DEF Remembered
  <2>3. QED
    BY <2>1, <2>2
<1>8. Remembered(l, Append(taken, all))
  BY <1>2, <1>3, <1>4, <1>7 DEF Remembered
<1>9. QED
  BY <1>1, <1>8 DEF all

(* The inductive step.                                                     *)
LEMMA OtherCouncilsStay ==
  ASSUME CouncilInv, NEW t \in Turn, NEW d, NEW z, NEW x, NEW w,
         council' = [council EXCEPT ![t] = d], snapshot' = [snapshot EXCEPT ![t] = z],
         turn' = [turn EXCEPT ![t] = x], accepted' = [accepted EXCEPT ![t] = w],
         d \in CouncilRecord, z \in SnapshotRecord, w \in Seq(Said), turn \in [Turn -> TurnRecord],
         Placed(d, z), Remembered(Kept(d, z), w), Stood(x, d)
  PROVE  CouncilInv'
<1>1. /\ council' \in [Turn -> CouncilRecord] /\ snapshot' \in [Turn -> SnapshotRecord]
      /\ accepted' \in [Turn -> Seq(Said)]
  BY DEF CouncilInv, CouncilsPlaced
<1>2. ASSUME NEW u \in Turn
      PROVE  /\ Placed(council'[u], snapshot'[u])
             /\ Remembered(Kept(council'[u], snapshot'[u]), accepted'[u])
             /\ Stood(turn'[u], council'[u])
  <2>1. CASE u = t
    <3>1. council'[t] = d /\ snapshot'[t] = z /\ accepted'[t] = w /\ turn'[t] = x
      BY DEF CouncilInv, CouncilsPlaced
    <3>2. QED
      BY <2>1, <3>1
  <2>2. CASE u # t
    <3>1. /\ council'[u] = council[u] /\ snapshot'[u] = snapshot[u]
          /\ accepted'[u] = accepted[u] /\ turn'[u] = turn[u]
      BY <2>2 DEF CouncilInv, CouncilsPlaced
    <3>2. QED
      BY <3>1 DEF CouncilInv, CouncilsPlaced
  <2>3. QED
    BY <2>1, <2>2
<1>3. QED
  BY <1>1, <1>2 DEF CouncilInv, CouncilsPlaced

LEMMA ProceedingIsKept ==
  ASSUME CouncilInv, turn \in [Turn -> TurnRecord], NEW t \in Turn, Proceeds(t)
  PROVE  CouncilInv'
<1> DEFINE c == council[t]
           s == snapshot[t]
<1>1. PICK d, z : MovesTo(t, d, z)
  BY DEF Proceeds, CouncilProceeds
<1>2. PICK x : turn' = [turn EXCEPT ![t] = x] /\ x.is = "running" /\ x.at = "RESPONDING"
  BY DEF Proceeds
<1>3. /\ Placed(c, s) /\ accepted[t] \in Seq(Said) /\ Remembered(Kept(c, s), accepted[t])
  BY DEF CouncilInv, CouncilsPlaced
<1>4. Placed(d, z) /\ Kept(d, z).notes = Kept(c, s).notes
      /\ Continues(Kept(c, s).rounds, Kept(d, z).rounds)
  BY <1>1 DEF MovesTo, StepsTo, Placed
<1>5. Remembered(Kept(d, z), accepted[t])
  BY <1>3, <1>4, KeptIsTyped, StillRemembered
<1>6. d \in CouncilRecord /\ z \in SnapshotRecord
  BY <1>4 DEF Placed, InPlace
<1>7. Stood(x, d)
  BY <1>2 DEF Stood, BeforeAnswer
<1>8. accepted' = [accepted EXCEPT ![t] = accepted[t]]
  BY DEF Proceeds, CouncilProceeds, CouncilInv
<1>9. council' = [council EXCEPT ![t] = d] /\ snapshot' = [snapshot EXCEPT ![t] = z]
  BY <1>1 DEF MovesTo
<1>10. QED
  BY <1>2, <1>3, <1>4, <1>5, <1>6, <1>7, <1>8, <1>9, OtherCouncilsStay

LEMMA StayingIsKept ==
  ASSUME CouncilInv, turn \in [Turn -> TurnRecord], NEW t \in Turn, Stays(t)
  PROVE  CouncilInv'
<1>1. PICK x : turn' = [turn EXCEPT ![t] = x] /\ Stood(x, council[t])
  BY DEF Stays
<1>2. /\ council' = [council EXCEPT ![t] = council[t]]
      /\ snapshot' = [snapshot EXCEPT ![t] = snapshot[t]]
      /\ accepted' = [accepted EXCEPT ![t] = accepted[t]]
  BY DEF Stays, CouncilInv, CouncilsPlaced
<1>3. /\ council[t] \in CouncilRecord /\ snapshot[t] \in SnapshotRecord
      /\ accepted[t] \in Seq(Said) /\ Placed(council[t], snapshot[t])
      /\ Remembered(Kept(council[t], snapshot[t]), accepted[t])
  BY DEF CouncilInv, CouncilsPlaced
<1>4. QED
  BY <1>1, <1>2, <1>3, OtherCouncilsStay

LEMMA NoteEntered ==
  ASSUME NEW s \in SnapshotRecord, NEW n \in Note, NEW z, z = [s EXCEPT !.notes = Append(@, n)]
  PROVE  /\ z \in SnapshotRecord /\ z.notes = Append(s.notes, n) /\ z.rounds = s.rounds
         /\ Checkpoint(s) => Checkpoint(z)
<1>1. s.notes \in Seq(Note)
  BY DEF SnapshotRecord
<1>2. Append(s.notes, n) \in Seq(Note)
  BY <1>1
<1>3. /\ z \in SnapshotRecord /\ z.notes = Append(s.notes, n) /\ z.rounds = s.rounds
      /\ z.round = s.round /\ z.after = s.after
      /\ z.nextRound = s.nextRound /\ z.nextIndex = s.nextIndex
  BY <1>2 DEF SnapshotRecord
<1>4. QED
  BY <1>3 DEF Checkpoint

LEMMA HearingIsKept ==
  ASSUME CouncilInv, turn \in [Turn -> TurnRecord], NEW t \in Turn, Hears(t)
  PROVE  CouncilInv'
<1> DEFINE c == council[t]
           s == snapshot[t]
<1>1. PICK words \in BOOLEAN : TakeWords(t, s, words)
  BY DEF Hears
<1>2. PICK x : turn' = [turn EXCEPT ![t] = x] /\ Stood(x, c)
  BY DEF Hears
<1>3. CASE ~ words
  <2>1. Stays(t)
    BY <1>1, <1>2, <1>3 DEF TakeWords, Stays, Hears
  <2>2. QED
    BY <2>1, StayingIsKept
<1>4. CASE words
  <2> DEFINE n == [round |-> s.round, after |-> s.after]
             z == [s EXCEPT !.notes = Append(@, n)]
             w == Append(accepted[t], PositionsSaid(s.rounds))
  <2>1. /\ c \in CouncilRecord /\ s \in SnapshotRecord /\ accepted[t] \in Seq(Said)
        /\ Placed(c, s) /\ c.at = "paused" /\ Checkpoint(s)
        /\ Remembered(Kept(c, s), accepted[t])
    BY DEF CouncilInv, CouncilsPlaced, Hears, Placed
  <2>2. n \in Note /\ n.round = s.round /\ n.after = s.after
    BY <2>1 DEF SnapshotRecord, Note
  <2>3. /\ snapshot' = [snapshot EXCEPT ![t].notes = Append(@, n)]
        /\ accepted' = [accepted EXCEPT ![t] = w]
    BY <1>1, <1>4 DEF TakeWords
  <2>4. snapshot' = [snapshot EXCEPT ![t] = z]
    BY <2>3
  <2>5. council' = [council EXCEPT ![t] = c]
    BY DEF Hears, CouncilInv, CouncilsPlaced
  <2> HIDE DEF n
  <2>6. /\ z \in SnapshotRecord /\ z.notes = Append(s.notes, n) /\ z.rounds = s.rounds
        /\ Checkpoint(z)
    BY <2>1, <2>2, NoteEntered
  <2> HIDE DEF z
  <2>7. /\ Kept(c, s).rounds = s.rounds /\ Kept(c, s).notes = s.notes
        /\ Kept(c, z).rounds = s.rounds /\ Kept(c, z).notes = Append(s.notes, n)
    <3>1. \A q : Kept(c, q).rounds = q.rounds /\ Kept(c, q).notes = q.notes
      BY <2>1, Waiting
    <3>2. QED
      BY <2>6, <3>1
  <2>8. /\ s.rounds # <<>> /\ n.round = Len(s.rounds) /\ n.after = Len(LastRound(s.rounds).said)
    BY <2>1, <2>2 DEF Checkpoint
  <2>9. s.rounds \in Seq(Round) /\ s.notes \in Seq(Note)
    BY <2>1 DEF SnapshotRecord
  <2>10. /\ PositionsSaid(s.rounds) \in Said /\ Remembered(Kept(c, z), w)
    BY <2>1, <2>2, <2>7, <2>8, <2>9, WordsAreRemembered
  <2>11. w \in Seq(Said)
    BY <2>1, <2>10
  <2>12. Placed(c, z)
    BY <2>1, <2>6 DEF Placed
  <2> HIDE DEF w
  <2>13. QED
    BY <1>2, <2>1, <2>3, <2>4, <2>5, <2>6, <2>10, <2>11, <2>12, OtherCouncilsStay
<1>5. QED
  BY <1>3, <1>4

LEMMA CouncilInvariant == Spec => []CouncilInv
<1>1. Init => CouncilInv
  <2> SUFFICES ASSUME Init PROVE CouncilInv
    OBVIOUS
  <2>1. /\ council = [t \in Turn |-> NewCouncil] /\ snapshot = [t \in Turn |-> NoSnapshot]
        /\ accepted = [t \in Turn |-> <<>>]
    BY DEF Init, CouncilInit
  <2>2. /\ NewCouncil.at = "idle" /\ NewCouncil.opened = 0 /\ NewCouncil.rounds = <<>>
        /\ NewCouncil.closed = 0 /\ NewCouncil.notes = <<>>
    BY DEF NewCouncil
  <2>3. Placed(NewCouncil, NoSnapshot)
    <3>1. Orderly(<<>>)
      BY CouncilAssumption DEF Orderly
    <3>2. InPlace(NewCouncil)
      BY <2>2, <3>1, NewCouncilIsTyped, RolesAreThree DEF InPlace, InRound, Deciding
    <3>3. QED
      BY <2>2, <3>2, NoSnapshotIsTyped DEF Placed
  <2>4. CouncilsPlaced
    BY <2>1, <2>3, NewCouncilIsTyped, NoSnapshotIsTyped DEF CouncilsPlaced
  <2>5. accepted \in [Turn -> Seq(Said)]
    <3>1. <<>> \in Seq(Said)
      OBVIOUS
    <3>2. QED
      BY <2>1, <3>1
  <2>6. ASSUME NEW t \in Turn PROVE Remembered(Kept(council[t], snapshot[t]), accepted[t])
    <3>1. Kept(NewCouncil, NoSnapshot).notes = <<>>
      BY <2>2, AtWork
    <3>2. Remembered(Kept(NewCouncil, NoSnapshot), <<>>)
      BY <3>1 DEF Remembered
    <3>3. QED
      BY <2>1, <3>2
  <2>7. ASSUME NEW t \in Turn PROVE Stood(turn[t], council[t])
    <3>1. council[t].at = "idle"
      BY <2>1, <2>2
    <3>2. turn[t].is \in {"running", "absent"} /\ ~ turn[t].resumed
      <4>1. PICK S \in Together :
              turn = [u \in Turn |-> [at |-> "START",
                                     is |-> IF u \in S THEN "running" ELSE "absent",
                                     docs |-> FALSE, resumed |-> FALSE, followed |-> FALSE]]
        BY DEF Init
      <4>2. QED
        BY <4>1
    <3>3. QED
      BY <3>1, <3>2 DEF Stood
  <2>8. QED
    BY <2>4, <2>5, <2>6, <2>7 DEF CouncilInv
<1>2. AnswersInv /\ CouncilInv /\ [Next]_vars => CouncilInv'
  <2> SUFFICES ASSUME AnswersInv, CouncilInv, [Next]_vars PROVE CouncilInv'
    OBVIOUS
  <2>1. CASE UNCHANGED vars
    BY <2>1 DEF vars, councilVars, CouncilInv, CouncilsPlaced
  <2>2. ASSUME NEW t \in Turn, StepFor(t) PROVE CouncilInv'
    BY <2>2, RouterAroundCouncil, StayingIsKept, ProceedingIsKept, HearingIsKept DEF AnswersInv
  <2>3. QED
    BY <2>1, <2>2 DEF Next
<1>3. QED
  BY <1>1, <1>2, AnswersInvariant, PTL DEF Spec

-----------------------------------------------------------------------------
(* The record.                                                             *)

(* The words have one place in it.                                         *)
LEMMA WordsHaveAPlace ==
  ASSUME NEW c, c.rounds \in Seq(Round), c.notes \in Seq(Note), NEW i, i \in 1..Len(c.notes),
         c.notes[i].round \in 1..Len(c.rounds),
         c.notes[i].after \in 0..Len(c.rounds[c.notes[i].round].said)
  PROVE  PlacesOf(Record(c), i) = {<<c.notes[i].round, c.notes[i].after>>}
<1> DEFINE record == Record(c)
           r == c.notes[i].round
           a == c.notes[i].after
<1>0. /\ c.notes[i].round = r /\ c.notes[i].after = a
      /\ r \in 1..Len(c.rounds) /\ a \in 0..Len(c.rounds[r].said)
  OBVIOUS
<1> HIDE DEF r, a
<1>1. DOMAIN record = 1..Len(c.rounds)
  BY DEF Record
<1>2. ASSUME NEW q \in 1..Len(c.rounds)
      PROVE  {k \in DOMAIN record[q] : i \in record[q][k]} = IF q = r THEN {a} ELSE {}
  <2>1. record[q] = [k \in 0..Len(c.rounds[q].said) |-> NotesAt(c, q, k)]
    BY DEF Record, RoundRecord
  <2>2. \A k \in 0..Len(c.rounds[q].said) : i \in record[q][k] <=> q = r /\ k = a
    <3>1. Len(c.rounds[r].said) \in Nat
      BY <1>0, OneRound
    <3>2. \A k \in 0..Len(c.rounds[q].said) :
            i \in NotesAt(c, q, k) <=> r = q /\ (a = k \/ (k = Len(c.rounds[q].said) /\ a > k))
      BY <1>0 DEF NotesAt
    <3>3. QED
      BY <1>0, <2>1, <3>1, <3>2
  <2> HIDE DEF record
  <2>3. DOMAIN record[q] = 0..Len(c.rounds[q].said)
    BY <2>1
  <2>4. QED
    BY <1>0, <2>2, <2>3
<1>3. PlacesOf(record, i) = UNION {{<<q, k>> : k \in {j \in DOMAIN record[q] : i \in record[q][j]}} :
                                   q \in DOMAIN record}
  BY DEF PlacesOf
<1> HIDE DEF record
<1>4. \A p : p \in PlacesOf(record, i) <=> p = <<r, a>>
  BY <1>0, <1>1, <1>2, <1>3
<1>5. QED
  BY <1>4 DEF record, r, a

(* Whatever the user says while the council waits, also between two roles, *)
(* before the first of a round or after the last, stands in the record     *)
(* once, behind the positions that he had before him.                      *)
THEOREM WordsAreHeard == Spec => []InterventionsAreHeard
<1>1. CouncilInv => InterventionsAreHeard
  <2> SUFFICES ASSUME CouncilInv, NEW t \in Turn, council[t].at \in {"arbiter", "complete"},
                      NEW i \in DOMAIN accepted[t]
               PROVE  \E place \in PlacesOf(Record(council[t]), i) :
                        /\ PlacesOf(Record(council[t]), i) = {place}
                        /\ Before(council[t].rounds, place[1], place[2]) = accepted[t][i]
    BY DEF InterventionsAreHeard
  <2> DEFINE c == council[t]
             r == c.notes[i].round
             a == c.notes[i].after
  <2>1. accepted[t] \in Seq(Said) /\ Placed(c, snapshot[t])
    BY DEF CouncilInv, CouncilsPlaced
  <2>2. Kept(c, snapshot[t]).rounds = c.rounds /\ Kept(c, snapshot[t]).notes = c.notes
    BY AtWork
  <2>3. c.rounds \in Seq(Round) /\ c.notes \in Seq(Note)
    BY <2>1, <2>2, KeptIsTyped
  <2>4. i \in 1..Len(accepted[t])
    BY <2>1
  <2>5. /\ Len(c.notes) = Len(accepted[t])
        /\ r \in 1..Len(c.rounds) /\ a \in 0..Len(c.rounds[r].said)
        /\ accepted[t][i] = Before(c.rounds, r, a)
    BY <2>2, <2>4 DEF CouncilInv, Remembered
  <2>6. PlacesOf(Record(c), i) = {<<r, a>>}
    <3>1. i \in 1..Len(c.notes)
      BY <2>4, <2>5
    <3>2. QED
      BY <2>3, <2>5, <3>1, WordsHaveAPlace
  <2>7. QED
    BY <2>5, <2>6
<1>2. QED
  BY <1>1, CouncilInvariant, PTL

-----------------------------------------------------------------------------
(* The council, and what it promises.                                      *)

LEMMA WhatIsWritten ==
  ASSUME NEW c, NEW s, Placed(c, s), NEW x,
         x = IF c.at = "paused" THEN Restored(s, <<>>) ELSE c
  PROVE  /\ x.opened = View(c, s).opened /\ Begun(x.rounds) = View(c, s).rounds
         /\ x.closed = View(c, s).closed /\ (c.at = "complete") = View(c, s).decided
<1>1. CASE c.at = "paused"
  <2>1. c.closed = 0
    BY <1>1 DEF Placed, InPlace
  <2>2. x.opened = Roles /\ x.rounds = s.rounds /\ x.closed = 0
    BY <1>1 DEF Restored, NewCouncil
  <2>3. QED
    BY <1>1, <2>1, <2>2 DEF View, Kept
<1>2. CASE c.at # "paused"
  BY <1>2 DEF View, Kept
<1>3. QED
  BY <1>1, <1>2

(* What one council's step makes of what is seen of all of them.           *)
LEMMA OneViewMoves ==
  ASSUME CouncilInv, CouncilInv', NEW t \in Turn, NEW w,
         View(council'[t], snapshot'[t]) = w,
         \A u \in Turn \ {t} : council'[u] = council[u] /\ snapshot'[u] = snapshot[u]
  PROVE  /\ [u \in Turn |-> Written(u).opened]' = [[u \in Turn |-> Written(u).opened] EXCEPT ![t] = w.opened]
         /\ [u \in Turn |-> Begun(Written(u).rounds)]' =
              [[u \in Turn |-> Begun(Written(u).rounds)] EXCEPT ![t] = w.rounds]
         /\ [u \in Turn |-> Written(u).closed]' = [[u \in Turn |-> Written(u).closed] EXCEPT ![t] = w.closed]
         /\ [u \in Turn |-> CouncilAt(u, "complete")]' =
              [[u \in Turn |-> CouncilAt(u, "complete")] EXCEPT ![t] = w.decided]
<1>1. Placed(council'[t], snapshot'[t])
  BY DEF CouncilInv, CouncilsPlaced
<1>2. /\ Written(t)'.opened = w.opened /\ Begun(Written(t)'.rounds) = w.rounds
      /\ Written(t)'.closed = w.closed /\ CouncilAt(t, "complete")' = w.decided
  <2>1. Written(t)' = IF council'[t].at = "paused" THEN Restored(snapshot'[t], <<>>)
                                                  ELSE council'[t]
    BY DEF Written, CouncilAt
  <2>2. CouncilAt(t, "complete")' = (council'[t].at = "complete")
    BY DEF CouncilAt
  <2>3. QED
    BY <1>1, <2>1, <2>2, WhatIsWritten
<1>3. ASSUME NEW u \in Turn \ {t}
      PROVE  Written(u)' = Written(u) /\ CouncilAt(u, "complete")' = CouncilAt(u, "complete")
  BY DEF Written, CouncilAt
<1>4. QED
  BY <1>2, <1>3

LEMMA Unmoved ==
  ASSUME NEW S, NEW f, f = [u \in S |-> f[u]], NEW t \in S
  PROVE  \A x : x = f[t] => [f EXCEPT ![t] = x] = f
OBVIOUS

LEMMA CouncilAdvances ==
  ASSUME CouncilInv, CouncilInv', NEW t \in Turn,
         Advances(View(council[t], snapshot[t]), View(council'[t], snapshot'[t])),
         \A u \in Turn \ {t} : council'[u] = council[u] /\ snapshot'[u] = snapshot[u]
  PROVE  AbstractCouncil!Next
<1> DEFINE v == View(council[t], snapshot[t])
           w == View(council'[t], snapshot'[t])
           O == [u \in Turn |-> Written(u).opened]
           R == [u \in Turn |-> Begun(Written(u).rounds)]
           C == [u \in Turn |-> Written(u).closed]
           D == [u \in Turn |-> CouncilAt(u, "complete")]
<1>1. O[t] = v.opened /\ R[t] = v.rounds /\ C[t] = v.closed /\ D[t] = v.decided
  <2>1. Placed(council[t], snapshot[t])
    BY DEF CouncilInv, CouncilsPlaced
  <2>2. QED
    BY <2>1, WhatIsWritten DEF Written, CouncilAt
<1>2. /\ O' = [O EXCEPT ![t] = w.opened] /\ R' = [R EXCEPT ![t] = w.rounds]
      /\ C' = [C EXCEPT ![t] = w.closed] /\ D' = [D EXCEPT ![t] = w.decided]
  BY OneViewMoves
<1> HIDE DEF v, w
<1>3. /\ w.opened = v.opened => O' = O
      /\ w.rounds = v.rounds => R' = R
      /\ w.closed = v.closed => C' = C
      /\ w.decided = v.decided => D' = D
  <2>1. /\ O = [u \in Turn |-> O[u]] /\ R = [u \in Turn |-> R[u]]
        /\ C = [u \in Turn |-> C[u]] /\ D = [u \in Turn |-> D[u]]
    OBVIOUS
  <2> HIDE DEF O, R, C, D
  <2>2. w.opened = v.opened => O' = O
    BY <1>1, <1>2, <2>1, Unmoved
  <2>3. w.rounds = v.rounds => R' = R
    BY <1>1, <1>2, <2>1, Unmoved
  <2>4. w.closed = v.closed => C' = C
    BY <1>1, <1>2, <2>1, Unmoved
  <2>5. w.decided = v.decided => D' = D
    BY <1>1, <1>2, <2>1, Unmoved
  <2>6. QED
    BY <2>2, <2>3, <2>4, <2>5
<1>4. CASE AnotherOpening(v, w)
  <2>1. AbstractCouncil!Open(t)
    BY <1>1, <1>2, <1>3, <1>4 DEF AnotherOpening, AbstractCouncil!Open, AbstractCouncil!Roles, Roles
  <2>2. QED
    BY <2>1 DEF AbstractCouncil!Next
<1>5. CASE Discusses(v, w)
  <2>0. /\ v.opened = Roles /\ v.closed = 0 /\ DiscussionGoesOn(v.rounds, w.rounds)
        /\ O' = O /\ C' = C /\ D' = D
    BY <1>3, <1>5 DEF Discusses
  <2>9. AbstractCouncil!Discussing(t)
    BY <1>1, <2>0 DEF AbstractCouncil!Discussing, AbstractCouncil!Roles, Roles
  <2>1. CASE /\ Len(v.rounds) < MaxRounds /\ (v.rounds # <<>> => MayFollow(LastRound(v.rounds)))
             /\ \E news \in BOOLEAN :
                  w.rounds = Append(v.rounds, [said |-> <<RoleOrder[1]>>, news |-> news, held |-> FALSE])
    <3>1. AbstractCouncil!MaySpeakAgain(t)
      BY <1>1, <2>1 DEF AbstractCouncil!MaySpeakAgain, AbstractCouncil!Complete, AbstractCouncil!Last,
                        MayFollow, LastRound
    <3>2. AbstractCouncil!BeginRound(t)
      BY <1>1, <1>2, <2>0, <2>9, <2>1, <3>1 DEF AbstractCouncil!BeginRound
    <3>3. QED
      BY <3>2 DEF AbstractCouncil!Next
  <2>2. CASE /\ v.rounds # <<>> /\ LastRound(v.rounds).said # RoleOrder
             /\ \E news \in BOOLEAN :
                  LastIsNow(v.rounds, w.rounds, WithSpeaker(LastRound(v.rounds), news))
    <3>1. PICK news \in BOOLEAN :
            LastIsNow(v.rounds, w.rounds, WithSpeaker(LastRound(v.rounds), news))
      BY <2>2
    <3>2. WithSpeaker(LastRound(v.rounds), news)
            = AbstractCouncil!Further(v.rounds[Len(v.rounds)], news)
      BY DEF WithSpeaker, WithPosition, LastRound, AbstractCouncil!Further
    <3>3. w.rounds = [v.rounds EXCEPT ![Len(v.rounds)] =
                        AbstractCouncil!Further(v.rounds[Len(v.rounds)], news)]
      BY <3>1, <3>2 DEF LastIsNow
    <3>4. R' = [R EXCEPT ![t] = [R[t] EXCEPT ![Len(R[t])] =
                        AbstractCouncil!Further(R[t][Len(R[t])], news)]]
      BY <1>1, <1>2, <3>3
    <3>5. R[t] # <<>> /\ ~ AbstractCouncil!Complete(AbstractCouncil!Last(t))
      BY <1>1, <2>2 DEF AbstractCouncil!Complete, AbstractCouncil!Last, LastRound
    <3>6. AbstractCouncil!Speak(t)
      BY <2>0, <2>9, <3>4, <3>5 DEF AbstractCouncil!Speak
    <3>7. QED
      BY <3>6 DEF AbstractCouncil!Next
  <2>3. CASE /\ v.rounds # <<>> /\ LastRound(v.rounds).said = RoleOrder
             /\ LastIsNow(v.rounds, w.rounds, [LastRound(v.rounds) EXCEPT !.held = TRUE])
    <3>1. AbstractCouncil!Hold(t)
      BY <1>1, <1>2, <2>0, <2>9, <2>3
         DEF AbstractCouncil!Hold, AbstractCouncil!Complete, AbstractCouncil!Last, LastIsNow, LastRound
    <3>2. QED
      BY <3>1 DEF AbstractCouncil!Next
  <2>4. QED
    BY <2>0, <2>1, <2>2, <2>3 DEF DiscussionGoesOn
<1>6. CASE AnotherClosing(v, w)
  <2>1. AbstractCouncil!Close(t)
    BY <1>1, <1>2, <1>3, <1>6
       DEF AnotherClosing, TalkedOut, MayFollow, LastRound, Roles, AbstractCouncil!Close,
           AbstractCouncil!Roles, AbstractCouncil!Complete, AbstractCouncil!Last,
           AbstractCouncil!MaySpeakAgain
  <2>2. QED
    BY <2>1 DEF AbstractCouncil!Next
<1>7. CASE TheVerdict(v, w)
  <2>1. AbstractCouncil!Decide(t)
    BY <1>1, <1>2, <1>3, <1>7 DEF TheVerdict, AbstractCouncil!Decide, AbstractCouncil!Roles, Roles
  <2>2. QED
    BY <2>1 DEF AbstractCouncil!Next
<1>8. QED
  BY <1>4, <1>5, <1>6, <1>7 DEF Advances, v, w

LEMMA NothingIsSeen ==
  ASSUME CouncilInv, CouncilInv',
         \A u \in Turn : View(council'[u], snapshot'[u]) = View(council[u], snapshot[u])
  PROVE  UNCHANGED AbstractCouncil!vars
<1>1. ASSUME NEW u \in Turn
      PROVE  /\ Written(u)'.opened = Written(u).opened
             /\ Begun(Written(u)'.rounds) = Begun(Written(u).rounds)
             /\ Written(u)'.closed = Written(u).closed
             /\ CouncilAt(u, "complete")' = CouncilAt(u, "complete")
  <2>1. Placed(council[u], snapshot[u]) /\ Placed(council'[u], snapshot'[u])
    BY DEF CouncilInv, CouncilsPlaced
  <2>2. /\ Written(u) = IF council[u].at = "paused" THEN Restored(snapshot[u], <<>>) ELSE council[u]
        /\ Written(u)' = IF council'[u].at = "paused" THEN Restored(snapshot'[u], <<>>)
                                                     ELSE council'[u]
    BY DEF Written, CouncilAt
  <2>3. /\ CouncilAt(u, "complete") = (council[u].at = "complete")
        /\ CouncilAt(u, "complete")' = (council'[u].at = "complete")
    BY DEF CouncilAt
  <2>4. View(council'[u], snapshot'[u]) = View(council[u], snapshot[u])
    OBVIOUS
  <2>5. /\ Written(u).opened = View(council[u], snapshot[u]).opened
        /\ Begun(Written(u).rounds) = View(council[u], snapshot[u]).rounds
        /\ Written(u).closed = View(council[u], snapshot[u]).closed
        /\ CouncilAt(u, "complete") = View(council[u], snapshot[u]).decided
    BY <2>1, <2>2, <2>3, WhatIsWritten
  <2>6. /\ Written(u)'.opened = View(council'[u], snapshot'[u]).opened
        /\ Begun(Written(u)'.rounds) = View(council'[u], snapshot'[u]).rounds
        /\ Written(u)'.closed = View(council'[u], snapshot'[u]).closed
        /\ CouncilAt(u, "complete")' = View(council'[u], snapshot'[u]).decided
    BY <2>1, <2>2, <2>3, WhatIsWritten
  <2>7. QED
    BY <2>4, <2>5, <2>6
<1>2. QED
  BY <1>1 DEF AbstractCouncil!vars

(* However a deliberation is paused, written down and taken up again, by   *)
(* however many workers one after the other, it is one deliberation.       *)
THEOREM CouncilIsOne == Spec => ImplementsCouncil
<1>1. Init => AbstractCouncil!Init
  <2> SUFFICES ASSUME Init PROVE AbstractCouncil!Init
    OBVIOUS
  <2>1. council = [t \in Turn |-> NewCouncil]
    BY DEF Init, CouncilInit
  <2>2. /\ NewCouncil.at = "idle" /\ NewCouncil.opened = 0 /\ NewCouncil.rounds = <<>>
        /\ NewCouncil.closed = 0
    BY DEF NewCouncil
  <2>3. \A t \in Turn : Written(t) = NewCouncil /\ CouncilAt(t, "complete") = FALSE
    BY <2>1, <2>2 DEF Written, CouncilAt
  <2>4. Begun(<<>>) = <<>>
    BY DEF Begun
  <2>5. QED
    BY <2>2, <2>3, <2>4 DEF AbstractCouncil!Init
<1>2. AnswersInv /\ CouncilInv /\ CouncilInv' /\ [Next]_vars
        => [AbstractCouncil!Next]_(AbstractCouncil!vars)
  <2> SUFFICES ASSUME AnswersInv, CouncilInv, CouncilInv', [Next]_vars
               PROVE  [AbstractCouncil!Next]_(AbstractCouncil!vars)
    OBVIOUS
  <2>1. CASE UNCHANGED vars
    BY <2>1, NothingIsSeen DEF vars, councilVars
  <2>2. ASSUME NEW t \in Turn, StepFor(t) PROVE [AbstractCouncil!Next]_(AbstractCouncil!vars)
    <3>1. CASE Stays(t)
      BY <3>1, NothingIsSeen DEF Stays
    <3>2. CASE Hears(t)
      <4>1. PICK words \in BOOLEAN : TakeWords(t, snapshot[t], words)
        BY <3>2 DEF Hears
      <4>2. \A u \in Turn : snapshot'[u].rounds = snapshot[u].rounds
        <5>1. ASSUME NEW n, snapshot' = [snapshot EXCEPT ![t].notes = Append(@, n)]
              PROVE  \A u \in Turn : snapshot'[u].rounds = snapshot[u].rounds
          <6>1. DOMAIN snapshot = Turn /\ snapshot[t] \in SnapshotRecord
            BY DEF CouncilInv, CouncilsPlaced
          <6>2. snapshot'[t].rounds = snapshot[t].rounds
            BY <5>1, <6>1 DEF SnapshotRecord
          <6>3. \A u \in Turn \ {t} : snapshot'[u] = snapshot[u]
            BY <5>1, <6>1
          <6>4. QED
            BY <6>2, <6>3
        <5>2. QED
          BY <4>1, <5>1 DEF TakeWords
      <4>3. \A u \in Turn : View(council'[u], snapshot'[u]) = View(council[u], snapshot[u])
        BY <3>2, <4>2 DEF Hears, View, Kept
      <4>4. QED
        BY <4>3, NothingIsSeen
    <3>3. CASE Proceeds(t)
      <4>1. PICK d, z : MovesTo(t, d, z)
        BY <3>3 DEF Proceeds, CouncilProceeds
      <4>2. /\ council'[t] = d /\ snapshot'[t] = z
            /\ \A u \in Turn \ {t} : council'[u] = council[u] /\ snapshot'[u] = snapshot[u]
        BY <4>1 DEF MovesTo, CouncilInv, CouncilsPlaced
      <4>3. \/ View(council'[t], snapshot'[t]) = View(council[t], snapshot[t])
            \/ Advances(View(council[t], snapshot[t]), View(council'[t], snapshot'[t]))
        BY <4>1, <4>2 DEF MovesTo, StepsTo
      <4>4. CASE View(council'[t], snapshot'[t]) = View(council[t], snapshot[t])
        <5>1. \A u \in Turn : View(council'[u], snapshot'[u]) = View(council[u], snapshot[u])
          BY <4>2, <4>4
        <5>2. QED
          BY <5>1, NothingIsSeen
      <4>5. CASE Advances(View(council[t], snapshot[t]), View(council'[t], snapshot'[t]))
        BY <4>2, <4>5, CouncilAdvances
      <4>6. QED
        BY <4>3, <4>4, <4>5
    <3>4. QED
      BY <2>2, <3>1, <3>2, <3>3, RouterAroundCouncil DEF AnswersInv
  <2>3. QED
    BY <2>1, <2>2 DEF Next
<1>3. QED
  BY <1>1, <1>2, AnswersInvariant, CouncilInvariant, PTL DEF Spec, ImplementsCouncil,
     AbstractCouncil!Spec

-----------------------------------------------------------------------------
(* Types.                                                                  *)

(* What a turn learns is made of what an extraction may yield.             *)
LearnedInv ==
  /\ \A s \in superseded : s[1] \in FactKey
  /\ known \subseteq MemoryItem
  /\ pending \in [Turn -> SUBSET MemoryItem]
  /\ extracted \in [Turn -> SUBSET MemoryItem]
  /\ DOMAIN resolution = Turn
  /\ \A t \in Turn : /\ resolution[t].commit \subseteq MemoryItem
                     /\ resolution[t].keep \subseteq MemoryItem
                     /\ \A s \in resolution[t].replace : s[1] \in FactKey

LEMMA ResolvedIsTyped ==
  ASSUME NEW x \in SUBSET MemoryItem, NEW facts, NEW r, r = Resolved(x, facts)
  PROVE  /\ r.commit \subseteq MemoryItem /\ r.keep \subseteq MemoryItem
         /\ \A s \in r.replace : s[1] \in FactKey
<1> DEFINE commit == {i \in x : Committable(i, facts)}
<1>1. /\ r.commit = commit /\ r.keep = x \ commit
      /\ r.replace = {<<i.key, facts[i.key].value>> :
                        i \in {j \in commit : j.kind = "fact" /\ Differs(j, facts)}}
  BY DEF Resolved
<1>2. \A i \in commit : i.kind = "fact" => i.key \in FactKey
  BY MemoryAssumption
<1>3. QED
  BY <1>1, <1>2

LEMMA LearningIsTyped == ASSUME LearnedInv, MemoryStep PROVE LearnedInv'
<1>1. CASE UNCHANGED memoryVars
  BY <1>1 DEF memoryVars, LearnedInv
<1>2. ASSUME NEW t \in Turn, LoadSnapshot(t) PROVE LearnedInv'
  BY <1>2 DEF LoadSnapshot, LearnedInv
<1>3. ASSUME NEW t \in Turn, Extract(t) PROVE LearnedInv'
  <2>1. PICK x \in Extractions(t) : extracted' = [extracted EXCEPT ![t] = x]
    BY <1>3 DEF Extract
  <2>2. x \in SUBSET MemoryItem
    BY MemoryAssumption DEF Extractions
  <2>3. QED
    BY <1>3, <2>1, <2>2 DEF Extract, LearnedInv
<1>4. ASSUME NEW t \in Turn, NEW r, resolution' = [resolution EXCEPT ![t] = r],
             r.commit \subseteq MemoryItem, r.keep \subseteq MemoryItem,
             \A s \in r.replace : s[1] \in FactKey,
             UNCHANGED <<superseded, known, pending>>,
             extracted' \in [Turn -> SUBSET MemoryItem]
      PROVE  LearnedInv'
  <2>1. DOMAIN resolution' = Turn /\ resolution'[t] = r
        /\ \A u \in Turn \ {t} : resolution'[u] = resolution[u]
    BY <1>4 DEF LearnedInv
  <2>2. \A u \in Turn : /\ resolution'[u].commit \subseteq MemoryItem
                        /\ resolution'[u].keep \subseteq MemoryItem
                        /\ \A s \in resolution'[u].replace : s[1] \in FactKey
    BY <1>4, <2>1 DEF LearnedInv
  <2>3. QED
    BY <1>4, <2>1, <2>2 DEF LearnedInv
<1>5. ASSUME NEW t \in Turn, Resolve(t) PROVE LearnedInv'
  <2>1. PICK facts : resolution' = [resolution EXCEPT ![t] = Resolved(extracted[t], facts)]
    BY <1>5 DEF Resolve
  <2>2. extracted[t] \in SUBSET MemoryItem
    BY DEF LearnedInv
  <2> DEFINE r == Resolved(extracted[t], facts)
  <2>3. /\ r.commit \subseteq MemoryItem /\ r.keep \subseteq MemoryItem
        /\ \A s \in r.replace : s[1] \in FactKey
    BY <2>2, ResolvedIsTyped
  <2>4. UNCHANGED <<superseded, known, pending>> /\ extracted' \in [Turn -> SUBSET MemoryItem]
    BY <1>5 DEF Resolve, LearnedInv
  <2> HIDE DEF r
  <2>5. resolution' = [resolution EXCEPT ![t] = r]
    BY <2>1 DEF r
  <2>6. QED
    BY <1>4, <2>3, <2>4, <2>5
<1>6. /\ NoResolution.commit = {} /\ NoResolution.keep = {} /\ NoResolution.replace = {}
  BY DEF NoResolution
<1>7. ASSUME NEW t \in Turn, NothingResolved(t) PROVE LearnedInv'
  BY <1>4, <1>6, <1>7 DEF NothingResolved, LearnedInv
<1>8. ASSUME NEW t \in Turn, resolution[t].made, Commit(t) PROVE LearnedInv'
  <2>1. /\ resolution[t].commit \subseteq MemoryItem /\ resolution[t].keep \subseteq MemoryItem
        /\ \A s \in resolution[t].replace : s[1] \in FactKey
    BY DEF LearnedInv
  <2>2. /\ superseded' = superseded \cup resolution[t].replace
        /\ known' = known \cup {i \in resolution[t].commit : i.kind # "fact"}
        /\ pending' = [pending EXCEPT ![t] = resolution[t].keep]
        /\ UNCHANGED <<extracted, resolution>>
    BY <1>8 DEF Commit
  <2>3. QED
    BY <2>1, <2>2 DEF LearnedInv
<1>9. ASSUME NEW t \in Turn, extracted' = [extracted EXCEPT ![t] = {}],
             resolution' = [resolution EXCEPT ![t] = NoResolution],
             UNCHANGED <<fact, superseded, known, pending>>
      PROVE  LearnedInv'
  <2>1. extracted' \in [Turn -> SUBSET MemoryItem]
    BY <1>9 DEF LearnedInv
  <2>2. QED
    BY <1>4, <1>6, <1>9, <2>1
<1>10. QED
  BY <1>1, <1>2, <1>3, <1>5, <1>7, <1>8, <1>9 DEF MemoryStep

LEMMA LearningInvariant == Spec => []LearnedInv
<1>1. ASSUME MemoryInit PROVE LearnedInv
  BY <1>1 DEF MemoryInit, LearnedInv, NoResolution
<1>2. LearnedInv /\ [Next]_vars => LearnedInv'
  BY TurnStepsTheMemory, LearningIsTyped
<1>3. QED
  BY <1>1, <1>2, PTL DEF Spec, Init

(* What was asked of a turn, and the name of its chat.                     *)
AskedInv ==
  /\ cancelAsked \subseteq Turn /\ pauseAsked \subseteq Turn
  /\ DOMAIN pauses = Turn /\ \A t \in Turn : pauses[t] \in 0..MaxPauses[t]
  /\ title \in [Turn -> {"", "user", "model"}]

Asks(t) ==
  /\ cancelAsked' = cancelAsked \/ AskCancel(t)
  /\ \/ UNCHANGED <<pauseAsked, pauses>>
     \/ pauseAsked' = pauseAsked \ {t} /\ pauses' = pauses
     \/ AskPause(t)
  /\ title' = title \/ \E name \in {"user", "model"} : title' = [title EXCEPT ![t] = name]

LEMMA TurnAsks == ASSUME NEW t \in Turn, StepFor(t) PROVE Asks(t)
<1> USE DEF councilUnchanged, councilVars, nothingButTheTurn, turnUnchanged, Asks
<1>1. ASSUME NEW st, NEW how, EndTurn(t, st, how) PROVE Asks(t)
  BY <1>1 DEF EndTurn
<1>2. CASE PlainState(t)
  BY <1>2 DEF PlainState, Start, SummarizeHistory, Classify, DecideRag, RewriteQuery,
              SummarizeDocs, UpdateHistory, DecideMemory, Passes
<1>3. CASE LoadMemory(t) \/ RetrieveContext(t) \/ Responded(t)
  BY <1>3 DEF LoadMemory, RetrieveContext, Responded
<1>4. CASE GenerateResponse(t)
  BY <1>4 DEF GenerateResponse
<1>5. CASE HandlerFails(t) \/ ResponseFails(t) \/ TurnPauses(t) \/ Finish(t) \/ Cancel(t)
  BY <1>1, <1>5 DEF HandlerFails, ResponseFails, TurnPauses, Finish, Cancel
<1>6. CASE CallGoesOn(t)
  BY <1>6 DEF CallGoesOn, CallStep, Send, Delta, RateLimited, RequestFails, ServerPause, Answer,
              AskForTools, UseTool
<1>7. CASE CouncilGoesOn(t)
  <2>1. ASSUME NEW held, NEW r, NEW i, Pause(t, held, r, i) PROVE Asks(t)
    BY <1>7, <2>1 DEF Pause, CouncilGoesOn
  <2>2. CASE PauseBeforeRole(t) \/ PauseAfterRole(t) \/ PauseAfterRound(t)
    BY <2>1, <2>2 DEF PauseBeforeRole, PauseAfterRole, PauseAfterRound
  <2>3. QED
    BY <1>7, <2>2 DEF CouncilGoesOn, CouncilStep, OpeningArgument, DiscussionGate, AskRole, Discuss,
                      NextRole, EndRound, ClosingArgument, Verdict, untouchedByCouncil
<1>8. CASE ExtractMemory(t) \/ ResolveMemory(t) \/ CommitMemory(t)
  BY <1>8 DEF ExtractMemory, ResolveMemory, CommitMemory
<1>9. CASE AutoName(t) \/ ChatNamed(t) \/ UserNamesChat(t)
  BY <1>9 DEF AutoName, ChatNamed, UserNamesChat
<1>10. CASE TakeUp(t) \/ NameInFollowUp(t) \/ Resume(t)
  BY <1>10 DEF TakeUp, NameInFollowUp, Resume
<1>11. CASE AskToCancel(t) \/ AskToPause(t)
  BY <1>11 DEF AskToCancel, AskToPause
<1>12. QED
  BY <1>2, <1>3, <1>4, <1>5, <1>6, <1>7, <1>8, <1>9, <1>10, <1>11 DEF StepFor, TurnStep

LEMMA AskedInvariant == Spec => []AskedInv
<1>1. Init => AskedInv
  <2> SUFFICES ASSUME Init PROVE AskedInv
    OBVIOUS
  <2>1. \A t \in Turn : 0 \in 0..MaxPauses[t]
    BY CouncilAssumption
  <2>2. QED
    BY <2>1 DEF Init, ControlInit, CouncilInit, AskedInv
<1>2. AskedInv /\ [Next]_vars => AskedInv'
  <2> SUFFICES ASSUME AskedInv, [Next]_vars PROVE AskedInv'
    OBVIOUS
  <2>1. CASE UNCHANGED vars
    BY <2>1 DEF vars, councilVars, AskedInv
  <2>2. ASSUME NEW t \in Turn, Asks(t) PROVE AskedInv'
    <3>1. cancelAsked' \subseteq Turn
      BY <2>2 DEF Asks, AskCancel, AskedInv
    <3>2. pauseAsked' \subseteq Turn
      BY <2>2 DEF Asks, AskPause, AskedInv
    <3>3. DOMAIN pauses' = Turn /\ \A u \in Turn : pauses'[u] \in 0..MaxPauses[u]
      <4>1. CASE pauses' = pauses
        BY <4>1 DEF AskedInv
      <4>2. CASE AskPause(t)
        <5>1. pauses[t] + 1 \in 0..MaxPauses[t]
          <6>1. pauses[t] \in 0..MaxPauses[t]
            BY DEF AskedInv
          <6>2. MaxPauses[t] \in Nat
            BY CouncilAssumption
          <6>3. pauses[t] < MaxPauses[t]
            BY <4>2 DEF AskPause
          <6>4. QED
            BY <6>1, <6>2, <6>3
        <5>2. pauses' = [pauses EXCEPT ![t] = pauses[t] + 1]
          BY <4>2 DEF AskPause
        <5>3. QED
          BY <5>1, <5>2 DEF AskedInv
      <4>3. QED
        BY <2>2, <4>1, <4>2 DEF Asks
    <3>4. title' \in [Turn -> {"", "user", "model"}]
      BY <2>2 DEF Asks, AskedInv
    <3>5. QED
      BY <3>1, <3>2, <3>3, <3>4 DEF AskedInv
  <2>3. QED
    BY <2>1, <2>2, TurnAsks DEF Next
<1>3. QED
  BY <1>1, <1>2, PTL DEF Spec

LEMMA SaidByRoles ==
  ASSUME NEW said \in Spoken
  PROVE  ToSet(said) \subseteq Role /\ Len(said) <= Roles
<1>2. said \in Seq(Speaker) /\ Len(said) \in 0..3
  BY SpokenInTurn
<1>3. Len(said) \in Nat /\ Len(said) <= 3 /\ DOMAIN said = 1..Len(said)
  <2>1. \A n \in 0..3 : n \in Nat /\ n <= 3
    OBVIOUS
  <2>2. Len(said) \in Nat /\ Len(said) <= 3
    BY <1>2, <2>1, Zenon
  <2>3. DOMAIN said = 1..Len(said)
    BY <1>2, LenProperties
  <2>4. QED
    BY <2>2, <2>3
<1>4. \A i \in 1..Len(said) : said[i] = RoleOrder[i]
  BY DEF Spoken
<1>5. DOMAIN RoleOrder = 1..3 /\ Roles = 3
  BY RolesAreThree
<1>6. \A i \in DOMAIN said : i \in DOMAIN RoleOrder /\ said[i] = RoleOrder[i]
  BY <1>3, <1>4, <1>5
<1>7. ToSet(said) \subseteq Role
  <2>1. ToSet(said) = {said[i] : i \in DOMAIN said}
    BY DEF ToSet
  <2>2. Role = {RoleOrder[i] : i \in DOMAIN RoleOrder}
    BY DEF ToSet, Role
  <2>3. QED
    BY <1>6, <2>1, <2>2
<1>8. QED
  BY <1>3, <1>5, <1>7

LEMMA PlacedIsTyped ==
  ASSUME NEW c \in CouncilRecord, NEW s \in SnapshotRecord
  PROVE  /\ c.at \in CouncilState
         /\ {c.opened, c.closed} \subseteq 0..Roles
         /\ c.round \in 0..MaxRounds /\ c.index \in 0..Roles
         /\ \A r \in DOMAIN c.rounds : /\ ToSet(c.rounds[r].said) \subseteq Role
                                       /\ Len(c.rounds[r].said) <= Roles
         /\ s.nextRound \in 0..MaxRounds + 1
<1>1. /\ c.at \in CouncilState /\ c.opened \in 0..Roles /\ c.closed \in 0..Roles
      /\ c.round \in 0..MaxRounds /\ c.index \in 0..Roles
      /\ c.rounds \in Seq(Round)
  BY DEF CouncilRecord
<1>2. s.nextRound \in 0..MaxRounds + 1
  BY DEF SnapshotRecord
<1>3. \A r \in DOMAIN c.rounds : c.rounds[r] \in Round
  BY <1>1
<1>4. \A r \in DOMAIN c.rounds : /\ ToSet(c.rounds[r].said) \subseteq Role
                                 /\ Len(c.rounds[r].said) <= Roles
  <2> TAKE r \in DOMAIN c.rounds
  <2>1. c.rounds[r].said \in Spoken
    BY <1>3 DEF Round
  <2>2. QED
    BY <2>1, SaidByRoles
<1>5. QED
  BY <1>1, <1>2, <1>4

(* The states of a turn are the states its code knows: among them that no  *)
(* counter of a call passes its limit, that no round holds more than its   *)
(* three roles, and that a search is answered with chunks of the index.    *)
THEOREM TurnTypes == Spec => []RouterTypeOK
<1>1. AskedInv => ControlTypeOK
  BY DEF AskedInv, ControlTypeOK
<1>2. SearchesInv => PoolTypeOK
  <2> SUFFICES ASSUME SearchesInv, NEW t \in Turn
               PROVE  /\ pool[t].covered \subseteq AllPages
                      /\ pool[t].singles \subseteq Chunk
                      /\ pool[t].results \in Seq(SUBSET Chunk)
                      /\ Len(pool[t].results) <= MaxSearches[t]
    BY DEF PoolTypeOK, AllPages
  <2>1. pool[t] \in PoolRecord
    BY DEF SearchesInv
  <2>2. QED
    BY <2>1 DEF SearchesInv, PoolRecord
<1>3. AnswersInv => CallTypeOK
  <2> SUFFICES ASSUME AnswersInv PROVE CallTypeOK
    OBVIOUS
  <2>1. call \in [Turn -> CallRecord]
    BY DEF AnswersInv, CallTyped
  <2>2. \A t \in Turn : shown[t].offsets \in Seq(0..MaxText) /\ shown[t].apart \in BOOLEAN
    BY DEF AnswersInv, CallTyped, Picture, Text
  <2>3. QED
    BY <2>1, <2>2 DEF CallTypeOK, CallRecord
<1>4. CouncilInv /\ AskedInv => CouncilTypeOK
  <2> SUFFICES ASSUME CouncilInv, AskedInv PROVE CouncilTypeOK
    OBVIOUS
  <2>1. council \in [Turn -> CouncilRecord] /\ snapshot \in [Turn -> SnapshotRecord]
    BY DEF CouncilInv, CouncilsPlaced
  <2>2. \A t \in Turn : council[t] \in CouncilRecord /\ snapshot[t] \in SnapshotRecord
    BY <2>1
  <2>3. pauseAsked \subseteq Turn /\ \A t \in Turn : pauses[t] \in 0..MaxPauses[t]
    BY DEF AskedInv
  <2>4. QED
    BY <2>2, <2>3, PlacedIsTyped DEF CouncilTypeOK
<1>5. MemoryInv /\ LearnedInv => MemoryTypeOK
  <2> SUFFICES ASSUME MemoryInv, LearnedInv PROVE MemoryTypeOK
    OBVIOUS
  <2>1. \A t \in Turn : pending[t] \subseteq MemoryItem /\ extracted[t] \in SUBSET MemoryItem
    BY DEF LearnedInv
  <2>2. QED
    BY <2>1 DEF MemoryInv, LearnedInv, MemoryTypeOK
<1>6. AnswersInv => turn \in [Turn -> TurnRecord]
  BY DEF AnswersInv
<1>7. AskedInv => title \in [Turn -> {"", "user", "model"}]
  BY DEF AskedInv
<1>8. AskedInv /\ SearchesInv /\ AnswersInv /\ CouncilInv /\ MemoryInv /\ LearnedInv
        => RouterTypeOK
  BY <1>1, <1>2, <1>3, <1>4, <1>5, <1>6, <1>7 DEF RouterTypeOK, TurnRecord
<1>9. QED
  BY <1>8, AskedInvariant, SearchesInvariant, AnswersInvariant, CouncilInvariant,
     MemoryInvariant, LearningInvariant, PTL
=============================================================================
