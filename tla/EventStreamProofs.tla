-------------------------- MODULE EventStreamProofs -------------------------
(***************************************************************************)
(* Proofs about the text of a run and the stream that shows it, for any    *)
(* number of deltas, events, pauses and faults and any size of a query:    *)
(* types, the conservation of the text while two threads save it, and the  *)
(* replay of the log without a gap.                                        *)
(***************************************************************************)
EXTENDS EventStream, WellFoundedInduction, TLAPS

LogEvent == [type : EventType, text : Text, window : Nat]

-----------------------------------------------------------------------------
(* Sequences.                                                              *)

LEMMA AppendFacts ==
  ASSUME NEW S, NEW s \in Seq(S), NEW e \in S
  PROVE  /\ Append(s, e) \in Seq(S)
         /\ Len(Append(s, e)) = Len(s) + 1
         /\ DOMAIN Append(s, e) = 1..(Len(s) + 1)
         /\ \A i \in 1..Len(s) : Append(s, e)[i] = s[i]
         /\ Append(s, e)[Len(s) + 1] = e
OBVIOUS

LEMMA RangeOfAppend ==
  ASSUME NEW S, NEW s \in Seq(S), NEW e \in S
  PROVE  Range(Append(s, e)) = Range(s) \cup {e}
<1>1. DOMAIN s = 1..Len(s) /\ Len(s) \in Nat
  OBVIOUS
<1>2. Range(Append(s, e)) \subseteq Range(s) \cup {e}
  BY <1>1, AppendFacts DEF Range
<1>3. Range(s) \subseteq Range(Append(s, e))
  BY <1>1, AppendFacts DEF Range
<1>4. e \in Range(Append(s, e))
  BY <1>1, AppendFacts DEF Range
<1>5. QED
  BY <1>2, <1>3, <1>4

LEMMA InjectiveAppend ==
  ASSUME NEW S, NEW s \in Seq(S), NEW e \in S, IsInjective(s), e \notin Range(s)
  PROVE  IsInjective(Append(s, e))
BY AppendFacts DEF IsInjective, Range

LEMMA ConcatFacts ==
  ASSUME NEW S, NEW s \in Seq(S), NEW t \in Seq(S)
  PROVE  /\ s \o t \in Seq(S)
         /\ DOMAIN (s \o t) = 1..(Len(s) + Len(t))
         /\ \A i \in 1..Len(s) : (s \o t)[i] = s[i]
         /\ \A i \in 1..Len(t) : (s \o t)[Len(s) + i] = t[i]
         /\ \A i \in DOMAIN (s \o t) :
              i \notin 1..Len(s) => i - Len(s) \in 1..Len(t) /\ (s \o t)[i] = t[i - Len(s)]
<1>1. Len(s) \in Nat /\ Len(t) \in Nat /\ Len(s \o t) = Len(s) + Len(t)
  OBVIOUS
<1>2. s \o t \in Seq(S) /\ DOMAIN (s \o t) = 1..(Len(s) + Len(t))
  BY <1>1
<1>3. \A i \in 1..Len(s) : (s \o t)[i] = s[i]
  BY <1>1
<1>4. \A i \in 1..Len(t) : (s \o t)[Len(s) + i] = t[i]
  BY <1>1
<1>5. \A i \in DOMAIN (s \o t) :
        i \notin 1..Len(s) => i - Len(s) \in 1..Len(t) /\ (s \o t)[i] = t[i - Len(s)]
  BY <1>1, <1>2
<1>6. QED
  BY <1>2, <1>3, <1>4, <1>5

LEMMA RangeOfConcat ==
  ASSUME NEW S, NEW s \in Seq(S), NEW t \in Seq(S)
  PROVE  Range(s \o t) = Range(s) \cup Range(t)
<1>1. DOMAIN s = 1..Len(s) /\ DOMAIN t = 1..Len(t) /\ Len(s) \in Nat /\ Len(t) \in Nat
  OBVIOUS
<1>2. Range(s \o t) \subseteq Range(s) \cup Range(t)
  BY <1>1, ConcatFacts DEF Range
<1>3. Range(s) \subseteq Range(s \o t)
  BY <1>1, ConcatFacts DEF Range
<1>4. Range(t) \subseteq Range(s \o t)
  <2> SUFFICES ASSUME NEW j \in 1..Len(t) PROVE t[j] \in Range(s \o t)
    BY <1>1 DEF Range
  <2>1. Len(s) + j \in DOMAIN (s \o t) /\ (s \o t)[Len(s) + j] = t[j]
    BY <1>1, ConcatFacts
  <2>2. QED
    BY <2>1 DEF Range
<1>5. QED
  BY <1>2, <1>3, <1>4

LEMMA InRange ==
  ASSUME NEW f, NEW x \in DOMAIN f
  PROVE  f[x] \in Range(f)
BY DEF Range

(* Text without a repetition, put together from parts that share nothing.  *)
LEMMA InjectiveConcat ==
  ASSUME NEW S, NEW s \in Seq(S), NEW t \in Seq(S),
         IsInjective(s), IsInjective(t), Range(s) \cap Range(t) = {}
  PROVE  IsInjective(s \o t)
<1> SUFFICES ASSUME NEW a \in DOMAIN (s \o t), NEW b \in DOMAIN (s \o t),
                    (s \o t)[a] = (s \o t)[b]
             PROVE  a = b
  BY DEF IsInjective
<1>1. /\ DOMAIN s = 1..Len(s) /\ DOMAIN t = 1..Len(t) /\ Len(s) \in Nat /\ Len(t) \in Nat
      /\ a \in Int /\ b \in Int
  <2>1. a \in 1..(Len(s) + Len(t)) /\ b \in 1..(Len(s) + Len(t))
    BY ConcatFacts, Zenon
  <2>2. QED
    BY <2>1
<1>2. CASE a \in 1..Len(s) /\ b \in 1..Len(s)
  <2>1. a \in DOMAIN s /\ b \in DOMAIN s /\ s[a] = s[b]
    BY <1>1, <1>2, ConcatFacts
  <2>2. QED
    BY <2>1 DEF IsInjective
<1>3. CASE a \notin 1..Len(s) /\ b \notin 1..Len(s)
  <2>1. /\ a - Len(s) \in DOMAIN t /\ b - Len(s) \in DOMAIN t
        /\ t[a - Len(s)] = t[b - Len(s)]
    BY <1>1, <1>3, ConcatFacts
  <2>2. a - Len(s) = b - Len(s)
    BY <2>1 DEF IsInjective
  <2>3. QED
    BY <1>1, <2>2
<1>4. CASE a \in 1..Len(s) /\ b \notin 1..Len(s)
  <2>1. a \in DOMAIN s /\ b - Len(s) \in DOMAIN t
    BY <1>1, <1>4, ConcatFacts
  <2>2. s[a] = t[b - Len(s)]
    BY <1>1, <1>4, ConcatFacts
  <2>3. QED
    BY <2>1, <2>2, InRange
<1>5. CASE a \notin 1..Len(s) /\ b \in 1..Len(s)
  <2>1. b \in DOMAIN s /\ a - Len(s) \in DOMAIN t
    BY <1>1, <1>5, ConcatFacts
  <2>2. s[b] = t[a - Len(s)]
    BY <1>1, <1>5, ConcatFacts
  <2>3. QED
    BY <2>1, <2>2, InRange
<1>6. QED
  BY <1>2, <1>3, <1>4, <1>5

LEMMA InjectiveEmpty == IsInjective(<<>>) /\ Range(<<>>) = {} /\ <<>> \in Text
BY DEF IsInjective, Range, Text

-----------------------------------------------------------------------------
(* Extrema of finite sets of numbers.                                      *)

LEMMA MinOfTwo ==
  ASSUME NEW a \in Nat, NEW b \in Nat
  PROVE  Min({a, b}) \in {a, b} /\ Min({a, b}) <= a /\ Min({a, b}) <= b
<1>1. \E x \in {a, b} : \A y \in {a, b} : x <= y
  <2>1. CASE a <= b
    BY <2>1
  <2>2. CASE b <= a
    BY <2>2
  <2>3. QED
    BY <2>1, <2>2
<1>2. QED
  BY <1>1 DEF Min

LEMMA MaxOfTwo ==
  ASSUME NEW a \in Nat, NEW b \in Nat
  PROVE  Max({a, b}) \in {a, b} /\ Max({a, b}) >= a /\ Max({a, b}) >= b
<1>1. \E x \in {a, b} : \A y \in {a, b} : x >= y
  <2>1. CASE a <= b
    BY <2>1
  <2>2. CASE b <= a
    BY <2>2
  <2>3. QED
    BY <2>1, <2>2
<1>2. QED
  BY <1>1 DEF Max

LEMMA LeastNatural ==
  ASSUME NEW S, S \subseteq Nat, S # {}
  PROVE  \E x \in S : \A y \in S : x <= y
<1> DEFINE R == OpToRel(<, Nat)
<1>0. IsWellFoundedOn(R, Nat)
  BY NatLessThanWellFounded
<1> HIDE DEF R
<1>1. PICK x \in S : \A y \in S : ~ (<<y, x>> \in R)
  BY <1>0, WFMin, Zenon
<1>2. \A y \in S : ~ (y < x)
  BY <1>1 DEF OpToRel, R
<1>3. QED
  BY <1>2

LEMMA MinOfSome ==
  ASSUME NEW S, S \subseteq Nat, S # {}
  PROVE  Min(S) \in S /\ \A y \in S : Min(S) <= y
BY LeastNatural DEF Min

LEMMA MaxOfSome ==
  ASSUME NEW S, NEW n \in Nat, S \subseteq 1..n, S # {}
  PROVE  Max(S) \in S /\ \A y \in S : Max(S) >= y
<1> DEFINE T == {n - x : x \in S}
<1>1. T \subseteq Nat /\ T # {}
  <2>1. \A x \in S : n - x \in Nat
    OBVIOUS
  <2>2. QED
    BY <2>1
<1> HIDE DEF T
<1>2. PICK z \in T : \A y \in T : z <= y
  BY <1>1, LeastNatural
<1>3. PICK m \in S : z = n - m
  BY <1>2 DEF T
<1>4. \A y \in S : n - m <= n - y
  BY <1>2, <1>3 DEF T
<1>5. \A y \in S : m >= y
  BY <1>3, <1>4
<1>6. QED
  BY <1>5 DEF Max

-----------------------------------------------------------------------------
(* The text of the run.                                                    *)

(* What the threads of the slot rely on: the verdict is chosen before the  *)
(* flush, nothing is in the buffer after it, the router's thread has no    *)
(* chunk in its hand while it pushes or flushes, and between two claims    *)
(* every delta belongs to an earlier one.                                  *)
ControlInv ==
  /\ status \in Settled => Logged(status)
  /\ rpc \in {"flushing", "ending"} => verdict \in Settled
  /\ rpc \in {"pushing", "flushing"} => hand["router"] = Empty
  /\ rpc = "pushing" => pushed # 0
  /\ rpc = "ending" => buffer = <<>>
  /\ rpc = "off" => first = pushed

(* The deltas that have reached the buffer.                                *)
Written == IF rpc = "pushing" THEN 1..(pushed - 1) ELSE 1..pushed

Held(t) == hand[t].text

Everywhere ==
  Range(partial) \cup Range(Held("router")) \cup Range(Held("ticker")) \cup Range(buffer)

(* No delta is in two places, or twice in one: stated for the parts, since *)
(* the threads may append their chunks in either order.                    *)
NoDeltaTwice ==
  /\ IsInjective(partial) /\ IsInjective(buffer)
  /\ \A t \in Writer : IsInjective(Held(t))
  /\ Range(partial) \cap Range(buffer) = {}
  /\ \A t \in Writer : Range(Held(t)) \cap (Range(partial) \cup Range(buffer)) = {}
  /\ Range(Held("router")) \cap Range(Held("ticker")) = {}

PlacesInv ==
  /\ NoDeltaTwice
  /\ Everywhere \subseteq Written
  /\ owned => (first + 1)..pushed \subseteq Everywhere \cup OnItsWay

TextInv == TextTypeOK /\ ControlInv /\ PlacesInv

-----------------------------------------------------------------------------
(* What a step of the stream's system is for the text.                     *)

Spoken ==
  /\ PushLive \/ \E t \in Thread : Publish(t)
  /\ faults' \in 0..MaxFaults

TextIsLeft == UNCHANGED <<rowVars, slotVars>> /\ faults' \in 0..MaxFaults

TextAct == TextStep \/ ResumeRun \/ Spoken \/ TextIsLeft

LEMMA FaultsAreBounded == TextTypeOK /\ Fault => faults' \in 0..MaxFaults
BY BoundsAssumption DEF TextTypeOK, Fault

LEMMA NextIsTextAct == TextTypeOK /\ [Next]_vars => TextAct
<1> SUFFICES ASSUME TextTypeOK, [Next]_vars PROVE TextAct
  OBVIOUS
<1>1. faults \in 0..MaxFaults
  BY DEF TextTypeOK
<1>2. CASE TextStep
  BY <1>2 DEF TextAct
<1>3. CASE Broadcast
  <2>1. PushLive \/ \E t \in Thread : Publish(t)
    BY <1>3 DEF Broadcast
  <2>2. Fault \/ UNCHANGED faults
    BY <1>3 DEF Broadcast, Deliver
  <2>3. QED
    BY <1>1, <2>1, <2>2, FaultsAreBounded DEF TextAct, Spoken
<1>4. CASE StreamStep
  BY <1>1, <1>4
     DEF StreamStep, ReadLog, SendRow, RowsSent, Drop, ForwardDelta, ForwardEvent, ReadStatus,
         SendStop, PollAgain, Connect, CatchUp, TextAct, TextIsLeft, textVars, rowVars,
         slotVars, bufferVars
<1>5. CASE RedisFails \/ Disconnect \/ CatchUpFails
  BY <1>1, <1>5, FaultsAreBounded
     DEF RedisFails, Disconnect, CatchUpFails, TextAct, TextIsLeft, textVars, rowVars,
         slotVars, bufferVars
<1>6. CASE Reload
  BY <1>6, FaultsAreBounded DEF Reload, TextAct, TextIsLeft
<1>7. CASE Resume
  BY <1>7 DEF Resume, TextAct
<1>8. CASE UNCHANGED vars
  BY <1>1, <1>8 DEF vars, TextAct, TextIsLeft, textVars, rowVars, slotVars, bufferVars
<1>9. QED
  BY <1>2, <1>3, <1>4, <1>5, <1>6, <1>7, <1>8 DEF Next

(* A transaction leaves the log as it was and adds one event to it.        *)
LEMMA CommitFacts ==
  ASSUME TextTypeOK, NEW t \in Thread, NEW e \in LogEvent, Commit(t, e)
  PROVE  /\ log' \in Seq(LogEvent)
         /\ Len(log') = Len(log) + 1 /\ Len(log) \in Nat
         /\ DOMAIN log = 1..Len(log) /\ DOMAIN log' = 1..(Len(log) + 1)
         /\ \A i \in DOMAIN log : log'[i] = log[i]
         /\ log'[Len(log) + 1] = e
         /\ outbox' \in [Thread -> 0..Len(log')]
<1>1. log \in Seq(LogEvent) /\ log' = Append(log, e)
  BY DEF TextTypeOK, LogEvent, Commit
<1>2. /\ log' \in Seq(LogEvent)
      /\ Len(log') = Len(log) + 1 /\ Len(log) \in Nat
      /\ DOMAIN log = 1..Len(log) /\ DOMAIN log' = 1..(Len(log) + 1)
      /\ \A i \in DOMAIN log : log'[i] = log[i]
      /\ log'[Len(log) + 1] = e
  BY <1>1, AppendFacts
<1>3. outbox' \in [Thread -> 0..Len(log')]
  <2>1. outbox \in [Thread -> 0..Len(log)]
    BY DEF TextTypeOK
  <2>2. 0..Len(log) \subseteq 0..Len(log') /\ Len(log) + 1 \in 0..Len(log')
    BY <1>2
  <2>3. QED
    BY <2>1, <2>2 DEF Commit
<1>4. QED
  BY <1>2, <1>3

(* So what is logged stays logged.                                         *)
LEMMA LoggedStays ==
  ASSUME TextTypeOK, NEW t \in Thread, NEW e \in LogEvent, Commit(t, e)
  PROVE  Logged(e.type)' /\ \A type \in EventType : Logged(type) => Logged(type)'
BY CommitFacts DEF Logged

LEMMA EventTyped == \A type \in EventType : Event(type) \in LogEvent /\ Event(type).type = type
BY InjectiveEmpty DEF Event, LogEvent

-----------------------------------------------------------------------------
(* Types and control are kept.                                             *)

LEMMA TextInvInitially == TextInit => TextInv
<1> SUFFICES ASSUME TextInit PROVE TextInv
  OBVIOUS
<1>1. Empty \in Chunk /\ Empty.text = <<>>
  BY InjectiveEmpty DEF Empty, Chunk
<1>2. TextTypeOK
  <2>1. bound \in Bounds /\ bound.deltas \in Nat
    BY BoundsAssumption DEF TextInit
  <2>2. faults \in 0..MaxFaults /\ pushed \in 0..bound.deltas /\ first \in 0..pushed
    BY <2>1, BoundsAssumption DEF TextInit
  <2>3. outbox \in [Thread -> 0..Len(log)] /\ hand \in [Writer -> Chunk]
    BY <1>1 DEF TextInit
  <2>4. owned \in BOOLEAN /\ lost \in BOOLEAN
    BY DEF TextInit
  <2>5. QED
    BY <2>1, <2>2, <2>3, <2>4, InjectiveEmpty DEF TextInit, TextTypeOK
<1>3. ControlInv
  BY DEF TextInit, ControlInv, Settled, Verdicts
<1>4. PlacesInv
  <2>1. Held("router") = <<>> /\ Held("ticker") = <<>> /\ partial = <<>> /\ buffer = <<>>
    BY <1>1 DEF TextInit, Held, Writer
  <2>2. \A t \in Writer : Held(t) = <<>>
    BY <2>1 DEF Writer
  <2>3. ~ owned
    BY DEF TextInit
  <2>4. QED
    BY <2>1, <2>2, <2>3, InjectiveEmpty DEF PlacesInv, NoDeltaTwice, Everywhere
<1>5. QED
  BY <1>2, <1>3, <1>4 DEF TextInv

(* The facts about a state that the proofs of the actions start from.      *)
LEMMA TextFacts ==
  ASSUME TextTypeOK
  PROVE  /\ log \in Seq(LogEvent) /\ Len(log) \in Nat /\ Empty \in Chunk
         /\ bound \in Bounds /\ bound.deltas \in Nat
         /\ pushed \in Nat /\ pushed <= bound.deltas /\ first \in Nat /\ first <= pushed
         /\ \A t \in Writer : hand[t].text \in Text /\ hand[t].window \in Nat
<1>1. bound.deltas \in Nat
  BY BoundsAssumption DEF TextTypeOK
<1>2. \A t \in Writer : hand[t] \in Chunk
  BY DEF TextTypeOK
<1>3. QED
  BY <1>1, <1>2, InjectiveEmpty DEF TextTypeOK, LogEvent, Empty, Chunk

LEMMA LeaveRunFacts ==
  ASSUME TextTypeOK, LeaveRun
  PROVE  /\ rpc' = "off" /\ verdict' = "none" /\ lost' = FALSE /\ buffer' = <<>>
         /\ window' \in Nat /\ pushed' = pushed /\ bound' = bound /\ first' = pushed
         /\ pushed' \in 0..bound'.deltas /\ first' \in 0..pushed' /\ buffer' \in Text
BY TextFacts, InjectiveEmpty DEF LeaveRun, TextTypeOK

LEMMA DrainFacts ==
  ASSUME TextTypeOK, NEW t \in Writer, NEW chunk \in Text, Drain(t, chunk)
  PROVE  /\ hand' \in [Writer -> Chunk] /\ buffer' = <<>> /\ buffer' \in Text
         /\ window' \in Nat
         /\ hand'[t].text = chunk
         /\ \A u \in Writer : u # t => hand'[u] = hand[u]
BY InjectiveEmpty DEF Drain, TextTypeOK, Chunk

LEMMA TextStepTypes == TextInv /\ TextStep => TextTypeOK' /\ ControlInv'
<1> SUFFICES ASSUME TextInv, TextStep PROVE TextTypeOK' /\ ControlInv'
  OBVIOUS
<1> USE DEF TextInv
<1>0. /\ status \in {"queued"} \cup Executing \cup Settled
      /\ Writer \subseteq Thread /\ {"api", "other"} \subseteq Thread
      /\ Executing \cap Settled = {} /\ "queued" \notin Settled
  BY DEF TextTypeOK, Writer, Thread, Executing, Settled, Verdicts
<1>1. CASE Claim
  BY <1>0, <1>1
     DEF Claim, TextTypeOK, ControlInv, bufferVars, Logged, Free, Executing, Settled
<1>2. CASE TakeOver
  BY <1>0, <1>2, FaultsAreBounded
     DEF TakeOver, TextTypeOK, ControlInv, bufferVars, Logged
<1>3. CASE FailStale
  <2>1. Event("failed") \in LogEvent /\ Event("failed").type = "failed"
    BY EventTyped DEF EventType
  <2>2. log' \in Seq(LogEvent) /\ outbox' \in [Thread -> 0..Len(log')]
    BY <1>0, <1>3, <2>1, CommitFacts DEF FailStale
  <2>3. Logged("failed")'
    BY <1>0, <1>3, <2>1, LoggedStays DEF FailStale
  <2>4. QED
    BY <1>3, <2>2, <2>3
       DEF FailStale, TextTypeOK, ControlInv, bufferVars, LogEvent, Settled, Verdicts
<1>4. CASE Crash
  <2>1. Empty \in Chunk
    BY TextFacts
  <2>2. outbox' \in [Thread -> 0..Len(log')] /\ hand' \in [Writer -> Chunk]
    BY <1>4, <2>1 DEF Crash, TextTypeOK
  <2>3. QED
    BY <1>4, <2>2, FaultsAreBounded, LeaveRunFacts
       DEF Crash, TextTypeOK, ControlInv, Logged
<1>5. ASSUME NEW t \in Writer, AppendCheckpoint(t) PROVE TextTypeOK' /\ ControlInv'
  <2> DEFINE e == [type |-> "text_checkpoint", text |-> partial', window |-> hand[t].window]
  <2>1. partial' \in Text
    BY <1>5, TextFacts DEF AppendCheckpoint, TextTypeOK, Text
  <2>2. e \in LogEvent
    BY <2>1, TextFacts DEF LogEvent, EventType
  <2>3. Commit(t, e)
    BY <1>5 DEF AppendCheckpoint
  <2> HIDE DEF e
  <2>4. log' \in Seq(LogEvent) /\ outbox' \in [Thread -> 0..Len(log')]
    BY <1>0, <2>2, <2>3, CommitFacts
  <2>5. \A type \in EventType : Logged(type) => Logged(type)'
    BY <1>0, <2>2, <2>3, LoggedStays
  <2>6. hand' \in [Writer -> Chunk] /\ hand'[t] = Empty /\ \A u \in Writer : u # t => hand'[u] = hand[u]
    BY <1>5, TextFacts DEF AppendCheckpoint, TextTypeOK
  <2>7. UNCHANGED <<status, owned, rpc, verdict, bufferVars, lost, faults>>
    BY <1>5 DEF AppendCheckpoint
  <2>8. TextTypeOK'
    BY <2>1, <2>4, <2>6, <2>7 DEF TextTypeOK, bufferVars, LogEvent
  <2>9. ControlInv'
    BY <2>5, <2>6, <2>7 DEF ControlInv, bufferVars, Settled, Verdicts, EventType, Writer
  <2>10. QED
    BY <2>8, <2>9
<1>6. ASSUME NEW t \in Writer, AppendRaises(t) PROVE TextTypeOK' /\ ControlInv'
  <2>1. hand' \in [Writer -> Chunk] /\ hand'[t] = Empty /\ \A u \in Writer : u # t => hand'[u] = hand[u]
    BY <1>6, TextFacts DEF AppendRaises, TextTypeOK
  <2>2. UNCHANGED <<rowVars, outbox, faults>>
    BY <1>6 DEF AppendRaises
  <2>3. CASE LeaveRun
    BY <2>1, <2>2, <2>3, LeaveRunFacts DEF TextTypeOK, ControlInv, rowVars, Logged
  <2>4. CASE lost' = (rpc # "off") /\ UNCHANGED <<rpc, verdict, bufferVars>>
    <3>1. lost' \in BOOLEAN
      BY <2>4, Zenon
    <3>2. UNCHANGED <<rpc, verdict, bufferVars>>
      BY <2>4
    <3>3. QED
      BY <2>1, <2>2, <3>1, <3>2 DEF TextTypeOK, ControlInv, rowVars, bufferVars, Logged, Writer
  <2>5. QED
    BY <1>6, <2>3, <2>4 DEF AppendRaises
<1>7. CASE EmitEvent
  <2>1. Event("event") \in LogEvent /\ Event("event").type = "event"
    BY EventTyped DEF EventType
  <2>2. log' \in Seq(LogEvent) /\ outbox' \in [Thread -> 0..Len(log')]
    BY <1>0, <1>7, <2>1, CommitFacts DEF EmitEvent, Writer
  <2>3. \A type \in EventType : Logged(type) => Logged(type)'
    BY <1>0, <1>7, <2>1, LoggedStays DEF EmitEvent, Writer
  <2>4. QED
    BY <1>7, <2>2, <2>3
       DEF EmitEvent, TextTypeOK, ControlInv, bufferVars, LogEvent, Settled, Verdicts, EventType
<1>8. CASE PushBuffer
  <2>1. Append(buffer, pushed) \in Text
    BY TextFacts DEF TextTypeOK, Text
  <2>2. "router" \in Writer
    BY DEF Writer
  <2>3. hand' \in [Writer -> Chunk] /\ buffer' \in Text /\ window' \in Nat
    BY <1>8, <2>1, <2>2, DrainFacts DEF PushBuffer, TextTypeOK
  <2>4. QED
    BY <1>8, <2>3 DEF PushBuffer, TextTypeOK, ControlInv, rowVars, Logged
<1>9. CASE EndTurn
  BY <1>9 DEF EndTurn, TextTypeOK, ControlInv, rowVars, bufferVars, Logged, Free, Writer,
              Settled, Verdicts
<1>10. CASE Flush
  <2>1. "router" \in Writer
    BY DEF Writer
  <2>2. hand' \in [Writer -> Chunk] /\ buffer' \in Text /\ window' \in Nat /\ buffer' = <<>>
    BY <1>10, <2>1, DrainFacts DEF Flush, TextTypeOK
  <2>3. QED
    BY <1>10, <2>2 DEF Flush, TextTypeOK, ControlInv, rowVars, Logged
<1>11. CASE Terminalize
  <2>1. verdict \in Settled
    BY <1>11 DEF Terminalize, ControlInv
  <2>2. verdict \in EventType
    BY <2>1 DEF Settled, Verdicts, EventType
  <2>3. Event(verdict) \in LogEvent /\ Event(verdict).type = verdict
    BY <2>2, EventTyped
  <2>4. log' \in Seq(LogEvent) /\ outbox' \in [Thread -> 0..Len(log')]
    BY <1>0, <1>11, <2>3, CommitFacts DEF Terminalize, Writer
  <2>5. status' = verdict /\ \E i \in DOMAIN log' : log'[i].type = verdict
    BY <1>0, <1>11, <2>3, LoggedStays DEF Terminalize, Writer, Logged
  <2>6. QED
    BY <1>11, <2>1, <2>4, <2>5, LeaveRunFacts
       DEF Terminalize, TextTypeOK, ControlInv, LogEvent, Logged
<1>12. CASE RouterRaises
  BY <1>12, LeaveRunFacts DEF RouterRaises, TextTypeOK, ControlInv, rowVars, Logged
<1>13. CASE Tick
  <2>1. "ticker" \in Writer /\ "router" \in Writer /\ buffer \in Text
    BY DEF Writer, TextTypeOK
  <2>2. /\ hand' \in [Writer -> Chunk] /\ buffer' \in Text /\ window' \in Nat
        /\ buffer' = <<>> /\ hand'["router"] = hand["router"]
    BY <1>13, <2>1, DrainFacts DEF Tick
  <2>3. QED
    BY <1>13, <2>2 DEF Tick, TextTypeOK, ControlInv, rowVars, Logged
<1>14. CASE NoticeLoss
  BY <1>14 DEF NoticeLoss, TextTypeOK, ControlInv, rowVars, bufferVars, Logged
<1>15. CASE RequestPause
  <2>1. Event("magi_pause_requested") \in LogEvent
    BY EventTyped DEF EventType
  <2>2. log' \in Seq(LogEvent) /\ outbox' \in [Thread -> 0..Len(log')]
    BY <1>0, <1>15, <2>1, CommitFacts DEF RequestPause
  <2>3. QED
    BY <1>0, <1>15, <2>2
       DEF RequestPause, TextTypeOK, ControlInv, bufferVars, LogEvent, Executing
<1>16. QED
  BY <1>1, <1>2, <1>3, <1>4, <1>5, <1>6, <1>7, <1>8, <1>9, <1>10, <1>11, <1>12, <1>13, <1>14,
     <1>15 DEF TextStep

-----------------------------------------------------------------------------
(* Where the deltas are is kept.                                           *)

LEMMA PartFacts ==
  ASSUME TextTypeOK
  PROVE  /\ partial \in Seq(Nat) /\ buffer \in Seq(Nat)
         /\ \A t \in Writer : Held(t) \in Seq(Nat)
         /\ Writer = {"router", "ticker"} /\ Empty.text = <<>>
BY TextFacts DEF TextTypeOK, Text, Held, Writer, Empty

(* Chunks and the buffer may be dropped.                                   *)
LEMMA PartsDropped ==
  ASSUME TextInv, partial' = partial,
         \A t \in Writer : hand'[t] \in {hand[t], Empty},
         buffer' \in {buffer, <<>>}
  PROVE  NoDeltaTwice' /\ Everywhere' \subseteq Everywhere
<1>1. \A t \in Writer : Held(t)' \in {Held(t), <<>>}
  BY PartFacts DEF Held, TextInv
<1>2. \A t \in Writer : IsInjective(Held(t)') /\ Range(Held(t)') \subseteq Range(Held(t))
  BY <1>1, InjectiveEmpty DEF TextInv, PlacesInv, NoDeltaTwice
<1>3. IsInjective(buffer') /\ Range(buffer') \subseteq Range(buffer)
  BY InjectiveEmpty DEF TextInv, PlacesInv, NoDeltaTwice
<1>4. "router" \in Writer /\ "ticker" \in Writer
  BY DEF Writer
<1>5. NoDeltaTwice'
  BY <1>2, <1>3, <1>4 DEF TextInv, PlacesInv, NoDeltaTwice
<1>6. Everywhere' \subseteq Everywhere
  BY <1>2, <1>3, <1>4 DEF Everywhere
<1>7. QED
  BY <1>5, <1>6

(* A thread's chunk may join the text of the row.                          *)
LEMMA ChunkSaved ==
  ASSUME TextInv, NEW t \in Writer, partial' = partial \o hand[t].text, hand'[t] = Empty,
         \A u \in Writer : u # t => hand'[u] = hand[u], buffer' = buffer
  PROVE  NoDeltaTwice' /\ Everywhere' = Everywhere
<1>1. /\ partial \in Seq(Nat) /\ Held(t) \in Seq(Nat)
      /\ partial' = partial \o Held(t) /\ Held(t)' = <<>>
      /\ \A u \in Writer : u # t => Held(u)' = Held(u)
  BY PartFacts DEF Held, TextInv
<1>2. Range(partial') = Range(partial) \cup Range(Held(t))
  BY <1>1, RangeOfConcat
<1>3. IsInjective(partial')
  BY <1>1, InjectiveConcat DEF TextInv, PlacesInv, NoDeltaTwice
<1>4. CASE t = "router"
  BY <1>1, <1>2, <1>3, <1>4, InjectiveEmpty
     DEF TextInv, PlacesInv, NoDeltaTwice, Everywhere, Writer
<1>5. CASE t = "ticker"
  BY <1>1, <1>2, <1>3, <1>5, InjectiveEmpty
     DEF TextInv, PlacesInv, NoDeltaTwice, Everywhere, Writer
<1>6. QED
  BY <1>4, <1>5 DEF Writer

(* A chunk may be drained into the hand of a thread that has none.         *)
LEMMA ChunkDrained ==
  ASSUME TextInv, NEW t \in Writer, hand[t] = Empty, NEW chunk \in Text,
         Drain(t, chunk), partial' = partial, IsInjective(chunk),
         Range(chunk) \cap Range(partial) = {},
         \A u \in Writer : Range(chunk) \cap Range(Held(u)) = {}
  PROVE  /\ NoDeltaTwice'
         /\ Everywhere' = Range(chunk) \cup Range(partial)
                          \cup Range(Held("router")) \cup Range(Held("ticker"))
<1>1. /\ Held(t)' = chunk /\ buffer' = <<>> /\ Held(t) = <<>>
      /\ \A u \in Writer : u # t => Held(u)' = Held(u)
  BY PartFacts, DrainFacts DEF Held, TextInv
<1>2. Range(buffer') = {} /\ IsInjective(buffer') /\ Range(Held(t)) = {}
  BY <1>1, InjectiveEmpty
<1>3. CASE t = "router"
  BY <1>1, <1>2, <1>3 DEF TextInv, PlacesInv, NoDeltaTwice, Everywhere, Writer
<1>4. CASE t = "ticker"
  BY <1>1, <1>2, <1>4 DEF TextInv, PlacesInv, NoDeltaTwice, Everywhere, Writer
<1>5. QED
  BY <1>3, <1>4 DEF Writer

(* The delta that is on its way may reach the buffer.                      *)
LEMMA DeltaBuffered ==
  ASSUME TextInv, rpc = "pushing"
  PROVE  /\ Append(buffer, pushed) \in Text
         /\ IsInjective(Append(buffer, pushed))
         /\ Range(Append(buffer, pushed)) = Range(buffer) \cup {pushed}
         /\ pushed \notin Everywhere
<1>1. buffer \in Seq(Nat) /\ pushed \in Nat /\ pushed # 0
  BY PartFacts, TextFacts DEF TextInv, ControlInv
<1>2. pushed \notin Everywhere
  BY <1>1 DEF TextInv, PlacesInv, Written
<1>3. IsInjective(Append(buffer, pushed))
  BY <1>1, <1>2, InjectiveAppend DEF TextInv, PlacesInv, NoDeltaTwice, Everywhere
<1>4. QED
  BY <1>1, <1>2, <1>3, RangeOfAppend, AppendFacts DEF Text

(* What follows for the invariant from what happens to the parts.          *)
LEMMA PlacesFrom ==
  ASSUME TextInv, NoDeltaTwice', Everywhere' \subseteq Everywhere, pushed' = pushed,
         rpc' = "pushing" => rpc = "pushing",
         owned' => (first' + 1)..pushed' \subseteq Everywhere' \cup OnItsWay'
  PROVE  PlacesInv'
<1>1. Written \subseteq Written'
  BY TextFacts DEF Written, TextInv
<1>2. QED
  BY <1>1 DEF TextInv, PlacesInv

LEMMA TextStepPlaces == TextInv /\ TextStep => PlacesInv'
<1> SUFFICES ASSUME TextInv, TextStep PROVE PlacesInv'
  OBVIOUS
<1>0. /\ pushed \in Nat /\ first \in Nat
      /\ "router" \in Writer /\ "ticker" \in Writer /\ Writer = {"router", "ticker"}
  BY TextFacts DEF TextInv, Writer
<1>1. CASE Claim
  <2>1. NoDeltaTwice' /\ Everywhere' \subseteq Everywhere
    BY <1>1, PartsDropped DEF Claim, bufferVars
  <2>2. first' = pushed' /\ pushed' = pushed /\ rpc' = "deliberating" /\ rpc = "off"
    BY <1>1 DEF Claim, bufferVars, TextInv, ControlInv
  <2>3. (first' + 1)..pushed' = {}
    BY <1>0, <2>2
  <2>4. QED
    BY <2>1, <2>2, <2>3, PlacesFrom
<1>2. CASE TakeOver \/ FailStale \/ Crash \/ Terminalize
  <2>1. partial' = partial /\ ~ owned' /\ pushed' = pushed
    BY <1>2 DEF TakeOver, FailStale, Crash, Terminalize, LeaveRun, bufferVars
  <2>2. \A t \in Writer : hand'[t] \in {hand[t], Empty}
    BY <1>2 DEF TakeOver, FailStale, Crash, Terminalize
  <2>3. buffer' \in {buffer, <<>>}
    BY <1>2 DEF TakeOver, FailStale, Crash, Terminalize, LeaveRun, bufferVars
  <2>4. rpc' \in {rpc, "off"}
    BY <1>2 DEF TakeOver, FailStale, Crash, Terminalize, LeaveRun
  <2>5. QED
    BY <2>1, <2>2, <2>3, <2>4, PartsDropped, PlacesFrom
<1>3. ASSUME NEW t \in Writer, AppendCheckpoint(t) PROVE PlacesInv'
  <2>1. hand'[t] = Empty /\ \A u \in Writer : u # t => hand'[u] = hand[u]
    BY <1>3, TextFacts DEF AppendCheckpoint, TextInv, TextTypeOK
  <2>2. /\ partial' = partial \o hand[t].text
        /\ UNCHANGED <<owned, rpc, pushed, first, buffer>>
    BY <1>3 DEF AppendCheckpoint, bufferVars
  <2>3. NoDeltaTwice' /\ Everywhere' = Everywhere
    BY <2>1, <2>2, ChunkSaved
  <2>4. OnItsWay' = OnItsWay
    BY <2>2 DEF OnItsWay
  <2>5. owned' => (first' + 1)..pushed' \subseteq Everywhere' \cup OnItsWay'
    BY <2>2, <2>3, <2>4 DEF TextInv, PlacesInv
  <2>6. QED
    BY <2>2, <2>3, <2>5, PlacesFrom
<1>4. ASSUME NEW t \in Writer, AppendRaises(t) PROVE PlacesInv'
  <2>1. partial' = partial /\ ~ owned' /\ pushed' = pushed
    BY <1>4 DEF AppendRaises, LeaveRun, bufferVars, rowVars
  <2>2. \A u \in Writer : hand'[u] \in {hand[u], Empty}
    BY <1>4, TextFacts DEF AppendRaises, TextInv, TextTypeOK
  <2>3. buffer' \in {buffer, <<>>} /\ rpc' \in {rpc, "off"}
    BY <1>4 DEF AppendRaises, LeaveRun, bufferVars
  <2>4. QED
    BY <2>1, <2>2, <2>3, PartsDropped, PlacesFrom
<1>5. CASE EmitEvent \/ EndTurn \/ NoticeLoss \/ RequestPause
  <2>1. UNCHANGED <<partial, hand, buffer, pushed, first, owned>>
    BY <1>5 DEF EmitEvent, EndTurn, NoticeLoss, RequestPause, bufferVars, rowVars
  <2>2. rpc' = rpc \/ (rpc \in {"deliberating", "answering"} /\ rpc' = "flushing")
    BY <1>5 DEF EmitEvent, EndTurn, NoticeLoss, RequestPause
  <2>3. NoDeltaTwice' /\ Everywhere' \subseteq Everywhere
    BY <2>1, PartsDropped
  <2>4. OnItsWay' = OnItsWay /\ Everywhere' = Everywhere
    BY <2>1, <2>2 DEF OnItsWay, Everywhere, Held
  <2>5. owned' => (first' + 1)..pushed' \subseteq Everywhere' \cup OnItsWay'
    BY <2>1, <2>4 DEF TextInv, PlacesInv
  <2>6. QED
    BY <2>1, <2>2, <2>3, <2>5, PlacesFrom
<1>6. CASE PushBuffer
  <2>1. /\ rpc = "pushing" /\ rpc' = "answering" /\ hand["router"] = Empty
        /\ UNCHANGED <<partial, owned, pushed, first>>
    BY <1>6 DEF PushBuffer, rowVars, TextInv, ControlInv
  <2>2. /\ Append(buffer, pushed) \in Text /\ IsInjective(Append(buffer, pushed))
        /\ Range(Append(buffer, pushed)) = Range(buffer) \cup {pushed}
        /\ pushed \notin Everywhere
    BY <2>1, DeltaBuffered
  <2>3. /\ Range(Append(buffer, pushed)) \cap Range(partial) = {}
        /\ \A u \in Writer : Range(Append(buffer, pushed)) \cap Range(Held(u)) = {}
    BY <1>0, <2>2 DEF TextInv, PlacesInv, NoDeltaTwice, Everywhere
  <2>4. NoDeltaTwice' /\ Everywhere' = Everywhere \cup {pushed}
    <3>1. CASE Drain("router", Append(buffer, pushed))
      BY <1>0, <2>1, <2>2, <2>3, <3>1, ChunkDrained DEF Everywhere
    <3>2. CASE buffer' = Append(buffer, pushed) /\ UNCHANGED <<window, hand>>
      BY <1>0, <2>1, <2>2, <2>3, <3>2
         DEF TextInv, PlacesInv, NoDeltaTwice, Everywhere, Held
    <3>3. QED
      BY <1>6, <3>1, <3>2 DEF PushBuffer
  <2>5. Everywhere' \subseteq Written'
    BY <1>0, <2>1, <2>4 DEF TextInv, PlacesInv, Written, ControlInv
  <2>6. OnItsWay = {pushed} /\ OnItsWay' = {}
    BY <2>1 DEF OnItsWay
  <2>7. QED
    BY <2>1, <2>4, <2>5, <2>6 DEF TextInv, PlacesInv
<1>7. CASE Flush
  <2>1. /\ rpc = "flushing" /\ rpc' = "ending" /\ hand["router"] = Empty
        /\ UNCHANGED <<partial, owned, pushed, first>>
    BY <1>7 DEF Flush, rowVars, TextInv, ControlInv
  <2>2. NoDeltaTwice' /\ Everywhere' = Everywhere
    <3>1. CASE Drain("router", buffer)
      <4>1. /\ buffer \in Text /\ IsInjective(buffer) /\ Range(buffer) \cap Range(partial) = {}
            /\ \A u \in Writer : Range(buffer) \cap Range(Held(u)) = {}
        BY DEF TextInv, TextTypeOK, PlacesInv, NoDeltaTwice
      <4>2. QED
        BY <1>0, <2>1, <3>1, <4>1, ChunkDrained DEF Everywhere
    <3>2. CASE UNCHANGED <<buffer, window, hand>>
      BY <2>1, <3>2 DEF TextInv, PlacesInv, NoDeltaTwice, Everywhere, Held
    <3>3. QED
      BY <1>7, <3>1, <3>2 DEF Flush
  <2>3. OnItsWay' = OnItsWay
    BY <2>1 DEF OnItsWay
  <2>4. owned' => (first' + 1)..pushed' \subseteq Everywhere' \cup OnItsWay'
    BY <2>1, <2>2, <2>3 DEF TextInv, PlacesInv
  <2>5. QED
    BY <2>1, <2>2, <2>4, PlacesFrom
<1>8. CASE RouterRaises
  <2>1. /\ UNCHANGED <<partial, hand>> /\ buffer' = <<>> /\ rpc' = "off"
        /\ pushed' = pushed /\ first' = pushed
    BY <1>8 DEF RouterRaises, LeaveRun, rowVars
  <2>2. NoDeltaTwice' /\ Everywhere' \subseteq Everywhere
    BY <2>1, PartsDropped
  <2>3. (first' + 1)..pushed' = {}
    BY <1>0, <2>1
  <2>4. QED
    BY <2>1, <2>2, <2>3, PlacesFrom
<1>9. CASE Tick
  <2>1. hand["ticker"] = Empty /\ UNCHANGED <<partial, owned, rpc, pushed, first>>
    BY <1>0, <1>9 DEF Tick, Free, rowVars
  <2>2. NoDeltaTwice' /\ Everywhere' = Everywhere
    <3>1. /\ buffer \in Text /\ IsInjective(buffer) /\ Range(buffer) \cap Range(partial) = {}
          /\ \A u \in Writer : Range(buffer) \cap Range(Held(u)) = {}
      BY DEF TextInv, TextTypeOK, PlacesInv, NoDeltaTwice
    <3>2. Drain("ticker", buffer)
      BY <1>9 DEF Tick
    <3>3. QED
      BY <1>0, <2>1, <3>1, <3>2, ChunkDrained DEF Everywhere
  <2>3. OnItsWay' = OnItsWay
    BY <2>1 DEF OnItsWay
  <2>4. owned' => (first' + 1)..pushed' \subseteq Everywhere' \cup OnItsWay'
    BY <2>1, <2>2, <2>3 DEF TextInv, PlacesInv
  <2>5. QED
    BY <2>1, <2>2, <2>4, PlacesFrom
<1>10. QED
  BY <1>1, <1>2, <1>3, <1>4, <1>5, <1>6, <1>7, <1>8, <1>9 DEF TextStep

LEMMA TextInvIsKept == TextInv /\ TextAct => TextInv'
<1> SUFFICES ASSUME TextInv, TextAct PROVE TextInv'
  OBVIOUS
<1>0. pushed \in Nat /\ first \in Nat /\ pushed <= bound.deltas /\ bound.deltas \in Nat
  BY TextFacts DEF TextInv
<1>1. CASE TextStep
  BY <1>1, TextStepTypes, TextStepPlaces DEF TextInv
<1>2. CASE ResumeRun
  <2>1. Event("magi_resumed") \in LogEvent /\ "api" \in Thread
    BY EventTyped DEF EventType, Thread
  <2>2. log' \in Seq(LogEvent) /\ outbox' \in [Thread -> 0..Len(log')]
    BY <1>2, <2>1, CommitFacts DEF ResumeRun, TextInv
  <2>3. TextTypeOK' /\ ControlInv'
    BY <1>2, <2>2
       DEF ResumeRun, TextInv, TextTypeOK, ControlInv, bufferVars, LogEvent, Settled, Verdicts
  <2>4. UNCHANGED <<partial, hand, buffer, owned, rpc, pushed, first>>
    BY <1>2 DEF ResumeRun, bufferVars
  <2>5. PlacesInv'
    BY <2>4 DEF TextInv, PlacesInv, NoDeltaTwice, Everywhere, Held, Written, OnItsWay
  <2>6. QED
    BY <2>3, <2>5 DEF TextInv
<1>3. CASE PushLive /\ faults' \in 0..MaxFaults
  <2>1. /\ rpc \in {"deliberating", "answering"} /\ rpc' = "pushing" /\ pushed' = pushed + 1
        /\ pushed < bound.deltas /\ hand["router"] = Empty
        /\ UNCHANGED <<rowVars, verdict, first, buffer, window, hand, lost, outbox, bound>>
    BY <1>3 DEF PushLive, Free, Writer
  <2>2. pushed' \in 0..bound'.deltas /\ first' \in 0..pushed'
    BY <1>0, <2>1, TextFacts DEF TextInv
  <2>3. TextTypeOK'
    BY <1>3, <2>1, <2>2 DEF TextInv, TextTypeOK, rowVars
  <2>4. ControlInv'
    BY <1>0, <2>1 DEF TextInv, ControlInv, rowVars, Logged
  <2>5. NoDeltaTwice' /\ Everywhere' = Everywhere /\ owned' = owned
    BY <2>1 DEF TextInv, PlacesInv, NoDeltaTwice, Everywhere, Held, rowVars
  <2>6. Written' = Written /\ OnItsWay = {} /\ OnItsWay' = {pushed + 1}
    BY <1>0, <2>1 DEF Written, OnItsWay
  <2>7. (first' + 1)..pushed' \subseteq (first + 1)..pushed \cup {pushed + 1}
    BY <1>0, <2>1
  <2>8. PlacesInv'
    BY <2>5, <2>6, <2>7 DEF TextInv, PlacesInv
  <2>9. QED
    BY <2>3, <2>4, <2>8 DEF TextInv
<1>4. CASE /\ (\E t \in Thread : Publish(t)) \/ UNCHANGED <<rowVars, slotVars>>
           /\ faults' \in 0..MaxFaults
  <2>1. UNCHANGED <<rowVars, rpc, verdict, bufferVars, hand, lost>>
    BY <1>4 DEF Publish, slotVars
  <2>2. outbox' \in [Thread -> 0..Len(log')]
    BY <1>4, <2>1, TextFacts DEF Publish, slotVars, TextInv, TextTypeOK, rowVars
  <2>3. TextTypeOK' /\ ControlInv'
    BY <1>4, <2>1, <2>2 DEF TextInv, TextTypeOK, ControlInv, rowVars, bufferVars, Logged
  <2>4. PlacesInv'
    BY <2>1
       DEF TextInv, PlacesInv, NoDeltaTwice, Everywhere, Held, Written, OnItsWay, rowVars,
           bufferVars
  <2>5. QED
    BY <2>3, <2>4 DEF TextInv
<1>5. QED
  BY <1>1, <1>2, <1>3, <1>4 DEF TextAct, Spoken, TextIsLeft

-----------------------------------------------------------------------------

LEMMA TextInvariant == Spec => []TextInv
<1>1. Init => TextInv
  BY TextInvInitially DEF Init
<1>2. TextInv /\ [Next]_vars => TextInv'
  BY NextIsTextAct, TextInvIsKept DEF TextInv
<1>3. QED
  BY <1>1, <1>2, PTL DEF Spec

(* However the pushes and the drains of the two threads interleave, and    *)
(* whatever crash or takeover comes in between, a slot that owns its run   *)
(* has every delta of its claim in exactly one place, and the row never    *)
(* gets a delta twice.                                                     *)
THEOREM TextConserved == Spec => []TextIsConserved
<1>1. TextInv => TextIsConserved
  <2> SUFFICES ASSUME TextInv PROVE TextIsConserved
    OBVIOUS
  <2> DEFINE ht == Held("router") \o Held("ticker")
  <2>1. /\ partial \in Seq(Nat) /\ buffer \in Seq(Nat)
        /\ Held("router") \in Seq(Nat) /\ Held("ticker") \in Seq(Nat)
    BY PartFacts DEF TextInv
  <2>2. "router" \in Writer /\ "ticker" \in Writer
    BY DEF Writer
  <2>3. /\ ht \in Seq(Nat) /\ IsInjective(ht)
        /\ Range(ht) = Range(Held("router")) \cup Range(Held("ticker"))
    BY <2>1, <2>2, ConcatFacts, InjectiveConcat, RangeOfConcat
       DEF TextInv, PlacesInv, NoDeltaTwice
  <2>4. InMemory = ht \o buffer
    BY DEF InMemory, Held
  <2> HIDE DEF ht
  <2>5. /\ InMemory \in Seq(Nat) /\ IsInjective(InMemory)
        /\ Range(InMemory) = Range(ht) \cup Range(buffer)
    <3>1. Range(ht) \cap Range(buffer) = {} /\ IsInjective(buffer)
      BY <2>2, <2>3 DEF TextInv, PlacesInv, NoDeltaTwice
    <3>2. QED
      BY <2>1, <2>3, <2>4, <3>1, ConcatFacts, InjectiveConcat, RangeOfConcat
  <2>6. Range(partial) \cap Range(InMemory) = {} /\ IsInjective(partial)
    BY <2>2, <2>3, <2>5 DEF TextInv, PlacesInv, NoDeltaTwice
  <2>7. IsInjective(partial \o InMemory)
    BY <2>1, <2>5, <2>6, InjectiveConcat
  <2>8. Range(partial \o InMemory) = Everywhere /\ Range(InMemory) \subseteq Everywhere
    BY <2>1, <2>3, <2>5, RangeOfConcat DEF Everywhere
  <2>9. OnItsWay \cap Range(InMemory) = {}
    <3>1. OnItsWay \cap Written = {}
      BY TextFacts DEF OnItsWay, Written, TextInv
    <3>2. QED
      BY <2>8, <3>1 DEF TextInv, PlacesInv
  <2>10. QED
    BY <2>7, <2>8, <2>9 DEF TextIsConserved, TextInv, PlacesInv
<1>2. QED
  BY <1>1, TextInvariant, PTL

(* A verdict is never written over text that only memory holds, but for    *)
(* the chunk that the heartbeat thread may have in its hand.               *)
THEOREM VerdictIsFlushed == Spec => FlushedBeforeVerdict
<1>1. TextInv /\ [Next]_vars
        => [Terminalize => (first + 1)..pushed \subseteq Range(partial \o hand["ticker"].text)]_textVars
  <2> SUFFICES ASSUME TextInv, Terminalize
               PROVE  (first + 1)..pushed \subseteq Range(partial \o hand["ticker"].text)
    OBVIOUS
  <2>1. owned /\ rpc = "ending" /\ hand["router"] = Empty
    BY DEF Terminalize, Free, Writer
  <2>2. buffer = <<>> /\ OnItsWay = {}
    BY <2>1 DEF TextInv, ControlInv, OnItsWay
  <2>3. Held("router") = <<>> /\ partial \in Seq(Nat) /\ Held("ticker") \in Seq(Nat)
    BY <2>1, PartFacts DEF Held, TextInv
  <2>4. Everywhere = Range(partial \o Held("ticker"))
    BY <2>2, <2>3, RangeOfConcat, InjectiveEmpty DEF Everywhere
  <2>5. QED
    BY <2>1, <2>2, <2>4 DEF TextInv, PlacesInv, Held
<1>2. QED
  BY <1>1, TextInvariant, PTL DEF Spec, FlushedBeforeVerdict

-----------------------------------------------------------------------------
(* The log only grows.                                                     *)

LEMMA LogSteps ==
  TextInv /\ TextAct => log' = log \/ \E t \in Thread, e \in LogEvent : Commit(t, e)
<1> SUFFICES ASSUME TextInv, TextAct
             PROVE  log' = log \/ \E t \in Thread, e \in LogEvent : Commit(t, e)
  OBVIOUS
<1>0. {"router", "ticker", "api", "other"} \subseteq Thread /\ Writer \subseteq Thread
  BY DEF Thread, Writer
<1>1. ASSUME NEW t \in Writer, AppendCheckpoint(t)
      PROVE  \E e \in LogEvent : Commit(t, e)
  <2>1. partial' \in Text
    BY <1>1, TextFacts DEF AppendCheckpoint, TextInv, TextTypeOK, Text
  <2>2. [type |-> "text_checkpoint", text |-> partial', window |-> hand[t].window] \in LogEvent
    BY <2>1, TextFacts DEF LogEvent, EventType, TextInv
  <2>3. QED
    BY <1>1, <2>2 DEF AppendCheckpoint
<1>2. CASE Terminalize
  <2>1. Event(verdict) \in LogEvent
    BY <1>2, EventTyped DEF Terminalize, TextInv, ControlInv, Settled, Verdicts, EventType
  <2>2. QED
    BY <1>0, <1>2, <2>1 DEF Terminalize
<1>3. CASE FailStale \/ EmitEvent \/ RequestPause \/ ResumeRun
  BY <1>0, <1>3, EventTyped DEF FailStale, EmitEvent, RequestPause, ResumeRun, EventType
<1>4. CASE \/ Claim \/ TakeOver \/ Crash \/ PushBuffer \/ EndTurn \/ Flush \/ RouterRaises
           \/ Tick \/ NoticeLoss
  BY <1>4 DEF Claim, TakeOver, Crash, PushBuffer, EndTurn, Flush, RouterRaises, Tick,
              NoticeLoss, rowVars
<1>5. ASSUME NEW t \in Writer, AppendRaises(t) PROVE log' = log
  BY <1>5 DEF AppendRaises, rowVars
<1>6. CASE Spoken \/ TextIsLeft
  BY <1>6 DEF Spoken, TextIsLeft, PushLive, Publish, rowVars
<1>7. QED
  BY <1>0, <1>1, <1>2, <1>3, <1>4, <1>5, <1>6 DEF TextAct, TextStep

LEMMA LogGrows ==
  ASSUME TextInv, TextAct
  PROVE  /\ Len(log) \in Nat /\ Len(log') \in Nat /\ Len(log) <= Len(log')
         /\ \A type \in EventType : Logged(type) => Logged(type)'
<1>1. CASE log' = log
  BY <1>1, TextFacts DEF TextInv, Logged
<1>2. ASSUME NEW t \in Thread, NEW e \in LogEvent, Commit(t, e)
      PROVE  /\ Len(log) \in Nat /\ Len(log') \in Nat /\ Len(log) <= Len(log')
             /\ \A type \in EventType : Logged(type) => Logged(type)'
  BY <1>2, CommitFacts, LoggedStays DEF TextInv
<1>3. QED
  BY <1>1, <1>2, LogSteps

-----------------------------------------------------------------------------
(* The stream and the session.                                             *)

Wire == [seq : 0..Len(log), delta : Nat, window : Nat]

StreamTypes ==
  /\ conn \in {"none", "redis", "polling"}
  /\ stage \in {"read", "send", "wait"} \cup Settled
  /\ after \in 0..Len(log) /\ cur \in 0..Len(log) /\ upto \in 0..Len(log)
  /\ covered \in Nat
  /\ channel \in Seq(Wire)
  /\ sent \subseteq 1..Len(log)

BrowserTypes ==
  /\ session \in {"attached", "catchup", "over"}
  /\ final \in BOOLEAN
  /\ seen \in 0..Len(log) /\ lastSeen \in 0..Len(log)
  /\ text \in Text
  /\ streaming \in BOOLEAN

(* The generator stays within what its query has returned, and what it has *)
(* read of the run's row is on record.                                     *)
GeneratorInv ==
  /\ stage \in Settled => Logged(stage)
  /\ stage = "send" => cur <= upto
  /\ after <= cur
  /\ ReplayIsGapless

StreamInv == TextInv /\ StreamTypes /\ BrowserTypes /\ GeneratorInv

LEMMA SeqOfMore ==
  ASSUME NEW S, NEW T, S \subseteq T, NEW s \in Seq(S)
  PROVE  s \in Seq(T)
OBVIOUS

(* The stream and the browser are as they were, and the log has grown.     *)
LEMMA StreamKept ==
  ASSUME StreamInv, TextAct, UNCHANGED streamVars
  PROVE  StreamTypes' /\ GeneratorInv'
<1>1. /\ Len(log) \in Nat /\ Len(log') \in Nat /\ Len(log) <= Len(log')
      /\ \A type \in EventType : Logged(type) => Logged(type)'
  BY LogGrows DEF StreamInv
<1>2. 0..Len(log) \subseteq 0..Len(log') /\ 1..Len(log) \subseteq 1..Len(log')
  BY <1>1
<1>3. Wire \subseteq Wire'
  BY <1>2 DEF Wire
<1>4. channel' \in Seq(Wire')
  BY <1>3, SeqOfMore DEF StreamInv, StreamTypes, streamVars
<1>5. StreamTypes'
  BY <1>2, <1>4 DEF StreamInv, StreamTypes, streamVars
<1>6. GeneratorInv'
  BY <1>1
     DEF StreamInv, GeneratorInv, ReplayIsGapless, streamVars, Settled, Verdicts, EventType
<1>7. QED
  BY <1>5, <1>6

LEMMA BrowserKept ==
  ASSUME StreamInv, TextAct, UNCHANGED browserVars
  PROVE  BrowserTypes'
<1>1. Len(log) \in Nat /\ Len(log') \in Nat /\ Len(log) <= Len(log')
  BY LogGrows DEF StreamInv
<1>2. 0..Len(log) \subseteq 0..Len(log')
  BY <1>1
<1>3. QED
  BY <1>2 DEF StreamInv, BrowserTypes, browserVars

LEMMA ClosedStream ==
  ASSUME StreamInv, TextAct, CloseStream
  PROVE  StreamTypes' /\ GeneratorInv'
<1>1. Len(log') \in Nat
  BY LogGrows DEF StreamInv
<1>2. 0 \in 0..Len(log') /\ <<>> \in Seq(Wire') /\ {} \subseteq 1..Len(log')
  BY <1>1
<1>3. StreamTypes'
  BY <1>2 DEF CloseStream, StreamTypes
<1>4. GeneratorInv'
  BY DEF CloseStream, GeneratorInv, ReplayIsGapless, Settled, Verdicts
<1>5. QED
  BY <1>3, <1>4

LEMMA QueryFacts ==
  ASSUME TextInv, NEW from \in 0..Len(log)
  PROVE  Query(from) \in 0..Len(log) /\ from <= Query(from)
<1>1. Len(log) \in Nat /\ Limit \in Nat /\ from \in Nat
  BY TextFacts, LimitAssumption DEF TextInv
<1>2. from + Limit \in Nat
  BY <1>1
<1>3. /\ Min({from + Limit, Len(log)}) \in {from + Limit, Len(log)}
      /\ Min({from + Limit, Len(log)}) <= Len(log)
  BY <1>1, <1>2, MinOfTwo
<1>4. QED
  BY <1>1, <1>3 DEF Query

LEMMA LogText ==
  ASSUME TextInv, NEW i \in 1..Len(log)
  PROVE  log[i].text \in Text /\ log[i].window \in Nat
<1>1. log[i] \in LogEvent
  BY TextFacts DEF TextInv
<1>2. QED
  BY <1>1 DEF LogEvent

LEMMA DispatchFacts ==
  ASSUME StreamInv, log' = log, NEW i \in 1..Len(log), Dispatch(i)
  PROVE  /\ final' \in BOOLEAN /\ streaming' \in BOOLEAN /\ text' \in Text
         /\ seen' \in 0..Len(log') /\ lastSeen' \in 0..Len(log')
<1>1. Len(log) \in Nat /\ seen \in Nat /\ lastSeen \in Nat /\ i \in Nat
  BY TextFacts DEF StreamInv, TextInv, BrowserTypes
<1>2. Max({seen, i}) \in {seen, i} /\ Max({lastSeen, i}) \in {lastSeen, i}
  BY <1>1, MaxOfTwo
<1>3. seen' \in 0..Len(log') /\ lastSeen' \in 0..Len(log')
  BY <1>1, <1>2 DEF Dispatch, StreamInv, BrowserTypes
<1>4. final' \in BOOLEAN /\ streaming' \in BOOLEAN
  BY Zenon DEF Dispatch
<1>5. text' \in Text
  BY LogText DEF Dispatch, StreamInv, BrowserTypes
<1>6. QED
  BY <1>3, <1>4, <1>5

LEMMA SentFacts ==
  ASSUME StreamInv, log' = log, NEW i \in 1..Len(log), Sent(i)
  PROVE  /\ cur' \in 0..Len(log') /\ covered' \in Nat /\ sent' \subseteq 1..Len(log')
         /\ UNCHANGED <<conn, after, session>> /\ cur' = i /\ sent' = sent \cup {i}
<1>1. Len(log) \in Nat /\ log[i].window \in Nat /\ covered \in Nat
  BY TextFacts, LogText DEF StreamInv, TextInv, StreamTypes
<1>2. log[i].window + 1 \in Nat
  BY <1>1
<1>3. Max({covered, log[i].window + 1}) \in {covered, log[i].window + 1}
  BY <1>1, <1>2, MaxOfTwo
<1>4. covered' \in Nat
  BY <1>1, <1>2, <1>3 DEF Sent
<1>5. QED
  BY <1>1, <1>4 DEF Sent, StreamInv, StreamTypes

-----------------------------------------------------------------------------
(* Each step of the stream and of the session keeps the invariant.         *)

LEMMA HeardTyped ==
  ASSUME StreamInv, log' = log, NEW message \in Wire, channel' = Heard(message)
  PROVE  channel' \in Seq(Wire')
<1>1. Append(channel, message) \in Seq(Wire)
  BY DEF StreamInv, StreamTypes
<1>2. Wire' = Wire
  BY DEF Wire
<1>3. QED
  BY <1>1, <1>2 DEF Heard, StreamInv, StreamTypes

LEMMA BroadcastKeeps ==
  StreamInv /\ Broadcast => StreamTypes' /\ BrowserTypes' /\ GeneratorInv'
<1> SUFFICES ASSUME StreamInv, Broadcast PROVE StreamTypes' /\ BrowserTypes' /\ GeneratorInv'
  OBVIOUS
<1>1. /\ log' = log
      /\ UNCHANGED <<conn, stage, after, cur, upto, covered, sent, browserVars>>
  BY DEF Broadcast, Publish, PushLive, rowVars
<1>2. channel' \in Seq(Wire')
  <2>0. Wire' = Wire /\ 0 \in 0..Len(log)
    BY <1>1, TextFacts DEF Wire, StreamInv, TextInv
  <2>1. ASSUME NEW message \in Wire, Deliver(message) PROVE channel' \in Seq(Wire')
    BY <1>1, <2>0, <2>1, HeardTyped DEF Deliver, StreamInv, StreamTypes
  <2>2. \A t \in Thread : [seq |-> outbox[t], delta |-> 0, window |-> 0] \in Wire
    BY DEF Wire, StreamInv, TextInv, TextTypeOK
  <2>3. ASSUME PushLive PROVE [seq |-> 0, delta |-> pushed', window |-> window] \in Wire
    <3>1. pushed' \in Nat /\ window \in Nat
      BY <2>3, TextFacts DEF PushLive, StreamInv, TextInv, TextTypeOK
    <3>2. QED
      BY <2>0, <3>1 DEF Wire
  <2>4. QED
    BY <2>1, <2>2, <2>3 DEF Broadcast
<1>3. StreamTypes'
  BY <1>1, <1>2 DEF StreamInv, StreamTypes
<1>4. BrowserTypes'
  BY <1>1 DEF StreamInv, BrowserTypes, browserVars
<1>5. GeneratorInv'
  BY <1>1 DEF StreamInv, GeneratorInv, ReplayIsGapless, Logged
<1>6. QED
  BY <1>3, <1>4, <1>5

(* An event that goes over the stream, and the stream goes on.             *)
LEMMA RowSent ==
  ASSUME StreamInv, log' = log, conn # "none", stage = "send", cur < upto,
         Dispatch(cur + 1), Sent(cur + 1), UNCHANGED <<stage, upto, channel>>
  PROVE  StreamTypes' /\ BrowserTypes' /\ GeneratorInv'
<1>1. /\ cur \in Nat /\ upto \in Nat /\ after \in Nat /\ Len(log) \in Nat
      /\ upto <= Len(log) /\ after <= cur
  BY TextFacts DEF StreamInv, TextInv, StreamTypes, GeneratorInv
<1>2. cur + 1 \in 1..Len(log)
  BY <1>1
<1>3. /\ final' \in BOOLEAN /\ streaming' \in BOOLEAN /\ text' \in Text
      /\ seen' \in 0..Len(log') /\ lastSeen' \in 0..Len(log')
  BY <1>2, DispatchFacts
<1>4. /\ cur' \in 0..Len(log') /\ covered' \in Nat /\ sent' \subseteq 1..Len(log')
      /\ UNCHANGED <<conn, after, session>> /\ cur' = cur + 1 /\ sent' = sent \cup {cur + 1}
  BY <1>2, SentFacts
<1>5. Wire' = Wire
  BY DEF Wire
<1>6. StreamTypes' /\ BrowserTypes'
  BY <1>3, <1>4, <1>5 DEF StreamInv, StreamTypes, BrowserTypes
<1>7. after' <= cur' /\ cur' <= upto'
  BY <1>1, <1>4
<1>8. ReplayIsGapless'
  <2>1. sent = (after + 1)..cur
    BY DEF StreamInv, StreamTypes, GeneratorInv, ReplayIsGapless
  <2>2. (after + 1)..cur \cup {cur + 1} = (after + 1)..(cur + 1)
    BY <1>1
  <2>3. QED
    BY <1>4, <2>1, <2>2 DEF ReplayIsGapless
<1>9. QED
  BY <1>6, <1>7, <1>8 DEF GeneratorInv, Settled, Verdicts

LEMMA StreamStepKeeps ==
  StreamInv /\ TextAct /\ StreamStep => StreamTypes' /\ BrowserTypes' /\ GeneratorInv'
<1> SUFFICES ASSUME StreamInv, TextAct, StreamStep
             PROVE  StreamTypes' /\ BrowserTypes' /\ GeneratorInv'
  OBVIOUS
<1>0. /\ log' = log /\ Wire' = Wire /\ status' = status /\ Len(log) \in Nat
      /\ cur \in Nat /\ upto \in Nat /\ after \in Nat /\ seen \in Nat /\ lastSeen \in Nat
  <2>1. log' = log /\ status' = status
    BY DEF StreamStep, ReadLog, SendRow, RowsSent, Drop, ForwardDelta, ForwardEvent,
           ReadStatus, SendStop, PollAgain, Connect, CatchUp, textVars
  <2>2. QED
    BY <2>1, TextFacts DEF Wire, StreamInv, TextInv, StreamTypes, BrowserTypes
<1>1. CASE ReadLog
  <2>1. Query(cur) \in 0..Len(log) /\ cur <= Query(cur)
    BY QueryFacts DEF StreamInv, StreamTypes
  <2>2. UNCHANGED <<conn, after, cur, covered, channel, sent, browserVars>>
    BY <1>1 DEF ReadLog
  <2>3. StreamTypes' /\ BrowserTypes'
    BY <1>0, <1>1, <2>1, <2>2
       DEF ReadLog, StreamInv, StreamTypes, BrowserTypes, browserVars
  <2>4. GeneratorInv'
    BY <1>1, <2>1, <2>2
       DEF ReadLog, StreamInv, GeneratorInv, ReplayIsGapless, Settled, Verdicts
  <2>5. QED
    BY <2>3, <2>4
<1>2. CASE SendRow
  <2>1. CASE conn = "redis" /\ IsStop(cur + 1)
    <3>1. CloseStream /\ session' = "over" /\ Dispatch(cur + 1)
      BY <1>2, <2>1 DEF SendRow, EndStream
    <3>2. cur + 1 \in 1..Len(log)
      BY <1>0, <1>2 DEF SendRow, StreamInv, StreamTypes
    <3>3. /\ final' \in BOOLEAN /\ streaming' \in BOOLEAN /\ text' \in Text
          /\ seen' \in 0..Len(log') /\ lastSeen' \in 0..Len(log')
      BY <1>0, <3>1, <3>2, DispatchFacts
    <3>4. QED
      BY <3>1, <3>3, ClosedStream DEF BrowserTypes
  <2>2. CASE ~ (conn = "redis" /\ IsStop(cur + 1))
    BY <1>0, <1>2, <2>2, RowSent DEF SendRow
  <2>3. QED
    BY <2>1, <2>2
<1>3. CASE RowsSent
  <2>1. UNCHANGED <<final, seen, lastSeen, text, streaming>>
    BY <1>3 DEF RowsSent
  <2>2. CASE EndStream
    <3>1. BrowserTypes'
      BY <1>0, <2>1, <2>2 DEF EndStream, StreamInv, BrowserTypes
    <3>2. QED
      BY <2>2, <3>1, ClosedStream DEF EndStream
  <2>3. CASE /\ stage' = "wait"
             /\ UNCHANGED <<conn, after, cur, upto, covered, channel, sent, session>>
    BY <1>0, <1>3, <2>1, <2>3
       DEF RowsSent, StreamInv, StreamTypes, BrowserTypes, GeneratorInv, ReplayIsGapless,
           Settled, Verdicts
  <2>4. QED
    BY <1>3, <2>2, <2>3 DEF RowsSent
<1>4. ASSUME Receiving
      PROVE  /\ News \in Wire /\ Tail(channel) \in Seq(Wire)
             /\ stage = "wait" /\ conn = "redis"
  <2>1. channel \in Seq(Wire) /\ channel # <<>>
    BY <1>4 DEF Receiving, StreamInv, StreamTypes
  <2>2. QED
    BY <1>4, <2>1 DEF Receiving, News
<1>5. CASE Drop
  BY <1>0, <1>4, <1>5
     DEF Drop, StreamInv, StreamTypes, BrowserTypes, GeneratorInv, ReplayIsGapless, Settled,
         Verdicts, browserVars
<1>6. CASE ForwardDelta
  <2>1. News \in Wire /\ Tail(channel) \in Seq(Wire) /\ stage = "wait" /\ conn = "redis"
    BY <1>4, <1>6 DEF ForwardDelta
  <2>2. News.delta \in Nat
    BY <2>1 DEF Wire
  <2>3. text' \in Text
    BY <1>6, <2>2 DEF ForwardDelta, StreamInv, BrowserTypes, Text
  <2>4. QED
    BY <1>0, <1>6, <2>1, <2>3
       DEF ForwardDelta, StreamInv, StreamTypes, BrowserTypes, GeneratorInv, ReplayIsGapless,
           Settled, Verdicts
<1>7. CASE ForwardEvent
  <2>1. /\ News \in Wire /\ Tail(channel) \in Seq(Wire) /\ stage = "wait" /\ conn = "redis"
        /\ News.seq > cur /\ Dispatch(News.seq)
    BY <1>4, <1>7 DEF ForwardEvent
  <2>2. News.seq \in 1..Len(log)
    <3>1. News.seq \in 0..Len(log)
      BY <2>1 DEF Wire
    <3>2. QED
      BY <1>0, <2>1, <3>1
  <2>3. /\ final' \in BOOLEAN /\ streaming' \in BOOLEAN /\ text' \in Text
        /\ seen' \in 0..Len(log') /\ lastSeen' \in 0..Len(log')
    BY <1>0, <2>1, <2>2, DispatchFacts
  <2>4. CASE EndStream
    BY <2>3, <2>4, ClosedStream DEF EndStream, BrowserTypes
  <2>5. CASE Sent(News.seq) /\ channel' = Tail(channel) /\ UNCHANGED <<stage, upto>>
    <3>1. /\ cur' \in 0..Len(log') /\ covered' \in Nat /\ sent' \subseteq 1..Len(log')
          /\ UNCHANGED <<conn, after, session>> /\ cur' = News.seq
      BY <1>0, <2>2, <2>5, SentFacts
    <3>2. after' <= cur'
      <4>1. after <= cur /\ News.seq \in Nat
        BY <1>0, <2>2 DEF StreamInv, GeneratorInv
      <4>2. QED
        BY <1>0, <2>1, <3>1, <4>1
    <3>3. QED
      BY <1>0, <2>1, <2>3, <2>5, <3>1, <3>2
         DEF StreamInv, StreamTypes, BrowserTypes, GeneratorInv, ReplayIsGapless, Settled,
             Verdicts
  <2>6. QED
    BY <1>7, <2>4, <2>5 DEF ForwardEvent
<1>8. CASE ReadStatus
  <2>1. stage' \in Settled /\ Logged(stage')
    BY <1>8 DEF ReadStatus, StreamInv, TextInv, ControlInv
  <2>2. stage' \notin {"read", "send"} /\ stage = "wait"
    BY <1>8, <2>1 DEF ReadStatus, Settled, Verdicts
  <2>3. UNCHANGED <<conn, after, cur, upto, covered, channel, sent, browserVars>>
    BY <1>8 DEF ReadStatus
  <2>4. StreamTypes' /\ BrowserTypes'
    BY <1>0, <2>1, <2>3 DEF StreamInv, StreamTypes, BrowserTypes, browserVars
  <2>5. GeneratorInv'
    BY <1>0, <2>1, <2>2, <2>3 DEF StreamInv, GeneratorInv, ReplayIsGapless, Logged
  <2>6. QED
    BY <2>4, <2>5
<1>9. CASE SendStop
  <2> DEFINE S == {i \in DOMAIN log : log[i].type = stage}
  <2>1. CloseStream /\ session' = "over" /\ Dispatch(Max(S))
    BY <1>9 DEF SendStop, EndStream
  <2>2. S \subseteq 1..Len(log) /\ S # {}
    <3>1. Logged(stage)
      BY <1>9 DEF SendStop, StreamInv, GeneratorInv
    <3>2. DOMAIN log = 1..Len(log)
      BY TextFacts DEF StreamInv, TextInv
    <3>3. QED
      BY <3>1, <3>2 DEF Logged
  <2> HIDE DEF S
  <2>3. Max(S) \in 1..Len(log)
    BY <1>0, <2>2, MaxOfSome
  <2>4. /\ final' \in BOOLEAN /\ streaming' \in BOOLEAN /\ text' \in Text
        /\ seen' \in 0..Len(log') /\ lastSeen' \in 0..Len(log')
    BY <1>0, <2>1, <2>3, DispatchFacts
  <2>5. QED
    BY <2>1, <2>4, ClosedStream DEF BrowserTypes
<1>10. CASE PollAgain
  BY <1>0, <1>10
     DEF PollAgain, StreamInv, StreamTypes, BrowserTypes, GeneratorInv, ReplayIsGapless,
         Settled, Verdicts, browserVars
<1>11. CASE Connect
  <2>1. (seen + 1)..seen = {} /\ <<>> \in Seq(Wire)
    BY <1>0
  <2>2. StreamTypes' /\ BrowserTypes'
    BY <1>0, <1>11, <2>1 DEF Connect, StreamInv, StreamTypes, BrowserTypes
  <2>3. GeneratorInv'
    BY <1>0, <1>11, <2>1
       DEF Connect, GeneratorInv, ReplayIsGapless, Settled, Verdicts
  <2>4. QED
    BY <2>2, <2>3
<1>12. CASE CatchUp
  <2> DEFINE rows == (seen + 1)..Query(seen)
             stops == {i \in rows : IsStop(i)}
             last == IF stops = {} THEN Query(seen) ELSE Min(stops)
             checkpoints == {i \in rows : IsCheckpoint(i) /\ i <= last}
  <2>1. UNCHANGED <<streamVars, final>>
    BY <1>12 DEF CatchUp
  <2>2. Query(seen) \in 0..Len(log)
    BY QueryFacts DEF StreamInv, BrowserTypes
  <2>3. rows \subseteq 1..Len(log)
    BY <1>0, <2>2
  <2>4. last \in 0..Len(log)
    <3>1. stops \subseteq 1..Len(log) /\ stops \subseteq Nat
      BY <1>0, <2>3
    <3>2. stops # {} => Min(stops) \in stops
      <4> HIDE DEF stops
      <4>1. QED
        BY <3>1, MinOfSome
    <3>3. QED
      BY <1>0, <2>2, <3>1, <3>2
  <2>5. seen' = last /\ lastSeen' = Max({lastSeen, last})
    BY <1>12 DEF CatchUp
  <2>6. lastSeen' \in 0..Len(log)
    <3>1. last \in Nat
      BY <1>0, <2>4
    <3> HIDE DEF last
    <3>2. Max({lastSeen, last}) \in {lastSeen, last}
      BY <1>0, <3>1, MaxOfTwo
    <3>3. QED
      BY <2>4, <2>5, <3>2 DEF StreamInv, BrowserTypes
  <2>7. text' \in Text
    <3>1. text' = IF checkpoints = {} \/ streaming THEN text ELSE log[Max(checkpoints)].text
      BY <1>12 DEF CatchUp
    <3>2. checkpoints \subseteq 1..Len(log)
      BY <2>3
    <3> HIDE DEF checkpoints
    <3>3. checkpoints # {} => Max(checkpoints) \in 1..Len(log)
      BY <1>0, <3>2, MaxOfSome
    <3>4. QED
      BY <3>1, <3>3, LogText DEF StreamInv, BrowserTypes
  <2>8. session' \in {"attached", "over"}
    BY <1>12 DEF CatchUp
  <2>9. streaming' \in BOOLEAN
    <3>1. streaming' = (streaming /\ stops = {})
      BY <1>12, Zenon DEF CatchUp
    <3>2. QED
      BY <3>1, Zenon
  <2> HIDE DEF last
  <2>10. BrowserTypes'
    BY <1>0, <2>1, <2>4, <2>5, <2>6, <2>7, <2>8, <2>9 DEF StreamInv, BrowserTypes
  <2>11. QED
    BY <2>1, <2>10, StreamKept
<1>13. QED
  BY <1>1, <1>2, <1>3, <1>5, <1>6, <1>7, <1>8, <1>9, <1>10, <1>11, <1>12 DEF StreamStep

LEMMA StreamInvInitially == Init => StreamInv
<1> SUFFICES ASSUME Init PROVE StreamInv
  OBVIOUS
<1>1. TextInv
  BY TextInvInitially DEF Init
<1>2. Len(log) \in Nat
  BY <1>1, TextFacts DEF TextInv
<1>3. StreamTypes
  <2>1. <<>> \in Seq(Wire) /\ 0 \in 0..Len(log)
    BY <1>2
  <2>2. QED
    BY <2>1 DEF Init, StreamTypes
<1>4. BrowserTypes
  <2>1. final \in BOOLEAN /\ streaming \in BOOLEAN
    BY Zenon DEF Init
  <2>2. QED
    BY <1>2, <2>1, InjectiveEmpty DEF Init, BrowserTypes
<1>5. GeneratorInv
  BY DEF Init, GeneratorInv, ReplayIsGapless, Settled, Verdicts
<1>6. QED
  BY <1>1, <1>3, <1>4, <1>5 DEF StreamInv

LEMMA StreamInvIsKept == StreamInv /\ [Next]_vars => StreamInv'
<1> SUFFICES ASSUME StreamInv, [Next]_vars PROVE StreamInv'
  OBVIOUS
<1>1. TextAct /\ TextInv'
  BY NextIsTextAct, TextInvIsKept DEF StreamInv, TextInv
<1>2. /\ Len(log) \in Nat /\ Len(log') \in Nat /\ Len(log) <= Len(log')
  BY <1>1, LogGrows DEF StreamInv
<1>3. CASE UNCHANGED <<streamVars, browserVars>>
  BY <1>1, <1>3, StreamKept, BrowserKept DEF StreamInv
<1>4. CASE Broadcast
  BY <1>1, <1>4, BroadcastKeeps DEF StreamInv
<1>5. CASE StreamStep
  BY <1>1, <1>5, StreamStepKeeps DEF StreamInv
<1>6. CASE RedisFails
  <2>1. (after + 1)..after = {} /\ <<>> \in Seq(Wire')
    BY <1>2 DEF StreamInv, StreamTypes
  <2>2. log' = log
    BY <1>6 DEF RedisFails, rowVars
  <2>3. StreamTypes' /\ BrowserTypes'
    BY <1>6, <2>1, <2>2 DEF RedisFails, StreamInv, StreamTypes, BrowserTypes, browserVars
  <2>4. GeneratorInv'
    BY <1>2, <1>6, <2>1
       DEF RedisFails, StreamInv, StreamTypes, GeneratorInv, ReplayIsGapless, Settled, Verdicts
  <2>5. QED
    BY <1>1, <2>3, <2>4 DEF StreamInv
<1>7. CASE Disconnect
  <2>1. log' = log
    BY <1>7 DEF Disconnect, rowVars
  <2>2. BrowserTypes'
    BY <1>7, <2>1 DEF Disconnect, StreamInv, BrowserTypes
  <2>3. QED
    BY <1>1, <1>7, <2>2, ClosedStream DEF Disconnect, StreamInv
<1>8. CASE CatchUpFails
  <2>1. UNCHANGED streamVars /\ log' = log
    BY <1>8 DEF CatchUpFails, textVars
  <2>2. BrowserTypes'
    BY <1>8, <2>1 DEF CatchUpFails, StreamInv, BrowserTypes
  <2>3. QED
    BY <1>1, <2>1, <2>2, StreamKept DEF StreamInv
<1>9. ASSUME NEW from \in 0..Len(log), Attach(from), partial' = partial PROVE StreamInv'
  <2>1. partial \in Text /\ from \in 0..Len(log') /\ Len(log') \in 0..Len(log')
    BY <1>2 DEF StreamInv, TextInv, TextTypeOK
  <2>2. BrowserTypes'
    BY <1>9, <2>1 DEF Attach, BrowserTypes
  <2>3. QED
    BY <1>1, <1>9, <2>2, ClosedStream DEF Attach, StreamInv
<1>10. CASE Reload
  <2>1. 0 \in 0..Len(log) /\ Attach(0) /\ partial' = partial
    BY <1>2, <1>10 DEF Reload, rowVars
  <2>2. QED
    BY <1>9, <2>1
<1>11. CASE Resume
  <2>1. partial' = partial
    BY <1>11 DEF Resume, ResumeRun
  <2>2. CASE Attach(lastSeen)
    BY <1>9, <2>1, <2>2 DEF StreamInv, BrowserTypes
  <2>3. QED
    BY <1>3, <1>11, <2>2 DEF Resume
<1>12. CASE UNCHANGED vars
  BY <1>3, <1>12 DEF vars
<1>13. QED
  BY <1>3, <1>4, <1>5, <1>6, <1>7, <1>8, <1>10, <1>11, <1>12 DEF Next

LEMMA StreamInvariant == Spec => []StreamInv
<1>1. QED
  BY StreamInvInitially, StreamInvIsKept, PTL DEF Spec

(* Stream and browser keep their types: no cursor points past the log,     *)
(* whatever was lost, repeated or cut off.                                 *)
THEOREM StreamTypeCorrect == Spec => []TypeOK
<1>1. StreamInv => TypeOK
  <2> SUFFICES ASSUME StreamInv PROVE TypeOK
    OBVIOUS
  <2>1. Len(log) \in Nat
    BY TextFacts DEF StreamInv, TextInv
  <2>2. Wire \subseteq Message
    BY <2>1 DEF Wire, Message
  <2>3. channel \in Seq(Message)
    BY <2>2, SeqOfMore DEF StreamInv, StreamTypes
  <2>4. QED
    BY <2>3 DEF StreamInv, TextInv, StreamTypes, BrowserTypes, TypeOK
<1>2. QED
  BY <1>1, StreamInvariant, PTL

(* A replay, and a stream that polls, has sent every event of the log from *)
(* where it was opened: for any log, any size of a query and any number of *)
(* failures of Redis.                                                      *)
THEOREM ReplayHasNoGap == Spec => []ReplayIsGapless
<1>1. StreamInv => ReplayIsGapless
  BY DEF StreamInv, GeneratorInv
<1>2. QED
  BY <1>1, StreamInvariant, PTL

=============================================================================
