---------------------------- MODULE ScreenProofs ----------------------------
(***************************************************************************)
(* No text twice: however often Redis loses or reorders what is published, *)
(* and however often the stream is opened, a delta that a checkpoint has   *)
(* brought to the screen is not appended to it again.  The proof follows   *)
(* the labels: a live delta carries a window that is not above the one its *)
(* chunk is drained with, a replay over Redis sends every checkpoint since *)
(* the stream was opened, and what was published after a checkpoint is not *)
(* in it.                                                                  *)
(***************************************************************************)
EXTENDS EventStreamProofs

-----------------------------------------------------------------------------
(* The invariant.                                                          *)

(* A checkpoint of at least the message's window, between where the stream *)
(* was opened and n.                                                       *)
SavedBy(m, n) == \E j \in (after + 1)..n : IsCheckpoint(j) /\ m.window <= log[j].window

(* A live delta carries a window that is not above the one its chunk is,   *)
(* or was, drained with.                                                   *)
LabelOk(m) ==
  /\ m.delta \in 1..pushed
  /\ \A t \in Writer : m.delta \in Range(Held(t)) => m.window <= hand[t].window
  /\ m.delta \in Range(buffer) => m.window <= window
  /\ rpc = "pushing" /\ m.delta = pushed => m.window <= window
  /\ m.delta \in Range(partial) => SavedBy(m, Len(log))
  /\ \A i \in DOMAIN log : m.delta \in Range(log[i].text) => SavedBy(m, i)

LabelInv == \A p \in DOMAIN channel : channel[p].seq = 0 => LabelOk(channel[p])

(* If it is on the screen, a checkpoint sent over this stream covers it.   *)
CoverInv ==
  \A p \in DOMAIN channel :
    channel[p].seq = 0 /\ channel[p].delta \in Range(text) => channel[p].window < covered

(* What was published after a checkpoint is not in it.                     *)
OrderInv ==
  \A p, q \in DOMAIN channel : p < q /\ channel[q].seq = 0 =>
    /\ channel[p].seq = 0 => channel[p].delta # channel[q].delta
    /\ channel[p].seq # 0 => channel[q].delta \notin Range(log[channel[p].seq].text)

(* A replay over Redis notes each checkpoint that it sends.                *)
ReplayCovers ==
  conn = "redis" /\ stage \in {"read", "send"} =>
    \A j \in (after + 1)..cur : IsCheckpoint(j) => log[j].window < covered

SavedInv ==
  \A i \in DOMAIN log : IsInjective(log[i].text) /\ Range(log[i].text) \subseteq 1..pushed

ScreenInv ==
  /\ conn # "redis" => channel = <<>>
  /\ session # "attached" => conn = "none"
  /\ LabelInv /\ CoverInv /\ OrderInv /\ ReplayCovers /\ SavedInv
  /\ NoTextTwice /\ Range(text) \subseteq 1..pushed

Moved ==
  /\ pushed' = pushed
  /\ \A t \in Writer :
       \/ hand'[t] \in {hand[t], Empty}
       \/ /\ hand'[t].window = window
          /\ Range(Held(t)') \subseteq Range(buffer) \cup OnItsWay
  /\ \/ buffer' = <<>>
     \/ window' = window /\ Range(buffer') \subseteq Range(buffer) \cup OnItsWay
  /\ rpc' = "pushing" => rpc = "pushing" /\ window <= window'
  /\ \/ UNCHANGED <<partial, log>>
     \/ partial' = partial /\ \E t \in Thread, e \in LogEvent : Commit(t, e) /\ e.text = <<>>
     \/ \E t \in Writer : AppendCheckpoint(t)

(* What any step but a push of the router does to labels and chunks.       *)
LEMMA TextMoves ==
  ASSUME TextInv,
         TextStep \/ ResumeRun \/ UNCHANGED <<rowVars, slotVars>> \/ \E t \in Thread : Publish(t)
  PROVE  Moved
<1>0. /\ window \in Nat /\ "router" \in Writer /\ "ticker" \in Writer /\ buffer \in Text
      /\ Writer = {"router", "ticker"} /\ {"router", "ticker", "api", "other"} \subseteq Thread
  BY DEF TextInv, TextTypeOK, Writer, Thread
<1>1. CASE Claim \/ TakeOver \/ NoticeLoss \/ EndTurn
  BY <1>0, <1>1 DEF Claim, TakeOver, NoticeLoss, EndTurn, Moved, bufferVars, rowVars
<1>2. CASE FailStale \/ EmitEvent \/ RequestPause \/ ResumeRun
  <2>1. \E t \in Thread, e \in LogEvent : Commit(t, e) /\ e.text = <<>>
    <3>1. \A type \in EventType : Event(type) \in LogEvent /\ Event(type).text = <<>>
      BY EventTyped DEF Event
    <3>2. QED
      BY <1>0, <1>2, <3>1 DEF FailStale, EmitEvent, RequestPause, ResumeRun, EventType
  <2>2. UNCHANGED <<partial, rpc, bufferVars, hand>>
    BY <1>2 DEF FailStale, EmitEvent, RequestPause, ResumeRun
  <2>3. QED
    BY <1>0, <2>1, <2>2 DEF Moved, bufferVars
<1>3. CASE Crash
  BY <1>0, <1>3 DEF Crash, LeaveRun, Moved
<1>4. ASSUME NEW t \in Writer, AppendCheckpoint(t) PROVE Moved
  <2>1. \A u \in Writer : hand'[u] \in {hand[u], Empty}
    BY <1>4 DEF AppendCheckpoint, TextInv, TextTypeOK
  <2>2. UNCHANGED <<rpc, bufferVars>>
    BY <1>4 DEF AppendCheckpoint
  <2>3. QED
    BY <1>0, <1>4, <2>1, <2>2 DEF Moved, bufferVars
<1>5. ASSUME NEW t \in Writer, AppendRaises(t) PROVE Moved
  <2>1. \A u \in Writer : hand'[u] \in {hand[u], Empty}
    BY <1>5 DEF AppendRaises, TextInv, TextTypeOK
  <2>2. UNCHANGED <<partial, log>> /\ (LeaveRun \/ UNCHANGED <<rpc, bufferVars>>)
    BY <1>5 DEF AppendRaises, rowVars
  <2>3. QED
    BY <1>0, <2>1, <2>2 DEF Moved, bufferVars, LeaveRun
<1>6. ASSUME NEW t \in Writer, NEW chunk \in Text, Drain(t, chunk), pushed' = pushed,
             Range(chunk) \subseteq Range(buffer) \cup OnItsWay,
             UNCHANGED <<partial, log>>, rpc' = "pushing" => rpc = "pushing"
      PROVE  Moved
  <2>1. /\ hand'[t].text = chunk /\ hand'[t].window = window /\ buffer' = <<>>
        /\ window' = window + 1 /\ \A u \in Writer : u # t => hand'[u] = hand[u]
    BY <1>6 DEF Drain, TextInv, TextTypeOK
  <2>2. QED
    BY <1>0, <1>6, <2>1 DEF Moved, Held
<1>7. CASE PushBuffer
  <2>1. rpc = "pushing" /\ rpc' = "answering" /\ UNCHANGED <<partial, log, pushed>>
    BY <1>7 DEF PushBuffer, rowVars
  <2>2. /\ Append(buffer, pushed) \in Text
        /\ Range(Append(buffer, pushed)) = Range(buffer) \cup OnItsWay
    BY <2>1, DeltaBuffered DEF OnItsWay
  <2>3. CASE Drain("router", Append(buffer, pushed))
    BY <1>0, <1>6, <2>1, <2>2, <2>3
  <2>4. CASE buffer' = Append(buffer, pushed) /\ UNCHANGED <<window, hand>>
    BY <1>0, <2>1, <2>2, <2>4 DEF Moved
  <2>5. QED
    BY <1>7, <2>3, <2>4 DEF PushBuffer
<1>8. CASE Flush
  <2>1. rpc' = "ending" /\ UNCHANGED <<partial, log, pushed>>
    BY <1>8 DEF Flush, rowVars
  <2>2. CASE Drain("router", buffer)
    BY <1>0, <1>6, <2>1, <2>2
  <2>3. CASE UNCHANGED <<buffer, window, hand>>
    BY <1>0, <2>1, <2>3 DEF Moved
  <2>4. QED
    BY <1>8, <2>2, <2>3 DEF Flush
<1>9. CASE Terminalize
  <2>1. \E t \in Thread, e \in LogEvent : Commit(t, e) /\ e.text = <<>>
    <3>1. Event(verdict) \in LogEvent /\ Event(verdict).text = <<>>
      BY <1>9, EventTyped
         DEF Terminalize, TextInv, ControlInv, Settled, Verdicts, EventType, Event
    <3>2. QED
      BY <1>0, <1>9, <3>1 DEF Terminalize
  <2>2. QED
    BY <1>0, <1>9, <2>1 DEF Terminalize, LeaveRun, Moved
<1>10. CASE RouterRaises
  BY <1>0, <1>10 DEF RouterRaises, LeaveRun, Moved, rowVars
<1>11. CASE Tick
  BY <1>0, <1>6, <1>11 DEF Tick, rowVars
<1>12. CASE UNCHANGED <<rowVars, slotVars>> \/ \E t \in Thread : Publish(t)
  BY <1>0, <1>12 DEF Publish, Moved, rowVars, slotVars, bufferVars
<1>13. QED
  BY <1>1, <1>2, <1>3, <1>4, <1>5, <1>7, <1>8, <1>9, <1>10, <1>11, <1>12 DEF TextStep

LEMMA LogPrefix ==
  ASSUME TextInv, TextAct
  PROVE  /\ DOMAIN log = 1..Len(log) /\ DOMAIN log' = 1..Len(log')
         /\ \A i \in 1..Len(log) : log'[i] = log[i]
<1>1. DOMAIN log = 1..Len(log)
  BY TextFacts DEF TextInv
<1>2. CASE log' = log
  BY <1>1, <1>2
<1>3. ASSUME NEW t \in Thread, NEW e \in LogEvent, Commit(t, e)
      PROVE  /\ DOMAIN log' = 1..Len(log')
             /\ \A i \in 1..Len(log) : log'[i] = log[i]
  BY <1>1, <1>3, CommitFacts DEF TextInv
<1>4. QED
  BY <1>1, <1>2, <1>3, LogSteps

(* The same, of what a step leaves.                                        *)
SavedThen(m, n) ==
  \E j \in (after' + 1)..n :
    log'[j].type = "text_checkpoint" /\ m.window <= log'[j].window

LabelThen(m) ==
  /\ m.delta \in 1..pushed'
  /\ \A t \in Writer : m.delta \in Range(hand'[t].text) => m.window <= hand'[t].window
  /\ m.delta \in Range(buffer') => m.window <= window'
  /\ rpc' = "pushing" /\ m.delta = pushed' => m.window <= window'
  /\ m.delta \in Range(partial') => SavedThen(m, Len(log'))
  /\ \A i \in DOMAIN log' : m.delta \in Range(log'[i].text) => SavedThen(m, i)

LEMMA SavedByGrows ==
  ASSUME TextInv, TextAct, after' = after, after \in Nat,
         NEW m, NEW n \in 0..Len(log), NEW k \in Nat, n <= k, SavedBy(m, n)
  PROVE  SavedThen(m, k)
<1>1. PICK j \in (after + 1)..n : IsCheckpoint(j) /\ m.window <= log[j].window
  BY DEF SavedBy
<1>2. j \in 1..Len(log) /\ j \in (after + 1)..k
  <2>1. Len(log) \in Nat
    BY TextFacts DEF TextInv
  <2>2. QED
    BY <1>1, <2>1
<1>3. log'[j] = log[j]
  BY <1>2, LogPrefix
<1>4. QED
  BY <1>1, <1>2, <1>3 DEF SavedThen, IsCheckpoint

LEMMA PushedGrows ==
  ASSUME TextInv, TextAct
  PROVE  pushed \in Nat /\ pushed' \in Nat /\ pushed <= pushed'
<1>1. pushed \in Nat
  BY TextFacts DEF TextInv
<1>2. CASE PushLive
  BY <1>1, <1>2 DEF PushLive
<1>3. CASE TextStep \/ ResumeRun \/ UNCHANGED <<rowVars, slotVars>> \/ \E t \in Thread : Publish(t)
  BY <1>1, <1>3, TextMoves DEF Moved
<1>4. QED
  BY <1>2, <1>3 DEF TextAct, Spoken, TextIsLeft

LEMMA WrittenFacts == TextInv => Written \subseteq 1..pushed
<1> SUFFICES ASSUME TextInv PROVE Written \subseteq 1..pushed
  OBVIOUS
<1>1. pushed \in Nat /\ \A n \in Nat : n # 0 => 1..(n - 1) \subseteq 1..n
  BY TextFacts DEF TextInv
<1>2. QED
  BY <1>1 DEF Written, TextInv, ControlInv

(* A new event carries no text, or the text of the row.                    *)
LEMMA SavedKept ==
  ASSUME TextInv, TextAct, TextInv', SavedInv
  PROVE  SavedInv'
<1>1. pushed \in Nat /\ pushed' \in Nat /\ pushed <= pushed' /\ 1..pushed \subseteq 1..pushed'
  BY PushedGrows
<1>2. IsInjective(partial') /\ Range(partial') \subseteq 1..pushed'
  <2>1. (Written \subseteq 1..pushed)'
    BY WrittenFacts, PTL
  <2>2. QED
    BY <2>1 DEF TextInv, PlacesInv, NoDeltaTwice, Everywhere
<1>3. IsInjective(<<>>) /\ Range(<<>>) \subseteq 1..pushed'
  BY InjectiveEmpty
<1>4. CASE log' = log
  BY <1>1, <1>4 DEF SavedInv
<1>5. ASSUME NEW t \in Thread, NEW e \in LogEvent, Commit(t, e), e.text \in {<<>>, partial'}
      PROVE  SavedInv'
  <2>1. /\ DOMAIN log = 1..Len(log) /\ DOMAIN log' = 1..(Len(log) + 1)
        /\ \A i \in DOMAIN log : log'[i] = log[i]
        /\ log'[Len(log) + 1] = e /\ Len(log) \in Nat
    BY <1>5, CommitFacts DEF TextInv
  <2>2. SUFFICES ASSUME NEW i \in DOMAIN log'
                 PROVE  IsInjective(log'[i].text) /\ Range(log'[i].text) \subseteq 1..pushed'
    BY DEF SavedInv
  <2>3. CASE i \in DOMAIN log
    BY <1>1, <2>1, <2>3 DEF SavedInv
  <2>4. CASE i = Len(log) + 1
    BY <1>2, <1>3, <1>5, <2>1, <2>4
  <2>5. QED
    BY <2>1, <2>2, <2>3, <2>4
<1>6. ASSUME NEW t \in Writer, AppendCheckpoint(t)
      PROVE  \E e \in LogEvent : Commit(t, e) /\ e.text = partial'
  <2>1. partial' \in Text
    BY DEF TextInv, TextTypeOK
  <2>2. [type |-> "text_checkpoint", text |-> partial', window |-> hand[t].window] \in LogEvent
    BY <2>1, TextFacts DEF LogEvent, EventType, TextInv
  <2>3. QED
    BY <1>6, <2>2 DEF AppendCheckpoint
<1>7. CASE Moved
  <2>1. Writer \subseteq Thread
    BY DEF Writer, Thread
  <2>2. QED
    BY <1>4, <1>5, <1>6, <1>7, <2>1 DEF Moved
<1>8. CASE PushLive
  BY <1>4, <1>8 DEF PushLive, rowVars
<1>9. QED
  BY <1>7, <1>8, TextMoves DEF TextAct, Spoken, TextIsLeft

(* What a message of the channel is.                                       *)
LEMMA MessageFacts ==
  ASSUME StreamInv, NEW p \in DOMAIN channel
  PROVE  /\ channel[p].seq \in 0..Len(log) /\ channel[p].delta \in Nat
         /\ channel[p].window \in Nat /\ p \in Nat /\ DOMAIN channel = 1..Len(channel)
<1>1. channel \in Seq(Wire)
  BY DEF StreamInv, StreamTypes
<1>2. channel[p] \in Wire /\ p \in Nat /\ DOMAIN channel = 1..Len(channel)
  BY <1>1
<1>3. QED
  BY <1>2 DEF Wire

LEMMA LabelKept ==
  ASSUME StreamInv, TextAct, Moved, TextInv', after' = after,
         NEW m, m.window \in Nat, LabelOk(m)
  PROVE  LabelThen(m)
<1>1. /\ m.delta \in 1..pushed
      /\ \A t \in Writer : m.delta \in Range(Held(t)) => m.window <= hand[t].window
      /\ m.delta \in Range(buffer) => m.window <= window
      /\ rpc = "pushing" /\ m.delta = pushed => m.window <= window
      /\ m.delta \in Range(partial) => SavedBy(m, Len(log))
      /\ \A i \in DOMAIN log : m.delta \in Range(log[i].text) => SavedBy(m, i)
  BY DEF LabelOk
<1>2. m.window \in Nat /\ window \in Nat /\ window' \in Nat
  BY DEF StreamInv, TextInv, TextTypeOK
<1>3. /\ pushed' = pushed /\ Range(<<>>) = {} /\ Empty.text = <<>>
      /\ after \in Nat /\ after <= Len(log) /\ Len(log) \in Nat
  BY InjectiveEmpty, TextFacts
     DEF Moved, Empty, StreamInv, StreamTypes, TextInv
<1>4. m.delta \in Range(buffer) \cup OnItsWay => m.window <= window
  BY <1>1 DEF OnItsWay
<1>5. ASSUME NEW t \in Writer, m.delta \in Range(Held(t)') PROVE m.window <= hand'[t].window
  <2>1. CASE hand'[t] = hand[t]
    BY <1>1, <1>5, <2>1 DEF Held
  <2>2. CASE hand'[t] = Empty
    BY <1>3, <1>5, <2>2 DEF Held
  <2>3. CASE /\ hand'[t].window = window
             /\ Range(Held(t)') \subseteq Range(buffer) \cup OnItsWay
    BY <1>4, <1>5, <2>3
  <2>4. QED
    BY <2>1, <2>2, <2>3 DEF Moved
<1>6. m.delta \in Range(buffer') => m.window <= window'
  BY <1>3, <1>4 DEF Moved
<1>7. rpc' = "pushing" /\ m.delta = pushed' => m.window <= window'
  BY <1>1, <1>2, <1>3 DEF Moved
<1>8. Len(log') \in Nat /\ Len(log) <= Len(log')
  BY LogGrows DEF StreamInv
<1>9. m.delta \in Range(partial') => SavedThen(m, Len(log'))
  <2>1. CASE m.delta \in Range(partial)
    <3>1. SavedBy(m, Len(log)) /\ Len(log) \in 0..Len(log)
      BY <1>1, <1>3, <2>1
    <3>2. QED
      BY <1>3, <1>8, <3>1, SavedByGrows DEF StreamInv
  <2>2. ASSUME NEW t \in Writer, AppendCheckpoint(t), m.delta \in Range(Held(t))
        PROVE  SavedThen(m, Len(log'))
    <3>1. m.window <= hand[t].window
      BY <1>1, <2>2
    <3>2. [type |-> "text_checkpoint", text |-> partial', window |-> hand[t].window] \in LogEvent
      BY TextFacts DEF LogEvent, EventType, StreamInv, TextInv, TextTypeOK
    <3>3. /\ Len(log') = Len(log) + 1
          /\ log'[Len(log')].type = "text_checkpoint"
          /\ log'[Len(log')].window = hand[t].window
      BY <2>2, <3>2, CommitFacts DEF AppendCheckpoint, StreamInv, TextInv, Writer, Thread
    <3>4. Len(log') \in (after' + 1)..Len(log')
      BY <1>3, <3>3
    <3>5. QED
      BY <3>1, <3>3, <3>4 DEF SavedThen
  <2>3. ASSUME NEW t \in Writer, AppendCheckpoint(t)
        PROVE  Range(partial') = Range(partial) \cup Range(Held(t))
    BY <2>3, PartFacts, RangeOfConcat DEF AppendCheckpoint, Held, StreamInv, TextInv
  <2>4. QED
    BY <2>1, <2>2, <2>3 DEF Moved
<1>10. ASSUME NEW i \in DOMAIN log', m.delta \in Range(log'[i].text) PROVE SavedThen(m, i)
  <2>1. CASE i \in 1..Len(log)
    <3>1. SavedBy(m, i) /\ i \in 0..Len(log) /\ i \in Nat
      BY <1>1, <1>3, <1>10, <2>1, LogPrefix DEF StreamInv
    <3>2. QED
      BY <1>3, <3>1, SavedByGrows DEF StreamInv
  <2>2. CASE i \notin 1..Len(log)
    <3>1. log' # log
      BY <1>10, <2>2, LogPrefix DEF StreamInv
    <3>2. ASSUME NEW t \in Thread, NEW e \in LogEvent, Commit(t, e)
          PROVE  i = Len(log') /\ log'[i] = e
      BY <1>10, <2>2, <3>2, CommitFacts DEF StreamInv, TextInv
    <3>3. ASSUME NEW t \in Writer, AppendCheckpoint(t)
          PROVE  i = Len(log') /\ log'[i].text = partial'
      <4>1. [type |-> "text_checkpoint", text |-> partial', window |-> hand[t].window] \in LogEvent
        BY TextFacts DEF LogEvent, EventType, StreamInv, TextInv, TextTypeOK
      <4>2. QED
        BY <3>2, <3>3, <4>1 DEF AppendCheckpoint, Writer, Thread
    <3>4. CASE \E t \in Thread, e \in LogEvent : Commit(t, e) /\ e.text = <<>>
      BY <1>3, <1>10, <3>2, <3>4
    <3>5. CASE \E t \in Writer : AppendCheckpoint(t)
      BY <1>9, <1>10, <3>3, <3>5
    <3>6. QED
      BY <3>1, <3>4, <3>5 DEF Moved
  <2>3. QED
    BY <2>1, <2>2
<1>11. QED
  <2>1. \A t \in Writer : m.delta \in Range(hand'[t].text) => m.window <= hand'[t].window
    BY <1>5 DEF Held
  <2>2. QED
    BY <1>1, <1>3, <1>6, <1>7, <1>9, <1>10, <2>1 DEF LabelThen

LEMMA LabelsThen ==
  ASSUME \A p \in DOMAIN channel' : channel'[p].seq = 0 => LabelThen(channel'[p])
  PROVE  LabelInv'
BY DEF LabelThen, SavedThen, LabelInv, LabelOk, Held, SavedBy, IsCheckpoint

(* The subscription still holds what it held, but for the first k messages.*)
LEMMA FewerMessages ==
  ASSUME StreamInv, ScreenInv, TextAct, Moved, TextInv', after' = after, NEW k \in Nat,
         \A p \in DOMAIN channel' :
           p \in Nat /\ p + k \in DOMAIN channel /\ channel'[p] = channel[p + k]
  PROVE  LabelInv' /\ OrderInv' /\ SavedInv'
<1>1. SavedInv'
  BY SavedKept DEF StreamInv, ScreenInv
<1>2. LabelInv'
  <2> SUFFICES ASSUME NEW p \in DOMAIN channel', channel'[p].seq = 0
               PROVE  LabelThen(channel'[p])
    BY LabelsThen
  <2>1. p + k \in DOMAIN channel /\ channel'[p] = channel[p + k]
    OBVIOUS
  <2>2. channel[p + k].window \in Nat /\ LabelOk(channel[p + k])
    BY <2>1, MessageFacts DEF ScreenInv, LabelInv
  <2>3. LabelThen(channel[p + k])
    BY <2>2, LabelKept
  <2>4. QED
    BY <2>1, <2>3
<1>3. OrderInv'
  <2> SUFFICES ASSUME NEW p \in DOMAIN channel', NEW q \in DOMAIN channel', p < q,
                      channel'[q].seq = 0
               PROVE  /\ channel'[p].seq = 0 => channel'[p].delta # channel'[q].delta
                      /\ channel'[p].seq # 0 =>
                           channel'[q].delta \notin Range(log'[channel'[p].seq].text)
    BY DEF OrderInv
  <2>1. /\ p + k \in DOMAIN channel /\ q + k \in DOMAIN channel /\ p + k < q + k
        /\ channel'[p] = channel[p + k] /\ channel'[q] = channel[q + k]
    OBVIOUS
  <2>2. channel[p + k].seq # 0 => log'[channel[p + k].seq] = log[channel[p + k].seq]
    <3>1. channel[p + k].seq \in 0..Len(log) /\ Len(log) \in Nat
      BY <2>1, MessageFacts, TextFacts DEF StreamInv, TextInv
    <3>2. channel[p + k].seq # 0 => channel[p + k].seq \in 1..Len(log)
      BY <3>1
    <3>3. QED
      BY <3>2, LogPrefix DEF StreamInv
  <2>3. /\ channel[p + k].seq = 0 => channel[p + k].delta # channel[q + k].delta
        /\ channel[p + k].seq # 0 =>
             channel[q + k].delta \notin Range(log[channel[p + k].seq].text)
    BY <2>1 DEF ScreenInv, OrderInv
  <2>4. QED
    BY <2>1, <2>2, <2>3
<1>4. QED
  BY <1>1, <1>2, <1>3

(* The screen as it was, or as the row or an event of the log has it.      *)
LEMMA SavedText ==
  ASSUME StreamInv, ScreenInv, TextAct, TextInv',
         text' = text \/ text' = partial' \/ \E i \in DOMAIN log : text' = log[i].text
  PROVE  NoTextTwice' /\ Range(text') \subseteq 1..pushed'
<1>1. pushed \in Nat /\ pushed' \in Nat /\ pushed <= pushed' /\ 1..pushed \subseteq 1..pushed'
  BY PushedGrows DEF StreamInv
<1>2. CASE text' = text
  BY <1>1, <1>2 DEF ScreenInv, NoTextTwice
<1>3. CASE text' = partial'
  <2>1. (Written \subseteq 1..pushed)'
    BY WrittenFacts, PTL
  <2>2. IsInjective(partial') /\ Range(partial') \subseteq 1..pushed'
    BY <2>1 DEF TextInv, PlacesInv, NoDeltaTwice, Everywhere
  <2>3. QED
    BY <1>3, <2>2 DEF NoTextTwice
<1>4. CASE \E i \in DOMAIN log : text' = log[i].text
  BY <1>1, <1>4 DEF ScreenInv, SavedInv, NoTextTwice
<1>5. QED
  BY <1>2, <1>3, <1>4

(* The stream is closed, opened anew, or replaced by polling.              *)
LEMMA ChannelEmptied ==
  ASSUME StreamInv, ScreenInv, TextAct, TextInv', channel' = <<>>,
         conn' = "redis" => cur' = after' /\ session' = "attached",
         conn' # "none" => session' = "attached",
         text' = text \/ text' = partial' \/ \E i \in DOMAIN log : text' = log[i].text,
         after' \in Nat
  PROVE  ScreenInv'
<1>1. DOMAIN channel' = {}
  OBVIOUS
<1>2. LabelInv' /\ CoverInv' /\ OrderInv'
  BY <1>1 DEF LabelInv, CoverInv, OrderInv
<1>3. ReplayCovers'
  <2>1. \A n \in Nat : (n + 1)..n = {}
    OBVIOUS
  <2>2. QED
    BY <2>1 DEF ReplayCovers
<1>4. SavedInv'
  BY SavedKept DEF StreamInv, ScreenInv
<1>5. QED
  BY <1>2, <1>3, <1>4, SavedText DEF ScreenInv

(* The stream and the screen are as they were, whatever the threads did.   *)
LEMMA ChannelQuiet ==
  ASSUME StreamInv, ScreenInv, TextAct, Moved, TextInv',
         UNCHANGED <<channel, conn, after, cur, covered, text>>,
         session' # "attached" => conn = "none",
         conn = "redis" /\ stage' \in {"read", "send"} => stage \in {"read", "send"}
  PROVE  ScreenInv'
<1>1. LabelInv' /\ OrderInv' /\ SavedInv'
  <2>1. 0 \in Nat /\ \A p \in DOMAIN channel' :
          p \in Nat /\ p + 0 \in DOMAIN channel /\ channel'[p] = channel[p + 0]
    BY MessageFacts
  <2>2. QED
    BY <2>1, FewerMessages
<1>2. CoverInv'
  BY DEF ScreenInv, CoverInv
<1>3. ReplayCovers'
  <2> SUFFICES ASSUME conn = "redis", stage \in {"read", "send"},
                      NEW j \in (after + 1)..cur, log'[j].type = "text_checkpoint"
               PROVE  log'[j].window < covered
    BY DEF ReplayCovers, IsCheckpoint
  <2>1. j \in 1..Len(log)
    BY TextFacts DEF StreamInv, TextInv, StreamTypes
  <2>2. log'[j] = log[j]
    BY <2>1, LogPrefix DEF StreamInv
  <2>3. QED
    BY <2>2 DEF ScreenInv, ReplayCovers, IsCheckpoint
<1>4. QED
  BY <1>1, <1>2, <1>3, SavedText DEF ScreenInv

LEMMA SentCovers ==
  ASSUME StreamInv, NEW i \in 1..Len(log), Sent(i)
  PROVE  /\ covered \in Nat /\ covered' \in Nat /\ covered <= covered'
         /\ IsCheckpoint(i) => log[i].window < covered'
<1>1. log[i].window \in Nat /\ covered \in Nat
  BY LogText DEF StreamInv, StreamTypes
<1>2. log[i].window + 1 \in Nat
  BY <1>1
<1>3. /\ Max({covered, log[i].window + 1}) \in {covered, log[i].window + 1}
      /\ Max({covered, log[i].window + 1}) >= covered
      /\ Max({covered, log[i].window + 1}) >= log[i].window + 1
  BY <1>1, <1>2, MaxOfTwo
<1>4. QED
  BY <1>1, <1>2, <1>3 DEF Sent

(* The replay sends the next row of the log.                               *)
LEMMA RowSentKeepsScreen ==
  ASSUME StreamInv, ScreenInv, TextAct, Moved, TextInv', log' = log,
         conn # "none", stage = "send", cur + 1 \in 1..Len(log),
         Dispatch(cur + 1), Sent(cur + 1), UNCHANGED <<stage, channel>>
  PROVE  ScreenInv'
<1> DEFINE i == cur + 1
<1>1. /\ covered \in Nat /\ covered' \in Nat /\ covered <= covered'
      /\ IsCheckpoint(i) => log[i].window < covered'
      /\ after \in Nat /\ cur \in Nat /\ Len(log) \in Nat
  BY SentCovers, TextFacts DEF StreamInv, StreamTypes, TextInv
<1>2. cur' = i /\ after' = after /\ conn' = conn /\ session' = session
  BY DEF Sent
<1>3. LabelInv' /\ OrderInv' /\ SavedInv'
  <2>1. 0 \in Nat /\ \A p \in DOMAIN channel' :
          p \in Nat /\ p + 0 \in DOMAIN channel /\ channel'[p] = channel[p + 0]
    BY MessageFacts
  <2>2. QED
    BY <1>2, <2>1, FewerMessages
<1>4. DOMAIN log = 1..Len(log)
  BY LogPrefix DEF StreamInv
<1>5. text' = text \/ (text' = log[i].text /\ IsCheckpoint(i))
  BY DEF Dispatch
<1>6. ReplayCovers'
  <2> SUFFICES ASSUME conn = "redis", NEW j \in (after + 1)..i, IsCheckpoint(j)
               PROVE  log[j].window < covered'
    BY <1>2 DEF ReplayCovers, IsCheckpoint
  <2>1. CASE j = i
    BY <1>1, <2>1
  <2>2. CASE j # i
    <3>1. j \in (after + 1)..cur /\ j \in 1..Len(log)
      BY <1>1, <2>2
    <3>2. log[j].window < covered
      BY <3>1 DEF ScreenInv, ReplayCovers
    <3>3. log[j].window \in Nat
      BY <3>1, LogText DEF StreamInv
    <3>4. QED
      BY <1>1, <3>2, <3>3
  <2>3. QED
    BY <2>1, <2>2
<1>7. CoverInv'
  <2> SUFFICES ASSUME NEW p \in DOMAIN channel, channel[p].seq = 0,
                      channel[p].delta \in Range(text')
               PROVE  channel[p].window < covered'
    BY DEF CoverInv
  <2>1. channel[p].window \in Nat
    BY MessageFacts
  <2>2. CASE text' = text
    <3>1. channel[p].window < covered
      BY <2>2 DEF ScreenInv, CoverInv
    <3>2. QED
      BY <1>1, <2>1, <3>1
  <2>3. CASE text' = log[i].text /\ IsCheckpoint(i)
    <3>1. SavedBy(channel[p], i)
      BY <1>4, <2>3 DEF ScreenInv, LabelInv, LabelOk
    <3>2. PICK j \in (after + 1)..i : IsCheckpoint(j) /\ channel[p].window <= log[j].window
      BY <3>1 DEF SavedBy
    <3>3. conn = "redis"
      BY DEF ScreenInv
    <3>4. log[j].window < covered'
      BY <1>2, <1>6, <3>2, <3>3 DEF ReplayCovers, IsCheckpoint
    <3>5. log[j].window \in Nat
      <4>1. j \in 1..Len(log)
        BY <1>1, <3>2
      <4>2. QED
        BY <4>1, LogText DEF StreamInv
    <3>6. QED
      BY <1>1, <2>1, <3>2, <3>4, <3>5
  <2>4. QED
    BY <1>5, <2>2, <2>3
<1>8. NoTextTwice' /\ Range(text') \subseteq 1..pushed'
  BY <1>4, <1>5, SavedText
<1>9. QED
  BY <1>2, <1>3, <1>6, <1>7, <1>8 DEF ScreenInv

LEMMA TailFacts ==
  ASSUME StreamInv, channel # <<>>
  PROVE  /\ 1 \in DOMAIN channel /\ News = channel[1]
         /\ \A p \in DOMAIN Tail(channel) :
              /\ p \in Nat /\ p + 1 \in DOMAIN channel /\ 1 < p + 1
              /\ Tail(channel)[p] = channel[p + 1]
BY DEF StreamInv, StreamTypes, News

(* A message is dropped: what the screen shows is as it was.               *)
LEMMA DropKeepsScreen ==
  ASSUME StreamInv, ScreenInv, TextAct, Moved, TextInv', Drop
  PROVE  ScreenInv'
<1>1. /\ UNCHANGED <<conn, stage, after, cur, covered, text, session, log>>
      /\ conn = "redis" /\ stage = "wait" /\ channel # <<>> /\ channel' = Tail(channel)
  BY DEF Drop, Receiving, textVars, browserVars
<1>2. LabelInv' /\ OrderInv' /\ SavedInv'
  <2>1. 1 \in Nat /\ \A p \in DOMAIN channel' :
          p \in Nat /\ p + 1 \in DOMAIN channel /\ channel'[p] = channel[p + 1]
    BY <1>1, TailFacts
  <2>2. QED
    BY <1>1, <2>1, FewerMessages
<1>3. CoverInv'
  BY <1>1, TailFacts DEF ScreenInv, CoverInv
<1>4. ReplayCovers'
  BY <1>1 DEF ReplayCovers
<1>5. QED
  BY <1>1, <1>2, <1>3, <1>4, SavedText DEF ScreenInv

(* A delta is appended: it is not on the screen, since its window is not   *)
(* covered, and it is not in the channel once more.                        *)
LEMMA DeltaKeepsScreen ==
  ASSUME StreamInv, ScreenInv, TextAct, Moved, TextInv', ForwardDelta
  PROVE  ScreenInv'
<1>1. /\ UNCHANGED <<conn, stage, after, cur, covered, session, log, pushed>>
      /\ conn = "redis" /\ stage = "wait" /\ channel # <<>> /\ channel' = Tail(channel)
      /\ News.seq = 0 /\ News.window >= covered /\ text' = Append(text, News.delta)
  BY DEF ForwardDelta, Receiving, textVars, rowVars
<1>2. LabelInv' /\ OrderInv' /\ SavedInv'
  <2>1. 1 \in Nat /\ \A p \in DOMAIN channel' :
          p \in Nat /\ p + 1 \in DOMAIN channel /\ channel'[p] = channel[p + 1]
    BY <1>1, TailFacts
  <2>2. QED
    BY <1>1, <2>1, FewerMessages
<1>3. /\ News.delta \in Nat /\ News.delta \in 1..pushed /\ News.window \in Nat
      /\ covered \in Nat /\ text \in Seq(Nat)
  BY <1>1, TailFacts, MessageFacts
     DEF ScreenInv, LabelInv, LabelOk, StreamInv, StreamTypes, BrowserTypes, Text
<1>4. Range(text') = Range(text) \cup {News.delta}
  BY <1>1, <1>3, RangeOfAppend
<1>5. News.delta \notin Range(text)
  <2>1. ~(News.window < covered)
    BY <1>1, <1>3
  <2>2. QED
    BY <1>1, <2>1, TailFacts DEF ScreenInv, CoverInv
<1>6. CoverInv'
  <2> SUFFICES ASSUME NEW p \in DOMAIN channel', channel'[p].seq = 0,
                      channel'[p].delta \in Range(text')
               PROVE  channel'[p].window < covered'
    BY DEF CoverInv
  <2>1. /\ p + 1 \in DOMAIN channel /\ 1 < p + 1 /\ channel'[p] = channel[p + 1]
        /\ 1 \in DOMAIN channel /\ News = channel[1]
    BY <1>1, TailFacts
  <2>2. channel[p + 1].delta # News.delta
    BY <1>1, <2>1 DEF ScreenInv, OrderInv
  <2>3. channel[p + 1].delta \in Range(text)
    BY <1>4, <2>1, <2>2
  <2>4. QED
    BY <1>1, <2>1, <2>3 DEF ScreenInv, CoverInv
<1>7. ReplayCovers'
  BY <1>1 DEF ReplayCovers
<1>8. NoTextTwice' /\ Range(text') \subseteq 1..pushed'
  BY <1>1, <1>3, <1>4, <1>5, InjectiveAppend DEF ScreenInv, NoTextTwice
<1>9. QED
  BY <1>1, <1>2, <1>6, <1>7, <1>8 DEF ScreenInv

(* An event of the channel is sent on: no delta behind it is in it.        *)
LEMMA EventKeepsScreen ==
  ASSUME StreamInv, ScreenInv, TextAct, Moved, TextInv', log' = log,
         Receiving, News.seq > cur, Dispatch(News.seq), Sent(News.seq),
         channel' = Tail(channel), UNCHANGED stage
  PROVE  ScreenInv'
<1> DEFINE i == News.seq
<1>1. /\ conn = "redis" /\ stage = "wait" /\ channel # <<>>
      /\ UNCHANGED <<conn, after, session>>
  BY DEF Receiving, Sent
<1>2. 1 \in DOMAIN channel /\ News = channel[1]
  BY <1>1, TailFacts
<1>3. i \in 1..Len(log) /\ i # 0 /\ DOMAIN log = 1..Len(log)
  <2>1. i \in 0..Len(log) /\ cur \in Nat /\ Len(log) \in Nat
    BY <1>2, MessageFacts, TextFacts DEF StreamInv, StreamTypes, TextInv
  <2>2. QED
    BY <2>1, LogPrefix DEF StreamInv
<1>4. covered \in Nat /\ covered' \in Nat /\ covered <= covered'
  BY <1>3, SentCovers
<1>5. LabelInv' /\ OrderInv' /\ SavedInv'
  <2>1. 1 \in Nat /\ \A p \in DOMAIN channel' :
          p \in Nat /\ p + 1 \in DOMAIN channel /\ channel'[p] = channel[p + 1]
    BY <1>1, TailFacts
  <2>2. QED
    BY <1>1, <2>1, FewerMessages
<1>6. text' = text \/ text' = log[i].text
  BY DEF Dispatch
<1>7. CoverInv'
  <2> SUFFICES ASSUME NEW p \in DOMAIN channel', channel'[p].seq = 0,
                      channel'[p].delta \in Range(text')
               PROVE  channel'[p].window < covered'
    BY DEF CoverInv
  <2>1. /\ p + 1 \in DOMAIN channel /\ 1 < p + 1 /\ channel'[p] = channel[p + 1]
    BY <1>1, TailFacts
  <2>2. channel[p + 1].delta \notin Range(log[i].text)
    BY <1>2, <1>3, <2>1 DEF ScreenInv, OrderInv
  <2>3. channel[p + 1].delta \in Range(text)
    BY <1>6, <2>1, <2>2
  <2>4. channel[p + 1].window < covered /\ channel[p + 1].window \in Nat
    BY <2>1, <2>3, MessageFacts DEF ScreenInv, CoverInv
  <2>5. QED
    BY <1>4, <2>1, <2>4
<1>8. ReplayCovers'
  BY <1>1 DEF ReplayCovers
<1>9. NoTextTwice' /\ Range(text') \subseteq 1..pushed'
  BY <1>3, <1>6, SavedText
<1>10. QED
  BY <1>1, <1>5, <1>7, <1>8, <1>9 DEF ScreenInv

(* An event is published and heard.                                        *)
LEMMA EventHeard ==
  ASSUME StreamInv, ScreenInv, TextAct, Moved, TextInv',
         UNCHANGED <<conn, stage, after, cur, covered, text, session, log>>,
         conn = "redis", NEW message \in Wire, message.seq # 0,
         channel' = Append(channel, message)
  PROVE  ScreenInv'
<1>1. /\ DOMAIN channel = 1..Len(channel) /\ Len(channel) \in Nat
      /\ DOMAIN channel' = 1..(Len(channel) + 1)
      /\ \A p \in DOMAIN channel : channel'[p] = channel[p]
      /\ channel'[Len(channel) + 1] = message
  <2>1. channel \in Seq(Wire)
    BY DEF StreamInv, StreamTypes
  <2>2. QED
    BY <2>1, AppendFacts
<1>2. \A p \in DOMAIN channel' : channel'[p].seq = 0 => p \in DOMAIN channel
  BY <1>1
<1>3. LabelInv'
  <2> SUFFICES ASSUME NEW p \in DOMAIN channel', channel'[p].seq = 0
               PROVE  LabelThen(channel'[p])
    BY LabelsThen
  <2>1. p \in DOMAIN channel /\ channel'[p] = channel[p]
    BY <1>1, <1>2
  <2>2. channel[p].window \in Nat /\ LabelOk(channel[p])
    BY <2>1, MessageFacts DEF ScreenInv, LabelInv
  <2>3. QED
    BY <2>1, <2>2, LabelKept
<1>4. OrderInv'
  <2> SUFFICES ASSUME NEW p \in DOMAIN channel', NEW q \in DOMAIN channel', p < q,
                      channel'[q].seq = 0
               PROVE  /\ channel'[p].seq = 0 => channel'[p].delta # channel'[q].delta
                      /\ channel'[p].seq # 0 =>
                           channel'[q].delta \notin Range(log[channel'[p].seq].text)
    BY DEF OrderInv
  <2>1. q \in DOMAIN channel /\ p \in DOMAIN channel
    BY <1>1, <1>2
  <2>2. QED
    BY <1>1, <2>1 DEF ScreenInv, OrderInv
<1>5. CoverInv'
  BY <1>1, <1>2 DEF ScreenInv, CoverInv
<1>6. ReplayCovers'
  BY DEF ScreenInv, ReplayCovers, IsCheckpoint
<1>7. SavedInv'
  BY SavedKept DEF StreamInv, ScreenInv
<1>8. QED
  BY <1>3, <1>4, <1>5, <1>6, <1>7, SavedText DEF ScreenInv

(* The labels of older deltas when the router pushes the next one.         *)
LEMMA LabelAged ==
  ASSUME StreamInv, PushLive, after' = after,
         NEW m, m.window \in Nat, LabelOk(m)
  PROVE  LabelThen(m)
<1>1. /\ pushed' = pushed + 1 /\ pushed \in Nat
      /\ UNCHANGED <<hand, buffer, window, partial, log>>
  BY TextFacts DEF PushLive, rowVars, StreamInv, TextInv
<1>2. m.delta \in 1..pushed' /\ m.delta # pushed'
  BY <1>1 DEF LabelOk
<1>3. QED
  BY <1>1, <1>2 DEF LabelOk, LabelThen, Held, SavedBy, SavedThen, IsCheckpoint

(* A delta is pushed, heard or lost: it is new to every text there is.     *)
LEMMA DeltaHeard ==
  ASSUME StreamInv, ScreenInv, TextAct, PushLive, TextInv',
         UNCHANGED <<conn, stage, after, cur, covered, text, session>>,
         NEW message \in Wire, message.seq = 0, message.delta = pushed', message.window = window,
         channel' = channel \/ (conn = "redis" /\ channel' = Append(channel, message))
  PROVE  ScreenInv'
<1>0. /\ pushed' = pushed + 1 /\ pushed \in Nat /\ window \in Nat
      /\ UNCHANGED <<hand, buffer, window, partial, log>>
  BY TextFacts DEF PushLive, rowVars, StreamInv, TextInv, TextTypeOK
<1>1. /\ DOMAIN channel = 1..Len(channel) /\ Len(channel) \in Nat
      /\ \A p \in DOMAIN channel' :
           \/ p \in DOMAIN channel /\ channel'[p] = channel[p]
           \/ p = Len(channel) + 1 /\ channel'[p] = message
  <2>1. channel \in Seq(Wire)
    BY DEF StreamInv, StreamTypes
  <2>2. QED
    BY <2>1, AppendFacts
<1>2. pushed' \notin Everywhere /\ pushed' \notin Range(text)
      /\ \A i \in DOMAIN log : pushed' \notin Range(log[i].text)
  <2>1. pushed' \notin 1..pushed
    BY <1>0
  <2>2. QED
    BY <2>1, WrittenFacts DEF StreamInv, TextInv, PlacesInv, ScreenInv, SavedInv
<1>3. LabelInv'
  <2> SUFFICES ASSUME NEW p \in DOMAIN channel', channel'[p].seq = 0
               PROVE  LabelThen(channel'[p])
    BY LabelsThen
  <2>1. CASE p \in DOMAIN channel /\ channel'[p] = channel[p]
    <3>1. channel[p].window \in Nat /\ LabelOk(channel[p])
      BY <2>1, MessageFacts DEF ScreenInv, LabelInv
    <3>2. QED
      BY <2>1, <3>1, LabelAged
  <2>2. CASE channel'[p] = message
    <3>1. pushed' \in 1..pushed'
      BY <1>0
    <3>2. \A t \in Writer : pushed' \notin Range(hand'[t].text)
      BY <1>0, <1>2 DEF Everywhere, Held, Writer
    <3>3. pushed' \notin Range(buffer') /\ pushed' \notin Range(partial')
      BY <1>0, <1>2 DEF Everywhere
    <3>4. message.window <= window'
      BY <1>0
    <3>5. LabelThen(message)
      BY <1>0, <1>2, <3>1, <3>2, <3>3, <3>4 DEF LabelThen
    <3>6. QED
      BY <2>2, <3>5
  <2>3. QED
    BY <1>1, <2>1, <2>2
<1>4. OrderInv'
  <2> SUFFICES ASSUME NEW p \in DOMAIN channel', NEW q \in DOMAIN channel', p < q,
                      channel'[q].seq = 0
               PROVE  /\ channel'[p].seq = 0 => channel'[p].delta # channel'[q].delta
                      /\ channel'[p].seq # 0 =>
                           channel'[q].delta \notin Range(log[channel'[p].seq].text)
    BY <1>0 DEF OrderInv
  <2>1. p \in DOMAIN channel /\ channel'[p] = channel[p]
    <3>1. p \in 1..(Len(channel) + 1) /\ q \in 1..(Len(channel) + 1)
      BY <1>1
    <3>2. QED
      BY <1>1, <3>1
  <2>2. CASE q \in DOMAIN channel /\ channel'[q] = channel[q]
    BY <2>1, <2>2 DEF ScreenInv, OrderInv
  <2>3. CASE channel'[q] = message
    <3>1. channel[p].seq = 0 => channel[p].delta # pushed'
      BY <1>0, <2>1 DEF ScreenInv, LabelInv, LabelOk
    <3>2. channel[p].seq # 0 => channel[p].seq \in DOMAIN log
      <4>1. channel[p].seq \in 0..Len(log) /\ Len(log) \in Nat /\ DOMAIN log = 1..Len(log)
        BY <2>1, MessageFacts, LogPrefix, TextFacts DEF StreamInv, TextInv
      <4>2. QED
        BY <4>1
    <3>3. QED
      BY <1>2, <2>1, <2>3, <3>1, <3>2
  <2>4. QED
    BY <1>1, <2>2, <2>3
<1>5. CoverInv'
  BY <1>1, <1>2 DEF ScreenInv, CoverInv
<1>6. ReplayCovers'
  BY <1>0 DEF ScreenInv, ReplayCovers, IsCheckpoint
<1>7. SavedInv'
  BY SavedKept DEF StreamInv, ScreenInv
<1>8. conn' # "redis" => channel' = <<>>
  BY DEF ScreenInv
<1>9. QED
  BY <1>3, <1>4, <1>5, <1>6, <1>7, <1>8, SavedText DEF ScreenInv

LEMMA ScreenInvInitially == Init => ScreenInv
<1> SUFFICES ASSUME Init PROVE ScreenInv
  OBVIOUS
<1>1. DOMAIN channel = {} /\ DOMAIN log = {} /\ Range(text) = {} /\ IsInjective(text)
  BY InjectiveEmpty DEF Init, TextInit
<1>2. QED
  BY <1>1 DEF Init, ScreenInv, LabelInv, CoverInv, OrderInv, ReplayCovers, SavedInv, NoTextTwice

LEMMA BroadcastKeepsScreen ==
  ASSUME StreamInv, ScreenInv, TextAct, TextInv', Broadcast
  PROVE  ScreenInv'
<1>1. UNCHANGED <<conn, stage, after, cur, covered, text, session, log>>
  BY DEF Broadcast, browserVars, Publish, PushLive, rowVars
<1>2. ASSUME NEW t \in Thread, Publish(t),
             Deliver([seq |-> outbox[t], delta |-> 0, window |-> 0])
      PROVE  ScreenInv'
  <2>1. Moved
    BY <1>2, TextMoves DEF StreamInv
  <2>2. CASE channel' = channel
    BY <1>1, <2>1, <2>2, ChannelQuiet DEF ScreenInv
  <2>3. CASE conn = "redis"
             /\ channel' = Append(channel, [seq |-> outbox[t], delta |-> 0, window |-> 0])
    <3>1. /\ [seq |-> outbox[t], delta |-> 0, window |-> 0] \in Wire
          /\ outbox[t] # 0
      BY <1>2 DEF Publish, Wire, StreamInv, TextInv, TextTypeOK
    <3>2. QED
      BY <1>1, <2>1, <2>3, <3>1, EventHeard
  <2>4. QED
    BY <1>2, <2>2, <2>3 DEF Deliver, Heard
<1>3. CASE PushLive /\ Deliver([seq |-> 0, delta |-> pushed', window |-> window])
  <2>1. [seq |-> 0, delta |-> pushed', window |-> window] \in Wire
    <3>1. 0 \in 0..Len(log) /\ pushed' \in Nat /\ window \in Nat
      BY TextFacts, PushedGrows DEF StreamInv, TextInv, TextTypeOK
    <3>2. QED
      BY <3>1 DEF Wire
  <2>2. channel' = channel
        \/ (conn = "redis"
            /\ channel' = Append(channel, [seq |-> 0, delta |-> pushed', window |-> window]))
    BY <1>3 DEF Deliver, Heard
  <2>3. QED
    BY <1>1, <1>3, <2>1, <2>2, DeltaHeard
<1>4. QED
  BY <1>2, <1>3 DEF Broadcast

(* The stream ends, with the text of the screen or of an event.            *)
LEMMA EndKeepsScreen ==
  ASSUME StreamInv, ScreenInv, TextAct, TextInv', EndStream,
         text' = text \/ \E i \in DOMAIN log : text' = log[i].text
  PROVE  ScreenInv'
BY ChannelEmptied DEF EndStream, CloseStream

LEMMA StreamStepKeepsScreen ==
  ASSUME StreamInv, ScreenInv, TextAct, Moved, TextInv', StreamStep
  PROVE  ScreenInv'
<1>0. /\ DOMAIN log = 1..Len(log) /\ Len(log) \in Nat /\ cur \in Nat /\ after \in Nat
      /\ upto \in 0..Len(log)
  BY LogPrefix, TextFacts DEF StreamInv, TextInv, StreamTypes
<1>1. ASSUME NEW i \in DOMAIN log, Dispatch(i)
      PROVE  text' = text \/ \E j \in DOMAIN log : text' = log[j].text
  BY <1>1 DEF Dispatch
<1>2. CASE ReadLog \/ ReadStatus \/ PollAgain
  <2>1. UNCHANGED <<channel, conn, after, cur, covered, text, session>>
    BY <1>2 DEF ReadLog, ReadStatus, PollAgain, browserVars
  <2>2. conn = "redis" /\ stage' \in {"read", "send"} => stage \in {"read", "send"}
    BY <1>2 DEF ReadLog, ReadStatus, PollAgain, Settled, Verdicts
  <2>3. QED
    BY <2>1, <2>2, ChannelQuiet DEF ScreenInv
<1>3. CASE SendRow
  <2>1. cur + 1 \in 1..Len(log) /\ log' = log
    BY <1>0, <1>3 DEF SendRow, textVars
  <2>2. CASE EndStream
    BY <1>0, <1>1, <1>3, <2>1, <2>2, EndKeepsScreen DEF SendRow
  <2>3. CASE Sent(cur + 1) /\ UNCHANGED <<stage, upto, channel>>
    BY <1>3, <2>1, <2>3, RowSentKeepsScreen DEF SendRow
  <2>4. QED
    BY <1>3, <2>2, <2>3 DEF SendRow
<1>4. CASE RowsSent
  <2>1. CASE EndStream
    BY <1>4, <2>1, EndKeepsScreen DEF RowsSent
  <2>2. CASE stage' = "wait" /\ UNCHANGED <<conn, after, cur, upto, covered, channel, sent, session>>
    BY <1>4, <2>2, ChannelQuiet DEF RowsSent, ScreenInv
  <2>3. QED
    BY <1>4, <2>1, <2>2 DEF RowsSent
<1>5. CASE Drop
  BY <1>5, DropKeepsScreen
<1>6. CASE ForwardDelta
  BY <1>6, DeltaKeepsScreen
<1>7. CASE ForwardEvent
  <2>1. log' = log /\ News.seq \in DOMAIN log
    <3>1. News.seq \in 0..Len(log) /\ News.seq > cur
      BY <1>7, TailFacts, MessageFacts DEF ForwardEvent, Receiving
    <3>2. QED
      BY <1>0, <1>7, <3>1 DEF ForwardEvent, textVars
  <2>2. CASE EndStream
    BY <1>1, <1>7, <2>1, <2>2, EndKeepsScreen DEF ForwardEvent
  <2>3. CASE Sent(News.seq) /\ channel' = Tail(channel) /\ UNCHANGED <<stage, upto>>
    BY <1>7, <2>1, <2>3, EventKeepsScreen DEF ForwardEvent
  <2>4. QED
    BY <1>7, <2>2, <2>3 DEF ForwardEvent
<1>8. CASE SendStop
  <2>1. {i \in DOMAIN log : log[i].type = stage} # {}
    BY <1>8 DEF SendStop, StreamInv, GeneratorInv, Logged
  <2>2. Max({i \in DOMAIN log : log[i].type = stage}) \in DOMAIN log
    BY <1>0, <2>1, MaxOfSome
  <2>3. QED
    BY <1>1, <1>8, <2>2, EndKeepsScreen DEF SendStop
<1>9. CASE Connect
  <2>1. /\ channel' = <<>> /\ cur' = after' /\ session' = "attached" /\ text' = text
        /\ after' \in Nat
    BY <1>9 DEF Connect, StreamInv, BrowserTypes
  <2>2. QED
    BY <2>1, ChannelEmptied
<1>10. CASE CatchUp
  <2>1. /\ conn = "none" /\ channel = <<>> /\ UNCHANGED streamVars
    BY <1>10 DEF CatchUp, ScreenInv
  <2>2. text' = text \/ \E i \in DOMAIN log : text' = log[i].text
    <3> DEFINE rows == (seen + 1)..Query(seen)
               stops == {i \in rows : IsStop(i)}
               last == IF stops = {} THEN Query(seen) ELSE Min(stops)
               checkpoints == {i \in rows : IsCheckpoint(i) /\ i <= last}
    <3>1. text' = IF checkpoints = {} \/ streaming THEN text ELSE log[Max(checkpoints)].text
      BY <1>10 DEF CatchUp
    <3>2. seen \in 0..Len(log)
      BY DEF StreamInv, BrowserTypes
    <3>3. rows \subseteq 1..Len(log)
      <4>1. Query(seen) \in 0..Len(log)
        BY <1>0, <3>2, QueryFacts DEF StreamInv
      <4>2. QED
        BY <1>0, <3>2, <4>1
    <3>4. checkpoints \subseteq 1..Len(log)
      BY <3>3
    <3> HIDE DEF checkpoints
    <3>5. checkpoints # {} => Max(checkpoints) \in 1..Len(log)
      BY <1>0, <3>4, MaxOfSome
    <3>6. QED
      BY <1>0, <3>1, <3>5
  <2>3. QED
    BY <1>0, <2>1, <2>2, ChannelEmptied DEF streamVars
<1>11. QED
  BY <1>2, <1>3, <1>4, <1>5, <1>6, <1>7, <1>8, <1>9, <1>10 DEF StreamStep

LEMMA ScreenInvIsKept == StreamInv /\ ScreenInv /\ [Next]_vars => ScreenInv'
<1> SUFFICES ASSUME StreamInv, ScreenInv, [Next]_vars PROVE ScreenInv'
  OBVIOUS
<1>1. TextAct /\ TextInv'
  BY NextIsTextAct, TextInvIsKept DEF StreamInv, TextInv
<1>2. ASSUME Moved, UNCHANGED <<streamVars, text>>, session' # "attached" => conn = "none"
      PROVE  ScreenInv'
  BY <1>1, <1>2, ChannelQuiet DEF streamVars
<1>3. ASSUME UNCHANGED <<rowVars, slotVars>> PROVE Moved
  BY <1>3, TextMoves DEF StreamInv
<1>4. CASE TextStep /\ UNCHANGED <<streamVars, browserVars>>
  <2>1. Moved
    BY <1>4, TextMoves DEF StreamInv
  <2>2. QED
    BY <1>2, <1>4, <2>1 DEF browserVars, ScreenInv
<1>5. CASE Broadcast
  BY <1>1, <1>5, BroadcastKeepsScreen
<1>6. CASE StreamStep
  <2>1. UNCHANGED <<rowVars, slotVars>>
    BY <1>6 DEF StreamStep, ReadLog, SendRow, RowsSent, Drop, ForwardDelta, ForwardEvent,
                ReadStatus, SendStop, PollAgain, Connect, CatchUp, textVars, rowVars,
                slotVars, bufferVars
  <2>2. QED
    BY <1>1, <1>3, <1>6, <2>1, StreamStepKeepsScreen
<1>7. CASE RedisFails
  <2>1. /\ channel' = <<>> /\ conn' = "polling" /\ text' = text /\ session' = session
        /\ after' = after /\ after \in Nat /\ conn = "redis"
    BY <1>7 DEF RedisFails, browserVars, StreamInv, StreamTypes
  <2>2. session' = "attached"
    BY <2>1 DEF ScreenInv
  <2>3. QED
    BY <1>1, <2>1, <2>2, ChannelEmptied
<1>8. CASE Disconnect
  BY <1>1, <1>8, ChannelEmptied DEF Disconnect, CloseStream
<1>9. CASE CatchUpFails
  <2>1. UNCHANGED <<rowVars, slotVars>> /\ UNCHANGED <<streamVars, text>>
    BY <1>9 DEF CatchUpFails, textVars, rowVars, slotVars, bufferVars
  <2>2. conn = "none"
    BY <1>9 DEF CatchUpFails, ScreenInv
  <2>3. QED
    BY <1>2, <1>3, <2>1, <2>2
<1>10. ASSUME NEW from \in 0..Len(log), Attach(from), partial' = partial PROVE ScreenInv'
  BY <1>1, <1>10, ChannelEmptied DEF Attach, CloseStream
<1>11. CASE Reload
  <2>1. 0 \in 0..Len(log) /\ Attach(0) /\ partial' = partial
    BY <1>11, TextFacts DEF Reload, rowVars, StreamInv, TextInv
  <2>2. QED
    BY <1>10, <2>1
<1>12. CASE Resume
  <2>1. partial' = partial /\ ResumeRun
    BY <1>12 DEF Resume, ResumeRun
  <2>2. CASE Attach(lastSeen)
    BY <1>10, <2>1, <2>2 DEF StreamInv, BrowserTypes
  <2>3. CASE UNCHANGED <<streamVars, browserVars>>
    <3>1. Moved
      BY <2>1, TextMoves DEF StreamInv
    <3>2. QED
      BY <1>2, <2>3, <3>1 DEF browserVars, ScreenInv
  <2>4. QED
    BY <1>12, <2>2, <2>3 DEF Resume
<1>13. CASE UNCHANGED vars
  <2>1. UNCHANGED <<rowVars, slotVars>> /\ UNCHANGED <<streamVars, browserVars>>
    BY <1>13 DEF vars, textVars, rowVars, slotVars, bufferVars
  <2>2. QED
    BY <1>2, <1>3, <2>1 DEF browserVars, ScreenInv
<1>14. QED
  BY <1>4, <1>5, <1>6, <1>7, <1>8, <1>9, <1>11, <1>12, <1>13 DEF Next

(* No delta is on the screen twice, whichever thread saved it, whatever    *)
(* Redis lost or brought out of order, and however often the stream was    *)
(* opened.                                                                 *)
THEOREM NoDeltaTwiceOnScreen == Spec => []NoTextTwice
<1>1. ScreenInv => NoTextTwice
  BY DEF ScreenInv
<1>2. QED
  BY <1>1, ScreenInvInitially, ScreenInvIsKept, StreamInvariant, PTL DEF Spec

=============================================================================
