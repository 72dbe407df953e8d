-------------------------- MODULE CouncilPageProofs --------------------------
(***************************************************************************)
(* Proofs about the page of a council, for any number of entries, any      *)
(* length of their text and any number of faults: types, what an entry     *)
(* shows of the words of its role, and when the page becomes final.        *)
(***************************************************************************)
EXTENDS CouncilPage, SequenceTheorems, TLAPS

Text == Seq(1..Length)
Panel == [text : Text, complete : BOOLEAN, shown : BOOLEAN]

Page ==
  [queue : [Entry -> Text], live : SUBSET Entry, visible : [Entry -> Text],
   panel : [Role -> Panel], waiting : SUBSET Role, ui : {"open", "done", "final"}]

(* The arbiter's text is neither announced nor completed by an event.      *)
Event ==
  [type : {"start", "complete"}, entry : Role] \cup
  [type : {"checkpoint"}, entry : Entry] \cup [type : {"done"}, entry : {Answer}]

Message == [seq : Nat, entry : Entry]

Published(ch, n) == \A i \in DOMAIN ch : ch[i].seq <= n

WorkerTyped ==
  /\ log \in Seq(Event)
  /\ router \in [entry : Entry, at : {"start", "push", "buffer", "flush", "end", "over"}]
  /\ buffered \subseteq Entry
  /\ hand \in [Thread -> Entry \cup {0}]
  /\ outbox \in [Thread -> 0..Len(log)]

Numbered(n) ==
  /\ {after, cur, backlog, seen, lastSeen} \subseteq 0..n
  /\ channel \in Seq(Message) /\ Published(channel, n)

StreamTyped ==
  /\ conn \in {"none", "subscribed", "redis", "polling", "broken", "away", "over"}
  /\ covered \subseteq Entry
  /\ page \in Page
  /\ faults \in 0..MaxFaults

(* The type invariant; nothing is heard that has not been logged.          *)
TypeInv == WorkerTyped /\ Numbered(Len(log)) /\ StreamTyped

-----------------------------------------------------------------------------
(* Text.                                                                   *)

LEMMA Numbers ==
  /\ Entries \in Nat /\ Length \in Nat /\ MaxFaults \in Nat
  /\ Entry = 1..(Entries + 1) /\ Answer \in Entry /\ Answer \notin Role
  /\ Role \subseteq Entry /\ Role \subseteq Nat \ {0} /\ Entry \subseteq Nat \ {0}
BY CouncilPageAssumption DEF Entry, Role, Answer

LEMMA SaidIsText ==
  /\ Said \in Text /\ Len(Said) = Length /\ <<>> \in Text
  /\ \A i \in 1..Length : Said[i] = i
<1>1. Said \in [1..Length -> 1..Length]
  BY Numbers DEF Said
<1>2. QED
  BY <1>1, Numbers DEF Said, Text

LEMMA Part ==
  ASSUME NEW s \in Text, NEW m \in Nat, NEW n \in 0..Len(s)
  PROVE  /\ SubSeq(s, m + 1, n) \in Text
         /\ Len(SubSeq(s, m + 1, n)) = IF m < n THEN n - m ELSE 0
         /\ \A i \in 1..(n - m) : SubSeq(s, m + 1, n)[i] = s[m + i]
<1>0. Len(s) \in Nat /\ \A i \in 1..Len(s) : s[i] \in 1..Length
  BY ElementOfSeq, LenProperties DEF Text
<1>1. \A i \in (m + 1)..n : s[i] \in 1..Length
  BY <1>0
<1>2. m + 1 \in Int /\ n \in Int
  OBVIOUS
<1>3. /\ SubSeq(s, m + 1, n) \in Seq(1..Length)
      /\ Len(SubSeq(s, m + 1, n)) = IF m + 1 <= n THEN n - (m + 1) + 1 ELSE 0
      /\ \A i \in 1..(n - (m + 1) + 1) : SubSeq(s, m + 1, n)[i] = s[(m + 1) + i - 1]
  BY <1>1, <1>2, SubSeqProperties
<1>4. QED
  BY <1>3 DEF Text

LEMMA Beginning ==
  ASSUME NEW s \in Text, NEW n \in 0..Len(s)
  PROVE  /\ SubSeq(s, 1, n) \in Text /\ Len(SubSeq(s, 1, n)) = n
         /\ \A i \in 1..n : SubSeq(s, 1, n)[i] = s[i]
<1>1. Len(s) \in Nat /\ n \in Nat /\ n - 0 = n /\ 0 + 1 = 1
  BY DEF Text
<1>2. /\ SubSeq(s, 0 + 1, n) \in Text
      /\ Len(SubSeq(s, 0 + 1, n)) = IF 0 < n THEN n - 0 ELSE 0
      /\ \A i \in 1..(n - 0) : SubSeq(s, 0 + 1, n)[i] = s[0 + i]
  BY Part
<1>3. \A i \in 1..n : 0 + i = i
  BY <1>1
<1>4. QED
  BY <1>1, <1>2, <1>3

LEMMA Joined ==
  ASSUME NEW s \in Text, NEW t \in Text
  PROVE  /\ s \o t \in Text /\ Len(s \o t) = Len(s) + Len(t)
         /\ \A i \in 1..Len(s) : (s \o t)[i] = s[i]
         /\ \A i \in 1..Len(t) : (s \o t)[Len(s) + i] = t[i]
<1>1. /\ s \o t \in Seq(1..Length) /\ Len(s \o t) = Len(s) + Len(t)
      /\ Len(s) \in Nat /\ Len(t) \in Nat
  BY DEF Text
<1>2. \A i \in 1..(Len(s) + Len(t)) :
        (s \o t)[i] = IF i <= Len(s) THEN s[i] ELSE t[i - Len(s)]
  BY ConcatProperties DEF Text
<1>3. QED
  BY <1>1, <1>2 DEF Text

(* What is shown and what has still to run in are, together, a beginning   *)
(* of what was said.                                                       *)
Runs(v, q) ==
  /\ Len(v) + Len(q) <= Length
  /\ \A i \in 1..Len(v) : v[i] = i
  /\ \A i \in 1..Len(q) : q[i] = Len(v) + i

LEMMA RunsStart == Runs(<<>>, <<>>) /\ Runs(Said, <<>>) /\ Runs(<<>>, <<>> \o Said)
<1>1. <<>> \o Said = Said
  BY SaidIsText, ConcatEmptySeq DEF Text
<1>2. QED
  BY <1>1, SaidIsText, Numbers DEF Runs

LEMMA RunsOn ==
  ASSUME NEW v \in Text, NEW q \in Text, Runs(v, q), NEW n \in 1..Len(q)
  PROVE  /\ SubSeq(q, 1, n) \in Text /\ SubSeq(q, n + 1, Len(q)) \in Text
         /\ v \o SubSeq(q, 1, n) \in Text
         /\ Runs(v \o SubSeq(q, 1, n), SubSeq(q, n + 1, Len(q)))
         /\ Runs(v \o SubSeq(q, 1, n), <<>>)
<1>1. Len(v) \in Nat /\ Len(q) \in Nat /\ n \in Nat /\ n \in 0..Len(q) /\ Len(q) \in 0..Len(q)
  BY DEF Text
<1> DEFINE a == SubSeq(q, 1, n)
           b == SubSeq(q, n + 1, Len(q))
<1>2. a \in Text /\ Len(a) = n /\ \A i \in 1..n : a[i] = q[i]
  BY <1>1, Beginning
<1>3. b \in Text /\ Len(b) = Len(q) - n /\ \A i \in 1..(Len(q) - n) : b[i] = q[n + i]
  BY <1>1, Part
<1> HIDE DEF a, b
<1>4. /\ v \o a \in Text /\ Len(v \o a) = Len(v) + n
      /\ \A i \in 1..Len(v) : (v \o a)[i] = v[i]
      /\ \A i \in 1..n : (v \o a)[Len(v) + i] = a[i]
  BY <1>2, Joined
<1>5. ASSUME NEW i \in 1..Len(v \o a) PROVE (v \o a)[i] = i
  <2>1. CASE i <= Len(v)
    BY <1>1, <1>4, <2>1 DEF Runs
  <2>2. CASE i > Len(v)
    <3>1. i - Len(v) \in 1..n /\ Len(v) + (i - Len(v)) = i
      BY <1>1, <1>4, <2>2
    <3>2. (v \o a)[i] = q[i - Len(v)]
      BY <1>2, <1>4, <3>1
    <3>3. QED
      BY <1>1, <3>1, <3>2 DEF Runs
  <2>3. QED
    BY <1>1, <1>4, <2>1, <2>2
<1>6. \A i \in 1..Len(b) : b[i] = Len(v \o a) + i
  BY <1>1, <1>3, <1>4 DEF Runs
<1>7. Len(v \o a) + Len(b) <= Length /\ Len(v \o a) <= Length
  <2>1. Len(v) + Len(q) <= Length /\ n <= Len(q)
    BY <1>1 DEF Runs
  <2>2. Len(v \o a) = Len(v) + n /\ Len(b) = Len(q) - n
    BY <1>3, <1>4
  <2>3. QED
    BY <1>1, <2>1, <2>2, Numbers
<1>8. Runs(v \o a, b)
  BY <1>5, <1>6, <1>7 DEF Runs
<1>9. Len(<<>>) = 0 /\ Len(v \o a) \in Nat
  BY <1>4 DEF Text
<1>10. Runs(v \o a, <<>>)
  BY <1>5, <1>7, <1>9 DEF Runs
<1>11. QED
  BY <1>2, <1>3, <1>4, <1>8, <1>10 DEF a, b

LEMMA RunsIsPrefix ==
  ASSUME NEW v \in Text, NEW q \in Text, Runs(v, q)
  PROVE  /\ IsPrefix(v, Said) /\ Runs(v, <<>>) /\ Len(v) <= Length
         /\ (Len(v) = Length => v = Said)
<1>1. Len(v) \in Nat /\ Len(q) \in Nat /\ Len(v) <= Length /\ Len(Said) = Length
  BY SaidIsText, Numbers DEF Runs, Text
<1>2. Len(v) \in 0..Len(v) /\ Len(v) \in 0..Len(Said) /\ Said \in Text
  BY <1>1, SaidIsText, Numbers
<1>3. /\ SubSeq(v, 1, Len(v)) \in Text /\ SubSeq(Said, 1, Len(v)) \in Text
      /\ Len(SubSeq(v, 1, Len(v))) = Len(v) /\ Len(SubSeq(Said, 1, Len(v))) = Len(v)
      /\ \A i \in 1..Len(v) : SubSeq(v, 1, Len(v))[i] = v[i]
      /\ \A i \in 1..Len(v) : SubSeq(Said, 1, Len(v))[i] = Said[i]
  BY <1>2, Beginning
<1>4. \A i \in 1..Len(v) : v[i] = i /\ Said[i] = i
  BY <1>1, SaidIsText, Numbers DEF Runs
<1>5. SubSeq(v, 1, Len(v)) = SubSeq(Said, 1, Len(v))
  BY <1>3, <1>4, SeqEqual DEF Text
<1>6. IsPrefix(v, Said)
  BY <1>1, <1>5 DEF IsPrefix
<1>7. Runs(v, <<>>)
  BY <1>1 DEF Runs
<1>8. Len(v) = Length => v = Said
  BY <1>1, <1>2, <1>4, SeqEqual DEF Text
<1>9. QED
  BY <1>1, <1>6, <1>7, <1>8

LEMMA CatchupRuns ==
  ASSUME NEW v \in Text
  PROVE  /\ Catchup(v) \in Text
         /\ \A q \in Text : Runs(v, q) => Runs(v, Catchup(v))
<1>1. CASE IsPrefix(v, Said)
  <2>1. Len(v) \in Nat /\ Len(v) <= Length /\ Length \in 0..Len(Said) /\ Said \in Text
    BY <1>1, SaidIsText, Numbers DEF IsPrefix, Text
  <2>2. /\ Catchup(v) \in Text /\ Len(Catchup(v)) = Length - Len(v)
        /\ \A i \in 1..(Length - Len(v)) : Catchup(v)[i] = Said[Len(v) + i]
    BY <1>1, <2>1, Part, Numbers DEF Catchup
  <2>3. \A i \in 1..Len(Catchup(v)) : Catchup(v)[i] = Len(v) + i
    BY <2>1, <2>2, SaidIsText, Numbers
  <2>4. QED
    BY <2>1, <2>2, <2>3, Numbers DEF Runs
<1>2. CASE ~ IsPrefix(v, Said)
  BY <1>2, SaidIsText, RunsIsPrefix DEF Catchup
<1>3. QED
  BY <1>1, <1>2

-----------------------------------------------------------------------------
(* What the page makes of an event, and of a frame.                        *)

(* A page shows of entry k a beginning of what was said, and all of it     *)
(* once the entry is complete.                                             *)
Fine(p, k) ==
  /\ Runs(p.visible[k], p.queue[k])
  /\ Runs(p.panel[k].text, <<>>)
  /\ p.panel[k].complete => p.panel[k].text = Said

(* It has nothing of the entry yet.                                        *)
Fresh(p, k) == p.queue[k] = <<>> /\ p.visible[k] = <<>>

(* An entry is as it was, or all of the page has been cleared.             *)
Same(p, q, k) ==
  q.queue[k] = p.queue[k] /\ q.visible[k] = p.visible[k] /\ q.panel[k] = p.panel[k]

Kept(p, q, k) == Same(p, q, k) \/ q = FinalPage

LEMMA EmptyPages ==
  /\ OpenPage \in Page /\ FinalPage \in Page /\ FinalPage.ui = "final"
  /\ \A k \in Role : /\ Fine(OpenPage, k) /\ Fresh(OpenPage, k)
                    /\ Fine(FinalPage, k) /\ Fresh(FinalPage, k)
<1>1. OpenPage \in Page
  BY SaidIsText DEF OpenPage, Page, Panel, NoEntry
<1>2. FinalPage \in Page /\ FinalPage.ui = "final"
  BY <1>1 DEF FinalPage, Page
<1>3. ASSUME NEW k \in Role
      PROVE  Fine(OpenPage, k) /\ Fresh(OpenPage, k) /\ Fine(FinalPage, k) /\ Fresh(FinalPage, k)
  <2>1. OpenPage.queue[k] = <<>> /\ OpenPage.visible[k] = <<>> /\ OpenPage.panel[k] = NoEntry
    BY Numbers DEF OpenPage
  <2>2. FinalPage.queue[k] = <<>> /\ FinalPage.visible[k] = <<>> /\ FinalPage.panel[k] = NoEntry
    BY <2>1 DEF FinalPage, OpenPage
  <2>3. QED
    BY <2>1, <2>2, RunsStart DEF Fine, Fresh, NoEntry
<1>4. QED
  BY <1>1, <1>2, <1>3

LEMMA KeptEntry ==
  ASSUME NEW p, NEW q, NEW k \in Role, Kept(p, q, k)
  PROVE  (Fine(p, k) => Fine(q, k)) /\ (Fresh(p, k) => Fresh(q, k))
BY EmptyPages DEF Kept, Same, Fine, Fresh

LEMMA DrainedPage ==
  ASSUME NEW p \in Page
  PROVE  /\ Drained(p) \in Page
         /\ \A k \in Role : Kept(p, Drained(p), k) /\ (Fine(p, k) => Fine(Drained(p), k))
         /\ p.ui # "final" /\ Drained(p).ui = "final" =>
              p.waiting = {} /\ \A k \in Entry : p.queue[k] = <<>>
<1>1. Drained(p) = p \/ Drained(p) = FinalPage
  BY DEF Drained
<1>2. Drained(p) \in Page
  BY <1>1, EmptyPages
<1>3. \A k \in Role : Kept(p, Drained(p), k)
  BY <1>1 DEF Kept, Same
<1>4. \A k \in Role : Fine(p, k) => Fine(Drained(p), k)
  BY <1>3, KeptEntry
<1>5. p.ui # "final" /\ Drained(p).ui = "final" =>
        p.waiting = {} /\ \A k \in Entry : p.queue[k] = <<>>
  BY DEF Drained, HasCouncilWork, Entry
<1>6. QED
  BY <1>2, <1>3, <1>4, <1>5

LEMMA StartedPage ==
  ASSUME NEW p \in Page, NEW e \in Role
  PROVE  LET q == RoleStart(p, e) IN
         /\ q \in Page /\ q.ui = p.ui
         /\ \A k \in Role : k # e => Kept(p, q, k)
         /\ Fine(q, e) /\ Fresh(q, e)
<1> DEFINE q == RoleStart(p, e)
<1>1. q \in Page /\ q.ui = p.ui
  BY SaidIsText, Numbers DEF RoleStart, Page, Panel, NoEntry
<1>2. \A k \in Role : k # e => Kept(p, q, k)
  BY Numbers DEF RoleStart, Page, Kept, Same
<1>3. q.queue[e] = <<>> /\ q.visible[e] = <<>> /\ q.panel[e] = [NoEntry EXCEPT !.shown = TRUE]
  BY Numbers DEF RoleStart, Page
<1>4. QED
  BY <1>1, <1>2, <1>3, RunsStart DEF Fine, Fresh, NoEntry

LEMMA SpokenPage ==
  ASSUME NEW p \in Page, NEW e \in Entry
  PROVE  LET q == TextDelta(p, e) IN
         /\ q \in Page /\ q.ui = p.ui
         /\ \A k \in Role : k # e => Kept(p, q, k)
         /\ e \in Role /\ Fine(p, e) /\ Fresh(p, e) => Fine(q, e)
<1> DEFINE q == TextDelta(p, e)
<1>1. p.queue[e] \o Said \in Text
  BY Joined, SaidIsText DEF Page
<1>2. q \in Page /\ q.ui = p.ui
  BY <1>1 DEF TextDelta, Page
<1>3. \A k \in Role : k # e => Kept(p, q, k)
  BY Numbers DEF TextDelta, Page, Kept, Same
<1>4. q.queue[e] = p.queue[e] \o Said /\ q.visible = p.visible /\ q.panel = p.panel
  BY DEF TextDelta, Page
<1>5. e \in Role /\ Fine(p, e) /\ Fresh(p, e) => Fine(q, e)
  BY <1>4, RunsStart DEF Fine, Fresh
<1>6. QED
  BY <1>2, <1>3, <1>5

LEMMA SeededPage ==
  ASSUME NEW p \in Page, NEW e \in Entry
  PROVE  LET q == TextCheckpoint(p, e) IN
         /\ q \in Page /\ q.ui = p.ui
         /\ \A k \in Role : k # e => Kept(p, q, k)
         /\ e \in Role /\ Fine(p, e) => Fine(q, e)
<1> DEFINE q == TextCheckpoint(p, e)
           seed == [text |-> Said, complete |-> FALSE, shown |-> TRUE]
<1>1. CASE e \in p.live
  BY <1>1 DEF TextCheckpoint, Kept, Same
<1>2. CASE e \notin p.live
  <2> DEFINE panel == IF e = Answer \/ p.panel[e].complete THEN p.panel
                      ELSE [p.panel EXCEPT ![e] = seed]
  <2>1. seed \in Panel /\ panel \in [Role -> Panel]
    BY SaidIsText, Numbers DEF Panel, Page, Entry
  <2>2. q = [p EXCEPT !.queue[e] = <<>>, !.visible[e] = Said, !.panel = panel]
    BY <1>2 DEF TextCheckpoint, Page
  <2> HIDE DEF q, panel
  <2>3. q \in Page /\ q.ui = p.ui
    BY <2>1, <2>2, SaidIsText DEF Page
  <2>4. \A k \in Role : k # e => q.queue[k] = p.queue[k] /\ q.visible[k] = p.visible[k]
    BY <2>2, Numbers DEF Page
  <2>5. q.panel = panel /\ \A k \in Role : k # e => panel[k] = p.panel[k]
    BY <2>2, Numbers DEF Page, panel
  <2>6. q.queue[e] = <<>> /\ q.visible[e] = Said
    BY <2>2 DEF Page
  <2>7. e \in Role => panel[e] = p.panel[e] \/ panel[e] = seed
    BY Numbers DEF Page, panel
  <2>8. e \in Role /\ Fine(p, e) => Fine(q, e)
    BY <2>5, <2>6, <2>7, RunsStart DEF Fine
  <2>9. QED
    BY <2>3, <2>4, <2>5, <2>8 DEF Kept, Same, q
<1>3. QED
  BY <1>1, <1>2

(* The page becomes final when nothing but, at most, entries of others is  *)
(* still running in or waiting.                                            *)
Clears(p, q, others) ==
  p.ui # "final" /\ q.ui = "final" =>
    \A e \in others : p.queue[e] = <<>> /\ e \notin p.waiting

LEMMA CompletedPage ==
  ASSUME NEW p \in Page, NEW e \in Role
  PROVE  LET q == ApplyComplete(p, e) IN
         /\ q \in Page /\ q.ui = p.ui /\ q.waiting = p.waiting
         /\ q.queue = [p.queue EXCEPT ![e] = <<>>]
         /\ \A k \in Role : k # e => Same(p, q, k)
         /\ Fine(p, e) => Fine(q, e)
<1> DEFINE q == ApplyComplete(p, e)
           streamed == IF p.panel[e].complete THEN <<>> ELSE p.panel[e].text
           text == IF Length >= Len(streamed) THEN Said ELSE streamed
           panel == [text |-> text, complete |-> TRUE, shown |-> TRUE]
<1>1. streamed \in Text /\ text \in Text
  BY SaidIsText DEF Page, Panel
<1>2. panel \in Panel /\ e \in Entry
  BY <1>1, Numbers DEF Panel
<1>3. q = [p EXCEPT !.queue[e] = <<>>, !.live = @ \ {e}, !.visible[e] = text,
                    !.panel[e] = panel]
  BY DEF ApplyComplete
<1>4. Fine(p, e) => text = Said
  <2>1. Fine(p, e) => Len(p.panel[e].text) <= Length
    BY RunsIsPrefix, SaidIsText DEF Fine, Page, Panel
  <2>2. Len(<<>>) <= Length
    BY Numbers
  <2>3. Len(streamed) \in Nat
    BY <1>1 DEF Text
  <2>4. QED
    BY <2>1, <2>2, <2>3, Numbers
<1> HIDE DEF q, text, panel
<1>5. q \in Page /\ q.ui = p.ui /\ q.waiting = p.waiting /\ q.queue = [p.queue EXCEPT ![e] = <<>>]
  BY <1>1, <1>2, <1>3, SaidIsText DEF Page
<1>6. \A k \in Role : k # e => Same(p, q, k)
  BY <1>2, <1>3, Numbers DEF Page, Same
<1>7. q.queue[e] = <<>> /\ q.visible[e] = text /\ q.panel[e] = panel
  BY <1>2, <1>3 DEF Page
<1>8. panel.text = text
  BY DEF panel
<1>9. Fine(p, e) => Fine(q, e)
  BY <1>4, <1>7, <1>8, RunsStart DEF Fine
<1>10. QED
  BY <1>5, <1>6, <1>9 DEF q

LEMMA EndedPage ==
  ASSUME NEW p \in Page, NEW e \in Role
  PROVE  LET q == RoleComplete(p, e) IN
         /\ q \in Page /\ Clears(p, q, Entry)
         /\ \A k \in Role : k # e => Kept(p, q, k)
         /\ Fine(p, e) => Fine(q, e)
<1> DEFINE q == RoleComplete(p, e)
           rest == Catchup(p.visible[e])
<1>0. e \in Entry /\ p.visible[e] \in Text /\ p.queue[e] \in Text
  BY Numbers DEF Page
<1>1. rest \in Text /\ (Runs(p.visible[e], p.queue[e]) => Runs(p.visible[e], rest))
  BY <1>0, CatchupRuns
<1>2. CASE p.queue[e] # <<>>
  <2>1. q = [p EXCEPT !.waiting = @ \cup {e}]
    BY <1>2 DEF RoleComplete
  <2>2. QED
    BY <2>1 DEF Page, Kept, Same, Fine, Clears
<1>3. CASE p.queue[e] = <<>> /\ rest # <<>>
  <2>1. q = [p EXCEPT !.waiting = @ \cup {e}, !.live = @ \cup {e}, !.queue[e] = rest]
    BY <1>3 DEF RoleComplete
  <2> HIDE DEF q, rest
  <2>2. q \in Page /\ q.ui = p.ui
    BY <1>0, <1>1, <2>1 DEF Page
  <2>3. \A k \in Role : k # e => Kept(p, q, k)
    BY <2>1, Numbers DEF Page, Kept, Same
  <2>4. Fine(p, e) => Fine(q, e)
    BY <1>0, <1>1, <2>1 DEF Page, Fine
  <2>5. QED
    BY <2>2, <2>3, <2>4 DEF q, Clears
<1>4. CASE p.queue[e] = <<>> /\ rest = <<>>
  <2> DEFINE a == ApplyComplete(p, e)
  <2>1. q = Drained(a)
    BY <1>4 DEF RoleComplete
  <2>2. /\ a \in Page /\ a.ui = p.ui /\ a.waiting = p.waiting
        /\ a.queue = [p.queue EXCEPT ![e] = <<>>]
        /\ \A k \in Role : k # e => Same(p, a, k)
        /\ Fine(p, e) => Fine(a, e)
    BY CompletedPage
  <2> HIDE DEF a
  <2>3. \A k \in Entry : a.queue[k] = p.queue[k]
    BY <1>4, <2>2 DEF Page
  <2>4. q \in Page /\ (Fine(p, e) => Fine(q, e))
    BY <2>1, <2>2, DrainedPage
  <2>5. \A k \in Role : k # e => Kept(p, q, k)
    BY <2>1, <2>2, DrainedPage DEF Kept, Same, Drained
  <2>6. Clears(p, q, Entry)
    BY <2>1, <2>2, <2>3, DrainedPage DEF Clears
  <2>7. QED
    BY <2>4, <2>5, <2>6
<1>5. QED
  BY <1>2, <1>3, <1>4

LEMMA DonePage ==
  ASSUME NEW p \in Page
  PROVE  LET q == RunDone(p) IN
         /\ q \in Page /\ Clears(p, q, Entry)
         /\ \A k \in Role : Kept(p, q, k)
<1> DEFINE quiet == [p EXCEPT !.live = @ \ {Answer}]
<1>1. CASE p.queue[Answer] # <<>> \/ HasCouncilWork(p)
  <2>1. RunDone(p) = [quiet EXCEPT !.ui = "done"]
    BY <1>1 DEF RunDone
  <2>2. QED
    BY <2>1 DEF Page, Kept, Same, Clears
<1>2. CASE ~ (p.queue[Answer] # <<>> \/ HasCouncilWork(p))
  <2>1. RunDone(p) = FinalPage
    BY <1>2 DEF RunDone
  <2>2. QED
    BY <1>2, <2>1, EmptyPages DEF Kept, Same, Clears, HasCouncilWork, Entry
<1>3. QED
  BY <1>1, <1>2

LEMMA DispatchedPage ==
  ASSUME NEW p \in Page, NEW row \in Event
  PROVE  LET q == Dispatched(p, row) IN
         /\ q \in Page /\ Clears(p, q, Entry)
         /\ \A k \in Role : Fine(p, k) => Fine(q, k)
         /\ \A k \in Role : /\ Fresh(p, k)
                           /\ row \notin {Row("checkpoint", k), Row("complete", k)}
                           => Fresh(q, k)
<1> DEFINE q == Dispatched(p, row)
           e == row.entry
<1>0. row = Row(row.type, e)
  BY DEF Event, Row
<1>1. CASE row.type = "start"
  <2>1. q = RoleStart(p, e) /\ e \in Role
    BY <1>1 DEF Dispatched, Event
  <2>2. QED
    BY <2>1, StartedPage, KeptEntry DEF Clears
<1>2. CASE row.type = "checkpoint"
  <2>1. q = TextCheckpoint(p, e) /\ e \in Entry
    BY <1>2, Numbers DEF Dispatched, Event
  <2>2. q \in Page /\ q.ui = p.ui /\ \A k \in Role : k # e => Kept(p, q, k)
    BY <2>1, SeededPage
  <2>3. \A k \in Role : Fine(p, k) => Fine(q, k)
    BY <2>1, SeededPage, KeptEntry
  <2>4. QED
    BY <1>0, <1>2, <2>2, <2>3, KeptEntry DEF Clears
<1>3. CASE row.type = "complete"
  <2>1. q = RoleComplete(p, e) /\ e \in Role
    BY <1>3 DEF Dispatched, Event
  <2>2. QED
    BY <1>0, <1>3, <2>1, EndedPage, KeptEntry
<1>4. CASE row.type = "done"
  <2>1. q = RunDone(p)
    BY <1>4 DEF Dispatched
  <2>2. QED
    BY <2>1, DonePage, KeptEntry
<1>5. QED
  BY <1>1, <1>2, <1>3, <1>4 DEF Event

LEMMA MovedPage ==
  ASSUME NEW p \in Page, NEW e \in Entry, NEW n \in 1..Len(p.queue[e])
  PROVE  LET q == Moved(p, e, n) IN
         /\ q \in Page /\ q.ui = p.ui /\ q.waiting = p.waiting
         /\ \A k \in Entry : k # e => q.queue[k] = p.queue[k]
         /\ \A k \in Role : k # e => Same(p, q, k)
         /\ e \in Role /\ Fine(p, e) => Fine(q, e)
<1> DEFINE q == Moved(p, e, n)
           text == p.visible[e] \o SubSeq(p.queue[e], 1, n)
           rest == SubSeq(p.queue[e], n + 1, Len(p.queue[e]))
           panel == IF e = Answer \/ ~ p.panel[e].shown \/ p.panel[e].complete THEN p.panel
                    ELSE [p.panel EXCEPT ![e].text = text]
<1>0. p.queue[e] \in Text /\ p.visible[e] \in Text
  BY DEF Page
<1>1. text \in Text /\ rest \in Text
  <2>1. Len(p.queue[e]) \in Nat
    BY <1>0 DEF Text
  <2>2. n \in Nat /\ n \in 0..Len(p.queue[e]) /\ Len(p.queue[e]) \in 0..Len(p.queue[e])
    BY <2>1
  <2>3. QED
    BY <1>0, <2>2, Part, Beginning, Joined
<1>2. Fine(p, e) => Runs(text, rest) /\ Runs(text, <<>>)
  BY <1>0, RunsOn DEF Fine
<1>3. q = [p EXCEPT !.queue[e] = rest, !.visible[e] = text, !.panel = panel]
  BY DEF Moved, Page
<1> HIDE DEF q, text, rest
<1>4. panel \in [Role -> Panel] /\ \A k \in Role : k # e => panel[k] = p.panel[k]
  BY <1>1, Numbers DEF Page, Panel, Entry
<1>5. e \in Role => \/ panel[e] = p.panel[e]
                    \/ ~ panel[e].complete /\ panel[e].text = text
  BY Numbers DEF Page, Panel
<1> HIDE DEF panel
<1>6. q \in Page /\ q.ui = p.ui /\ q.waiting = p.waiting
  BY <1>1, <1>3, <1>4 DEF Page
<1>7. \A k \in Entry : k # e => q.queue[k] = p.queue[k] /\ q.visible[k] = p.visible[k]
  BY <1>3 DEF Page
<1>8. q.queue[e] = rest /\ q.visible[e] = text /\ q.panel = panel
  BY <1>3 DEF Page
<1>9. e \in Role /\ Fine(p, e) => Fine(q, e)
  BY <1>2, <1>5, <1>8 DEF Fine
<1>10. \A k \in Role : k # e => Same(p, q, k)
  BY <1>4, <1>7, <1>8, Numbers DEF Same
<1>11. QED
  BY <1>6, <1>7, <1>9, <1>10 DEF q

LEMMA RunInPage ==
  ASSUME NEW p \in Page, NEW e \in Entry, NEW n \in 1..Len(p.queue[e])
  PROVE  LET q == RunIn(p, e, n) IN
         /\ q \in Page /\ Clears(p, q, Entry \ {e})
         /\ \A k \in Role : k # e => Kept(p, q, k)
         /\ e \in Role /\ Fine(p, e) => Fine(q, e)
<1> DEFINE q == RunIn(p, e, n)
           m == Moved(p, e, n)
           w == [m EXCEPT !.waiting = @ \ {e}]
           a == ApplyComplete(w, e)
<1>1. /\ m \in Page /\ m.ui = p.ui /\ m.waiting = p.waiting
      /\ \A k \in Entry : k # e => m.queue[k] = p.queue[k]
      /\ \A k \in Role : k # e => Same(p, m, k)
      /\ e \in Role /\ Fine(p, e) => Fine(m, e)
  BY MovedPage
<1>2. q = IF m.queue[e] # <<>> THEN m
          ELSE IF e \in p.waiting THEN Drained(a) ELSE Drained(m)
  BY DEF RunIn
<1> HIDE DEF q, m
<1>3. CASE m.queue[e] # <<>>
  BY <1>1, <1>2, <1>3 DEF Clears, Kept, q
<1>4. CASE m.queue[e] = <<>> /\ e \notin p.waiting
  <2>1. q = Drained(m)
    BY <1>2, <1>4
  <2>2. q \in Page /\ (e \in Role /\ Fine(p, e) => Fine(q, e))
    BY <1>1, <2>1, DrainedPage
  <2>3. Clears(p, q, Entry \ {e})
    BY <1>1, <2>1, DrainedPage DEF Clears
  <2>4. \A k \in Role : k # e => Kept(p, q, k)
    BY <1>1, <2>1 DEF Kept, Same, Drained
  <2>5. QED
    BY <2>2, <2>3, <2>4 DEF q
<1>5. CASE m.queue[e] = <<>> /\ e \in p.waiting
  <2>1. q = Drained(a) /\ e \in Role
    BY <1>2, <1>5 DEF Page
  <2>2. /\ w \in Page /\ w.ui = p.ui /\ w.waiting = p.waiting \ {e}
        /\ w.queue = m.queue /\ w.visible = m.visible /\ w.panel = m.panel
    BY <1>1 DEF Page
  <2> HIDE DEF w
  <2>3. /\ a \in Page /\ a.ui = w.ui /\ a.waiting = w.waiting
        /\ a.queue = [w.queue EXCEPT ![e] = <<>>]
        /\ \A k \in Role : k # e => Same(w, a, k)
        /\ Fine(w, e) => Fine(a, e)
    BY <2>1, <2>2, CompletedPage
  <2> HIDE DEF a
  <2>4. \A k \in Entry \ {e} : a.queue[k] = p.queue[k]
    BY <1>1, <2>2, <2>3 DEF Page
  <2>5. q \in Page /\ (Fine(p, e) => Fine(q, e))
    BY <1>1, <2>1, <2>2, <2>3, DrainedPage DEF Fine
  <2>6. Clears(p, q, Entry \ {e})
    BY <2>1, <2>2, <2>3, <2>4, DrainedPage DEF Clears
  <2>7. \A k \in Role : k # e => Kept(p, q, k)
    <3>1. \A k \in Role : k # e => Same(p, a, k)
      BY <1>1, <2>2, <2>3 DEF Same
    <3>2. q = a \/ q = FinalPage
      BY <2>1 DEF Drained
    <3>3. QED
      BY <3>1, <3>2 DEF Kept
  <2>8. QED
    BY <2>5, <2>6, <2>7 DEF q
<1>6. QED
  BY <1>3, <1>4, <1>5

-----------------------------------------------------------------------------
(* Types.                                                                  *)

LEMMA MaxOfTwo ==
  ASSUME NEW a \in Nat, NEW b \in Nat
  PROVE  Max({a, b}) \in {a, b} /\ Max({a, b}) >= a /\ Max({a, b}) >= b
<1>1. \E x \in {a, b} : \A y \in {a, b} : x >= y
  OBVIOUS
<1>2. QED
  BY <1>1 DEF Max

LEMMA AppendFacts ==
  ASSUME NEW S, NEW s \in Seq(S), NEW e \in S
  PROVE  /\ Append(s, e) \in Seq(S)
         /\ Len(s) \in Nat /\ Len(Append(s, e)) = Len(s) + 1
         /\ DOMAIN Append(s, e) = 1..(Len(s) + 1) /\ DOMAIN s = 1..Len(s)
         /\ \A i \in 1..Len(s) : Append(s, e)[i] = s[i]
         /\ Append(s, e)[Len(s) + 1] = e
OBVIOUS

LEMMA TailFacts ==
  ASSUME NEW S, NEW s \in Seq(S), s # <<>>
  PROVE  /\ Tail(s) \in Seq(S) /\ Head(s) \in S /\ Head(s) = s[1]
         /\ Len(s) \in Nat \ {0} /\ DOMAIN s = 1..Len(s)
         /\ Len(Tail(s)) = Len(s) - 1 /\ DOMAIN Tail(s) = 1..(Len(s) - 1)
         /\ \A i \in 1..(Len(s) - 1) : i + 1 \in 1..Len(s) /\ Tail(s)[i] = s[i + 1]
<1>1. Len(s) \in Nat \ {0} /\ DOMAIN s = 1..Len(s) /\ Head(s) = s[1]
  BY EmptySeq
<1>2. /\ Head(s) \in S /\ Tail(s) \in Seq(S) /\ Len(Tail(s)) = Len(s) - 1
      /\ \A i \in 1..Len(Tail(s)) : Tail(s)[i] = s[i + 1]
  BY HeadTailProperties
<1>3. DOMAIN Tail(s) = 1..Len(Tail(s))
  BY <1>2
<1>4. QED
  BY <1>1, <1>2, <1>3

LEMMA RowsAreEvents ==
  /\ \A k \in Role : Row("start", k) \in Event /\ Row("complete", k) \in Event
  /\ \A k \in Entry : Row("checkpoint", k) \in Event
  /\ Row("done", Answer) \in Event
BY DEF Row, Event

LEMMA CommitTyped ==
  ASSUME TypeInv, NEW t \in Thread, NEW row \in Event, Commit(t, row)
  PROVE  /\ log' = Append(log, row) /\ log' \in Seq(Event)
         /\ Len(log) \in Nat /\ Len(log') = Len(log) + 1
         /\ outbox' \in [Thread -> 0..Len(log')]
<1>1. log \in Seq(Event) /\ outbox \in [Thread -> 0..Len(log)]
  BY DEF TypeInv, WorkerTyped
<1>2. /\ log' = Append(log, row) /\ log' \in Seq(Event)
      /\ Len(log) \in Nat /\ Len(log') = Len(log) + 1
  BY <1>1, AppendFacts DEF Commit
<1>3. outbox' = [outbox EXCEPT ![t] = Len(log) + 1]
  BY DEF Commit
<1>4. outbox' \in [Thread -> 0..Len(log')]
  BY <1>1, <1>2, <1>3
<1>5. QED
  BY <1>2, <1>4

(* The log grows, by one row at most, and the page and its stream stay.    *)
Grows == log' = log \/ \E row \in Event : log' = Append(log, row)

LEMMA WorkerStepTyped ==
  ASSUME TypeInv,
         BeginEntry \/ PushBuffer \/ FlushEntry \/ EndEntry \/ Tick
           \/ \E t \in Thread : SaveCheckpoint(t)
  PROVE  WorkerTyped' /\ Grows
<1> USE DEF TypeInv
<1>0. /\ "router" \in Thread /\ "ticker" \in Thread /\ router.entry \in Entry
      /\ (router.entry # Answer => router.entry \in Role /\ router.entry + 1 \in Entry)
  BY Numbers DEF Thread, WorkerTyped, Role, Answer
<1>1. CASE BeginEntry
  <2>1. CASE router.entry = Answer
    BY <1>0, <1>1, <2>1 DEF BeginEntry, WorkerTyped, Grows
  <2>2. CASE router.entry # Answer
    <3>1. Row("start", router.entry) \in Event /\ Commit("router", Row("start", router.entry))
      BY <1>0, <1>1, <2>2, RowsAreEvents DEF BeginEntry
    <3>2. QED
      BY <1>0, <1>1, <2>2, <3>1, CommitTyped DEF BeginEntry, WorkerTyped, Grows
  <2>3. QED
    BY <2>1, <2>2
<1>2. CASE PushBuffer
  BY <1>0, <1>2 DEF PushBuffer, Drain, WorkerTyped, Grows
<1>3. CASE FlushEntry
  BY <1>0, <1>3 DEF FlushEntry, Drain, WorkerTyped, Grows
<1>4. CASE EndEntry
  <2>1. CASE router.entry = Answer
    <3>1. Row("done", Answer) \in Event /\ Commit("router", Row("done", Answer))
      BY <1>4, <2>1, RowsAreEvents DEF EndEntry
    <3>2. router' = [router EXCEPT !.at = "over"] /\ UNCHANGED <<buffered, hand>>
      BY <1>4, <2>1 DEF EndEntry
    <3>3. QED
      BY <1>0, <3>1, <3>2, CommitTyped DEF WorkerTyped, Grows
  <2>2. CASE router.entry # Answer
    <3>1. /\ Row("complete", router.entry) \in Event
          /\ Commit("router", Row("complete", router.entry))
      BY <1>0, <1>4, <2>2, RowsAreEvents DEF EndEntry
    <3>2. /\ router' = [entry |-> router.entry + 1, at |-> "start"]
          /\ UNCHANGED <<buffered, hand>>
      BY <1>4, <2>2 DEF EndEntry
    <3>3. QED
      BY <1>0, <2>2, <3>1, <3>2, CommitTyped DEF WorkerTyped, Grows
  <2>3. QED
    BY <2>1, <2>2
<1>5. CASE Tick
  BY <1>0, <1>5 DEF Tick, Drain, WorkerTyped, Grows
<1>6. ASSUME NEW t \in Thread, SaveCheckpoint(t)
      PROVE  WorkerTyped' /\ Grows
  <2>1. hand[t] \in Entry
    BY <1>6 DEF SaveCheckpoint, WorkerTyped
  <2>2. hand' \in [Thread -> Entry \cup {0}] /\ UNCHANGED <<router, buffered>>
    BY <1>6 DEF SaveCheckpoint, WorkerTyped
  <2>3. CASE Completed
    BY <1>6, <2>2, <2>3 DEF SaveCheckpoint, WorkerTyped, Grows
  <2>4. CASE ~ Completed
    <3>1. /\ Row("checkpoint", hand[t]) \in Event
          /\ Commit(t, Row("checkpoint", hand[t]))
      BY <1>6, <2>1, <2>4, RowsAreEvents DEF SaveCheckpoint
    <3>2. QED
      BY <2>2, <3>1, CommitTyped DEF WorkerTyped, Grows
  <2>5. QED
    BY <2>3, <2>4
<1>7. QED
  BY <1>1, <1>2, <1>3, <1>4, <1>5, <1>6

LEMMA GrowsFacts ==
  ASSUME TypeInv, Grows
  PROVE  /\ Len(log) \in Nat /\ Len(log') \in Nat /\ Len(log) <= Len(log')
         /\ DOMAIN log = 1..Len(log) /\ DOMAIN log' = 1..Len(log')
         /\ \A i \in DOMAIN log : log'[i] = log[i] /\ i \in DOMAIN log'
<1>1. log \in Seq(Event)
  BY DEF TypeInv, WorkerTyped
<1>2. CASE log' = log
  BY <1>1, <1>2
<1>3. ASSUME NEW row \in Event, log' = Append(log, row)
      PROVE  /\ Len(log) \in Nat /\ Len(log') \in Nat /\ Len(log) <= Len(log')
             /\ DOMAIN log = 1..Len(log) /\ DOMAIN log' = 1..Len(log')
             /\ \A i \in DOMAIN log : log'[i] = log[i] /\ i \in DOMAIN log'
  BY <1>1, <1>3, AppendFacts
<1>4. QED
  BY <1>2, <1>3 DEF Grows

LEMMA Bounds ==
  ASSUME TypeInv
  PROVE  /\ Len(log) \in Nat /\ DOMAIN log = 1..Len(log)
         /\ \A i \in 1..Len(log) : log[i] \in Event
         /\ {after, cur, backlog, seen, lastSeen} \subseteq Nat
         /\ after <= Len(log) /\ cur <= Len(log) /\ backlog <= Len(log)
         /\ seen <= Len(log) /\ lastSeen <= Len(log)
<1>1. log \in Seq(Event)
  BY DEF TypeInv, WorkerTyped
<1>2. QED
  BY <1>1 DEF TypeInv, Numbered

LEMMA ReceiveTyped ==
  ASSUME TypeInv, NEW i \in 1..Len(log), Receive(i)
  PROVE  page' \in Page /\ {seen', lastSeen'} \subseteq 0..Len(log)
<1>1. log[i] \in Event /\ i \in Nat /\ i <= Len(log)
  BY Bounds
<1>2. page' \in Page
  BY <1>1, DispatchedPage DEF Receive, TypeInv, StreamTyped
<1>3. Max({seen, i}) \in {seen, i} /\ Max({lastSeen, i}) \in {lastSeen, i}
  BY <1>1, Bounds, MaxOfTwo
<1>4. {seen', lastSeen'} \subseteq {seen, lastSeen, i}
  BY <1>3 DEF Receive
<1>5. QED
  BY <1>1, <1>2, <1>4, Bounds

(* An empty channel, and one that is shorter by its head.                  *)
LEMMA ChannelTyped ==
  ASSUME NEW n \in Nat
  PROVE  /\ <<>> \in Seq(Message) /\ Published(<<>>, n)
         /\ \A ch \in Seq(Message) : ch # <<>> /\ Published(ch, n) =>
              Tail(ch) \in Seq(Message) /\ Published(Tail(ch), n)
         /\ \A ch \in Seq(Message), m \in Message : m.seq <= n /\ Published(ch, n) =>
              Append(ch, m) \in Seq(Message) /\ Published(Append(ch, m), n)
<1>1. <<>> \in Seq(Message) /\ Published(<<>>, n)
  BY DEF Published
<1>2. ASSUME NEW ch \in Seq(Message), ch # <<>>, Published(ch, n)
      PROVE  Tail(ch) \in Seq(Message) /\ Published(Tail(ch), n)
  BY <1>2, TailFacts DEF Published
<1>3. ASSUME NEW ch \in Seq(Message), NEW m \in Message, m.seq <= n, Published(ch, n)
      PROVE  Append(ch, m) \in Seq(Message) /\ Published(Append(ch, m), n)
  BY <1>3, AppendFacts DEF Published
<1>4. QED
  BY <1>1, <1>2, <1>3

LEMMA DeliverTyped ==
  ASSUME TypeInv, NEW i \in 1..Len(log), NEW rest \in Seq(Message),
         Published(rest, Len(log)), Deliver(i, rest)
  PROVE  TypeInv'
<1>0. Len(log) \in Nat /\ i \in 0..Len(log) /\ 0 \in 0..Len(log) /\ log[i] \in Event
  BY Bounds
<1>1. page' \in Page /\ {seen', lastSeen'} \subseteq 0..Len(log)
  BY ReceiveTyped DEF Deliver
<1>2. UNCHANGED <<log, router, buffered, hand, outbox, faults>>
  BY DEF Deliver, workerVars
<1>3. CASE log[i].type = "done"
  <2>1. conn' = "over" /\ NoStream
    BY <1>3 DEF Deliver
  <2>2. QED
    BY <1>0, <1>1, <1>2, <2>1, ChannelTyped
       DEF NoStream, TypeInv, WorkerTyped, Numbered, StreamTyped
<1>4. CASE log[i].type # "done"
  <2>1. Sent(i) /\ channel' = rest /\ conn' = conn
    BY <1>4 DEF Deliver
  <2>2. covered' \subseteq Entry
    BY <1>0, <2>1, Numbers DEF Sent, TypeInv, StreamTyped, Event
  <2>3. QED
    BY <1>0, <1>1, <1>2, <2>1, <2>2 DEF Sent, TypeInv, WorkerTyped, Numbered, StreamTyped
<1>5. QED
  BY <1>3, <1>4

(* What a step of the stream delivers: a row of the log, and what is left  *)
(* of the channel.                                                         *)
LEMMA SendRowDelivers ==
  ASSUME TypeInv, SendRow
  PROVE  /\ cur + 1 \in 1..Len(log) /\ Deliver(cur + 1, channel)
         /\ conn \in {"redis", "polling"}
BY Bounds DEF SendRow

LEMMA ForwardDelivers ==
  ASSUME TypeInv, Forward
  PROVE  /\ channel \in Seq(Message) /\ channel # <<>> /\ Head(channel) \in Message
         /\ Head(channel) = channel[1] /\ Head(channel).seq \in Nat
         /\ Tail(channel) \in Seq(Message) /\ Published(Tail(channel), Len(log))
         /\ IF Head(channel).seq > cur
            THEN /\ Head(channel).seq \in 1..Len(log)
                 /\ Deliver(Head(channel).seq, Tail(channel))
            ELSE /\ channel' = Tail(channel)
                 /\ page' = IF Head(channel).seq = 0 /\ Forwarded(Head(channel))
                            THEN TextDelta(page, Head(channel).entry) ELSE page
                 /\ UNCHANGED <<workerVars, conn, after, cur, backlog, covered, seen,
                                lastSeen, faults>>
<1>1. channel \in Seq(Message) /\ channel # <<>> /\ Published(channel, Len(log))
  BY DEF Forward, TypeInv, Numbered
<1>2. /\ Tail(channel) \in Seq(Message) /\ Head(channel) \in Message
      /\ Head(channel) = channel[1] /\ 1 \in DOMAIN channel
  BY <1>1, TailFacts
<1>3. Head(channel).seq \in Nat /\ Head(channel).seq <= Len(log)
  BY <1>1, <1>2 DEF Message, Published
<1>4. Published(Tail(channel), Len(log))
  BY <1>1, Bounds, ChannelTyped
<1>5. Head(channel).seq > cur => Head(channel).seq \in 1..Len(log)
  BY <1>3, Bounds
<1>6. QED
  BY <1>1, <1>2, <1>3, <1>4, <1>5 DEF Forward

LEMMA SendStopDelivers ==
  ASSUME TypeInv, SendStop
  PROVE  Len(log) \in 1..Len(log) /\ Deliver(Len(log), <<>>) /\ channel = <<>>
BY Bounds DEF SendStop, Completed, Logged

LEMMA CatchUpReceives ==
  ASSUME TypeInv, CatchUp, seen # Len(log)
  PROVE  seen + 1 \in 1..Len(log) /\ Receive(seen + 1)
BY Bounds DEF CatchUp

LEMMA StreamStepTyped ==
  ASSUME TypeInv, StreamStep
  PROVE  TypeInv'
<1>0. Len(log) \in Nat /\ 0 \in 0..Len(log) /\ Len(log) \in 0..Len(log)
  BY Bounds
<1>1. CASE Connect
  BY <1>0, <1>1, ChannelTyped
     DEF Connect, workerVars, TypeInv, WorkerTyped, Numbered, StreamTyped
<1>2. CASE ReadBacklog
  BY <1>0, <1>2 DEF ReadBacklog, workerVars, TypeInv, WorkerTyped, Numbered, StreamTyped
<1>3. CASE SendRow
  <2>1. channel \in Seq(Message) /\ Published(channel, Len(log))
    BY DEF TypeInv, Numbered
  <2>2. QED
    BY <1>3, <2>1, SendRowDelivers, DeliverTyped
<1>4. CASE Forward
  <2>1. CASE Head(channel).seq > cur
    BY <1>4, <2>1, ForwardDelivers, DeliverTyped
  <2>2. CASE ~ (Head(channel).seq > cur)
    <3>1. Head(channel).entry \in Entry
      BY <1>4, ForwardDelivers DEF Message
    <3>2. page' \in Page
      BY <1>4, <2>2, <3>1, ForwardDelivers, SpokenPage DEF TypeInv, StreamTyped
    <3>3. /\ channel' = Tail(channel) /\ Tail(channel) \in Seq(Message)
          /\ Published(Tail(channel), Len(log))
          /\ UNCHANGED <<workerVars, conn, after, cur, backlog, covered, seen, lastSeen, faults>>
      BY <1>4, <2>2, ForwardDelivers
    <3>4. QED
      BY <3>2, <3>3 DEF workerVars, TypeInv, WorkerTyped, Numbered, StreamTyped
  <2>3. QED
    BY <2>1, <2>2
<1>5. CASE SendStop
  BY <1>0, <1>5, SendStopDelivers, ChannelTyped, DeliverTyped
<1>6. CASE CatchUp
  <2>1. CASE seen = Len(log)
    BY <1>6, <2>1 DEF CatchUp, workerVars, streamVars, TypeInv, WorkerTyped, Numbered, StreamTyped
  <2>2. CASE seen # Len(log)
    <3>1. page' \in Page /\ {seen', lastSeen'} \subseteq 0..Len(log)
      BY <1>6, <2>2, CatchUpReceives, ReceiveTyped
    <3>2. /\ conn' \in {"over", conn}
          /\ UNCHANGED <<workerVars, streamVars, faults>>
      BY <1>6, <2>2 DEF CatchUp
    <3>3. QED
      BY <3>1, <3>2 DEF workerVars, streamVars, TypeInv, WorkerTyped, Numbered, StreamTyped
  <2>3. QED
    BY <2>1, <2>2
<1>7. QED
  BY <1>1, <1>2, <1>3, <1>4, <1>5, <1>6 DEF StreamStep

LEMMA FrameRunsIn ==
  ASSUME TypeInv, NEW e \in Entry, Frame(e)
  PROVE  \E n \in 1..Len(page.queue[e]) : page' = RunIn(page, e, n)
BY DEF Frame

LEMMA FrameTyped ==
  ASSUME TypeInv, NEW e \in Entry, Frame(e)
  PROVE  TypeInv'
<1>1. page' \in Page
  BY FrameRunsIn, RunInPage DEF TypeInv, StreamTyped
<1>2. QED
  BY <1>1 DEF Frame, workerVars, streamVars, TypeInv, WorkerTyped, Numbered, StreamTyped

LEMMA FaultTyped ==
  ASSUME faults \in 0..MaxFaults, Fault
  PROVE  faults' \in 0..MaxFaults
BY Numbers DEF Fault

(* What the user, the list of chats and the faults do to the page.         *)
LEMMA LeavingTyped ==
  ASSUME TypeInv,
         RedisFails \/ Disconnect \/ CatchUpFails \/ LeaveChat \/ ReturnToChat \/ Reconcile
  PROVE  TypeInv'
<1>0. /\ Len(log) \in Nat /\ 0 \in 0..Len(log) /\ Len(log) \in 0..Len(log)
      /\ faults \in 0..MaxFaults
      /\ <<>> \in Seq(Message) /\ Published(<<>>, Len(log))
  BY Bounds, ChannelTyped DEF TypeInv, StreamTyped
<1>1. CASE RedisFails
  BY <1>0, <1>1, FaultTyped DEF RedisFails, workerVars, TypeInv, WorkerTyped, Numbered, StreamTyped
<1>2. CASE Disconnect
  BY <1>0, <1>2, FaultTyped
     DEF Disconnect, NoStream, workerVars, TypeInv, WorkerTyped, Numbered, StreamTyped
<1>3. CASE CatchUpFails
  BY <1>0, <1>3
     DEF CatchUpFails, workerVars, streamVars, TypeInv, WorkerTyped, Numbered, StreamTyped
<1>4. CASE LeaveChat
  <2>1. page' \in Page
    BY <1>4 DEF LeaveChat, Page, TypeInv, StreamTyped
  <2>2. QED
    BY <1>0, <1>4, <2>1, FaultTyped
       DEF LeaveChat, NoStream, workerVars, TypeInv, WorkerTyped, Numbered, StreamTyped
<1>5. CASE ReturnToChat
  <2>1. RowText \in Text
    BY SaidIsText DEF RowText
  <2>2. page' \in Page
    BY <1>5, <2>1 DEF ReturnToChat, Page, TypeInv, StreamTyped
  <2>3. QED
    BY <1>0, <1>5, <2>2
       DEF ReturnToChat, workerVars, streamVars, TypeInv, WorkerTyped, Numbered, StreamTyped
<1>6. CASE Reconcile
  BY <1>0, <1>6, EmptyPages
     DEF Reconcile, workerVars, streamVars, TypeInv, WorkerTyped, Numbered, StreamTyped
<1>7. QED
  BY <1>1, <1>2, <1>3, <1>4, <1>5, <1>6

(* What is heard: an event that has been logged, or words being said.      *)
LEMMA BroadcastHeard ==
  ASSUME TypeInv, Broadcast
  PROVE  /\ WorkerTyped' /\ log' = log /\ router' \in {router, [router EXCEPT !.at = "buffer"]}
         /\ UNCHANGED <<buffered, hand>>
         /\ \E m \in Message :
              /\ m.seq <= Len(log) /\ Heard(m)
              /\ \/ m.seq # 0 /\ router' = router
                 \/ m = [seq |-> 0, entry |-> router.entry] /\ Push
<1>1. ASSUME NEW t \in Thread, Publish(t),
             Heard([seq |-> outbox[t], entry |-> log[outbox[t]].entry])
      PROVE  /\ WorkerTyped' /\ log' = log /\ router' = router /\ UNCHANGED <<buffered, hand>>
             /\ \E m \in Message : m.seq <= Len(log) /\ Heard(m) /\ m.seq # 0
  <2> DEFINE m == [seq |-> outbox[t], entry |-> log[outbox[t]].entry]
  <2>1. outbox[t] \in 1..Len(log)
    BY <1>1, Bounds DEF Publish, TypeInv, WorkerTyped
  <2>2. log[outbox[t]] \in Event
    BY <2>1, Bounds
  <2>3. m \in Message /\ m.seq <= Len(log) /\ m.seq # 0
    <3>1. log[outbox[t]].entry \in Entry
      BY <2>2, Numbers DEF Event
    <3>2. outbox[t] \in Nat /\ outbox[t] <= Len(log) /\ outbox[t] # 0
      BY <2>1, Bounds
    <3>3. QED
      BY <3>1, <3>2 DEF Message
  <2>4. 0 \in 0..Len(log)
    BY Bounds
  <2>5. WorkerTyped' /\ log' = log /\ router' = router /\ UNCHANGED <<buffered, hand>>
    BY <1>1, <2>4 DEF Publish, TypeInv, WorkerTyped
  <2>6. QED
    BY <1>1, <2>3, <2>5
<1>2. ASSUME Push, Heard([seq |-> 0, entry |-> router.entry])
      PROVE  /\ WorkerTyped' /\ log' = log /\ router' = [router EXCEPT !.at = "buffer"]
             /\ UNCHANGED <<buffered, hand>>
             /\ [seq |-> 0, entry |-> router.entry] \in Message /\ 0 <= Len(log)
  BY <1>2, Bounds DEF Push, Message, TypeInv, WorkerTyped
<1>3. QED
  BY <1>1, <1>2 DEF Broadcast

LEMMA BroadcastTyped ==
  ASSUME TypeInv, Broadcast
  PROVE  TypeInv'
<1>1. PICK m \in Message : m.seq <= Len(log) /\ Heard(m)
  BY BroadcastHeard
<1>2. /\ channel \in Seq(Message) /\ Published(channel, Len(log)) /\ Len(log) \in Nat
      /\ faults \in 0..MaxFaults
  BY Bounds DEF TypeInv, Numbered, StreamTyped
<1>3. Append(channel, m) \in Seq(Message) /\ Published(Append(channel, m), Len(log))
  BY <1>1, <1>2, ChannelTyped
<1>4. channel' \in {channel, Append(channel, m)} /\ (faults' = faults \/ Fault)
  BY <1>1 DEF Heard
<1>5. channel' \in Seq(Message) /\ Published(channel', Len(log))
  BY <1>2, <1>3, <1>4
<1>6. faults' \in 0..MaxFaults
  BY <1>2, <1>4, FaultTyped
<1>7. WorkerTyped' /\ log' = log /\ UNCHANGED <<conn, after, cur, backlog, covered, seen, lastSeen, page>>
  BY BroadcastHeard DEF Broadcast
<1>8. QED
  BY <1>5, <1>6, <1>7 DEF TypeInv, Numbered, StreamTyped

LEMMA TypeStep ==
  ASSUME TypeInv, [Next]_vars
  PROVE  TypeInv'
<1>1. CASE WorkerStep
  <2>1. WorkerTyped' /\ Grows
    BY <1>1, WorkerStepTyped DEF WorkerStep
  <2>2. Len(log) \in Nat /\ Len(log') \in Nat /\ Len(log) <= Len(log')
    BY <2>1, GrowsFacts
  <2>3. /\ UNCHANGED <<after, cur, backlog, seen, lastSeen, channel>>
        /\ UNCHANGED <<conn, covered, page, faults>>
    BY <1>1 DEF WorkerStep, streamVars
  <2>4. \A i \in DOMAIN channel : channel[i].seq \in Nat
    <3>1. channel \in Seq(Message)
      BY DEF TypeInv, Numbered
    <3>2. \A i \in DOMAIN channel : channel[i] \in Message
      BY <3>1
    <3>3. QED
      BY <3>2 DEF Message
  <2>5. Numbered(Len(log))'
    BY <2>2, <2>3, <2>4, Bounds DEF TypeInv, Numbered, Published
  <2>6. QED
    BY <2>1, <2>3, <2>5 DEF TypeInv, StreamTyped
<1>2. CASE UNCHANGED vars
  BY <1>2 DEF vars, workerVars, streamVars, TypeInv, WorkerTyped, Numbered, StreamTyped
<1>3. QED
  BY <1>1, <1>2, BroadcastTyped, StreamStepTyped, FrameTyped, LeavingTyped DEF Next

LEMMA TypeInit ==
  ASSUME Init
  PROVE  TypeInv
<1>1. log = <<>> /\ log \in Seq(Event) /\ Len(log) = 0 /\ 0 \in 0..0 /\ 1 \in Entry
  BY CouncilPageAssumption DEF Init, Entry, Role
<1>2. WorkerTyped
  BY <1>1 DEF Init, WorkerTyped
<1>3. Numbered(0)
  BY <1>1, ChannelTyped DEF Init, Numbered
<1>4. StreamTyped
  BY EmptyPages, Numbers DEF Init, StreamTyped
<1>5. QED
  BY <1>1, <1>2, <1>3, <1>4 DEF TypeInv

LEMMA TypesHold == Spec => []TypeInv
<1>1. Init => TypeInv
  BY TypeInit
<1>2. TypeInv /\ [Next]_vars => TypeInv'
  BY TypeStep
<1>3. QED
  BY <1>1, <1>2, PTL DEF Spec

(* Whatever happens, the variables have their types: no number of an event *)
(* that is not in the log, nothing but characters of the text on the page. *)
THEOREM CouncilPageTypes == Spec => []CouncilPageTypeOK
<1>1. TypeInv => CouncilPageTypeOK
  <2> SUFFICES ASSUME TypeInv PROVE CouncilPageTypeOK
    OBVIOUS
  <2>1. \A x \in Event : x \in [type : {"start", "checkpoint", "complete", "done"}, entry : Entry]
    BY Numbers DEF Event
  <2>2. log \in Seq([type : {"start", "checkpoint", "complete", "done"}, entry : Entry])
    BY <2>1, SeqMonotonic DEF TypeInv, WorkerTyped
  <2>3. QED
    BY <2>2 DEF TypeInv, WorkerTyped, Numbered, StreamTyped, Page, Panel, Text, Message,
                CouncilPageTypeOK
<1>2. QED
  BY <1>1, TypesHold, PTL

-----------------------------------------------------------------------------
(* The end of the run.                                                     *)

LEMMA FinalStep ==
  ASSUME TypeInv, Next, page.ui # "final", page'.ui = "final", ~ Reconcile
  PROVE  \/ Quiet(Entry)
         \/ \E k \in Entry : Frame(k) /\ Quiet(Entry \ {k})
<1>0. page \in Page
  BY DEF TypeInv, StreamTyped
<1>1. ASSUME NEW i \in 1..Len(log), Receive(i)
      PROVE  Quiet(Entry)
  BY <1>0, <1>1, Bounds, DispatchedPage DEF Receive, Clears, Quiet
<1>2. ASSUME NEW k \in Entry, Frame(k)
      PROVE  Quiet(Entry \ {k})
  BY <1>0, <1>2, FrameRunsIn, RunInPage DEF Clears, Quiet
<1>3. CASE StreamStep
  <2>1. CASE Connect \/ ReadBacklog
    BY <2>1 DEF Connect, ReadBacklog
  <2>2. CASE SendRow
    BY <1>1, <2>2, SendRowDelivers DEF Deliver
  <2>3. CASE Forward
    <3>1. CASE Head(channel).seq > cur
      BY <1>1, <2>3, <3>1, ForwardDelivers DEF Deliver
    <3>2. CASE ~ (Head(channel).seq > cur)
      <4>1. Head(channel).entry \in Entry
        BY <2>3, ForwardDelivers DEF Message
      <4>2. page' = TextDelta(page, Head(channel).entry) \/ page' = page
        BY <2>3, <3>2, ForwardDelivers
      <4>3. page'.ui = page.ui
        BY <1>0, <4>1, <4>2, SpokenPage
      <4>4. QED
        BY <4>3
    <3>3. QED
      BY <3>1, <3>2
  <2>4. CASE SendStop
    BY <1>1, <2>4, SendStopDelivers DEF Deliver
  <2>5. CASE CatchUp
    <3>1. seen # Len(log)
      BY <2>5 DEF CatchUp
    <3>2. QED
      BY <1>1, <2>5, <3>1, CatchUpReceives
  <2>6. QED
    BY <1>3, <2>1, <2>2, <2>3, <2>4, <2>5 DEF StreamStep
<1>4. CASE WorkerStep \/ Broadcast
  BY <1>4 DEF WorkerStep, Broadcast
<1>5. CASE RedisFails \/ Disconnect \/ CatchUpFails
  BY <1>5 DEF RedisFails, Disconnect, CatchUpFails
<1>6. CASE LeaveChat \/ ReturnToChat
  BY <1>0, <1>6 DEF LeaveChat, ReturnToChat, Page
<1>7. QED
  BY <1>2, <1>3, <1>4, <1>5, <1>6 DEF Next

(* The page becomes final with nothing left to show: queued text has run   *)
(* in and completions that were put off are applied first, or the very     *)
(* frame that shows the last characters ends it.                           *)
THEOREM DoneWaits == Spec => DoneWaitsForText
<1>1. TypeInv /\ [Next]_vars =>
        [page.ui # "final" /\ page'.ui = "final" /\ ~ Reconcile =>
           \/ Quiet(Entry)
           \/ \E k \in Entry : Frame(k) /\ Quiet(Entry \ {k})]_vars
  BY FinalStep
<1>2. QED
  BY <1>1, TypesHold, PTL DEF Spec, DoneWaitsForText

-----------------------------------------------------------------------------
(* What an entry shows.                                                    *)

(* The words of an entry, as they are published.                           *)
Words(k) == [seq |-> 0, entry |-> k]

Unspoken(k) ==
  \/ router.entry < k
  \/ router.entry = k /\ router.at \in {"start", "push"}

(* A row of the log that is written after the words were published.        *)
Tells(row, k) == row \in {Row("checkpoint", k), Row("complete", k)}

(* Before that, nobody has anything of the entry.                          *)
Silent(k) ==
  Unspoken(k) =>
    /\ k \notin buffered /\ \A t \in Thread : hand[t] # k
    /\ \A i \in DOMAIN log : ~ Tells(log[i], k)
    /\ \A j \in DOMAIN channel : channel[j] # Words(k)
    /\ Fresh(page, k)

(* Words that are still to be heard: they come once, before everything     *)
(* that was published after them, and nothing of the entry is on the page, *)
(* unless the replay of their checkpoint has seen to it that they are      *)
(* dropped.                                                                *)
Ahead(k) ==
  \A j \in DOMAIN channel : channel[j] = Words(k) =>
    /\ \A i \in DOMAIN log : Tells(log[i], k) =>
         /\ \A h \in 1..(j - 1) : channel[h].seq < i
         /\ i <= cur /\ log[i].type = "checkpoint" => k \in covered
    /\ \A h \in DOMAIN channel : channel[h] = Words(k) => h = j
    /\ k \in covered \/ SavedLate(k) \/ Fresh(page, k)

Shows(k) == SavedLate(k) \/ Fine(page, k)

Subscribed == conn \in {"subscribed", "redis"} \/ channel = <<>>

EntryInv(k) == Silent(k) /\ Ahead(k) /\ Shows(k)

PanelInv == TypeInv /\ Subscribed /\ \A k \in Role : EntryInv(k)

LEMMA LateStaysLate ==
  ASSUME TypeInv, NEW k \in Role
  PROVE  /\ log' = log => (SavedLate(k) <=> SavedLate(k)')
         /\ Grows => (SavedLate(k) => SavedLate(k)')
<1>1. log' = log => (SavedLate(k) <=> SavedLate(k)')
  BY DEF SavedLate
<1>2. ASSUME Grows, SavedLate(k)
      PROVE  SavedLate(k)'
  <2>1. PICK i \in DOMAIN log : /\ log[i] = Row("complete", k)
                               /\ Row("checkpoint", k) \notin {log[j] : j \in 1..i}
    BY <1>2 DEF SavedLate
  <2>2. i \in DOMAIN log' /\ log'[i] = log[i] /\ \A j \in 1..i : log'[j] = log[j]
    BY <1>2, GrowsFacts
  <2>3. QED
    BY <2>1, <2>2 DEF SavedLate
<1>3. QED
  BY <1>1, <1>2

LEMMA RowsDiffer ==
  \A k, e : /\ Row("checkpoint", k).type = "checkpoint" /\ Row("checkpoint", k).entry = k
           /\ Row("complete", k).type = "complete" /\ Row("complete", k).entry = k
           /\ ~ Tells(Row("start", e), k) /\ ~ Tells(Row("done", e), k)
           /\ (Tells(Row("checkpoint", e), k) => e = k)
           /\ (Tells(Row("complete", e), k) => e = k)
BY DEF Row, Tells

(* The worker goes on: what is new in the log tells nothing of an entry    *)
(* whose words have not been published.                                    *)
LEMMA WorkerKeepsSilence ==
  ASSUME TypeInv, NEW k \in Role, Silent(k), Unspoken(k)',
         BeginEntry \/ PushBuffer \/ FlushEntry \/ EndEntry \/ Tick
           \/ \E t \in Thread : SaveCheckpoint(t)
  PROVE  /\ Unspoken(k)
         /\ k \notin buffered' /\ \A t \in Thread : hand'[t] # k
         /\ log' = log \/ \E row : log' = Append(log, row) /\ ~ Tells(row, k)
<1>0. /\ router \in [entry : Entry, at : {"start", "push", "buffer", "flush", "end", "over"}]
      /\ hand \in [Thread -> Entry \cup {0}] /\ router.entry \in Nat /\ k \in Nat \ {0}
      /\ "router" \in Thread /\ "ticker" \in Thread
  BY Numbers DEF TypeInv, WorkerTyped, Thread
<1>1. CASE BeginEntry
  <2>1. router' = [router EXCEPT !.at = "push"] /\ UNCHANGED <<buffered, hand>> /\ router.at = "start"
    BY <1>1 DEF BeginEntry
  <2>2. Unspoken(k)
    BY <1>0, <2>1 DEF Unspoken
  <2>3. log' = log \/ log' = Append(log, Row("start", router.entry))
    BY <1>1 DEF BeginEntry, Commit
  <2>4. QED
    BY <2>1, <2>2, <2>3, RowsDiffer DEF Silent
<1>2. CASE PushBuffer
  <2>1. /\ router.at = "buffer" /\ router' = [router EXCEPT !.at = "flush"] /\ log' = log
        /\ \/ Drain("router", router.entry)
           \/ buffered' = buffered \cup {router.entry} /\ UNCHANGED hand
    BY <1>2 DEF PushBuffer
  <2>2. Unspoken(k) /\ router.entry # k
    BY <1>0, <2>1 DEF Unspoken
  <2>3. QED
    BY <1>0, <2>1, <2>2 DEF Silent, Drain
<1>3. CASE FlushEntry
  <2>1. /\ router.at = "flush" /\ router' = [router EXCEPT !.at = "end"] /\ log' = log
        /\ Drain("router", router.entry) \/ UNCHANGED <<buffered, hand>>
    BY <1>3 DEF FlushEntry
  <2>2. Unspoken(k) /\ router.entry # k
    BY <1>0, <2>1 DEF Unspoken
  <2>3. QED
    BY <1>0, <2>1, <2>2 DEF Silent, Drain
<1>4. CASE EndEntry
  <2>1. /\ router.at = "end" /\ UNCHANGED <<buffered, hand>>
        /\ \/ /\ log' = Append(log, Row("done", Answer))
              /\ router' = [router EXCEPT !.at = "over"]
           \/ /\ log' = Append(log, Row("complete", router.entry))
              /\ router' = [entry |-> router.entry + 1, at |-> "start"]
    BY <1>4 DEF EndEntry, Commit
  <2>2. Unspoken(k) /\ router.entry # k
    BY <1>0, <2>1 DEF Unspoken
  <2>3. QED
    BY <2>1, <2>2, RowsDiffer DEF Silent
<1>5. CASE Tick
  <2>1. router' = router /\ log' = log /\ \E e \in buffered : Drain("ticker", e)
    BY <1>5 DEF Tick
  <2>2. Unspoken(k)
    BY <2>1 DEF Unspoken
  <2>3. QED
    BY <1>0, <2>1, <2>2 DEF Silent, Drain
<1>6. ASSUME NEW t \in Thread, SaveCheckpoint(t)
      PROVE  /\ Unspoken(k)
             /\ k \notin buffered' /\ \A u \in Thread : hand'[u] # k
             /\ log' = log \/ \E row : log' = Append(log, row) /\ ~ Tells(row, k)
  <2>1. /\ router' = router /\ buffered' = buffered /\ hand' = [hand EXCEPT ![t] = 0]
        /\ log' = log \/ log' = Append(log, Row("checkpoint", hand[t]))
    BY <1>6 DEF SaveCheckpoint, Commit
  <2>2. Unspoken(k)
    BY <2>1 DEF Unspoken
  <2>3. hand[t] # k
    BY <2>2 DEF Silent
  <2>4. QED
    BY <1>0, <2>1, <2>2, <2>3, RowsDiffer DEF Silent
<1>7. QED
  BY <1>1, <1>2, <1>3, <1>4, <1>5, <1>6

LEMMA WorkerEntry ==
  ASSUME PanelInv, WorkerStep, NEW k \in Role
  PROVE  EntryInv(k)'
<1>0. TypeInv /\ EntryInv(k) /\ Len(log) \in Nat /\ DOMAIN log = 1..Len(log)
  BY Bounds DEF PanelInv
<1>1. Grows /\ UNCHANGED <<channel, cur, covered, page>>
  BY <1>0, WorkerStepTyped DEF WorkerStep, streamVars
<1>2. /\ \A i \in DOMAIN log : log'[i] = log[i] /\ i \in DOMAIN log'
      /\ DOMAIN log' = 1..Len(log') /\ (SavedLate(k) => SavedLate(k)')
      /\ Len(log') \in Nat
  BY <1>0, <1>1, GrowsFacts, LateStaysLate
<1>3. Shows(k)'
  BY <1>0, <1>1, <1>2 DEF EntryInv, Shows
<1>4. Silent(k)'
  <2> SUFFICES ASSUME Unspoken(k)'
               PROVE  /\ k \notin buffered' /\ \A t \in Thread : hand'[t] # k
                      /\ \A i \in DOMAIN log' : ~ Tells(log'[i], k)
                      /\ \A j \in DOMAIN channel' : channel'[j] # Words(k)
                      /\ Fresh(page', k)
    BY DEF Silent
  <2>1. /\ Unspoken(k) /\ k \notin buffered' /\ \A t \in Thread : hand'[t] # k
        /\ log' = log \/ \E row : log' = Append(log, row) /\ ~ Tells(row, k)
    BY <1>0, WorkerKeepsSilence DEF WorkerStep, EntryInv
  <2>2. /\ \A i \in DOMAIN log : ~ Tells(log[i], k)
        /\ \A j \in DOMAIN channel : channel[j] # Words(k)
        /\ Fresh(page, k)
    BY <1>0, <2>1 DEF EntryInv, Silent
  <2>3. \A i \in DOMAIN log' : ~ Tells(log'[i], k)
    <3>1. log \in Seq(Event)
      BY <1>0 DEF TypeInv, WorkerTyped
    <3>2. ASSUME NEW row, log' = Append(log, row), ~ Tells(row, k)
          PROVE  \A i \in DOMAIN log' : ~ Tells(log'[i], k)
      <4>1. /\ DOMAIN log' = 1..(Len(log) + 1) /\ log'[Len(log) + 1] = row
            /\ \A i \in 1..Len(log) : log'[i] = log[i]
        BY <3>1, <3>2
      <4>2. QED
        BY <1>0, <2>2, <3>2, <4>1
    <3>3. QED
      BY <2>1, <2>2, <3>2
  <2>4. QED
    BY <1>1, <2>1, <2>2, <2>3
<1>5. Ahead(k)'
  <2> SUFFICES ASSUME NEW j \in DOMAIN channel, channel[j] = Words(k)
               PROVE  /\ \A i \in DOMAIN log' : Tells(log'[i], k) =>
                           /\ \A h \in 1..(j - 1) : channel[h].seq < i
                           /\ i <= cur /\ log'[i].type = "checkpoint" => k \in covered
                      /\ \A h \in DOMAIN channel : channel[h] = Words(k) => h = j
                      /\ k \in covered \/ SavedLate(k)' \/ Fresh(page, k)
    BY <1>1 DEF Ahead
  <2>1. /\ \A i \in DOMAIN log : Tells(log[i], k) =>
             /\ \A h \in 1..(j - 1) : channel[h].seq < i
             /\ i <= cur /\ log[i].type = "checkpoint" => k \in covered
        /\ \A h \in DOMAIN channel : channel[h] = Words(k) => h = j
        /\ k \in covered \/ SavedLate(k) \/ Fresh(page, k)
    BY <1>0 DEF EntryInv, Ahead
  <2>2. ASSUME NEW i \in DOMAIN log', i \notin DOMAIN log
        PROVE  (\A h \in 1..(j - 1) : channel[h].seq < i) /\ ~ (i <= cur)
    <3>1. i > Len(log) /\ i \in Nat
      BY <1>0, <1>2, <2>2
    <3>2. cur <= Len(log) /\ cur \in Nat
      BY <1>0, Bounds
    <3>3. \A h \in 1..(j - 1) : channel[h].seq \in Nat /\ channel[h].seq <= Len(log)
      <4>1. channel \in Seq(Message) /\ Published(channel, Len(log))
        BY <1>0 DEF TypeInv, Numbered
      <4>2. \A h \in 1..(j - 1) : h \in DOMAIN channel /\ channel[h] \in Message
        BY <4>1
      <4>3. QED
        BY <4>1, <4>2 DEF Published, Message
    <3>4. QED
      BY <1>0, <3>1, <3>2, <3>3
  <2>3. QED
    BY <1>2, <2>1, <2>2
<1>6. QED
  BY <1>3, <1>4, <1>5 DEF EntryInv

LEMMA BroadcastEntry ==
  ASSUME PanelInv, Broadcast, NEW k \in Role
  PROVE  EntryInv(k)'
<1>0. /\ TypeInv /\ EntryInv(k) /\ log' = log /\ (SavedLate(k) <=> SavedLate(k)')
      /\ channel \in Seq(Message) /\ Len(channel) \in Nat /\ DOMAIN channel = 1..Len(channel)
  BY BroadcastHeard, LateStaysLate DEF PanelInv, TypeInv, Numbered
<1>1. UNCHANGED <<buffered, hand, cur, covered, page>>
  BY <1>0, BroadcastHeard DEF Broadcast
<1>2. PICK m \in Message :
        /\ m.seq <= Len(log) /\ Heard(m)
        /\ \/ m.seq # 0 /\ router' = router
           \/ m = [seq |-> 0, entry |-> router.entry] /\ Push
  BY <1>0, BroadcastHeard
<1>3. channel' = channel \/ channel' = Append(channel, m)
  BY <1>2 DEF Heard
<1>4. /\ DOMAIN Append(channel, m) = 1..(Len(channel) + 1)
      /\ \A j \in DOMAIN channel : Append(channel, m)[j] = channel[j]
      /\ Append(channel, m)[Len(channel) + 1] = m
  BY <1>0, AppendFacts
<1>5. Shows(k)'
  BY <1>0, <1>1 DEF EntryInv, Shows
(* Either the words of this entry are published, and nobody had them, or   *)
(* what is published is not this.                                          *)
<1>6. \/ m = Words(k) /\ Unspoken(k) /\ ~ Unspoken(k)'
      \/ m # Words(k) /\ (Unspoken(k)' => Unspoken(k))
  <2>1. CASE m.seq # 0 /\ router' = router
    BY <2>1 DEF Words, Unspoken
  <2>2. CASE m = [seq |-> 0, entry |-> router.entry] /\ Push
    <3>1. /\ router.at = "push" /\ router' = [router EXCEPT !.at = "buffer"]
          /\ router.entry \in Nat /\ k \in Nat
          /\ router \in [entry : Entry, at : {"start", "push", "buffer", "flush", "end", "over"}]
      BY <1>0, <2>2, Numbers DEF Push, TypeInv, WorkerTyped
    <3>2. router'.entry = router.entry /\ router'.at = "buffer"
      BY <3>1
    <3>3. m.entry = router.entry /\ m.seq = 0
      BY <2>2
    <3>4. QED
      BY <2>2, <3>1, <3>2, <3>3 DEF Words, Unspoken
  <2>3. QED
    BY <1>2, <2>1, <2>2
<1>7. Silent(k)'
  <2> SUFFICES ASSUME Unspoken(k)'
               PROVE  /\ k \notin buffered' /\ \A t \in Thread : hand'[t] # k
                      /\ \A i \in DOMAIN log' : ~ Tells(log'[i], k)
                      /\ \A j \in DOMAIN channel' : channel'[j] # Words(k)
                      /\ Fresh(page', k)
    BY DEF Silent
  <2>1. Unspoken(k) /\ m # Words(k)
    BY <1>6
  <2>2. /\ k \notin buffered /\ \A t \in Thread : hand[t] # k
        /\ \A i \in DOMAIN log : ~ Tells(log[i], k)
        /\ \A j \in DOMAIN channel : channel[j] # Words(k)
        /\ Fresh(page, k)
    BY <1>0, <2>1 DEF EntryInv, Silent
  <2>3. \A j \in DOMAIN channel' : channel'[j] # Words(k)
    BY <1>0, <1>3, <1>4, <2>1, <2>2
  <2>4. QED
    BY <1>0, <1>1, <2>2, <2>3
<1>8. Ahead(k)'
  <2> SUFFICES ASSUME NEW j \in DOMAIN channel', channel'[j] = Words(k)
               PROVE  /\ \A i \in DOMAIN log : Tells(log[i], k) =>
                           /\ \A h \in 1..(j - 1) : channel'[h].seq < i
                           /\ i <= cur /\ log[i].type = "checkpoint" => k \in covered
                      /\ \A h \in DOMAIN channel' : channel'[h] = Words(k) => h = j
                      /\ k \in covered \/ SavedLate(k) \/ Fresh(page, k)
    BY <1>0, <1>1 DEF Ahead
  <2>1. CASE channel' = channel
    BY <1>0, <2>1 DEF EntryInv, Ahead
  <2>2. CASE channel' = Append(channel, m) /\ m = Words(k)
    <3>1. /\ \A i \in DOMAIN log : ~ Tells(log[i], k)
          /\ \A h \in DOMAIN channel : channel[h] # Words(k)
          /\ Fresh(page, k)
      BY <1>0, <1>6, <2>2 DEF EntryInv, Silent
    <3>2. \A h \in DOMAIN channel' : channel'[h] = Words(k) => h = Len(channel) + 1
      BY <1>0, <1>4, <2>2, <3>1
    <3>3. QED
      BY <3>1, <3>2
  <2>3. CASE channel' = Append(channel, m) /\ m # Words(k)
    <3>1. j \in DOMAIN channel /\ channel[j] = Words(k)
      BY <1>0, <1>4, <2>3
    <3>2. \A h \in 1..(j - 1) : channel'[h] = channel[h]
      BY <1>0, <1>4, <2>3, <3>1
    <3>3. \A h \in DOMAIN channel' : channel'[h] = Words(k) => h \in DOMAIN channel /\ channel[h] = Words(k)
      BY <1>0, <1>4, <2>3
    <3>4. QED
      BY <1>0, <3>1, <3>2, <3>3 DEF EntryInv, Ahead
  <2>4. QED
    BY <1>3, <2>1, <2>2, <2>3
<1>9. QED
  BY <1>5, <1>7, <1>8 DEF EntryInv

(* The worker rests, and no words of the entry are left to be heard: what  *)
(* remains is what the step does to the page.                              *)
LEMMA PageEntry ==
  ASSUME PanelInv, NEW k \in Role, UNCHANGED <<log, router, buffered, hand>>,
         \A j \in DOMAIN channel' : channel'[j] # Words(k),
         Fine(page, k) => Fine(page', k),
         Fresh(page, k) /\ (\A i \in DOMAIN log : ~ Tells(log[i], k)) => Fresh(page', k)
  PROVE  EntryInv(k)'
<1>0. TypeInv /\ EntryInv(k) /\ (SavedLate(k) <=> SavedLate(k)')
  BY LateStaysLate DEF PanelInv
<1>1. Shows(k)'
  BY <1>0 DEF EntryInv, Shows
<1>2. Silent(k)'
  BY <1>0 DEF EntryInv, Silent, Unspoken
<1>3. Ahead(k)'
  BY DEF Ahead
<1>4. QED
  BY <1>1, <1>2, <1>3 DEF EntryInv

LEMMA ReceivedEntry ==
  ASSUME TypeInv, NEW i \in 1..Len(log), Receive(i), NEW k \in Role
  PROVE  /\ Fine(page, k) => Fine(page', k)
         /\ Fresh(page, k) /\ ~ Tells(log[i], k) => Fresh(page', k)
BY Bounds, DispatchedPage DEF Receive, Tells, TypeInv, StreamTyped

LEMMA EmptyChannel ==
  ASSUME channel = <<>>, NEW k
  PROVE  \A j \in DOMAIN channel : channel[j] # Words(k)
OBVIOUS

LEMMA SendRowEntry ==
  ASSUME PanelInv, SendRow, NEW k \in Role
  PROVE  EntryInv(k)'
<1>0. TypeInv /\ EntryInv(k) /\ Len(log) \in Nat /\ DOMAIN log = 1..Len(log) /\ cur \in Nat
  BY Bounds DEF PanelInv
<1>1. cur + 1 \in 1..Len(log) /\ Deliver(cur + 1, channel) /\ cur + 1 \in DOMAIN log
  BY <1>0, SendRowDelivers
<1>2. Receive(cur + 1) /\ UNCHANGED <<log, router, buffered, hand>>
  BY <1>1 DEF Deliver, workerVars
<1>3. /\ Fine(page, k) => Fine(page', k)
      /\ Fresh(page, k) /\ ~ Tells(log[cur + 1], k) => Fresh(page', k)
  BY <1>0, <1>1, <1>2, ReceivedEntry
<1>4. CASE log[cur + 1].type = "done"
  <2>1. channel' = <<>>
    BY <1>1, <1>4 DEF Deliver, NoStream
  <2>2. QED
    BY <1>1, <1>2, <1>3, <2>1, PageEntry
<1>5. CASE log[cur + 1].type # "done"
  <2>1. channel' = channel /\ Sent(cur + 1)
    BY <1>1, <1>5 DEF Deliver
  <2>2. /\ cur' = cur + 1
        /\ covered' = IF log[cur + 1].type = "checkpoint"
                      THEN covered \cup {log[cur + 1].entry} ELSE covered
    BY <2>1 DEF Sent
  <2>3. SavedLate(k) <=> SavedLate(k)'
    BY <1>0, <1>2, LateStaysLate
  <2>4. Shows(k)'
    BY <1>0, <1>3, <2>3 DEF EntryInv, Shows
  <2>5. Silent(k)'
    BY <1>0, <1>1, <1>2, <1>3, <2>1 DEF EntryInv, Silent, Unspoken
  <2>6. Ahead(k)'
    <3> SUFFICES ASSUME NEW j \in DOMAIN channel, channel[j] = Words(k)
                 PROVE  /\ \A i \in DOMAIN log : Tells(log[i], k) =>
                             /\ \A h \in 1..(j - 1) : channel[h].seq < i
                             /\ i <= cur' /\ log[i].type = "checkpoint" => k \in covered'
                        /\ \A h \in DOMAIN channel : channel[h] = Words(k) => h = j
                        /\ k \in covered' \/ SavedLate(k)' \/ Fresh(page', k)
      BY <1>2, <2>1 DEF Ahead
    <3>1. /\ \A i \in DOMAIN log : Tells(log[i], k) =>
               /\ \A h \in 1..(j - 1) : channel[h].seq < i
               /\ i <= cur /\ log[i].type = "checkpoint" => k \in covered
          /\ \A h \in DOMAIN channel : channel[h] = Words(k) => h = j
          /\ k \in covered \/ SavedLate(k) \/ Fresh(page, k)
      BY <1>0 DEF EntryInv, Ahead
    <3>2. covered \subseteq covered'
      BY <2>2
    <3>3. Tells(log[cur + 1], k) /\ log[cur + 1].type = "checkpoint" => k \in covered'
      BY <2>2, RowsDiffer DEF Tells
    <3>4. ASSUME NEW i \in DOMAIN log, Tells(log[i], k), i <= cur', log[i].type = "checkpoint"
          PROVE  k \in covered'
      <4>1. i <= cur \/ i = cur + 1
        BY <1>0, <2>2, <3>4
      <4>2. QED
        BY <3>1, <3>2, <3>3, <3>4, <4>1
    <3>5. k \in covered' \/ SavedLate(k)' \/ Fresh(page', k)
      <4>1. CASE ~ Tells(log[cur + 1], k)
        BY <1>3, <2>3, <3>1, <3>2, <4>1
      <4>2. CASE log[cur + 1] = Row("checkpoint", k)
        BY <3>3, <4>2, RowsDiffer DEF Tells
      <4>3. CASE log[cur + 1] = Row("complete", k)
        <5>1. SUFFICES ASSUME ~ SavedLate(k) PROVE k \in covered
          BY <2>3, <3>2
        <5>2. PICK i \in 1..(cur + 1) : log[i] = Row("checkpoint", k)
          BY <1>1, <4>3, <5>1 DEF SavedLate
        <5>3. i # cur + 1
          BY <4>3, <5>2, RowsDiffer
        <5>4. i \in DOMAIN log /\ i <= cur
          BY <1>0, <1>1, <5>3
        <5>5. QED
          BY <3>1, <5>2, <5>4, RowsDiffer DEF Tells
      <4>4. QED
        BY <4>1, <4>2, <4>3 DEF Tells
    <3>6. QED
      BY <3>1, <3>4, <3>5
  <2>7. QED
    BY <2>4, <2>5, <2>6 DEF EntryInv
<1>6. QED
  BY <1>4, <1>5

(* The head of the channel is gone.                                        *)
LEMMA TailMessages ==
  ASSUME channel \in Seq(Message), channel # <<>>
  PROVE  /\ 1 \in DOMAIN channel /\ Len(channel) \in Nat /\ DOMAIN channel = 1..Len(channel)
         /\ \A j \in DOMAIN Tail(channel) :
              /\ j \in Nat \ {0} /\ j + 1 \in DOMAIN channel
              /\ Tail(channel)[j] = channel[j + 1] /\ 1 \in 1..j
         /\ \A j \in DOMAIN Tail(channel) : \A h \in 1..(j - 1) :
              Tail(channel)[h] = channel[h + 1] /\ h + 1 \in 1..j
BY TailFacts

LEMMA ForwardEntry ==
  ASSUME PanelInv, Forward, NEW k \in Role
  PROVE  EntryInv(k)'
<1> DEFINE news == Head(channel)
<1>0. /\ TypeInv /\ EntryInv(k) /\ Len(log) \in Nat /\ DOMAIN log = 1..Len(log)
      /\ cur \in Nat /\ page \in Page
  BY Bounds DEF PanelInv, TypeInv, StreamTyped
<1>1. /\ channel \in Seq(Message) /\ channel # <<>> /\ news \in Message
      /\ news = channel[1] /\ news.seq \in Nat
      /\ 1 \in DOMAIN channel
  BY <1>0, ForwardDelivers, TailMessages
<1>2. /\ UNCHANGED <<log, router, buffered, hand>>
      /\ channel' = Tail(channel) \/ channel' = <<>>
      /\ Fine(page, k) /\ (news.seq = 0 /\ news.entry = k /\ Forwarded(news) => Fresh(page, k))
           => Fine(page', k)
      /\ Fresh(page, k) /\ news # Words(k)
           /\ (news.seq \in DOMAIN log => ~ Tells(log[news.seq], k)) => Fresh(page', k)
  <2>1. CASE news.seq > cur
    <3>1. news.seq \in 1..Len(log) /\ Deliver(news.seq, Tail(channel))
      BY <1>0, <2>1, ForwardDelivers
    <3>2. /\ Receive(news.seq) /\ UNCHANGED <<log, router, buffered, hand>>
          /\ channel' = Tail(channel) \/ channel' = <<>>
      BY <3>1 DEF Deliver, NoStream, workerVars
    <3>3. QED
      BY <1>0, <3>1, <3>2, ReceivedEntry
  <2>2. CASE ~ (news.seq > cur)
    <3>1. /\ channel' = Tail(channel) /\ UNCHANGED <<log, router, buffered, hand>>
          /\ \/ /\ page' = TextDelta(page, news.entry) /\ news.seq = 0 /\ Forwarded(news)
             \/ page' = page
      BY <1>0, <2>2, ForwardDelivers DEF workerVars
    <3>2. news.entry \in Entry /\ (news.seq = 0 /\ news.entry = k => news = Words(k))
      BY <1>1 DEF Message, Words
    <3>3. QED
      BY <1>0, <3>1, <3>2, SpokenPage, KeptEntry
  <2>3. QED
    BY <2>1, <2>2
<1>3. SavedLate(k) <=> SavedLate(k)'
  BY <1>0, <1>2, LateStaysLate
<1>4. /\ \A j \in DOMAIN Tail(channel) :
           /\ j \in Nat \ {0} /\ j + 1 \in DOMAIN channel
           /\ Tail(channel)[j] = channel[j + 1] /\ 1 \in 1..j
      /\ \A j \in DOMAIN Tail(channel) : \A h \in 1..(j - 1) :
           Tail(channel)[h] = channel[h + 1] /\ h + 1 \in 1..j
  BY <1>1, TailMessages
<1>5. (\A j \in DOMAIN Tail(channel) : Tail(channel)[j] # Words(k)) =>
        \A j \in DOMAIN channel' : channel'[j] # Words(k)
  <2>1. channel' = Tail(channel) \/ channel' = <<>>
    BY <1>2
  <2>2. CASE channel' = Tail(channel)
    BY <2>2
  <2>3. CASE channel' = <<>>
    BY <2>3
  <2>4. QED
    BY <2>1, <2>2, <2>3
<1>6. CASE news = Words(k)
  <2>1. news.seq = 0 /\ news.entry = k /\ ~ Unspoken(k)
    BY <1>0, <1>1, <1>6 DEF EntryInv, Silent, Words
  <2>2. k \in covered \/ SavedLate(k) \/ Fresh(page, k)
    BY <1>0, <1>1, <1>6 DEF EntryInv, Ahead
  <2>3. Forwarded(news) => k \notin covered
    BY <2>1 DEF Forwarded
  <2>4. Shows(k)'
    BY <1>0, <1>2, <1>3, <2>1, <2>2, <2>3 DEF EntryInv, Shows
  <2>5. \A j \in DOMAIN channel' : channel'[j] # Words(k)
    <3>1. \A h \in DOMAIN channel : channel[h] = Words(k) => h = 1
      BY <1>0, <1>1, <1>6 DEF EntryInv, Ahead
    <3>2. ASSUME NEW j \in DOMAIN Tail(channel), Tail(channel)[j] = Words(k)
          PROVE  FALSE
      <4>1. j + 1 = 1 /\ j \in Nat \ {0}
        BY <1>4, <3>1, <3>2
      <4>2. QED
        BY <4>1
    <3>3. \A j \in DOMAIN Tail(channel) : Tail(channel)[j] # Words(k)
      BY <3>2
    <3>4. QED
      BY <1>5, <3>3
  <2>6. Silent(k)'
    BY <1>2, <2>1 DEF Silent, Unspoken
  <2>7. Ahead(k)'
    BY <2>5 DEF Ahead
  <2>8. QED
    BY <2>4, <2>6, <2>7 DEF EntryInv
<1>7. CASE news # Words(k)
  <2>1. Shows(k)'
    <3>1. news.seq = 0 /\ news.entry = k => news = Words(k)
      BY <1>1 DEF Message, Words
    <3>2. QED
      BY <1>0, <1>2, <1>3, <1>7, <3>1 DEF EntryInv, Shows
  <2>2. Silent(k)'
    <3> SUFFICES ASSUME Unspoken(k)
                 PROVE  /\ k \notin buffered /\ \A t \in Thread : hand[t] # k
                        /\ \A i \in DOMAIN log : ~ Tells(log[i], k)
                        /\ \A j \in DOMAIN channel' : channel'[j] # Words(k)
                        /\ Fresh(page', k)
      BY <1>2 DEF Silent, Unspoken
    <3>1. /\ k \notin buffered /\ \A t \in Thread : hand[t] # k
          /\ \A i \in DOMAIN log : ~ Tells(log[i], k)
          /\ \A j \in DOMAIN channel : channel[j] # Words(k)
          /\ Fresh(page, k)
      BY <1>0 DEF EntryInv, Silent
    <3>2. \A j \in DOMAIN Tail(channel) : Tail(channel)[j] # Words(k)
      BY <1>4, <3>1
    <3>3. \A j \in DOMAIN channel' : channel'[j] # Words(k)
      BY <1>5, <3>2
    <3>4. QED
      BY <1>2, <1>7, <3>1, <3>3
  <2>3. CASE channel' = <<>>
    <3>1. Ahead(k)'
      BY <2>3 DEF Ahead
    <3>2. QED
      BY <2>1, <2>2, <3>1 DEF EntryInv
  <2>4. CASE channel' = Tail(channel)
    <3>1. Ahead(k)'
      <4> SUFFICES ASSUME NEW j \in DOMAIN Tail(channel), Tail(channel)[j] = Words(k)
                   PROVE  /\ \A i \in DOMAIN log : Tells(log[i], k) =>
                               /\ \A h \in 1..(j - 1) : Tail(channel)[h].seq < i
                               /\ i <= cur' /\ log[i].type = "checkpoint" => k \in covered'
                          /\ \A h \in DOMAIN Tail(channel) : Tail(channel)[h] = Words(k) => h = j
                          /\ k \in covered' \/ SavedLate(k)' \/ Fresh(page', k)
        BY <1>2, <2>4 DEF Ahead
      <4>1. /\ j + 1 \in DOMAIN channel /\ channel[j + 1] = Words(k)
            /\ j \in Nat \ {0} /\ (j + 1) - 1 = j /\ 1 \in 1..j
        BY <1>4
      <4>2. /\ \A i \in DOMAIN log : Tells(log[i], k) =>
                 /\ \A h \in 1..j : channel[h].seq < i
                 /\ i <= cur /\ log[i].type = "checkpoint" => k \in covered
            /\ \A h \in DOMAIN channel : channel[h] = Words(k) => h = j + 1
            /\ k \in covered \/ SavedLate(k) \/ Fresh(page, k)
        BY <1>0, <4>1 DEF EntryInv, Ahead
      <4>3. \A i \in DOMAIN log : Tells(log[i], k) => news.seq < i
        BY <1>1, <4>1, <4>2
      <4>4. \A i \in DOMAIN log : Tells(log[i], k) =>
              \A h \in 1..(j - 1) : Tail(channel)[h].seq < i
        BY <1>4, <4>2
      <4>5. \A h \in DOMAIN Tail(channel) : Tail(channel)[h] = Words(k) => h = j
        <5>1. ASSUME NEW h \in DOMAIN Tail(channel), Tail(channel)[h] = Words(k)
              PROVE  h = j
          <6>1. h \in Nat /\ h + 1 = j + 1
            BY <1>4, <4>2, <5>1
          <6>2. QED
            BY <4>1, <6>1
        <5>2. QED
          BY <5>1
      <4>6. /\ cur' = cur \/ cur' = news.seq
            /\ covered \subseteq covered'
        <5>1. CASE news.seq > cur
          <6>1. Deliver(news.seq, Tail(channel)) /\ log[news.seq].type # "done"
            <7>1. news.seq \in 1..Len(log) /\ Deliver(news.seq, Tail(channel))
              BY <1>0, <5>1, ForwardDelivers
            <7>2. log[news.seq].type = "done" => channel' = <<>>
              BY <7>1 DEF Deliver, NoStream
            <7>3. DOMAIN Tail(channel) # {}
              OBVIOUS
            <7>4. QED
              BY <2>4, <7>1, <7>2, <7>3
          <6>2. QED
            BY <6>1 DEF Deliver, Sent
        <5>2. CASE ~ (news.seq > cur)
          BY <1>0, <5>2, ForwardDelivers
        <5>3. QED
          BY <5>1, <5>2
      <4>7. ASSUME NEW i \in DOMAIN log, Tells(log[i], k), i <= cur', log[i].type = "checkpoint"
            PROVE  k \in covered'
        <5>1. i \in Nat /\ news.seq < i
          BY <1>0, <4>3, <4>7
        <5>2. cur' = cur
          BY <1>1, <4>6, <4>7, <5>1
        <5>3. QED
          BY <4>2, <4>6, <4>7, <5>2
      <4>8. k \in covered' \/ SavedLate(k)' \/ Fresh(page', k)
        <5>1. news.seq \in DOMAIN log => ~ Tells(log[news.seq], k)
          BY <1>1, <4>3
        <5>2. QED
          BY <1>2, <1>3, <1>7, <4>2, <4>6, <5>1
      <4>9. QED
        BY <4>4, <4>5, <4>7, <4>8
    <3>2. QED
      BY <2>1, <2>2, <3>1 DEF EntryInv
  <2>5. QED
    BY <1>2, <2>3, <2>4
<1>8. QED
  BY <1>6, <1>7

(* Steps that leave no channel, or have none.                              *)
LEMMA QuietEntry ==
  ASSUME PanelInv, NEW k \in Role,
         \/ Connect \/ ReadBacklog \/ SendStop \/ CatchUp
         \/ RedisFails \/ Disconnect \/ CatchUpFails \/ LeaveChat \/ ReturnToChat \/ Reconcile
  PROVE  EntryInv(k)'
<1>0. /\ TypeInv /\ EntryInv(k) /\ page \in Page /\ DOMAIN log = 1..Len(log)
      /\ channel = <<>> \/ conn \in {"subscribed", "redis"}
  BY Bounds DEF PanelInv, Subscribed, TypeInv, StreamTyped
<1>1. CASE ReadBacklog
  <2>1. UNCHANGED <<log, router, buffered, hand, channel, cur, covered, page>>
    BY <1>1 DEF ReadBacklog, workerVars
  <2>2. SavedLate(k) <=> SavedLate(k)'
    BY <1>0, <2>1, LateStaysLate
  <2>3. Silent(k)' /\ Shows(k)'
    BY <1>0, <2>1, <2>2 DEF EntryInv, Silent, Shows, Unspoken
  <2>4. Ahead(k)'
    BY <1>0, <2>1, <2>2 DEF EntryInv, Ahead
  <2>5. QED
    BY <2>3, <2>4 DEF EntryInv
<1>2. CASE Connect \/ RedisFails \/ Disconnect \/ CatchUpFails
  <2>1. UNCHANGED <<log, router, buffered, hand, page>> /\ channel' = <<>>
    BY <1>0, <1>2 DEF Connect, RedisFails, Disconnect, CatchUpFails, NoStream, workerVars, streamVars
  <2>2. QED
    BY <2>1, PageEntry
<1>3. CASE SendStop
  <2>1. /\ Len(log) \in 1..Len(log) /\ Deliver(Len(log), <<>>) /\ channel = <<>>
    BY <1>0, <1>3, SendStopDelivers
  <2>2. /\ Receive(Len(log)) /\ channel' = <<>> /\ UNCHANGED <<log, router, buffered, hand>>
    BY <2>1 DEF Deliver, NoStream, workerVars
  <2>3. QED
    BY <1>0, <2>1, <2>2, ReceivedEntry, PageEntry
<1>4. CASE CatchUp
  <2>1. channel' = <<>> /\ UNCHANGED <<log, router, buffered, hand>>
    BY <1>0, <1>4 DEF CatchUp, streamVars, workerVars
  <2>2. CASE seen = Len(log)
    BY <1>4, <2>1, <2>2, PageEntry DEF CatchUp
  <2>3. CASE seen # Len(log)
    BY <1>0, <1>4, <2>1, <2>3, CatchUpReceives, ReceivedEntry, PageEntry
  <2>4. QED
    BY <2>2, <2>3
<1>5. CASE LeaveChat \/ ReturnToChat
  <2>1. channel' = <<>> /\ UNCHANGED <<log, router, buffered, hand>>
    BY <1>0, <1>5 DEF LeaveChat, ReturnToChat, NoStream, streamVars, workerVars
  <2>2. Kept(page, page', k)
    <3>1. k \in Entry /\ k # Answer
      BY Numbers
    <3>2. CASE LeaveChat
      BY <1>0, <3>2 DEF LeaveChat, Page, Kept, Same
    <3>3. CASE ReturnToChat
      BY <1>0, <3>1, <3>3 DEF ReturnToChat, Page, Kept, Same
    <3>4. QED
      BY <1>5, <3>2, <3>3
  <2>3. QED
    BY <2>1, <2>2, KeptEntry, PageEntry
<1>6. CASE Reconcile
  <2>1. channel' = <<>> /\ UNCHANGED <<log, router, buffered, hand>> /\ page' = FinalPage
    BY <1>0, <1>6 DEF Reconcile, Detached, streamVars, workerVars
  <2>2. QED
    BY <2>1, EmptyPages, PageEntry
<1>7. QED
  BY <1>1, <1>2, <1>3, <1>4, <1>5, <1>6

LEMMA FrameEntry ==
  ASSUME PanelInv, NEW e \in Entry, Frame(e), NEW k \in Role
  PROVE  EntryInv(k)'
<1>0. /\ TypeInv /\ EntryInv(k) /\ page \in Page
      /\ UNCHANGED <<log, router, buffered, hand, channel, cur, covered>>
      /\ page.queue[e] # <<>>
  BY DEF PanelInv, TypeInv, StreamTyped, Frame, workerVars, streamVars
<1>1. PICK n \in 1..Len(page.queue[e]) : page' = RunIn(page, e, n)
  BY <1>0, FrameRunsIn
<1>2. Fine(page, k) => Fine(page', k)
  BY <1>0, <1>1, RunInPage, KeptEntry
<1>3. Fresh(page, k) => Fresh(page', k)
  <2>1. Fresh(page, k) => k # e
    BY <1>0 DEF Fresh
  <2>2. QED
    BY <1>0, <1>1, <2>1, RunInPage, KeptEntry
<1>4. SavedLate(k) <=> SavedLate(k)'
  BY <1>0, LateStaysLate
<1>5. Silent(k)' /\ Shows(k)'
  BY <1>0, <1>2, <1>3, <1>4 DEF EntryInv, Silent, Shows, Unspoken
<1>6. Ahead(k)'
  BY <1>0, <1>3, <1>4 DEF EntryInv, Ahead
<1>7. QED
  BY <1>5, <1>6 DEF EntryInv

LEMMA SubscribedStep ==
  ASSUME PanelInv, Next
  PROVE  Subscribed'
<1>0. TypeInv /\ Subscribed
  BY DEF PanelInv
<1>1. ASSUME NEW i, NEW rest, Deliver(i, rest), rest = <<>> \/ conn \in {"subscribed", "redis"}
      PROVE  Subscribed'
  BY <1>1 DEF Deliver, NoStream, Subscribed
<1>2. CASE WorkerStep
  BY <1>0, <1>2 DEF WorkerStep, streamVars, Subscribed
<1>3. CASE Broadcast
  BY <1>0, <1>3, BroadcastHeard DEF Broadcast, Heard, Subscribed
<1>4. CASE StreamStep
  <2>1. CASE Connect \/ ReadBacklog \/ CatchUp
    BY <1>0, <2>1 DEF Connect, ReadBacklog, CatchUp, streamVars, Subscribed
  <2>2. CASE SendRow
    BY <1>0, <1>1, <2>2, SendRowDelivers DEF Subscribed
  <2>3. CASE Forward
    <3>1. conn = "redis"
      BY <2>3 DEF Forward
    <3>2. QED
      BY <1>0, <1>1, <2>3, <3>1, ForwardDelivers DEF Subscribed
  <2>4. CASE SendStop
    BY <1>0, <1>1, <2>4, SendStopDelivers
  <2>5. QED
    BY <1>4, <2>1, <2>2, <2>3, <2>4 DEF StreamStep
<1>5. ASSUME NEW k \in Entry, Frame(k) PROVE Subscribed'
  BY <1>0, <1>5 DEF Frame, streamVars, Subscribed
<1>6. CASE RedisFails \/ Disconnect \/ CatchUpFails \/ LeaveChat \/ ReturnToChat \/ Reconcile
  BY <1>0, <1>6
     DEF RedisFails, Disconnect, CatchUpFails, LeaveChat, ReturnToChat, Reconcile, Detached,
         NoStream, streamVars, Subscribed
<1>7. QED
  BY <1>2, <1>3, <1>4, <1>5, <1>6 DEF Next

LEMMA PanelStep ==
  ASSUME PanelInv, [Next]_vars
  PROVE  PanelInv'
<1>0. TypeInv /\ TypeInv'
  BY TypeStep DEF PanelInv
<1>1. CASE UNCHANGED vars
  <2>1. UNCHANGED <<log, router, buffered, hand, conn, cur, covered, channel, page>>
    BY <1>1 DEF vars, workerVars, streamVars
  <2>2. Subscribed'
    BY <2>1 DEF PanelInv, Subscribed
  <2>3. ASSUME NEW k \in Role PROVE EntryInv(k)'
    <3>1. SavedLate(k) <=> SavedLate(k)'
      BY <1>0, <2>1, LateStaysLate
    <3>2. Silent(k)' /\ Shows(k)'
      BY <2>1, <3>1 DEF PanelInv, EntryInv, Silent, Shows, Unspoken
    <3>3. Ahead(k)'
      BY <2>1, <3>1 DEF PanelInv, EntryInv, Ahead
    <3>4. QED
      BY <3>2, <3>3 DEF EntryInv
  <2>4. QED
    BY <1>0, <2>2, <2>3 DEF PanelInv
<1>2. CASE Next
  <2>1. Subscribed'
    BY <1>2, SubscribedStep
  <2>2. ASSUME NEW k \in Role PROVE EntryInv(k)'
    BY <1>2, WorkerEntry, BroadcastEntry, SendRowEntry, ForwardEntry, QuietEntry, FrameEntry
       DEF Next, StreamStep
  <2>3. QED
    BY <1>0, <2>1, <2>2 DEF PanelInv
<1>3. QED
  BY <1>1, <1>2

LEMMA PanelInit ==
  ASSUME Init
  PROVE  PanelInv
<1>1. TypeInv
  BY TypeInit
<1>2. log = <<>> /\ channel = <<>> /\ page = OpenPage /\ buffered = {} /\ hand = [t \in Thread |-> 0]
  BY DEF Init
<1>3. ASSUME NEW k \in Role PROVE EntryInv(k)
  <2>1. Fine(page, k) /\ Fresh(page, k) /\ k # 0
    BY <1>2, EmptyPages, Numbers
  <2>2. Silent(k)
    BY <1>2, <2>1 DEF Silent
  <2>3. Ahead(k)
    BY <1>2 DEF Ahead
  <2>4. QED
    BY <2>1, <2>2, <2>3 DEF EntryInv, Shows
<1>4. QED
  BY <1>1, <1>2, <1>3 DEF PanelInv, Subscribed

(* However the words of a role reach the page, live or from a checkpoint,  *)
(* replayed or polled, once or again after a fault, and whatever frames    *)
(* come between, an entry shows a beginning of what was said and, once it  *)
(* is complete, all of it; unless its words were saved after its end.      *)
THEOREM PanelIsRight == Spec => []PanelShowsWhatWasSaid
<1>1. Init => PanelInv
  BY PanelInit
<1>2. PanelInv /\ [Next]_vars => PanelInv'
  BY PanelStep
<1>3. PanelInv => PanelShowsWhatWasSaid
  <2> SUFFICES ASSUME PanelInv, NEW k \in Role, ~ SavedLate(k)
               PROVE  /\ IsPrefix(page.visible[k], Said) /\ IsPrefix(page.panel[k].text, Said)
                      /\ page.panel[k].complete => page.panel[k].text = Said
    BY DEF PanelShowsWhatWasSaid
  <2>1. Fine(page, k) /\ page \in Page
    BY DEF PanelInv, EntryInv, Shows, TypeInv, StreamTyped
  <2>2. page.visible[k] \in Text /\ page.queue[k] \in Text /\ page.panel[k].text \in Text
    BY <2>1, Numbers DEF Page, Panel
  <2>3. QED
    BY <2>1, <2>2, RunsIsPrefix, SaidIsText DEF Fine
<1>4. QED
  BY <1>1, <1>2, <1>3, PTL DEF Spec
=============================================================================
