--------------------------- MODULE UserProxyProofs --------------------------
(***************************************************************************)
(* Proofs about the simulated user's turn, for every cap on tool calls and *)
(* every size of a response: what the run checks on a small instance.      *)
(***************************************************************************)
EXTENDS UserProxy, FiniteSetTheorems, TLAPS

(* A batch is begun below the cap, and a draft is sent back only once: the *)
(* machine is back in _state_decide, or reviews for the first time, only   *)
(* as long as nothing has been sent back.                                  *)
TurnInv ==
  /\ ProxyTypeOK
  /\ at = "tools" => calls < ToolCap
  /\ at \in {"decide", "reply"} => retries = 0
  /\ EveryCallIsAnswered
  /\ SentReplyIsVetted

-----------------------------------------------------------------------------

LEMMA BatchFacts ==
  ASSUME NEW batch \in Batch
  PROVE  /\ Len(batch) \in 0..MaxBatch
         /\ DOMAIN batch = 1..Len(batch)
<1>1. PICK n \in 0..MaxBatch : batch \in [1..n -> BOOLEAN]
  BY DEF Batch
<1>2. Len(batch) = n /\ DOMAIN batch = 1..n
  BY <1>1, ProxyAssumption
<1>3. QED
  BY <1>1, <1>2

LEMMA EmptyBatch == <<>> \in Batch /\ Len(<<>>) = 0
<1>1. 0 \in 0..MaxBatch
  BY ProxyAssumption
<1>2. <<>> \in [1..0 -> BOOLEAN]
  OBVIOUS
<1>3. QED
  BY <1>1, <1>2 DEF Batch

(* No more calls of a batch work than it has.                              *)
LEMMA WorkingCount ==
  ASSUME NEW batch \in Batch
  PROVE  Cardinality(Working(batch)) \in 0..MaxBatch
<1>1. Working(batch) \subseteq 1..Len(batch)
  BY BatchFacts DEF Working
<1>2. IsFiniteSet(1..Len(batch)) /\ Cardinality(1..Len(batch)) = Len(batch)
  <2>1. Len(batch) \in Nat
    BY BatchFacts, ProxyAssumption
  <2>2. 1 \in Int /\ Len(batch) \in Int
    BY <2>1
  <2>3. /\ IsFiniteSet(1..Len(batch))
        /\ Cardinality(1..Len(batch)) = IF 1 > Len(batch) THEN 0 ELSE Len(batch) - 1 + 1
    BY <2>2, FS_Interval, Zenon
  <2>4. QED
    BY <2>1, <2>3
<1>3. /\ IsFiniteSet(Working(batch))
      /\ Cardinality(Working(batch)) <= Len(batch)
  BY <1>1, <1>2, FS_Subset
<1>4. Cardinality(Working(batch)) \in Nat
  BY <1>3, FS_CardinalityType
<1>5. Len(batch) \in Nat /\ Len(batch) <= MaxBatch
  BY BatchFacts, ProxyAssumption
<1>6. QED
  BY <1>3, <1>4, <1>5, ProxyAssumption

(* A review gives a verdict and something that may be said.                *)
LEMMA ReviewFacts ==
  ASSUME NEW words \in Draft, NEW r \in Reviews(words)
  PROVE  r[1] \in Verdict \cup {"none"} /\ r[2] \in Draft
BY DEF Reviews, Parsed, Normalize, Verdict, Sayable, Draft, Words

(* What is said is vetted: the words that pass the host's checks, or the   *)
(* fallback.                                                               *)
LEMMA SaidIsVetted ==
  ASSUME TurnInv, NEW words \in Draft \cup {"fallback"}, Say(words), prior' = prior,
         words = "fallback" \/ review' # "retry_with_tools"
  PROVE  /\ at' \in {"stalled", "done"}
         /\ reply' \in Draft \cup {"fallback"}
         /\ stalled' \in BOOLEAN
         /\ SentReplyIsVetted'
<1>1. CASE words = "empty"
  <2>1. at' = "stalled" /\ stalled' = TRUE /\ reply' = "fallback"
    BY <1>1, Zenon DEF Say, HasIssues
  <2>2. QED
    BY <2>1 DEF SentReplyIsVetted
<1>2. CASE words # "empty"
  <2>1. at' = "done" /\ stalled' = FALSE
    BY <1>2, Zenon DEF Say
  <2>2. reply' = IF HasIssues(words) THEN "fallback" ELSE words
    BY DEF Say
  <2>3. reply' # "fallback" =>
          reply' # "empty" /\ (prior > 1 => reply' \notin {"opener", "last"})
    BY <1>2, <2>2 DEF HasIssues
  <2>4. reply' \in Draft \cup {"fallback"}
    BY <2>2
  <2>5. reply' # "fallback" => review' # "retry_with_tools"
    BY <2>2
  <2>6. reply' # "fallback" /\ prior' > 1 => reply' = "other"
    BY <2>3, <2>4 DEF Draft, Words
  <2>7. QED
    BY <2>1, <2>3, <2>4, <2>5, <2>6 DEF SentReplyIsVetted
<1>3. QED
  BY <1>1, <1>2

-----------------------------------------------------------------------------

LEMMA TurnInvInitially == Init => TurnInv
<1> SUFFICES ASSUME Init PROVE TurnInv
  OBVIOUS
<1>1. ProxyTypeOK
  <2>1. stalled \in BOOLEAN
    BY Zenon DEF Init
  <2>2. 0 \in 0..ToolCap - 1 + MaxBatch /\ 0 \in 0..MaxBatch
    BY ProxyAssumption
  <2>3. QED
    BY <2>1, <2>2, EmptyBatch DEF Init, ProxyTypeOK, Draft
<1>2. EveryCallIsAnswered
  BY EmptyBatch DEF Init, EveryCallIsAnswered
<1>3. SentReplyIsVetted
  BY DEF Init, SentReplyIsVetted
<1>4. QED
  BY <1>1, <1>2, <1>3 DEF Init, TurnInv

LEMMA TurnInvIsKept == TurnInv /\ [Next]_vars => TurnInv'
<1> SUFFICES ASSUME TurnInv, [Next]_vars PROVE TurnInv'
  OBVIOUS
<1> USE ProxyAssumption
<1>1. CASE Decide
  <2>1. PICK batch \in Batch, words \in Sayable :
          /\ Respond(batch, words)
          /\ at' = CASE batch # <<>> /\ calls < ToolCap -> "tools"
                     [] batch = <<>> /\ words = "empty" /\ calls = 0 -> "stalled"
                     [] OTHER -> "reply"
    BY <1>1 DEF Decide
  <2>2. at' \in {"tools", "stalled", "reply"} /\ (at' = "tools" => calls < ToolCap)
    BY <2>1
  <2>3. stalled' \in BOOLEAN /\ (at' = "stalled" => stalled')
    BY <1>1, Zenon DEF Decide
  <2>4. reply' = IF at' = "stalled" THEN "fallback" ELSE reply
    BY <1>1 DEF Decide
  <2>5. SentReplyIsVetted'
    BY <2>2, <2>3, <2>4 DEF SentReplyIsVetted
  <2>6. asked' \in Batch /\ answered' \in 0..MaxBatch /\ draft' \in Draft
    BY <2>1 DEF Respond, Sayable, Draft
  <2>7. QED
    BY <1>1, <2>2, <2>3, <2>4, <2>5, <2>6
       DEF Decide, TurnInv, ProxyTypeOK, EveryCallIsAnswered, Finished
<1>2. CASE DecideAgain
  BY <1>2 DEF DecideAgain, Respond, TurnInv, ProxyTypeOK, EveryCallIsAnswered,
              SentReplyIsVetted, Finished, Draft, Words, Sayable
<1>3. CASE RequestRaises
  BY <1>3 DEF RequestRaises, TurnInv, ProxyTypeOK, EveryCallIsAnswered, SentReplyIsVetted,
              Finished
<1>4. CASE Execute
  <2>1. Cardinality(Working(asked)) \in 0..MaxBatch /\ Len(asked) \in 0..MaxBatch
    BY WorkingCount, BatchFacts DEF TurnInv, ProxyTypeOK
  <2>2. calls' \in 0..ToolCap - 1 + MaxBatch
    BY <1>4, <2>1 DEF Execute, TurnInv, ProxyTypeOK
  <2>3. at' \in {"decide", "retry"} /\ (at' = "decide" => retries' = 0)
    BY <1>4 DEF Execute, AfterTools
  <2>4. QED
    BY <1>4, <2>1, <2>2, <2>3
       DEF Execute, TurnInv, ProxyTypeOK, EveryCallIsAnswered, SentReplyIsVetted
<1>5. CASE Reply
  <2>1. PICK r \in Reviews(draft) :
          /\ review' = r[1]
          /\ IF r[1] = "retry_with_tools"
             THEN /\ at' = "retry" /\ retries' = retries + 1
                  /\ asked' = <<>> /\ answered' = 0 /\ draft' = "empty"
                  /\ UNCHANGED <<reply, stalled>>
             ELSE Say(r[2]) /\ UNCHANGED <<retries, asked, answered, draft>>
    BY <1>5 DEF Reply
  <2>2. r[1] \in Verdict \cup {"none"} /\ r[2] \in Draft
    BY <2>1, ReviewFacts DEF TurnInv, ProxyTypeOK
  <2>3. CASE r[1] = "retry_with_tools"
    BY <1>5, <2>1, <2>2, <2>3, EmptyBatch
       DEF Reply, TurnInv, ProxyTypeOK, EveryCallIsAnswered, SentReplyIsVetted, Draft
  <2>4. CASE r[1] # "retry_with_tools"
    <3>1. Say(r[2]) /\ UNCHANGED <<prior, calls, retries, asked, answered, draft>>
      BY <1>5, <2>1, <2>4 DEF Reply
    <3>2. /\ at' \in {"stalled", "done"} /\ reply' \in Draft \cup {"fallback"}
          /\ stalled' \in BOOLEAN /\ SentReplyIsVetted'
      BY <2>1, <2>2, <2>4, <3>1, SaidIsVetted
    <3>3. QED
      BY <2>1, <2>2, <3>1, <3>2 DEF TurnInv, ProxyTypeOK, EveryCallIsAnswered, Finished
  <2>5. QED
    BY <2>3, <2>4
<1>6. CASE Vet
  <2>1. PICK r \in Reviews(draft) :
          /\ review' = r[1]
          /\ Say(IF r[1] = "retry_with_tools" \/ r[2] = "empty" THEN "fallback" ELSE r[2])
    BY <1>6 DEF Vet
  <2>2. r[1] \in Verdict \cup {"none"} /\ r[2] \in Draft
    BY <2>1, ReviewFacts DEF TurnInv, ProxyTypeOK
  <2>3. UNCHANGED <<prior, calls, asked, answered, retries, draft>>
    BY <1>6 DEF Vet
  <2>4. /\ at' \in {"stalled", "done"} /\ reply' \in Draft \cup {"fallback"}
        /\ stalled' \in BOOLEAN /\ SentReplyIsVetted'
    BY <2>1, <2>2, <2>3, SaidIsVetted
  <2>5. QED
    BY <2>1, <2>2, <2>3, <2>4 DEF TurnInv, ProxyTypeOK, EveryCallIsAnswered, Finished
<1>7. CASE UNCHANGED vars
  BY <1>7 DEF vars, TurnInv, ProxyTypeOK, EveryCallIsAnswered, SentReplyIsVetted
<1>8. QED
  BY <1>1, <1>2, <1>3, <1>4, <1>5, <1>6, <1>7 DEF Next, Step

-----------------------------------------------------------------------------

(* The inductive invariant of a turn of _UserProxyFSM holds in every state. *)
THEOREM TurnInvariant == Spec => []TurnInv
<1>1. QED
  BY TurnInvInitially, TurnInvIsKept, PTL DEF Spec

(* The turn keeps its types: a response's calls may take the count past    *)
(* the cap, but by less than one response (the cap is tested before a      *)
(* batch is run), and no draft is sent back a second time.                 *)
THEOREM ProxyTypeCorrect == Spec => []ProxyTypeOK
<1>1. TurnInv => ProxyTypeOK
  BY DEF TurnInv
<1>2. QED
  BY <1>1, TurnInvariant, PTL

(* Whatever the model asks for and whichever tools fail, it is never asked *)
(* to go on from a response one of whose calls has no output.              *)
THEOREM CallsAreAnswered == Spec => []EveryCallIsAnswered
<1>1. TurnInv => EveryCallIsAnswered
  BY DEF TurnInv
<1>2. QED
  BY <1>1, TurnInvariant, PTL

(* Whatever the model writes and however the reviewer judges it, what      *)
(* leaves the turn has passed the last review and the host's checks, or is *)
(* the fallback.                                                           *)
THEOREM ReplyIsVetted == Spec => []SentReplyIsVetted
<1>1. TurnInv => SentReplyIsVetted
  BY DEF TurnInv
<1>2. QED
  BY <1>1, TurnInvariant, PTL

=============================================================================
