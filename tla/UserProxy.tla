------------------------------ MODULE UserProxy ------------------------------
(***************************************************************************)
(* UserProxyFSM                                                            *)
(* (eval-harness/Back-end/eval_harness/orchestration/user_proxy_fsm.py):   *)
(* one turn of the simulated user.  A model answers with tool calls, which *)
(* run on the clone, or with words, which a reviewer passes, rewrites or   *)
(* sends back once; host-side checks have the last word.  BenchmarkRun     *)
(* sees of this turn whether it ran commands, stalled, raised or spoke.    *)
(*                                                                         *)
(* A reply is told apart by what the checks compare: the opener of the     *)
(* conversation, the user's last message, the fallback, nothing, or else.  *)
(***************************************************************************)
EXTENDS Naturals, Sequences, FiniteSets

CONSTANTS
  ToolCap,    \* max_tool_calls_per_turn
  MaxBatch    \* bound: tool calls of one response

ASSUME ProxyAssumption == ToolCap \in Nat \ {0} /\ MaxBatch \in Nat \ {0}

VARIABLES
  at,         \* the state of the machine
  prior,      \* messages the user has sent before this turn, the opener first
  calls,      \* tool_call_count: the calls that returned a result
  asked,      \* calls of the last response, each TRUE if its tool will work
  answered,   \* outputs collected for them
  retries,    \* corrective_retry_count
  draft,      \* last_assistant_content
  review,     \* the last review's verdict
  reply,      \* final_reply
  stalled

vars == <<at, prior, calls, asked, answered, retries, draft, review, reply,
          stalled>>

Words == {"opener", "last", "other"}
Draft == Words \cup {"empty"}
Verdict == {"accept", "rewrite_text", "retry_with_tools"}
Batch == UNION {[1..n -> BOOLEAN] : n \in 0..MaxBatch}
Finished == {"done", "stalled", "raised"}

ProxyTypeOK ==
  /\ at \in {"decide", "tools", "reply", "retry", "vet"} \cup Finished
  /\ prior \in 1..3
  /\ calls \in 0..ToolCap - 1 + MaxBatch
  /\ asked \in Batch
  /\ answered \in 0..MaxBatch
  /\ retries \in 0..1
  /\ draft \in Draft
  /\ review \in Verdict \cup {"none"}
  /\ reply \in Draft \cup {"fallback"}
  /\ stalled \in BOOLEAN

Init ==
  /\ at = "decide" /\ prior \in 1..3
  /\ calls = 0 /\ asked = <<>> /\ answered = 0 /\ retries = 0
  /\ draft = "empty" /\ review = "none" /\ reply = "empty" /\ stalled = FALSE

-----------------------------------------------------------------------------
(* What the checks may find.                                               *)

(* Before the second turn the opener is also the user's last message.      *)
Sayable == IF prior = 1 THEN Draft \ {"last"} ELSE Draft

(* _check_reply_issues compares once two messages have been sent.          *)
HasIssues(words) == words = "empty" \/ (prior > 1 /\ words \in {"opener", "last"})

(* _normalize_review.                                                      *)
Normalize(verdict, toolsOk, characterOk) ==
  CASE ~ toolsOk -> "retry_with_tools"
    [] toolsOk /\ ~ characterOk /\ verdict = "accept" -> "rewrite_text"
    [] OTHER -> verdict

(* parse_review_payload: whatever the reviewer sends becomes a review, the *)
(* draft its reply where it gives none.                                    *)
Parsed(words) ==
  [verdict: Verdict, toolsOk: BOOLEAN, characterOk: BOOLEAN,
   final: (Sayable \ {"empty"}) \cup {words}]

(* _try_review: no review, or a verdict and a reply.                       *)
Reviews(words) ==
  {<<"none", words>>} \cup
  {<<Normalize(r.verdict, r.toolsOk, r.characterOk), r.final>> : r \in Parsed(words)}

-----------------------------------------------------------------------------
(* The model's response: words and calls in any mix.                       *)

Respond(batch, words) ==
  /\ asked' = batch
  /\ answered' = 0
  /\ draft' = words

(* _state_decide.  The cap is tested before a batch is run, and counts the *)
(* calls that worked.                                                      *)
Decide ==
  /\ at = "decide"
  /\ \E batch \in Batch, words \in Sayable :
       /\ Respond(batch, words)
       /\ at' = CASE batch # <<>> /\ calls < ToolCap -> "tools"
                  [] batch = <<>> /\ words = "empty" /\ calls = 0 -> "stalled"
                  [] OTHER -> "reply"
  /\ stalled' = (at' = "stalled")
  /\ reply' = IF at' = "stalled" THEN "fallback" ELSE reply
  /\ UNCHANGED <<prior, calls, retries, review>>

(* The loop of _run_corrective_retry, its first request included.          *)
DecideAgain ==
  /\ at = "retry"
  /\ \E batch \in Batch, words \in Sayable :
       /\ Respond(batch, words)
       /\ at' = IF batch # <<>> /\ calls < ToolCap THEN "tools" ELSE "vet"
  /\ UNCHANGED <<prior, calls, retries, review, reply, stalled>>

(* A request that raises ends the turn and, in BenchmarkRun, the thread.   *)
RequestRaises ==
  /\ at \in {"decide", "retry"}
  /\ at' = "raised"
  /\ UNCHANGED <<prior, calls, asked, answered, retries, draft, review, reply,
                 stalled>>

-----------------------------------------------------------------------------
(* _state_tool_exec.                                                       *)

Working(batch) == {i \in DOMAIN batch : batch[i]}

(* The batch is through: its outputs go back to the model, which is asked  *)
(* from _state_decide or from the corrective retry.                        *)
AfterTools == IF retries = 0 THEN "decide" ELSE "retry"

(* Faulty: a call of an unknown tool gets no output.                       *)
ExecuteUnanswered ==
  /\ at = "tools"
  /\ calls' = calls + Cardinality(Working(asked))
  /\ answered' = Cardinality(Working(asked))
  /\ at' = AfterTools
  /\ UNCHANGED <<prior, asked, retries, draft, review, reply, stalled>>

(* Faulty: the calls are not counted.                                      *)
ExecuteUncounted ==
  /\ at = "tools"
  /\ answered' = Len(asked)
  /\ at' = AfterTools
  /\ UNCHANGED <<prior, calls, asked, retries, draft, review, reply, stalled>>

Execute ==
  /\ at = "tools"
  /\ calls' = calls + Cardinality(Working(asked))
  /\ answered' = Len(asked)
  /\ at' = AfterTools
  /\ UNCHANGED <<prior, asked, retries, draft, review, reply, stalled>>

-----------------------------------------------------------------------------
(* _state_reply.                                                           *)

(* What is left to say goes through the host's checks; with nothing left   *)
(* to say the turn has stalled.                                            *)
Say(words) ==
  /\ at' = IF words = "empty" THEN "stalled" ELSE "done"
  /\ stalled' = (words = "empty")
  /\ reply' = IF HasIssues(words) THEN "fallback" ELSE words

(* A draft that the reviewer sends back is discarded with its calls.       *)
Reply ==
  /\ at = "reply"
  /\ \E r \in Reviews(draft) :
       /\ review' = r[1]
       /\ IF r[1] = "retry_with_tools"
          THEN /\ at' = "retry"
               /\ retries' = retries + 1
               /\ asked' = <<>> /\ answered' = 0 /\ draft' = "empty"
               /\ UNCHANGED <<reply, stalled>>
          ELSE /\ Say(r[2])
               /\ UNCHANGED <<retries, asked, answered, draft>>
  /\ UNCHANGED <<prior, calls>>

(* Faulty: the reply of the second review is taken whatever its verdict.   *)
VetOnce ==
  /\ at = "vet"
  /\ \E r \in Reviews(draft) :
       /\ review' = r[1]
       /\ Say(IF r[2] = "empty" THEN "fallback" ELSE r[2])
  /\ UNCHANGED <<prior, calls, asked, answered, retries, draft>>

(* The second draft is reviewed once more and never sent back.             *)
Vet ==
  /\ at = "vet"
  /\ \E r \in Reviews(draft) :
       /\ review' = r[1]
       /\ Say(IF r[1] = "retry_with_tools" \/ r[2] = "empty"
              THEN "fallback" ELSE r[2])
  /\ UNCHANGED <<prior, calls, asked, answered, retries, draft>>

Step == Decide \/ DecideAgain \/ RequestRaises \/ Execute \/ Reply \/ Vet

Next == Step \/ (at \in Finished /\ UNCHANGED vars)

(* The model, the reviewer and the clone answer or time out.               *)
Spec == Init /\ [][Next]_vars /\ WF_vars(Step)

-----------------------------------------------------------------------------
(* Properties.                                                             *)

(* When the model is asked to go on from a response, each call of that     *)
(* response has an output, an unknown or failing tool's included: the      *)
(* provider refuses a continuation with a call left open.                  *)
EveryCallIsAnswered == at \in {"decide", "retry"} => answered = Len(asked)

(* No reply leaves the turn that its last review sent back, that is empty, *)
(* or that repeats the opener or the user's last message after the first   *)
(* exchange; a turn that did not speak says the fallback and is stalled.   *)
SentReplyIsVetted ==
  /\ at = "done" /\ reply # "fallback" =>
       /\ review # "retry_with_tools"
       /\ reply # "empty"
       /\ prior > 1 => reply = "other"
  /\ at = "stalled" => stalled /\ reply = "fallback"

(* A turn goes on for ever only if from some time on every tool the model  *)
(* calls fails: failing calls do not count towards the cap.                *)
TurnEndsUnlessToolsFail ==
  <>(at \in Finished) \/ <>[](at = "tools" => Working(asked) = {})

=============================================================================
