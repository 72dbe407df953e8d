----------------------------- MODULE ModelCall -----------------------------
(***************************************************************************)
(* One call of a language model by a turn: generate_text and               *)
(* generate_text_stream of the four providers (providers/*_caller.py).     *)
(*                                                                         *)
(* A call is a conversation of requests.  A request may be limited and     *)
(* retried, may pause on the provider's side, may fail and be repeated     *)
(* without the output schema; its response may ask for tools, whose        *)
(* results go into the next request.  Of a response's text only what       *)
(* reaches the user is followed: the arbiter's, as it is streamed, and the *)
(* plain answer, all at once (the listeners of the roles and of            *)
(* response_agent.stream_api drop deltas).                                 *)
(***************************************************************************)
EXTENDS EvidencePool

CONSTANTS
  ProviderOf,       \* the providers a turn's workers may be configured with
  Streaming,        \* turns that stream their response
  MaxRetries,       \* max_retries of the OpenAI caller
  ToolRounds,       \* max_tool_rounds
  MaxToolCalls,     \* bound of the model: tools asked for by one response
  MaxServerPauses,  \* bound of the model: pause_turn answers in a row
  MaxText           \* bound of the model: length of a text

ASSUME CallAssumption ==
  /\ ProviderOf \in [Turn -> SUBSET {"openai", "anthropic", "google", "local"}]
  /\ Streaming \subseteq Turn
  /\ {MaxRetries, ToolRounds, MaxToolCalls, MaxServerPauses, MaxText} \subseteq Nat

VARIABLES
  call,    \* the call a turn has open
  shown    \* the characters of the answer the user was shown, in order

callVars == <<call, shown>>

Provider == {"openai", "anthropic", "google", "local"}

(* answer: the plain responder; role: an opening or a discussing role.     *)
Kind == {"answer", "role", "closing", "arbiter"}

Ended == {"answered", "failed", "cancelled"}

CallTypeOK ==
  /\ call \in [Turn ->
       [at: {"none", "request", "waiting", "tools"} \cup Ended,
        kind: Kind, provider: Provider,
        stream: BOOLEAN,     \* generate_text_stream, or generate_text?
        schema: BOOLEAN,     \* does the request carry the output schema?
        round: 0..ToolRounds, tries: 0..MaxRetries, pauses: 0..MaxServerPauses,
        todo: 0..MaxToolCalls,
        seen: 0..MaxText,    \* stream_cumulative, of the arbiter's text
        emitted: 0..MaxText]]   \* total_emitted
  /\ \A t \in Turn :
       /\ shown[t].offsets \in Seq(0..MaxText)   \* 0: not of the answer
       /\ shown[t].apart \in BOOLEAN             \* was another text taken for it?

(* All but the plain responder ask for structured output; the arbiter and  *)
(* the closing roles have no tools.                                        *)
Structured(k) == k # "answer"
HasTools(k) == k \in {"answer", "role"}

(* Roles always call generate_text_stream; Anthropic streams no structured *)
(* output, Google neither that nor tools, and the local provider nothing.  *)
Streams(t, k, p) ==
  /\ k \in {"role", "closing"} \/ t \in Streaming
  /\ p = "openai" \/ (p = "anthropic" /\ ~ Structured(k))

NewCall(k, p, stream) ==
  [at |-> "request", kind |-> k, provider |-> p, stream |-> stream,
   schema |-> Structured(k), round |-> 0, tries |-> 0, pauses |-> 0,
   todo |-> 0, seen |-> 0, emitted |-> 0]

NoCall == [NewCall("answer", "local", FALSE) EXCEPT !.at = "none"]

NothingShown == [offsets |-> <<>>, apart |-> FALSE]

CallInit ==
  /\ call = [t \in Turn |-> NoCall]
  /\ shown = [t \in Turn |-> NothingShown]

CallIs(t, st) == call[t].at = st

StartCall(t, k) ==
  \E p \in ProviderOf[t] :
    call' = [call EXCEPT ![t] = NewCall(k, p, Streams(t, k, p))]

(* Faulty: the exception is taken for one that the next request may cure.  *)
RaisedAndRetried(c) == [c EXCEPT !.at = "request"]

(* generate_text of the local provider turns every exception, the          *)
(* cancellation too, into a RuntimeError.                                  *)
Raised(c) ==
  [c EXCEPT !.at = IF c.provider = "local" THEN "failed" ELSE "cancelled"]

-----------------------------------------------------------------------------
(* A request and its response.                                             *)

(* before_model_call.                                                      *)
Send(t) ==
  LET c == call[t]
  IN  /\ CallIs(t, "request")
      /\ call' = [call EXCEPT ![t] =
           IF CancelSeen(t) THEN Raised(c)
           ELSE [c EXCEPT !.at = "waiting", !.schema = Structured(c.kind)]]
      /\ UNCHANGED <<cancelAsked, pool, shown>>

(* What the user sees.                                                     *)

Offsets(first, last) == [i \in 1..(last - first + 1) |-> first + i - 1]

Rest(text, n) == [i \in 1..(Len(text) - n) |-> text[n + i]]

(* text_delta of what goes beyond last_emitted_len in a text, whatever was *)
(* shown before; apart notes that it is not the answer or a beginning.     *)
Show(t, text) ==
  shown' = [shown EXCEPT ![t] =
    [offsets |-> @.offsets \o Rest(text, Len(@.offsets)),
     apart   |-> @.apart \/ text # Offsets(1, Len(text))]]

(* _extract_final_answer_incremental of what holds n characters of the     *)
(* answer: those, or the longer text that they are escaped in, the same up *)
(* to some place, when it breaks off within an escape.                     *)
Extracted(n) ==
  {Offsets(1, n)} \cup
    {[i \in 1..m |-> IF i <= k THEN i ELSE 0] : k \in 0..n, m \in n + 1..MaxText}

Heard(t) == call[t].kind = "arbiter" /\ call[t].stream /\ call[t].schema

(* Faulty: a retried stream is shown from its beginning.                   *)
DeltaUntrimmed(t) ==
  LET c == call[t]
  IN  /\ CallIs(t, "waiting") /\ Heard(t)
      /\ \E n \in c.seen + 1..MaxText :
           /\ call' = [call EXCEPT ![t].seen = n, ![t].emitted = n]
           /\ shown' = [shown EXCEPT ![t].offsets = @ \o Offsets(c.seen + 1, n)]
      /\ UNCHANGED <<cancelAsked, pool>>

(* _stream_response_with_retries: of a delta that begins before what was   *)
(* emitted by an earlier try only the rest is passed on.                   *)
Delta(t) ==
  LET c == call[t]
  IN  /\ CallIs(t, "waiting") /\ Heard(t)
      /\ \E n \in c.seen + 1..MaxText :
           IF n <= c.emitted
           THEN call' = [call EXCEPT ![t].seen = n] /\ UNCHANGED shown
           ELSE /\ call' = [call EXCEPT ![t].seen = n, ![t].emitted = n]
                /\ \E text \in Extracted(n) : Show(t, text)
      /\ UNCHANGED <<cancelAsked, pool>>

(* Faulty: the tries are not counted against their maximum.                *)
RateLimitedForEver(t) ==
  LET c == call[t]
  IN  /\ CallIs(t, "waiting") /\ c.provider = "openai"
      /\ call' = [call EXCEPT ![t].tries = c.tries + 1, ![t].seen = 0]
      /\ UNCHANGED <<cancelAsked, pool, shown>>

(* The OpenAI caller sleeps and tries again, without a cancel check.       *)
RateLimited(t) ==
  LET c == call[t]
  IN  /\ CallIs(t, "waiting") /\ c.provider = "openai"
      /\ c.tries < MaxRetries
      /\ call' = [call EXCEPT ![t].tries = c.tries + 1, ![t].seen = 0]
      /\ UNCHANGED <<cancelAsked, pool, shown>>

WithoutSchema(c) ==
  [c EXCEPT !.schema = FALSE, !.tries = 0, !.pauses = 0, !.seen = 0, !.emitted = 0]

(* Any other error, and a limit that outlasts the tries.  A structured     *)
(* request is repeated once without its schema; a first streamed one is    *)
(* given up for generate_text, which begins from nothing.                  *)
RequestFails(t) ==
  LET c == call[t]
  IN  /\ CallIs(t, "waiting")
      /\ call' = [call EXCEPT ![t] =
           IF c.provider = "local" \/ ~ c.schema THEN [c EXCEPT !.at = "failed"]
           ELSE IF c.stream /\ c.round = 0
           THEN [WithoutSchema(c) EXCEPT !.at = "request", !.stream = FALSE]
           ELSE WithoutSchema(c)]
      /\ UNCHANGED <<cancelAsked, pool, shown>>

(* pause_turn of Anthropic: the turn goes on with another request, as      *)
(* often as the provider likes.  The cancellation raised between two of    *)
(* them is an exception like any other to the structured fallback.         *)
ServerPause(t) ==
  LET c == call[t]
  IN  /\ CallIs(t, "waiting") /\ c.provider = "anthropic"
      /\ c.pauses < MaxServerPauses
      /\ call' = [call EXCEPT ![t] =
           IF ~ CancelSeen(t) THEN [c EXCEPT !.pauses = @ + 1]
           ELSE IF c.schema THEN WithoutSchema(c)
           ELSE Raised(c)]
      /\ UNCHANGED <<cancelAsked, pool, shown>>

(* The length of an answer that the user will see: a stream's is what was  *)
(* heard, unless nothing was found in it; the arbiter then takes the whole *)
(* response, or makes up an answer.                                        *)
TextLength(t, c) ==
  IF Heard(t) /\ c.seen > 0 THEN {c.seen}
  ELSE IF c.kind \in {"answer", "arbiter"} THEN 0..MaxText
  ELSE {0}

(* _parse_response: the arbiter's answer, n characters, comes after other  *)
(* text when it gets its primary_issue for a prefix, or when the response  *)
(* cannot be parsed and is taken as it is.  That matters where a beginning *)
(* of the answer alone was shown.                                          *)
FinalText(t, c, n) ==
  {[i \in 1..(p + n) |-> IF i <= p THEN 0 ELSE i - p] :
     p \in IF c.kind = "arbiter" /\ shown[t].offsets # <<>> THEN 0..(MaxText - n) ELSE {0}}

(* When its call ends, the arbiter's listener may have shown a beginning   *)
(* of the answer, the responder has shown nothing.                         *)
ShowRest(t, c, n) ==
  IF t \in Streaming /\ c.kind \in {"answer", "arbiter"}
  THEN \E text \in FinalText(t, c, n) : Show(t, text)
  ELSE UNCHANGED shown

(* A response without tool calls: after_model_call, and the end.           *)
Answer(t) ==
  LET c == call[t]
  IN  /\ CallIs(t, "waiting")
      /\ \E n \in TextLength(t, c) :
           IF CancelSeen(t)
           THEN call' = [call EXCEPT ![t] = Raised(c)] /\ UNCHANGED shown
           ELSE /\ call' = [call EXCEPT ![t].at = "answered"]
                /\ ShowRest(t, c, n)
      /\ UNCHANGED <<cancelAsked, pool>>

(* A response with tool calls: one round more, or too many.                *)
AskForTools(t) ==
  LET c == call[t]
  IN  /\ CallIs(t, "waiting") /\ HasTools(c.kind)
      /\ \E k \in 1..MaxToolCalls :
           call' = [call EXCEPT ![t] =
             IF CancelSeen(t) THEN Raised(c)
             ELSE IF c.round = ToolRounds THEN [c EXCEPT !.at = "failed"]
             ELSE [c EXCEPT !.at = "tools", !.todo = k, !.round = @ + 1]]
      /\ UNCHANGED <<cancelAsked, pool, shown>>

(* The tools a call may name; the last three are there if the project has  *)
(* a memory.                                                               *)
Tool ==
  {"search_rag_database", "search_conversation_history",
   "get_system_profile", "search_memory_issues", "search_attempt_log"}

(* The tool handler: the cancel check before and after is outside its try, *)
(* what fails inside becomes the tool's answer.  The other tools only      *)
(* read.                                                                   *)
UseTool(t) ==
  LET c == call[t]
  IN  /\ CallIs(t, "tools")
      /\ IF CancelSeen(t)
         THEN call' = [call EXCEPT ![t] = Raised(c)] /\ UNCHANGED pool
         ELSE /\ call' = [call EXCEPT ![t] =
                   [c EXCEPT !.todo = @ - 1,
                             !.at = IF c.todo = 1 THEN "request" ELSE "tools",
                             !.tries = 0, !.pauses = 0]]
              /\ \E tool \in Tool :
                   (tool = "search_rag_database" /\ Search(t)) \/ UNCHANGED pool
      /\ UNCHANGED <<cancelAsked, shown>>

CallStep(t) ==
  \/ Send(t) \/ Delta(t) \/ RateLimited(t) \/ RequestFails(t) \/ ServerPause(t)
  \/ Answer(t) \/ AskForTools(t) \/ UseTool(t)

-----------------------------------------------------------------------------

(* The user is shown every character of the answer once and in order,      *)
(* however often its stream broke off and began again                      *)
(* (_stream_response_with_retries, MagiArbiter.synthesize_stream), unless  *)
(* the arbiter's listener took another text for it: an escape that a delta *)
(* cut in two, or an answer that was changed after it had been streamed.   *)
OffsetsShownOnce ==
  \A t \in Turn :
    ~ shown[t].apart => shown[t].offsets = Offsets(1, Len(shown[t].offsets))

=============================================================================
