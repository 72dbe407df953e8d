---------------------------- MODULE RouterTurn ----------------------------
(***************************************************************************)
(* ModelRouter (orchestration/model_router.py): the states a turn goes     *)
(* through, from the question to an answer and to what the project learns  *)
(* from it, over the call of a model or the council that answers, the      *)
(* evidence it reads and the project's memory.                             *)
(*                                                                         *)
(* A state's handler runs between two cancel checks.  Handlers that hand   *)
(* control to somebody else are several steps: the answer                  *)
(* (GENERATE_RESPONSE) and the naming of the chat.                         *)
(***************************************************************************)
EXTENDS Deliberation, ProjectMemory

CONSTANTS
  Together,     \* bound of the model: sets of turns that run at the same time
  Mode,         \* magi of a turn: "off", or "council" for "full" and "lite"
  FirstTurn,    \* turns with which a conversation begins
  Titled        \* turns whose chat the user has given a title

ASSUME RouterAssumption ==
  /\ Together \subseteq SUBSET Turn
  /\ Mode \in [Turn -> {"off", "council"}]
  /\ FirstTurn \subseteq Turn /\ Titled \subseteq Turn

VARIABLES
  turn,    \* the router's state, how the execution stands, retrieved docs
  title    \* who named the chat: "", "user" or "model"

RouterState ==
  {"START", "LOAD_MEMORY", "SUMMARIZE_CONVERSATION_HISTORY", "CLASSIFY",
   "DECIDE_RAG", "REWRITE_QUERY", "RETRIEVE_CONTEXT", "GENERATE_RESPONSE",
   "RESPONDING", "SUMMARIZE_RETRIEVED_DOCS", "UPDATE_HISTORY",
   "DECIDE_MEMORY", "EXTRACT_MEMORY", "RESOLVE_MEMORY", "COMMIT_MEMORY",
   "AUTO_NAME", "NAMING", "DONE", "ERROR"}

Standing == {"absent", "running", "done", "error", "cancelled", "paused", "queued"}

callUnchanged == UNCHANGED callVars
poolUnchanged == UNCHANGED pool
councilUnchanged == UNCHANGED councilVars
memoryUnchanged == UNCHANGED memoryVars
turnUnchanged == UNCHANGED <<turn, title>>

vars == <<cancelAsked, pool, callVars, councilVars, memoryVars, turn, title>>

RouterTypeOK ==
  /\ ControlTypeOK /\ PoolTypeOK /\ CallTypeOK /\ CouncilTypeOK /\ MemoryTypeOK
  /\ turn \in [Turn -> [at: RouterState, is: Standing, docs: BOOLEAN,
                    resumed: BOOLEAN, followed: BOOLEAN]]
  /\ title \in [Turn -> {"", "user", "model"}]

Init ==
  /\ ControlInit /\ PoolInit /\ CallInit /\ CouncilInit /\ MemoryInit
  /\ \E S \in Together :
       turn = [t \in Turn |-> [at |-> "START",
                              is |-> IF t \in S THEN "running" ELSE "absent",
                              docs |-> FALSE, resumed |-> FALSE, followed |-> FALSE]]
  /\ title = [t \in Turn |-> IF t \in Titled THEN "user" ELSE ""]

Running(t) == turn[t].is = "running"

(* The handler of a state is entered: before_state has not raised.         *)
Enters(t, st) == Running(t) /\ turn[t].at = st /\ ~ CancelSeen(t)

GoTo(t, st) == turn' = [turn EXCEPT ![t].at = st]

(* An execution is over: what the turn itself held goes with it.           *)
EndTurn(t, st, how) ==
  /\ turn' = [turn EXCEPT ![t].at = st, ![t].is = how]
  /\ pool' = [pool EXCEPT ![t] = EmptyPool]
  /\ call' = [call EXCEPT ![t] = NoCall]
  /\ ForgetSnapshot(t)
  /\ extracted' = [extracted EXCEPT ![t] = {}]
  /\ resolution' = [resolution EXCEPT ![t] = NoResolution]
  /\ UNCHANGED <<cancelAsked, shown, title, fact, superseded, known, pending>>
  /\ councilUnchanged

nothingButTheTurn ==
  /\ UNCHANGED cancelAsked
  /\ poolUnchanged /\ callUnchanged /\ councilUnchanged /\ memoryUnchanged

-----------------------------------------------------------------------------
(* Up to the answer.                                                       *)

(* Handlers that only read, or only call a model whose failure has a       *)
(* fallback (the summarizers, the classifier, the rewriter).               *)
Passes(t, here, next) ==
  Enters(t, here) /\ GoTo(t, next) /\ UNCHANGED title /\ nothingButTheTurn

Start(t) == Passes(t, "START", "LOAD_MEMORY")
SummarizeHistory(t) == Passes(t, "SUMMARIZE_CONVERSATION_HISTORY", "CLASSIFY")
Classify(t) == Passes(t, "CLASSIFY", "DECIDE_RAG")
DecideRag(t) == \E next \in {"GENERATE_RESPONSE", "REWRITE_QUERY"} :
                  Passes(t, "DECIDE_RAG", next)
RewriteQuery(t) == Passes(t, "REWRITE_QUERY", "RETRIEVE_CONTEXT")
SummarizeDocs(t) == Passes(t, "SUMMARIZE_RETRIEVED_DOCS", "UPDATE_HISTORY")
UpdateHistory(t) == Passes(t, "UPDATE_HISTORY", "DECIDE_MEMORY")
DecideMemory(t) == Passes(t, "DECIDE_MEMORY", "EXTRACT_MEMORY")

PlainState(t) ==
  \/ Start(t) \/ SummarizeHistory(t) \/ Classify(t) \/ DecideRag(t)
  \/ RewriteQuery(t) \/ SummarizeDocs(t) \/ UpdateHistory(t) \/ DecideMemory(t)

LoadMemory(t) ==
  /\ Enters(t, "LOAD_MEMORY")
  /\ LoadSnapshot(t)
  /\ GoTo(t, "SUMMARIZE_CONVERSATION_HISTORY")
  /\ UNCHANGED <<cancelAsked, title>>
  /\ poolUnchanged /\ callUnchanged /\ councilUnchanged

RetrieveContext(t) ==
  /\ Enters(t, "RETRIEVE_CONTEXT")
  /\ Search(t)
  /\ turn' = [turn EXCEPT ![t].at = "GENERATE_RESPONSE",
                          ![t].docs = Last(pool'[t].results) # {}]
  /\ UNCHANGED <<cancelAsked, title>>
  /\ callUnchanged /\ councilUnchanged /\ memoryUnchanged

(* Only the memory and the index can make a handler raise.                 *)
HandlerFails(t) ==
  /\ Enters(t, "LOAD_MEMORY") \/ Enters(t, "RETRIEVE_CONTEXT")
  /\ EndTurn(t, "ERROR", "error")

-----------------------------------------------------------------------------
(* The answer.                                                             *)

GenerateResponse(t) ==
  /\ Enters(t, "GENERATE_RESPONSE")
  /\ GoTo(t, "RESPONDING")
  /\ \/ Mode[t] = "off" /\ StartCall(t, "answer") /\ councilUnchanged
     \/ /\ Mode[t] = "council"
        /\ IF turn[t].resumed THEN ResumeCouncil(t)
                              ELSE BeginCouncil(t) /\ UNCHANGED snapshot
        /\ UNCHANGED <<pauseAsked, pauses, accepted>>
  /\ UNCHANGED <<cancelAsked, title, shown>>
  /\ poolUnchanged /\ memoryUnchanged

Responding(t) == Running(t) /\ turn[t].at = "RESPONDING"

(* Inside: a step of the call, or of the council between two calls.        *)
CallGoesOn(t) ==
  /\ Responding(t) /\ CallStep(t)
  /\ councilUnchanged /\ memoryUnchanged /\ turnUnchanged

CouncilGoesOn(t) ==
  /\ Responding(t) /\ CouncilStep(t)
  /\ memoryUnchanged /\ turnUnchanged

Responded(t) ==
  /\ Responding(t) /\ ~ CancelSeen(t)
  /\ IF Mode[t] = "off" THEN CallIs(t, "answered") ELSE CouncilAt(t, "complete")
  /\ GoTo(t, IF turn[t].docs THEN "SUMMARIZE_RETRIEVED_DOCS" ELSE "UPDATE_HISTORY")
  /\ call' = [call EXCEPT ![t] = NoCall]
  /\ UNCHANGED <<cancelAsked, title, shown>>
  /\ poolUnchanged /\ councilUnchanged /\ memoryUnchanged

ResponseFails(t) ==
  /\ Responding(t) /\ CallIs(t, "failed")
  /\ EndTurn(t, "ERROR", "error")

(* RunPausedError leaves the router; what the turn has read is forgotten.  *)
TurnPauses(t) ==
  /\ Responding(t) /\ CouncilAt(t, "paused")
  /\ EndTurn(t, "GENERATE_RESPONSE", "paused")

-----------------------------------------------------------------------------
(* What the project learns.                                                *)

ExtractMemory(t) ==
  /\ Enters(t, "EXTRACT_MEMORY") /\ Extract(t) /\ GoTo(t, "RESOLVE_MEMORY")
  /\ UNCHANGED <<cancelAsked, title>>
  /\ poolUnchanged /\ callUnchanged /\ councilUnchanged

ResolveMemory(t) ==
  /\ Enters(t, "RESOLVE_MEMORY")
  /\ Resolve(t) \/ NothingResolved(t)
  /\ GoTo(t, "COMMIT_MEMORY")
  /\ UNCHANGED <<cancelAsked, title>>
  /\ poolUnchanged /\ callUnchanged /\ councilUnchanged

(* _next_post_turn_state: a streaming turn leaves the naming of its chat   *)
(* to a run that follows it.                                               *)
AfterMemory(t) == IF t \in FirstTurn \ Streaming THEN "AUTO_NAME" ELSE "DONE"

(* A commit that fails is rolled back and reported, and the turn goes on.  *)
CommitMemory(t) ==
  /\ Enters(t, "COMMIT_MEMORY")
  /\ (resolution[t].made /\ Commit(t)) \/ memoryUnchanged
  /\ GoTo(t, AfterMemory(t))
  /\ UNCHANGED <<cancelAsked, title>>
  /\ poolUnchanged /\ callUnchanged /\ councilUnchanged

-----------------------------------------------------------------------------
(* The name of the chat.                                                   *)

AutoName(t) ==
  /\ Enters(t, "AUTO_NAME")
  /\ GoTo(t, IF title[t] = "" THEN "NAMING" ELSE "DONE")
  /\ UNCHANGED title /\ nothingButTheTurn

(* The namer answered, or failed; the title is written without looking     *)
(* again whether the user has given one meanwhile.                         *)
ChatNamed(t) ==
  /\ Enters(t, "NAMING")
  /\ title' = [title EXCEPT ![t] = "model"] \/ UNCHANGED title
  /\ GoTo(t, "DONE")
  /\ nothingButTheTurn

UserNamesChat(t) ==
  /\ turn[t].at = "NAMING" /\ title[t] = ""
  /\ title' = [title EXCEPT ![t] = "user"]
  /\ UNCHANGED turn /\ nothingButTheTurn

-----------------------------------------------------------------------------
(* The end of an execution, and another one.                               *)

Finish(t) == Enters(t, "DONE") /\ EndTurn(t, "DONE", "done")

(* Any of the checks raises: before or after a state, between two steps    *)
(* of the council, or inside the call.                                     *)
Cancel(t) ==
  /\ Running(t) /\ CancelSeen(t)
  /\ turn[t].at = "RESPONDING" =>
       /\ call[t].at \in {"none", "answered", "cancelled"}
       /\ ~ CouncilAt(t, "paused")
  /\ EndTurn(t, turn[t].at, "cancelled")

(* resume_paused_run puts the run back into the queue.                     *)
Resume(t) ==
  /\ turn[t].is = "paused"
  /\ \E words \in BOOLEAN : TakeWords(t, snapshot[t], words)
  /\ turn' = [turn EXCEPT ![t].is = "queued"]
  /\ UNCHANGED <<cancelAsked, title, council, pauseAsked, pauses>>
  /\ poolUnchanged /\ callUnchanged /\ memoryUnchanged

(* run_magi_resumption: a new turn, from GENERATE_RESPONSE on.             *)
TakeUp(t) ==
  /\ turn[t].is = "queued"
  /\ turn' = [turn EXCEPT ![t].at = "GENERATE_RESPONSE", ![t].is = "running",
                          ![t].resumed = TRUE]
  /\ UNCHANGED title /\ nothingButTheTurn

(* run_auto_name_follow_up, in a run of its own.                           *)
NameInFollowUp(t) ==
  /\ turn[t].is = "done" /\ ~ turn[t].followed
  /\ t \in FirstTurn \cap Streaming
  /\ turn' = [turn EXCEPT ![t].at = "AUTO_NAME", ![t].is = "running",
                          ![t].followed = TRUE]
  /\ UNCHANGED title /\ nothingButTheTurn

-----------------------------------------------------------------------------

AskToCancel(t) ==
  /\ Running(t)
  /\ AskCancel(t)
  /\ poolUnchanged /\ callUnchanged /\ councilUnchanged /\ memoryUnchanged /\ turnUnchanged

(* _pause_run_explicitly: in the openings or the discussion.               *)
AskToPause(t) ==
  /\ Responding(t)
  /\ council[t].at \in {"opening", "gate", "before", "speak", "after", "roundEnd"}
  /\ AskPause(t)
  /\ UNCHANGED <<cancelAsked, council, snapshot, accepted>>
  /\ poolUnchanged /\ callUnchanged /\ memoryUnchanged /\ turnUnchanged

TurnStep(t) ==
  \/ PlainState(t) \/ LoadMemory(t) \/ RetrieveContext(t) \/ HandlerFails(t)
  \/ GenerateResponse(t) \/ CallGoesOn(t) \/ CouncilGoesOn(t)
  \/ Responded(t) \/ ResponseFails(t) \/ TurnPauses(t)
  \/ ExtractMemory(t) \/ ResolveMemory(t) \/ CommitMemory(t)
  \/ AutoName(t) \/ ChatNamed(t) \/ Finish(t) \/ Cancel(t)

StepFor(t) ==
  \/ TurnStep(t) \/ TakeUp(t) \/ NameInFollowUp(t)
  \/ Resume(t) \/ AskToCancel(t) \/ AskToPause(t) \/ UserNamesChat(t)

Next == \E t \in Turn : StepFor(t)

Spec == Init /\ [][Next]_vars

(* A worker's thread runs on; nobody has to cancel, pause or resume, and a *)
(* queued run is claimed (RunWorker).                                      *)
FairSpec == Spec /\ \A t \in Turn : WF_vars(TurnStep(t) \/ TakeUp(t))

-----------------------------------------------------------------------------

(* Every turn comes to an end: answered, failed, cancelled, or paused and  *)
(* waiting for its user (_execute_turn, and every retry and tool loop      *)
(* below it).                                                              *)
EveryTurnEnds == \A t \in Turn : Running(t) ~> ~ Running(t)

=============================================================================
