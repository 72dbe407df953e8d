----------------------------- MODULE CouncilPage ----------------------------
(***************************************************************************)
(* How a page shows a council while it deliberates.  Each role's words are *)
(* one live delta, saved by one of two threads as a checkpoint             *)
(* (_MagiRoleDeltaBuffer in Back-end/app/chat_run_worker.py) and followed  *)
(* by the event that completes the entry.  The page lets live words run in *)
(* frame by frame and puts off what would cut them short: the completion   *)
(* of an entry and the end of the run (useCouncilStreaming,                *)
(* useTextDeltaAnimation and useStreamingRun in Front-end/src).            *)
(*                                                                         *)
(* The stream is EventStream's, with one query for the whole backlog; the  *)
(* run neither pauses nor changes hands.  Every entry has the same text,   *)
(* and a character of it is known by its place.                            *)
(***************************************************************************)
EXTENDS Naturals, Sequences, FiniteSets, SequencesExt, FiniteSetsExt

CONSTANTS
  Entries,    \* entries of the panel, one role's words each
  Length,     \* of an entry
  MaxFaults   \* model bound: faults and changes of the chat on the screen

ASSUME CouncilPageAssumption == {Entries, Length, MaxFaults} \subseteq Nat \ {0}

VARIABLES
  log,        \* chat_run_events: the sequence number of an event is its index
  router,     \* the router's thread: its entry, and where it is
  buffered,   \* entries whose words are in the buffer
  hand,       \* the entry each thread has drained and not yet saved
  outbox,     \* the event each thread has committed and not yet published
  conn,       \* the session's stream
  after,      \* the after_seq it was opened with
  cur,        \* current_seq of its generator
  backlog,    \* the last row of its replay
  covered,    \* entries whose checkpoint went over it
  channel,    \* what Redis holds for it
  seen,       \* afterSeq of the session
  lastSeen,   \* lastSeenSeq of the page
  page,       \* what the hooks of the page keep and show
  faults

workerVars == <<log, router, buffered, hand, outbox>>
streamVars == <<after, cur, backlog, covered, channel>>
vars == <<workerVars, conn, streamVars, seen, lastSeen, page, faults>>

Role == 1..Entries
Answer == Entries + 1     \* the arbiter's text, shown as the reply
Entry == Role \cup {Answer}
Thread == {"router", "ticker"}

Said == [i \in 1..Length |-> i]
Row(type, k) == [type |-> type, entry |-> k]
NoEntry == [text |-> <<>>, complete |-> FALSE, shown |-> FALSE]

OpenPage ==
  [queue |-> [k \in Entry |-> <<>>],    \* characters that have still to run in
   live |-> {},                         \* entries that live words have come for
   visible |-> [k \in Entry |-> <<>>],  \* visibleCouncilText; the reply's content
   panel |-> [k \in Role |-> NoEntry],  \* councilEntries
   waiting |-> {},                      \* completions that were put off
   ui |-> "open"]                       \* "done": the end of the run was put off

CouncilPageTypeOK ==
  /\ log \in Seq([type : {"start", "checkpoint", "complete", "done"}, entry : Entry])
  /\ router \in [entry : Entry, at : {"start", "push", "buffer", "flush", "end", "over"}]
  /\ buffered \subseteq Entry /\ covered \subseteq Entry
  /\ hand \in [Thread -> Entry \cup {0}]
  /\ outbox \in [Thread -> 0..Len(log)]
  /\ conn \in {"none", "subscribed", "redis", "polling", "broken", "away", "over"}
  /\ {after, cur, backlog, seen, lastSeen} \subseteq 0..Len(log)
  /\ channel \in Seq([seq : Nat, entry : Entry])
  /\ page.queue \in [Entry -> Seq(1..Length)] /\ page.visible \in [Entry -> Seq(1..Length)]
  /\ page.live \subseteq Entry /\ page.waiting \subseteq Role
  /\ page.panel \in [Role -> [text : Seq(1..Length), complete : BOOLEAN, shown : BOOLEAN]]
  /\ page.ui \in {"open", "done", "final"}
  /\ faults \in 0..MaxFaults

Init ==
  /\ log = <<>> /\ router = [entry |-> 1, at |-> "start"] /\ buffered = {}
  /\ hand = [t \in Thread |-> 0] /\ outbox = [t \in Thread |-> 0]
  /\ conn = "none" /\ after = 0 /\ cur = 0 /\ backlog = 0
  /\ covered = {} /\ channel = <<>> /\ seen = 0 /\ lastSeen = 0
  /\ page = OpenPage /\ faults = 0

Fault == faults < MaxFaults /\ faults' = faults + 1
Logged(row) == \E i \in DOMAIN log : log[i] = row
Completed == Logged(Row("done", Answer))

-----------------------------------------------------------------------------
(* The worker.                                                             *)

Free(t) == hand[t] = 0 /\ outbox[t] = 0

Commit(t, row) ==
  /\ log' = Append(log, row)
  /\ outbox' = [outbox EXCEPT ![t] = Len(log) + 1]

Drain(t, k) ==
  /\ hand' = [hand EXCEPT ![t] = k]
  /\ buffered' = buffered \ {k}

(* begin_entry and magi_role_start; the arbiter's text is not announced.   *)
BeginEntry ==
  /\ router.at = "start" /\ Free("router")
  /\ router' = [router EXCEPT !.at = "push"]
  /\ IF router.entry = Answer THEN UNCHANGED <<log, outbox>>
     ELSE Commit("router", Row("start", router.entry))
  /\ UNCHANGED <<buffered, hand>>

(* push publishes the words, and then puts them into the buffer, which may *)
(* be due.                                                                 *)
Push ==
  /\ router.at = "push" /\ Free("router")
  /\ router' = [router EXCEPT !.at = "buffer"]
  /\ UNCHANGED <<log, buffered, hand, outbox>>

PushBuffer ==
  /\ router.at = "buffer"
  /\ router' = [router EXCEPT !.at = "flush"]
  /\ \/ Drain("router", router.entry)
     \/ buffered' = buffered \cup {router.entry} /\ UNCHANGED hand
  /\ UNCHANGED <<log, outbox>>

(* flush_entry: what the other thread has not taken is drained.            *)
FlushEntry ==
  /\ router.at = "flush" /\ Free("router")
  /\ router' = [router EXCEPT !.at = "end"]
  /\ IF router.entry \in buffered THEN Drain("router", router.entry)
     ELSE UNCHANGED <<buffered, hand>>
  /\ UNCHANGED <<log, outbox>>

(* magi_role_complete and finish_entry; after the last one the run is done.*)
EndEntry ==
  /\ router.at = "end" /\ Free("router")
  /\ IF router.entry = Answer
     THEN Commit("router", Row("done", Answer)) /\ router' = [router EXCEPT !.at = "over"]
     ELSE /\ Commit("router", Row("complete", router.entry))
          /\ router' = [entry |-> router.entry + 1, at |-> "start"]
  /\ UNCHANGED <<buffered, hand>>

(* tick, by the heartbeat thread.                                          *)
Tick ==
  /\ Free("ticker")
  /\ \E k \in buffered : Drain("ticker", k)
  /\ UNCHANGED <<log, router, outbox>>

(* A run that is done takes no more checkpoints.                           *)
SaveCheckpoint(t) ==
  /\ hand[t] # 0
  /\ IF Completed THEN UNCHANGED <<log, outbox>> ELSE Commit(t, Row("checkpoint", hand[t]))
  /\ hand' = [hand EXCEPT ![t] = 0]
  /\ UNCHANGED <<router, buffered>>

Publish(t) ==
  /\ outbox[t] # 0
  /\ outbox' = [outbox EXCEPT ![t] = 0]
  /\ UNCHANGED <<log, router, buffered, hand>>

-----------------------------------------------------------------------------
(* The page: what an event does to it.                                     *)

HasCouncilWork(p) == p.waiting # {} \/ \E k \in Role : p.queue[k] # <<>>

(* finalizeDone and clearRunUi.                                            *)
FinalPage == [OpenPage EXCEPT !.ui = "final"]

(* Faulty: the reply's animation does not ask whether the council's goes on.*)
DrainedAlone(p) ==
  IF p.ui = "done" /\ p.queue[Answer] = <<>> THEN FinalPage ELSE p

(* The callbacks of both animations look at the other one first.           *)
Drained(p) ==
  IF p.ui = "done" /\ p.queue[Answer] = <<>> /\ ~ HasCouncilWork(p) THEN FinalPage ELSE p

RoleStart(p, k) ==
  [p EXCEPT !.queue[k] = <<>>, !.live = @ \ {k}, !.visible[k] = <<>>,
            !.panel[k] = [NoEntry EXCEPT !.shown = TRUE]]

TextDelta(p, k) == [p EXCEPT !.live = @ \cup {k}, !.queue[k] = @ \o Said]

(* A checkpoint seeds a page that has not heard the words live.            *)
TextCheckpoint(p, k) ==
  IF k \in p.live THEN p
  ELSE [p EXCEPT !.queue[k] = <<>>, !.visible[k] = Said,
                 !.panel = IF k = Answer \/ @[k].complete THEN @
                           ELSE [@ EXCEPT ![k] = [text |-> Said, complete |-> FALSE, shown |-> TRUE]]]

(* The text that has run in stays if it is the longer one.                 *)
ApplyComplete(p, k) ==
  LET streamed == IF p.panel[k].complete THEN <<>> ELSE p.panel[k].text
      text     == IF Length >= Len(streamed) THEN Said ELSE streamed
  IN  [p EXCEPT !.queue[k] = <<>>, !.live = @ \ {k}, !.visible[k] = text,
                !.panel[k] = [text |-> text, complete |-> TRUE, shown |-> TRUE]]

(* getCouncilCompletionCatchupDelta.                                       *)
Catchup(text) ==
  IF IsPrefix(text, Said) THEN SubSeq(Said, Len(text) + 1, Length) ELSE <<>>

(* A completion waits for the words that run in; it makes those run in     *)
(* that never came.                                                        *)
RoleComplete(p, k) ==
  LET rest == Catchup(p.visible[k])
  IN  IF p.queue[k] # <<>> THEN [p EXCEPT !.waiting = @ \cup {k}]
      ELSE IF rest # <<>>
      THEN [p EXCEPT !.waiting = @ \cup {k}, !.live = @ \cup {k}, !.queue[k] = rest]
      ELSE Drained(ApplyComplete(p, k))

RunDone(p) ==
  LET quiet == [p EXCEPT !.live = @ \ {Answer}]
  IN  IF p.queue[Answer] # <<>> \/ HasCouncilWork(p)
      THEN [quiet EXCEPT !.ui = "done"] ELSE FinalPage

(* What attachRunStream has each kind of event do.                         *)
Dispatched(p, row) ==
  CASE row.type = "start"      -> RoleStart(p, row.entry)
    [] row.type = "checkpoint" -> TextCheckpoint(p, row.entry)
    [] row.type = "complete"   -> RoleComplete(p, row.entry)
    [] row.type = "done"       -> RunDone(p)

(* One frame: some characters run in.                                      *)
Moved(p, k, n) ==
  LET text == p.visible[k] \o SubSeq(p.queue[k], 1, n)
  IN  [p EXCEPT !.queue[k] = SubSeq(@, n + 1, Len(@)), !.visible[k] = text,
                !.panel = IF k = Answer \/ ~ @[k].shown \/ @[k].complete THEN @
                          ELSE [@ EXCEPT ![k].text = text]]

(* Faulty: nobody is told when the last character has run in.              *)
RunInUntold(p, k, n) ==
  LET moved == Moved(p, k, n)
  IN  IF moved.queue[k] = <<>> /\ k \in p.waiting
      THEN ApplyComplete([moved EXCEPT !.waiting = @ \ {k}], k) ELSE moved

(* With the last character the completion that waited is applied, and the  *)
(* page is told.                                                           *)
RunIn(p, k, n) ==
  LET moved == Moved(p, k, n)
  IN  IF moved.queue[k] # <<>> THEN moved
      ELSE IF k \in p.waiting
      THEN Drained(ApplyComplete([moved EXCEPT !.waiting = @ \ {k}], k))
      ELSE Drained(moved)

Frame(k) ==
  /\ page.queue[k] # <<>>
  /\ \E n \in 1..Len(page.queue[k]) : page' = RunIn(page, k, n)
  /\ UNCHANGED <<workerVars, conn, streamVars, seen, lastSeen, faults>>

-----------------------------------------------------------------------------
(* The stream.                                                             *)

NoStream == after' = 0 /\ cur' = 0 /\ backlog' = 0 /\ covered' = {} /\ channel' = <<>>

(* The session opens a stream after the last event it has seen; the server *)
(* subscribes before it reads the backlog.                                 *)
Connect ==
  /\ conn = "none"
  /\ conn' = "subscribed"
  /\ after' = seen /\ cur' = seen /\ backlog' = seen
  /\ covered' = {} /\ channel' = <<>>
  /\ UNCHANGED <<workerVars, seen, lastSeen, page, faults>>

ReadBacklog ==
  /\ conn = "subscribed"
  /\ conn' = "redis" /\ backlog' = Len(log)
  /\ UNCHANGED <<workerVars, after, cur, covered, channel, seen, lastSeen, page, faults>>

(* Faulty: a replayed checkpoint is not noted.                             *)
SentUnnoted(i) ==
  /\ cur' = i
  /\ covered' = covered
  /\ UNCHANGED <<after, backlog>>

(* An event goes over the stream: register_checkpoint_window.              *)
Sent(i) ==
  /\ cur' = i
  /\ covered' = IF log[i].type = "checkpoint" THEN covered \cup {log[i].entry} ELSE covered
  /\ UNCHANGED <<after, backlog>>

(* dispatchRunEvent; the session returns with the end of the run.          *)
Receive(i) ==
  /\ page' = Dispatched(page, log[i])
  /\ seen' = Max({seen, i}) /\ lastSeen' = Max({lastSeen, i})

Deliver(i, rest) ==
  /\ Receive(i)
  /\ IF log[i].type = "done" THEN conn' = "over" /\ NoStream
     ELSE Sent(i) /\ channel' = rest /\ UNCHANGED conn
  /\ UNCHANGED <<workerVars, faults>>

SendRow ==
  /\ \/ conn = "redis" /\ cur < backlog
     \/ conn = "polling" /\ cur < Len(log)
  /\ Deliver(cur + 1, channel)

(* should_forward_stream_delta: every entry has one window.                *)
Forwarded(news) == news.entry \notin covered

(* What the replay has brought is dropped: an event by its number, live    *)
(* words by the window of their checkpoint.                                *)
Forward ==
  LET news == Head(channel)
  IN  /\ conn = "redis" /\ cur >= backlog /\ channel # <<>>
      /\ IF news.seq > cur THEN Deliver(news.seq, Tail(channel))
         ELSE /\ channel' = Tail(channel)
              /\ page' = IF news.seq = 0 /\ Forwarded(news)
                         THEN TextDelta(page, news.entry) ELSE page
              /\ UNCHANGED <<workerVars, conn, after, cur, backlog, covered, seen, lastSeen, faults>>

(* The channel is silent and the row says that the run is over.            *)
SendStop ==
  /\ conn = "redis" /\ cur >= backlog /\ channel = <<>>
  /\ Completed
  /\ Deliver(Len(log), <<>>)

(* Between two streams the session lists what it has missed.               *)
CatchUp ==
  /\ conn = "broken"
  /\ IF seen = Len(log) THEN conn' = "none" /\ UNCHANGED <<seen, lastSeen, page>>
     ELSE Receive(seen + 1)
          /\ conn' = IF log[seen + 1].type = "done" THEN "over" ELSE conn
  /\ UNCHANGED <<workerVars, streamVars, faults>>

StreamStep == Connect \/ ReadBacklog \/ SendRow \/ Forward \/ SendStop \/ CatchUp

(* Polling begins where the stream did, and sends again what it has sent.  *)
RedisFails ==
  /\ conn \in {"subscribed", "redis"}
  /\ Fault
  /\ conn' = "polling" /\ cur' = after /\ channel' = <<>>
  /\ UNCHANGED <<workerVars, after, backlog, covered, seen, lastSeen, page>>

Disconnect ==
  /\ conn \in {"subscribed", "redis", "polling"}
  /\ Fault
  /\ conn' = "broken" /\ NoStream
  /\ UNCHANGED <<workerVars, seen, lastSeen, page>>

(* The list of the missed events fails too, and the session is over.       *)
CatchUpFails ==
  /\ conn = "broken"
  /\ conn' = "over"
  /\ UNCHANGED <<workerVars, streamVars, seen, lastSeen, page, faults>>

-----------------------------------------------------------------------------
(* The user and the list of chats.                                         *)

(* Another chat is selected: the session is aborted, the animations go on. *)
LeaveChat ==
  /\ conn # "away" /\ page.ui # "final"
  /\ Fault
  /\ conn' = "away" /\ NoStream
  /\ page' = [page EXCEPT !.live = @ \ {Answer}]
  /\ UNCHANGED <<workerVars, seen, lastSeen>>

(* ensureOptimisticMessages: the reply as the row has it.                  *)
RowText == IF Logged(Row("checkpoint", Answer)) THEN Said ELSE <<>>

(* attachRunStream: from the last event the page has seen, with the row's  *)
(* text; every event of the row then counts as seen.                       *)
ReturnToChat ==
  /\ conn = "away" /\ page.ui # "final"
  /\ conn' = "none"
  /\ seen' = lastSeen /\ lastSeen' = Len(log)
  /\ page' = [page EXCEPT !.live = @ \ {Answer},
                          !.visible[Answer] = RowText]
  /\ UNCHANGED <<workerVars, streamVars, faults>>

(* shouldReconcileDetachedRunUi: the list of chats names a later run of    *)
(* the chat, and no stream is open for this one.  A list that names no run *)
(* does not count: mergeChatsPreservingActiveRunSnapshots keeps the run    *)
(* that the page has.                                                      *)
Detached == conn \in {"over", "away"} /\ Completed

Reconcile ==
  /\ Detached
  /\ page.ui # "final"
  /\ conn' = "over" /\ page' = FinalPage
  /\ UNCHANGED <<workerVars, streamVars, seen, lastSeen, faults>>

-----------------------------------------------------------------------------

Heard(message) ==
  \/ /\ channel' = IF conn \in {"subscribed", "redis"} THEN Append(channel, message) ELSE channel
     /\ UNCHANGED faults
  \/ conn \in {"subscribed", "redis"} /\ Fault /\ UNCHANGED channel

Broadcast ==
  /\ \/ \E t \in Thread :
          Publish(t) /\ Heard([seq |-> outbox[t], entry |-> log[outbox[t]].entry])
     \/ Push /\ Heard([seq |-> 0, entry |-> router.entry])
  /\ UNCHANGED <<conn, after, cur, backlog, covered, seen, lastSeen, page>>

WorkerStep ==
  /\ \/ BeginEntry \/ PushBuffer \/ FlushEntry \/ EndEntry \/ Tick
     \/ \E t \in Thread : SaveCheckpoint(t)
  /\ UNCHANGED <<conn, streamVars, seen, lastSeen, page, faults>>

Next ==
  \/ WorkerStep \/ Broadcast \/ StreamStep
  \/ \E k \in Entry : Frame(k)
  \/ RedisFails \/ Disconnect \/ CatchUpFails
  \/ LeaveChat \/ ReturnToChat \/ Reconcile

Spec == Init /\ [][Next]_vars

(* The server's generator and the session keep running, and the browser    *)
(* draws the page.  Nothing is asked of the worker or of the user.         *)
FairSpec == Spec /\ WF_vars(StreamStep) /\ WF_vars(\E k \in Entry : Frame(k))

-----------------------------------------------------------------------------
(* Properties.                                                             *)

(* The heartbeat thread still had the words when their entry was completed.*)
SavedLate(k) ==
  \E i \in DOMAIN log : /\ log[i] = Row("complete", k)
                        /\ Row("checkpoint", k) \notin {log[j] : j \in 1..i}

(* FRONTEND.md: the completion only catches up a suffix that never came.   *)
(* However the words reach the page, live, replayed, polled or both, an    *)
(* entry shows a beginning of what its role said, and all of it when it is *)
(* complete; unless the words were saved late, when a replay may bring the *)
(* completion before the live words.                                       *)
PanelShowsWhatWasSaid ==
  \A k \in {r \in Role : ~ SavedLate(r)} :
    /\ IsPrefix(page.visible[k], Said) /\ IsPrefix(page.panel[k].text, Said)
    /\ page.panel[k].complete => page.panel[k].text = Said

(* FRONTEND.md: when done arrives, the page lets queued text finish        *)
(* draining.  Unless a later run pushes it aside, the page becomes final   *)
(* with nothing left to show, or with the last frame of the only entry     *)
(* that is still running in.                                               *)
Quiet(others) == \A e \in others : page.queue[e] = <<>> /\ e \notin page.waiting

DoneWaitsForText ==
  [][page.ui # "final" /\ page'.ui = "final" /\ ~ Reconcile =>
       \/ Quiet(Entry)
       \/ \E k \in Entry : Frame(k) /\ Quiet(Entry \ {k})]_vars

(* A completion waits for characters that a second replay has taken away:  *)
(* no frame will apply it, and the end of the run waits for it.            *)
Stranded == \E k \in page.waiting : page.queue[k] = <<>>

(* The page of a run that is done becomes final, whatever was put off and  *)
(* however the stream came to its end; unless the user is elsewhere, the   *)
(* session has given up, or a completion is stranded.                      *)
EveryReplyIsFinal ==
  Completed ~> \/ page.ui = "final" \/ Stranded
               \/ conn = "away" \/ (conn = "over" /\ page.ui = "open")

=============================================================================
