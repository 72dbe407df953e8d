----------------------------- MODULE EventStream ----------------------------
(***************************************************************************)
(* How a browser follows a run: _stream_run and _stream_via_redis in       *)
(* Back-end/app/api.py, the run session of Front-end/src and the streaming *)
(* hook that shows the text.  The server subscribes to the run's channel,  *)
(* replays the log from the database, then forwards what the channel       *)
(* brings; when the channel is silent it looks at the run's status, and    *)
(* when Redis fails it polls the database instead.  A publication may be   *)
(* lost, and publications of different threads may arrive in any order.    *)
(* The browser remembers the highest sequence number it has seen, fetches  *)
(* what it missed when a stream breaks, and connects again.                *)
(***************************************************************************)
EXTENDS TextCheckpoints, FiniteSetsExt

CONSTANT Limit  \* how many events one query of the log returns

ASSUME LimitAssumption == Limit \in Nat \ {0}

VARIABLES
  conn,      \* the stream's generator: "none", "redis" or "polling"
  stage,     \* "read" the log, "send" its rows, "wait" for news, or the
             \* status the generator has read and will send the event of
  after,     \* the after_seq the stream was opened with
  cur,       \* current_seq of the generator
  upto,      \* the last row the latest query returned
  covered,   \* the highest checkpoint window sent over this stream, plus one
  channel,   \* what Redis holds for this subscription
  sent,      \* sequence numbers sent since the phase began (history)
  session,   \* the browser's loop: "attached", "catchup", "over"
  final,     \* has this stream brought an event that ends it?
  seen,      \* afterSeq of the browser's loop
  lastSeen,  \* lastSeenSeq of the page, from which a later session starts
  text,      \* the assistant text on the screen
  streaming  \* streamingActiveRef: has a live delta been shown?

streamVars == <<conn, stage, after, cur, upto, covered, channel, sent>>
browserVars == <<session, final, seen, lastSeen, text, streaming>>
vars == <<textVars, streamVars, browserVars>>

Stops == Settled
Message == [seq : Nat, delta : Nat, window : Nat]

TypeOK ==
  /\ TextTypeOK
  /\ conn \in {"none", "redis", "polling"}
  /\ stage \in {"read", "send", "wait"} \cup Settled
  /\ {after, cur, upto, seen, lastSeen} \subseteq 0..Len(log)
  /\ covered \in Nat
  /\ channel \in Seq(Message)
  /\ sent \subseteq 1..Len(log)
  /\ session \in {"attached", "catchup", "over"}
  /\ final \in BOOLEAN
  /\ text \in Text
  /\ streaming \in BOOLEAN

Init ==
  /\ TextInit
  /\ conn = "none" /\ stage = "read"
  /\ after = 0 /\ cur = 0 /\ upto = 0 /\ covered = 0
  /\ channel = <<>> /\ sent = {}
  /\ session = "attached" /\ final = FALSE
  /\ seen = 0 /\ lastSeen = 0 /\ text = <<>> /\ streaming = FALSE

-----------------------------------------------------------------------------
(* Helpers.                                                                *)

IsCheckpoint(i) == log[i].type = "text_checkpoint"
IsStop(i) == log[i].type \in Stops

(* list_events_after: the last of the rows one query returns.              *)
Query(from) == Min({from + Limit, Len(log)})

(* The channel after a publication: only an open subscription hears it.    *)
Heard(message) == IF conn = "redis" THEN Append(channel, message) ELSE channel

(* Faulty: only the windows below a checkpoint's own count as covered.     *)
SentCoversBelow(i) ==
  /\ cur' = i
  /\ sent' = sent \cup {i}
  /\ covered' = IF IsCheckpoint(i) THEN Max({covered, log[i].window}) ELSE covered
  /\ UNCHANGED <<conn, after, session>>

(* An event is sent and the stream goes on: current_seq moves to it, and   *)
(* register_checkpoint_window notes a checkpoint's window.                 *)
Sent(i) ==
  /\ cur' = i
  /\ sent' = sent \cup {i}
  /\ covered' = IF IsCheckpoint(i) THEN Max({covered, log[i].window + 1}) ELSE covered
  /\ UNCHANGED <<conn, after, session>>

(* The browser's handlers for one event of the log.  A checkpoint replaces *)
(* the text on the screen unless live deltas are being shown.              *)
Dispatch(i) ==
  /\ seen' = Max({seen, i}) /\ lastSeen' = Max({lastSeen, i})
  /\ final' = (final \/ IsStop(i))
  /\ text' = IF IsCheckpoint(i) /\ ~streaming THEN log[i].text ELSE text
  /\ streaming' = (streaming /\ ~IsStop(i))

(* The generator is gone, and with it its variables and its subscription.  *)
CloseStream ==
  /\ conn' = "none" /\ stage' = "read"
  /\ after' = 0 /\ cur' = 0 /\ upto' = 0 /\ covered' = 0
  /\ channel' = <<>> /\ sent' = {}

(* The generator returns, which it does only after an event that ends the  *)
(* stream: so the session's loop returns too.                              *)
EndStream == CloseStream /\ session' = "over"

-----------------------------------------------------------------------------
(* The browser opens a stream after the last event it has seen; the server *)
(* subscribes before it reads the log.                                     *)
Connect ==
  /\ session = "attached" /\ conn = "none"
  /\ conn' = "redis" /\ stage' = "read"
  /\ after' = seen /\ cur' = seen /\ upto' = seen
  /\ covered' = 0 /\ channel' = <<>> /\ sent' = {}
  /\ final' = FALSE
  /\ UNCHANGED <<textVars, session, seen, lastSeen, text, streaming>>

-----------------------------------------------------------------------------
(* The server's generator.                                                 *)

ReadLog ==
  /\ conn # "none" /\ stage = "read"
  /\ upto' = Query(cur)
  /\ stage' = "send"
  /\ UNCHANGED <<textVars, conn, after, cur, covered, channel, sent, browserVars>>

(* Replay over Redis returns at the first event that ends a stream;        *)
(* polling sends the rest of its rows first.                               *)
SendRow ==
  /\ conn # "none" /\ stage = "send" /\ cur < upto
  /\ Dispatch(cur + 1)
  /\ IF conn = "redis" /\ IsStop(cur + 1)
       THEN EndStream
       ELSE Sent(cur + 1) /\ UNCHANGED <<stage, upto, channel>>
  /\ UNCHANGED textVars

RowsSent ==
  /\ conn # "none" /\ stage = "send" /\ cur = upto
  /\ IF final
       THEN EndStream
       ELSE stage' = "wait" /\ UNCHANGED <<conn, after, cur, upto, covered, channel, sent, session>>
  /\ UNCHANGED <<textVars, final, seen, lastSeen, text, streaming>>

Receiving == conn = "redis" /\ stage = "wait" /\ channel # <<>>
News == Head(channel)

(* A message at or below current_seq is taken for one the replay has sent; *)
(* a live delta of a window that a checkpoint has covered is stale.        *)
Drop ==
  /\ Receiving
  /\ \/ News.seq > 0 /\ News.seq <= cur
     \/ News.seq = 0 /\ News.window < covered
  /\ channel' = Tail(channel)
  /\ UNCHANGED <<textVars, conn, stage, after, cur, upto, covered, sent, browserVars>>

ForwardDelta ==
  /\ Receiving
  /\ News.seq = 0 /\ News.window >= covered
  /\ channel' = Tail(channel)
  /\ text' = Append(text, News.delta)
  /\ streaming' = TRUE
  /\ UNCHANGED <<textVars, conn, stage, after, cur, upto, covered, sent,
                 session, final, seen, lastSeen>>

ForwardEvent ==
  /\ Receiving
  /\ News.seq > cur
  /\ Dispatch(News.seq)
  /\ IF IsStop(News.seq)
       THEN EndStream
       ELSE Sent(News.seq) /\ channel' = Tail(channel) /\ UNCHANGED <<stage, upto>>
  /\ UNCHANGED textVars

(* Faulty: only a verdict ends the stream.                                 *)
ReadVerdict ==
  /\ conn # "none" /\ stage = "wait" /\ channel = <<>>
  /\ status \in Verdicts
  /\ stage' = status
  /\ UNCHANGED <<textVars, conn, after, cur, upto, covered, channel, sent, browserVars>>

(* The channel is silent, or the polled rows are sent, and the run's row   *)
(* says that it has settled.                                               *)
ReadStatus ==
  /\ conn # "none" /\ stage = "wait" /\ channel = <<>>
  /\ status \in Settled
  /\ stage' = status
  /\ UNCHANGED <<textVars, conn, after, cur, upto, covered, channel, sent, browserVars>>

(* _stream_stop_payload, in a transaction of its own, sends the latest     *)
(* event that says what was read; the run may have been resumed since.     *)
(* (It can tell the end from the row alone, but status and event are       *)
(* committed together.)                                                    *)
SendStop ==
  /\ conn # "none" /\ stage \in Settled
  /\ Dispatch(Max({i \in DOMAIN log : log[i].type = stage}))
  /\ EndStream
  /\ UNCHANGED textVars

PollAgain ==
  /\ conn = "polling" /\ stage = "wait"
  /\ status \notin Settled
  /\ stage' = "read"
  /\ UNCHANGED <<textVars, conn, after, cur, upto, covered, channel, sent, browserVars>>

(* Faulty: polling goes on from the last event that Redis brought.         *)
RedisFailsInPlace ==
  /\ Fault
  /\ conn = "redis"
  /\ conn' = "polling" /\ stage' = "read"
  /\ upto' = cur
  /\ channel' = <<>>
  /\ UNCHANGED <<rowVars, slotVars, after, cur, covered, sent, browserVars>>

(* An exception in _stream_via_redis: polling starts where the stream did. *)
RedisFails ==
  /\ Fault
  /\ conn = "redis"
  /\ conn' = "polling" /\ stage' = "read"
  /\ cur' = after /\ upto' = after
  /\ channel' = <<>> /\ sent' = {}
  /\ UNCHANGED <<rowVars, slotVars, after, covered, browserVars>>

-----------------------------------------------------------------------------
(* The browser's session.                                                  *)

(* The connection breaks: the session's loop catches the exception.        *)
Disconnect ==
  /\ Fault
  /\ conn # "none"
  /\ CloseStream
  /\ session' = "catchup"
  /\ UNCHANGED <<rowVars, slotVars, final, seen, lastSeen, text, streaming>>

(* Between two streams the session lists what it missed, up to the first   *)
(* event that ends the run.                                                *)
CatchUp ==
  LET rows == (seen + 1)..Query(seen)
      stops == {i \in rows : IsStop(i)}
      last == IF stops = {} THEN Query(seen) ELSE Min(stops)
      checkpoints == {i \in rows : IsCheckpoint(i) /\ i <= last}
  IN  /\ session = "catchup"
      /\ seen' = last /\ lastSeen' = Max({lastSeen, last})
      /\ text' = IF checkpoints = {} \/ streaming THEN text ELSE log[Max(checkpoints)].text
      /\ session' = IF stops = {} THEN "attached" ELSE "over"
      /\ streaming' = (streaming /\ stops = {})
      /\ UNCHANGED <<textVars, streamVars, final>>

(* That request is outside the loop's try, and the network that broke the  *)
(* stream may break it too: its failure ends the session.                  *)
CatchUpFails ==
  /\ session = "catchup"
  /\ session' = "over"
  /\ streaming' = FALSE
  /\ UNCHANGED <<textVars, streamVars, final, seen, lastSeen, text>>

(* attachRunStream: a session begins after the last event the page has     *)
(* seen, with the text of the row; the page then counts every event of the *)
(* row it was given as seen.                                               *)
Attach(from) ==
  /\ CloseStream
  /\ session' = "attached"
  /\ final' = FALSE
  /\ seen' = from /\ lastSeen' = Len(log')
  /\ text' = partial /\ streaming' = FALSE

(* The page is loaded again while the run is active: it has seen nothing.  *)
Reload ==
  /\ Fault
  /\ status \notin Verdicts
  /\ UNCHANGED <<rowVars, slotVars>>
  /\ Attach(0)

(* The user resumes the run from the page, which begins a new session      *)
(* unless the old one is still open.                                       *)
Resume ==
  /\ ResumeRun
  /\ IF session = "over" THEN Attach(lastSeen) ELSE UNCHANGED <<streamVars, browserVars>>

-----------------------------------------------------------------------------
(* Publications: heard by the subscription, if there is one, or lost.      *)

Deliver(message) ==
  \/ channel' = Heard(message) /\ UNCHANGED faults
  \/ conn = "redis" /\ Fault /\ UNCHANGED channel

Broadcast ==
  /\ \/ \E t \in Thread : Publish(t) /\ Deliver([seq |-> outbox[t], delta |-> 0, window |-> 0])
     \/ PushLive /\ Deliver([seq |-> 0, delta |-> pushed', window |-> window])
  /\ UNCHANGED <<conn, stage, after, cur, upto, covered, sent, browserVars>>

StreamStep ==
  \/ ReadLog \/ SendRow \/ RowsSent
  \/ Drop \/ ForwardDelta \/ ForwardEvent
  \/ ReadStatus \/ SendStop \/ PollAgain
  \/ Connect \/ CatchUp

Next ==
  \/ TextStep /\ UNCHANGED <<streamVars, browserVars>>
  \/ Broadcast
  \/ StreamStep
  \/ RedisFails \/ Disconnect \/ CatchUpFails
  \/ Reload \/ Resume

Spec == Init /\ [][Next]_vars

(* The server's generator and the browser's loop keep running.  Nothing is *)
(* asked of the worker, of Redis or of the user.                           *)
FairSpec == Spec /\ WF_vars(StreamStep)

-----------------------------------------------------------------------------
(* Properties.                                                             *)

(* No delta is on the screen twice: one that a checkpoint has brought is   *)
(* not appended again when the channel brings it, whichever thread saved   *)
(* it and however often the stream was opened.                             *)
NoTextTwice == IsInjective(text)

(* STREAMING.md: Postgres remains authoritative.  While a stream replays,  *)
(* and as long as it polls, it has sent every event of the log from where  *)
(* it was opened, without a gap, whatever Redis lost before.               *)
ReplayIsGapless ==
  (conn = "polling" \/ (conn = "redis" /\ stage \in {"read", "send"})) => sent = (after + 1)..cur

(* A session does not outlive its run: when the run has settled the        *)
(* session ends, even if the publication that says so was lost.            *)
EverySessionEnds ==
  status \in Settled ~> session = "over" \/ status \notin Settled

(* RUNS.md: a stream replays the backlog first and continues with live     *)
(* events.  A replay that has read that the run was resumed does not end   *)
(* at the pause before.                                                    *)
ReplayPassesOldPauses ==
  [][\A i \in (cur + 1)..upto :
       (SendRow /\ log[cur + 1].type = "paused" /\ log[i].type = "magi_resumed")
         => conn' # "none"]_vars

=============================================================================
