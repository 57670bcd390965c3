---------------------------- MODULE DepthQueries ----------------------------
(***************************************************************************)
(* Click-to-depth.  A browser sends a query over the Janus data channel;   *)
(* textroom_relay.py queues it by topic and a worker posts it to the mux;  *)
(* the mux answers from the latest depth frame (DepthSampler); the relay   *)
(* publishes the answer to /internal/depth_broadcast, and depth_events.py  *)
(* puts it on the SSE stream of the session that asked.  Four processes,   *)
(* HTTP calls with short timeouts between them, no retries.  What a        *)
(* reading says (depth, age, aligned or not) is data and left out.         *)
(***************************************************************************)
EXTENDS Integers, Sequences

CONSTANTS
    Sessions,    \* session_id values of browser tabs
    Topics,      \* configured topics
    Limited,     \* the topics with a rate_limit_hz
    Deduped,     \* the topics with dedupe_ts
    Answering,   \* the topics with broadcast_response
    Stamps,      \* values of a message's ts
    QueueMax,    \* QUEUE_MAX
    SubQueueMax, \* _SUB_QUEUE_MAX
    MaxQueries,  \* bound: messages sent
    MaxConns,    \* bound: SSE connections made
    MaxRestarts  \* bound: restarts of mux, relay and page

ASSUME DepthAssumption ==
    /\ Limited \subseteq Topics /\ Deduped \subseteq Topics /\ Answering \subseteq Topics
    /\ Stamps \subseteq Nat
    /\ QueueMax \in Nat \ {0} /\ SubQueueMax \in Nat \ {0}
    /\ MaxQueries \in Nat /\ MaxConns \in Nat /\ MaxRestarts \in Nat

VARIABLES
    sampler,   \* the DepthSampler has a depth frame (_depth_m)
    muxUp,     \* the mux serves its HTTP API
    queue,     \* [Topics -> messages], _queues
    unfinished,\* [Topics -> Nat], the queues' counts of unfinished tasks
    worker,    \* [Topics -> [st, msg]], _workers
    recent,    \* [Topics -> BOOLEAN], less than min_interval_s since last_forward_t
    lastTs,    \* [Topics -> Nat], last_ts_forwarded
    posted,    \* results the relay has posted to the page and it has not handled
    subs,      \* [Sessions -> connection or 0], _subscribers
    conns,     \* sequence of [sess, st, q, got], the SSE connections
    sent,      \* messages sent so far
    restarts   \* restarts so far

relayVars == <<queue, unfinished, worker, recent, lastTs>>
pageVars == <<subs, conns>>
muxVars == <<sampler, muxUp>>
depthVars == <<sampler, muxUp, queue, unfinished, worker, recent, lastTs, posted, subs, conns,
          sent, restarts>>

NoMsg == [id |-> 0]
IdleWorker == [st |-> "idle", msg |-> NoMsg]

DepthInit ==
    /\ sampler = FALSE /\ muxUp = TRUE
    /\ queue = [t \in Topics |-> <<>>] /\ unfinished = [t \in Topics |-> 0]
    /\ worker = [t \in Topics |-> IdleWorker]
    /\ recent = [t \in Topics |-> FALSE] /\ lastTs = [t \in Topics |-> 0]
    /\ posted = {} /\ subs = [s \in Sessions |-> 0] /\ conns = <<>>
    /\ sent = 0 /\ restarts = 0

-----------------------------------------------------------------------------
(* The mux: DepthSampler                                                   *)

\* The main loop has a frameset: update().
SampleFrameset ==
    /\ muxUp /\ ~sampler /\ sampler' = TRUE
    /\ UNCHANGED <<muxUp, relayVars, posted, pageVars, sent, restarts>>

\* depth_query: sample() raises, and the mux says 503, before the first frame.
MuxAnswers == muxUp /\ sampler

-----------------------------------------------------------------------------
(* The relay                                                               *)

\* The worker ends a message with n calls of queue.task_done().  The call
\* raises ValueError when nothing is unfinished, and in the finally clause
\* that ends the worker.
TaskDone(t, n) ==
    LET enough == unfinished[t] >= n
    IN  /\ unfinished' = [unfinished EXCEPT ![t] = IF enough THEN @ - n ELSE 0]
        /\ worker' = [worker EXCEPT ![t] = [IdleWorker EXCEPT !.st = IF enough THEN @ ELSE "dead"]]

\* textroom_hook ending the task of the message it drops once in the try and
\* once with the counter of drops.
TextroomHookTwice(t, s, ts) ==
    LET full == Len(queue[t]) >= QueueMax
        m == [id |-> sent + 1, session |-> s, ts |-> ts]
        left == IF full THEN Tail(queue[t]) ELSE queue[t]
        drops == IF ~full THEN 0 ELSE IF unfinished[t] > 1 THEN 2 ELSE unfinished[t]
    IN  /\ sent < MaxQueries /\ sent' = sent + 1
        /\ queue' = [queue EXCEPT ![t] = Append(left, m)]
        /\ unfinished' = [unfinished EXCEPT ![t] = @ - drops + 1]
        /\ UNCHANGED <<muxVars, worker, recent, lastTs, posted, pageVars, restarts>>

\* textroom_hook: a message for a configured topic is queued; a full queue
\* loses its oldest message (task_done()'s ValueError is swallowed there).
\* Anything else is answered and forgotten.
TextroomHook(t, s, ts) ==
    LET full == Len(queue[t]) >= QueueMax
        m == [id |-> sent + 1, session |-> s, ts |-> ts]
        left == IF full THEN Tail(queue[t]) ELSE queue[t]
        count == IF full /\ unfinished[t] > 0 THEN unfinished[t] - 1 ELSE unfinished[t]
    IN  /\ sent < MaxQueries /\ sent' = sent + 1
        /\ queue' = [queue EXCEPT ![t] = Append(left, m)]
        /\ unfinished' = [unfinished EXCEPT ![t] = count + 1]
        /\ UNCHANGED <<muxVars, worker, recent, lastTs, posted, pageVars, restarts>>

RateLimited(t) == t \in Limited /\ recent[t]
Duplicate(t, m) == t \in Deduped /\ m.ts <= lastTs[t]

\* The worker takes a message and gives it up, too soon or a duplicate: the
\* branch calls task_done() and so does the finally clause.
WorkerSkips(t) ==
    /\ worker[t].st = "idle" /\ queue[t] # <<>>
    /\ RateLimited(t) \/ Duplicate(t, Head(queue[t]))
    /\ queue' = [queue EXCEPT ![t] = Tail(@)]
    /\ TaskDone(t, 2)
    /\ UNCHANGED <<muxVars, recent, lastTs, posted, pageVars, sent, restarts>>

\* The worker takes a message and posts it to the sink.
WorkerTakes(t) ==
    /\ worker[t].st = "idle" /\ queue[t] # <<>>
    /\ ~RateLimited(t) /\ ~Duplicate(t, Head(queue[t]))
    /\ queue' = [queue EXCEPT ![t] = Tail(@)]
    /\ worker' = [worker EXCEPT ![t] = [st |-> "posting", msg |-> Head(queue[t])]]
    /\ UNCHANGED <<muxVars, unfinished, recent, lastTs, posted, pageVars, sent, restarts>>

\* The sink answers 200, the mux only with a depth frame.  The time is kept for
\* the rate limit; the answer is published for a topic that says so.
SinkAnswers(t) ==
    LET m == worker[t].msg
    IN  /\ worker[t].st = "posting"
        /\ recent' = [recent EXCEPT ![t] = t \in Limited]
        /\ lastTs' = IF t \in Deduped THEN [lastTs EXCEPT ![t] = m.ts] ELSE lastTs
        /\ IF t \notin Answering
           THEN TaskDone(t, 1) /\ UNCHANGED posted
           ELSE /\ MuxAnswers
                /\ posted' = posted \cup {[id |-> m.id, session |-> m.session]}
                /\ worker' = [worker EXCEPT ![t].st = "publishing"]
                /\ UNCHANGED unfinished
        /\ UNCHANGED <<muxVars, queue, pageVars, sent, restarts>>

\* The sink answers with an error, not in time, or not at all.
SinkFails(t) ==
    /\ worker[t].st = "posting"
    /\ TaskDone(t, 1)
    /\ UNCHANGED <<muxVars, queue, recent, lastTs, posted, pageVars, sent, restarts>>

\* The publish call returns, or it times out or fails while the page may still
\* come to handle it.
PublishEnds(t) ==
    /\ worker[t].st = "publishing"
    /\ TaskDone(t, 1)
    /\ UNCHANGED <<muxVars, queue, recent, lastTs, posted, pageVars, sent, restarts>>

\* min_interval_s has passed since the last forwarded message.
IntervalPasses(t) ==
    /\ recent[t] /\ recent' = [recent EXCEPT ![t] = FALSE]
    /\ UNCHANGED <<muxVars, queue, unfinished, worker, lastTs, posted, pageVars, sent, restarts>>

-----------------------------------------------------------------------------
(* The page: depth_events.py                                               *)

\* depth_events: a new connection takes the session's place.
Connect(s) ==
    /\ Len(conns) < MaxConns
    /\ conns' = Append(conns, [sess |-> s, st |-> "open", q |-> <<>>, got |-> <<>>])
    /\ subs' = [subs EXCEPT ![s] = Len(conns) + 1]
    /\ UNCHANGED <<muxVars, relayVars, posted, sent, restarts>>

Offered(c, r) ==
    [conns EXCEPT ![c].q = IF Len(@) < SubQueueMax THEN Append(@, r) ELSE @]

\* internal_depth_broadcast as it once was: every subscriber gets the result.
DepthBroadcastAll ==
    /\ \E r \in posted :
        /\ posted' = posted \ {r}
        /\ conns' = [c \in 1..Len(conns) |->
               IF \E s \in Sessions : subs[s] = c THEN Offered(c, r)[c] ELSE conns[c]]
    /\ UNCHANGED <<muxVars, relayVars, subs, sent, restarts>>

\* internal_depth_broadcast: to the queue registered for the result's session,
\* if there is one and it is not full.  Late calls arrive in any order.
DepthBroadcast ==
    /\ \E r \in posted :
        /\ posted' = posted \ {r}
        /\ conns' = IF subs[r.session] = 0 THEN conns ELSE Offered(subs[r.session], r)
    /\ UNCHANGED <<muxVars, relayVars, subs, sent, restarts>>

\* The call never reaches the page, is refused there, or names no session.
PublishLost ==
    /\ \E r \in posted : posted' = posted \ {r}
    /\ UNCHANGED <<muxVars, relayVars, pageVars, sent, restarts>>

\* stream() yields the next result.  The browser may be gone without the
\* server knowing yet: then nobody gets it.
StreamYields(c) ==
    /\ conns[c].st \in {"open", "gone"} /\ conns[c].q # <<>>
    /\ conns' = [conns EXCEPT ![c].q = Tail(@),
           ![c].got = IF conns[c].st = "open" THEN Append(@, Head(conns[c].q)) ELSE @]
    /\ UNCHANGED <<muxVars, relayVars, posted, subs, sent, restarts>>

\* The browser closes the stream; the server notices at its next check, up
\* to a keepalive later.
BrowserLeaves(c) ==
    /\ conns[c].st = "open"
    /\ conns' = [conns EXCEPT ![c].st = "gone"]
    /\ UNCHANGED <<muxVars, relayVars, posted, subs, sent, restarts>>

\* stream()'s finally clause removing whatever queue is registered.
StreamEndsPopping(c) ==
    /\ conns[c].st = "gone"
    /\ conns' = [conns EXCEPT ![c].st = "done", ![c].q = <<>>]
    /\ subs' = [subs EXCEPT ![conns[c].sess] = 0]
    /\ UNCHANGED <<muxVars, relayVars, posted, sent, restarts>>

\* stream()'s finally clause: the queue is removed only while it is the
\* registered one.
StreamEnds(c) ==
    /\ conns[c].st = "gone"
    /\ conns' = [conns EXCEPT ![c].st = "done", ![c].q = <<>>]
    /\ subs' = [subs EXCEPT ![conns[c].sess] = IF @ = c THEN 0 ELSE @]
    /\ UNCHANGED <<muxVars, relayVars, posted, sent, restarts>>

-----------------------------------------------------------------------------
(* Restarts                                                                *)

Restart == restarts < MaxRestarts /\ restarts' = restarts + 1

\* The mux exits (no frames) or is stopped; a call in flight fails.
MuxStops ==
    /\ muxUp /\ Restart /\ muxUp' = FALSE
    /\ UNCHANGED <<sampler, relayVars, posted, pageVars, sent>>

\* Mux.run: a new sampler, then the HTTP server.
MuxStarts ==
    /\ ~muxUp /\ muxUp' = TRUE /\ sampler' = FALSE
    /\ UNCHANGED <<relayVars, posted, pageVars, sent, restarts>>

\* _shutdown and _startup of the relay: queues, counters and workers anew.
RelayRestarts ==
    /\ Restart
    /\ queue' = [t \in Topics |-> <<>>] /\ unfinished' = [t \in Topics |-> 0]
    /\ worker' = [t \in Topics |-> IdleWorker]
    /\ recent' = [t \in Topics |-> FALSE] /\ lastTs' = [t \in Topics |-> 0]
    /\ UNCHANGED <<muxVars, posted, pageVars, sent>>

\* The page restarts: every stream ends, nobody is registered.
PageRestarts ==
    /\ Restart
    /\ subs' = [s \in Sessions |-> 0]
    /\ conns' = [c \in 1..Len(conns) |-> [conns[c] EXCEPT !.st = "done", !.q = <<>>]]
    /\ UNCHANGED <<muxVars, relayVars, posted, sent>>

Relay(t) ==
    \/ \E s \in Sessions, ts \in Stamps : TextroomHook(t, s, ts)
    \/ WorkerSkips(t) \/ WorkerTakes(t) \/ SinkAnswers(t) \/ SinkFails(t)
    \/ PublishEnds(t) \/ IntervalPasses(t)

DepthNext ==
    \/ SampleFrameset
    \/ \E t \in Topics : Relay(t)
    \/ \E s \in Sessions : Connect(s)
    \/ DepthBroadcast \/ PublishLost
    \/ \E c \in 1..Len(conns) : StreamYields(c) \/ BrowserLeaves(c) \/ StreamEnds(c)
    \/ MuxStops \/ MuxStarts \/ RelayRestarts \/ PageRestarts

DepthSpec == DepthInit /\ [][DepthNext]_depthVars

-----------------------------------------------------------------------------
(* Properties                                                              *)

\* The newest stream of a session stays the registered one until it ends
\* itself, in whatever order the server notices that older streams of the
\* session are gone (depth_events.py: "newer queue should stay").
NewestRegistered ==
    \A c \in 1..Len(conns) :
        /\ conns[c].st # "done"
        /\ \A d \in (c + 1)..Len(conns) : conns[d].sess # conns[c].sess
        => subs[conns[c].sess] = c

\* A stream carries only answers to its own session's queries, and no answer
\* is delivered twice, over reconnections, late publish calls and restarts
\* (P0-SEC-001).
OwnAnswersOnce ==
    /\ \A c \in 1..Len(conns) : \A i \in 1..Len(conns[c].got) :
        conns[c].got[i].session = conns[c].sess
    /\ \A c, d \in 1..Len(conns) :
        \A i \in 1..Len(conns[c].got), j \in 1..Len(conns[d].got) :
            conns[c].got[i].id = conns[d].got[j].id => <<c, i>> = <<d, j>>

\* A burst costs its oldest messages only: where nothing is skipped, however
\* the hook's drops from a full queue fall between the steps of the worker,
\* and whatever the sink does, every task_done() finds a task to end, so the
\* worker goes on (textroom_relay.py: "on overflow drop oldest, accept newest").
BurstSpares ==
    \A t \in Topics \ (Limited \cup Deduped) : worker[t].st # "dead"

\* A message that comes too fast costs that message only: the topic's worker
\* goes on (textroom_relay.py: "drop silently").
WorkerSurvives == \A t \in Topics : worker[t].st # "dead"
=============================================================================
