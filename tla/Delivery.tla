------------------------------- MODULE Delivery -------------------------------
(***************************************************************************)
(* A message from a publish request to the subscribers of its topic: the   *)
(* publish and subscribe handlers of src/RPCHandler.cpp (and subscribe of  *)
(* src/sse/Handler.cpp), the log and the channel in Redis, the callback of *)
(* Server::start() and Server::publish(), and the job Worker::publish()    *)
(* adds to each worker's event loop.  A client that comes back asks for    *)
(* the log since the last message it received.                             *)
(*                                                                         *)
(* One topic.  A message is known by its id, and ids are handed out in     *)
(* their order.  A worker's handlers and jobs run on its one thread, so a  *)
(* subscribe is one step; a publish is one step per call to Redis, between *)
(* which the other workers run.  What the calls do inside Redis, and the   *)
(* limit and the expiry of the log, is the business of module Cache; here  *)
(* the limit is never reached.                                             *)
(***************************************************************************)
EXTENDS Integers, Sequences, FiniteSets

CONSTANTS
  Workers,      \* the worker threads
  Subscribers,  \* the clients that subscribe
  WorkerOf,     \* per client: the worker that serves it
  MaxMessages,  \* bound on the messages published
  MaxSessions,  \* bound on the times a client subscribes
  MaxDrops,     \* bound on the times the connection to Redis is lost
  Faults        \* may calls to Redis throw, and messages expire?

ASSUME DeliveryAssumption ==
  /\ WorkerOf \in [Subscribers -> Workers]
  /\ MaxMessages \in Nat /\ MaxSessions \in Nat /\ MaxDrops \in Nat
  /\ Faults \in BOOLEAN

VARIABLES
  last_id,    \* the last id handed out
  handler,    \* per worker: the publish request it is in the middle of
  cached,     \* the ids in the log
  failed,     \* the ids of requests that were answered with an error
  order,      \* history: the ids published, in the order Redis did it
  channel,    \* what Redis has sent to this server and it has not read
  linked,     \* is the subscriber connection up?
  drops,      \* how often it was lost
  jobs,       \* per worker: the messages its event loop is still to publish
  done,       \* history, per worker: the place in order of its last job
  client      \* per client: what it knows, and its session

delVars == <<last_id, handler, cached, failed, order, channel, linked, drops, jobs, done, client>>

Elems(s) == {s[i] : i \in 1 .. Len(s)}
NoRequest == [calls |-> <<>>, id |-> 0]

(***************************************************************************)
(* A client: the messages it ever got and the last of them; whether it is  *)
(* subscribed and how often it was; in this session, the id it resumed     *)
(* from, whether the log answered that, the live messages and those that   *)
(* were lost; and how many messages had been published when it first came. *)
(***************************************************************************)
NewClient == [got |-> {}, last |-> 0, on |-> FALSE, sessions |-> 0, since |-> 0,
              resumed |-> FALSE, live |-> <<>>, lost |-> {}, joined |-> 0]

DeliveryInit ==
  /\ last_id = 0
  /\ handler = [w \in Workers |-> NoRequest]
  /\ cached = {} /\ failed = {}
  /\ order = <<>> /\ channel = <<>>
  /\ linked = TRUE /\ drops = 0
  /\ jobs = [w \in Workers |-> <<>>]
  /\ done = [w \in Workers |-> 0]
  /\ client = [c \in Subscribers |-> NewClient]

(***************************************************************************)
(* _handlePublish().  Requests that are refused (for their parameters, the *)
(* token or a rate limit) change nothing here.                             *)
(***************************************************************************)

\* Mutant: the message is published before it is cached.
publishCallsSwapped == <<"publish", "cache">>

\* What is called once the message has its id, in this order.
publishCalls == <<"cache", "publish">>

Calls(w, call) == handler[w].calls # <<>> /\ Head(handler[w].calls) = call
return(w) == handler' = [handler EXCEPT ![w].calls = Tail(@)]

\* cacheMessage(), as far as _getNextCacheId().
nextCacheId(w) ==
  /\ handler[w].calls = <<>>
  /\ last_id < MaxMessages
  /\ last_id' = last_id + 1
  /\ handler' = [handler EXCEPT ![w] = [calls |-> publishCalls, id |-> last_id + 1]]
  /\ UNCHANGED <<cached, failed, order, channel, linked, drops, jobs, done, client>>

\* The rest of cacheMessage().
cacheMessage(w) ==
  /\ Calls(w, "cache")
  /\ cached' = cached \cup {handler[w].id}
  /\ return(w)
  /\ UNCHANGED <<last_id, failed, order, channel, linked, drops, jobs, done, client>>

\* Subscribed clients miss what is lost with the connection.
Lose(ids) ==
  client' = [c \in Subscribers |->
               IF client[c].on THEN [client[c] EXCEPT !.lost = @ \cup ids] ELSE client[c]]

\* publishMessage(), and a positive answer.
publishMessage(w) ==
  LET id == handler[w].id IN
  /\ Calls(w, "publish")
  /\ order' = Append(order, id)
  /\ IF linked THEN channel' = Append(channel, id) /\ UNCHANGED client
               ELSE Lose({id}) /\ UNCHANGED channel
  /\ return(w)
  /\ UNCHANGED <<last_id, cached, failed, linked, drops, jobs, done>>

\* A call throws: the handler answers with an error, and what was cached stays.
publishThrows(w) ==
  /\ Faults
  /\ handler[w].calls # <<>>
  /\ failed' = failed \cup {handler[w].id}
  /\ handler' = [handler EXCEPT ![w] = NoRequest]
  /\ UNCHANGED <<last_id, cached, order, channel, linked, drops, jobs, done, client>>

\* purgeExpiredCacheItems(), or a time to live that ends.
expire(id) ==
  /\ Faults
  /\ id \in cached
  /\ cached' = cached \ {id}
  /\ UNCHANGED <<last_id, handler, failed, order, channel, linked, drops, jobs, done, client>>

(***************************************************************************)
(* Redis to the server, and the server to its workers.                     *)
(***************************************************************************)

\* The connection breaks: Redis drops what it has not delivered.
linkBreaks ==
  /\ linked /\ drops < MaxDrops
  /\ linked' = FALSE
  /\ drops' = drops + 1
  /\ Lose(Elems(channel))
  /\ channel' = <<>>
  /\ UNCHANGED <<last_id, handler, cached, failed, order, jobs, done>>

\* resetSubscribers() and psubscribe().
psubscribe ==
  /\ ~linked
  /\ linked' = TRUE
  /\ UNCHANGED <<last_id, handler, cached, failed, order, channel, drops, jobs, done, client>>

\* Mutant: the newest message is put before the others.
addJobFirst(s, id) == <<id>> \o s

\* EventLoop::addJob().
addJob(s, id) == Append(s, id)

\* Redis::consume() and the callback: Server::publish() adds a job to each worker.
\* (The workers share nothing that would tell in which order it does.)
consume ==
  /\ linked /\ channel # <<>>
  /\ jobs' = [w \in Workers |-> addJob(jobs[w], Head(channel))]
  /\ channel' = Tail(channel)
  /\ UNCHANGED <<last_id, handler, cached, failed, order, linked, drops, done, client>>

PlaceOf(id) == CHOOSE i \in 1 .. Len(order) : order[i] = id

\* Mutant: a job waits for another one.
hasJobsTwo(w) == Len(jobs[w]) > 1

hasJobs(w) == jobs[w] # <<>>

\* The job: TopicManager::publish() to the subscribers of this worker.
runJob(w) ==
  LET id == Head(jobs[w]) IN
  /\ handler[w].calls = <<>>
  /\ hasJobs(w)
  /\ jobs' = [jobs EXCEPT ![w] = Tail(@)]
  /\ done' = [done EXCEPT ![w] = PlaceOf(id)]
  /\ client' = [c \in Subscribers |->
       IF WorkerOf[c] = w /\ client[c].on
       THEN [client[c] EXCEPT !.got = @ \cup {id}, !.last = id, !.live = Append(@, id)]
       ELSE client[c]]
  /\ UNCHANGED <<last_id, handler, cached, failed, order, channel, linked, drops>>

(***************************************************************************)
(* _handleSubscribe() with _sendCacheToClient(), or sse's HandleRequest(). *)
(* A lookup that throws is logged, and the client is not told.             *)
(***************************************************************************)

\* getCacheSinceId(): nothing, unless the id is still in the log.
CacheSinceId(id) == IF id \in cached THEN {m \in cached : m > id} ELSE {}

Newest(S) == CHOOSE m \in S : \A n \in S : n <= m

handleSubscribe(c, throws) ==
  LET since == client[c].last
      result == IF throws THEN {} ELSE CacheSinceId(since)
  IN
  /\ handler[WorkerOf[c]].calls = <<>>
  /\ ~client[c].on /\ client[c].sessions < MaxSessions
  /\ client' = [client EXCEPT ![c] =
       [got |-> @.got \cup result, last |-> IF result = {} THEN since ELSE Newest(result),
        on |-> TRUE, sessions |-> @.sessions + 1, since |-> since,
        resumed |-> ~throws /\ since \in cached, live |-> <<>>, lost |-> {},
        joined |-> IF @.sessions = 0 THEN Len(order) ELSE @.joined]]
  /\ UNCHANGED <<last_id, handler, cached, failed, order, channel, linked, drops, jobs, done>>

\* unsubscribe, unsubscribeall, disconnect, or a connection that is shut down.
handleUnsubscribe(c) ==
  /\ handler[WorkerOf[c]].calls = <<>>
  /\ client[c].on
  /\ client' = [client EXCEPT ![c].on = FALSE]
  /\ UNCHANGED <<last_id, handler, cached, failed, order, channel, linked, drops, jobs, done>>

working(w) == cacheMessage(w) \/ publishMessage(w) \/ publishThrows(w) \/ runJob(w)

DeliveryNext ==
  \/ \E w \in Workers : nextCacheId(w) \/ working(w)
  \/ \E id \in cached : expire(id)
  \/ linkBreaks \/ psubscribe \/ consume
  \/ \E c \in Subscribers, throws \in {FALSE, Faults} : handleSubscribe(c, throws)
  \/ \E c \in Subscribers : handleUnsubscribe(c)

DeliverySpec == DeliveryInit /\ [][DeliveryNext]_delVars

\* The worker threads and the main thread run on.
DeliveryFairness ==
  /\ \A w \in Workers : WF_delVars(working(w))
  /\ WF_delVars(consume) /\ WF_delVars(psubscribe)
------------------------------------------------------------------------------
(***************************************************************************)
(* Properties                                                              *)
(***************************************************************************)
\* Is the message still to be published, or on its way to c's worker?
OnItsWay(c, id) ==
  \/ \E w \in Workers : handler[w].calls = <<"publish">> /\ handler[w].id = id
  \/ id \in Elems(channel)
  \/ id \in Elems(jobs[WorkerOf[c]])

\* A client that resumed from an id misses nothing of the log that is newer: it has
\* it from the log or live, or it is on its way.  There is no gap between the two,
\* because a message is cached before it is published.  Only a connection to Redis
\* lost during the session, or a publish that failed half-way, is an exception.
NothingMissed ==
  \A c \in Subscribers : client[c].on /\ client[c].resumed =>
    \A id \in cached : id > client[c].since =>
      id \in client[c].got \cup client[c].lost \cup failed \/ OnItsWay(c, id)

\* "if a client is disconnected it can request this log when it reconnects to get
\* all new events since the last event that was received": a client that has resumed
\* has, or will be sent, every message published since it first subscribed.
AllNewEvents ==
  \A c \in Subscribers : client[c].on /\ client[c].resumed =>
    \A i \in client[c].joined + 1 .. Len(order) :
      order[i] \in client[c].got \cup client[c].lost \/ OnItsWay(c, order[i])

\* Live messages reach every subscriber in the one order in which Redis published
\* them, none of them twice, whichever worker serves it and however often the
\* connection to Redis is lost: the promise of Broadcast.
Cast == INSTANCE Broadcast WITH
  Listeners <- Subscribers,
  log <- order,
  heard <- [c \in Subscribers |-> client[c].live],
  at <- [c \in Subscribers |-> done[WorkerOf[c]]]
ImplementsBroadcast == Cast!CastSpec

\* A message that is on its way to a subscriber arrives, unless the subscriber
\* leaves, the connection to Redis breaks or the publish fails.
SentIsReceived ==
  \A c \in Subscribers, id \in 1 .. MaxMessages :
    client[c].on /\ OnItsWay(c, id) ~>
      ~client[c].on \/ id \in client[c].got \cup client[c].lost \cup failed
==============================================================================
