---------------------------- MODULE DeliveryProofs ----------------------------
(***************************************************************************)
(* A client that resumes misses nothing, and all hear live messages in one *)
(* order: for any number of workers, clients, messages and lost            *)
(* connections.                                                            *)
(***************************************************************************)
EXTENDS Delivery, TLAPS

\* What the invariant needs of the variables: a handler between two calls is
\* between the right ones, and a client has its fields.
HandlerOK ==
  handler \in [Workers -> [calls : {<<>>, <<"publish">>, <<"cache", "publish">>}, id : Nat]]

Fields == {"got", "last", "on", "sessions", "since", "resumed", "live", "lost", "joined"}

HasFields(r) == r = [f \in Fields |-> r[f]]

ClientsOK ==
  /\ DOMAIN client = Subscribers
  /\ \A c \in Subscribers : HasFields(client[c])

DataOK ==
  /\ last_id \in Nat
  /\ channel \in Seq(Nat)
  /\ jobs \in [Workers -> Seq(Nat)]
  /\ ClientsOK

DeliveryInv == HandlerOK /\ DataOK /\ NothingMissed

\* What a queue holds after one is added or taken.
LEMMA ElemsAppend ==
  ASSUME NEW s \in Seq(Nat), NEW x \in Nat
  PROVE  Elems(Append(s, x)) = Elems(s) \cup {x}
<1>1. /\ Len(Append(s, x)) = Len(s) + 1 /\ Len(s) \in Nat
      /\ \A i \in 1 .. Len(s) : Append(s, x)[i] = s[i]
      /\ Append(s, x)[Len(s) + 1] = x
  OBVIOUS
<1>2. Elems(Append(s, x)) \subseteq Elems(s) \cup {x}
  BY <1>1 DEF Elems
<1>3. Elems(s) \subseteq Elems(Append(s, x))
  BY <1>1 DEF Elems
<1>4. x \in Elems(Append(s, x))
  BY <1>1 DEF Elems
<1> QED
  BY <1>2, <1>3, <1>4

\* Taking the head of a queue removes nothing but the head.
LEMMA ElemsTail ==
  ASSUME NEW s \in Seq(Nat), s # <<>>
  PROVE  /\ Elems(s) \subseteq Elems(Tail(s)) \cup {Head(s)}
         /\ Head(s) \in Nat
<1>1. Len(Tail(s)) = Len(s) - 1 /\ Len(s) \in Nat \ {0}
  OBVIOUS
<1>2. ASSUME NEW i \in 1 .. Len(s), i # 1
      PROVE  i - 1 \in 1 .. Len(Tail(s)) /\ Tail(s)[i - 1] = s[i]
  BY <1>1, <1>2
<1>3. Head(s) = s[1] /\ Head(s) \in Nat
  BY <1>1
<1>4. ASSUME NEW y \in Elems(s)
      PROVE  y \in Elems(Tail(s)) \cup {Head(s)}
  <2>1. PICK i \in 1 .. Len(s) : y = s[i]
    BY DEF Elems
  <2>2. CASE i = 1
    BY <1>3, <2>1, <2>2
  <2>3. CASE i # 1
    BY <1>2, <2>1, <2>3, Zenon DEF Elems
  <2> QED
    BY <2>2, <2>3
<1> QED
  BY <1>3, <1>4

\* An empty queue holds nothing.
LEMMA ElemsEmpty == Elems(<<>>) = {}
  BY DEF Elems

------------------------------------------------------------------------------
\* The invariant holds when the server starts.
LEMMA DeliveryInitial == DeliveryInit => DeliveryInv
<1> SUFFICES ASSUME DeliveryInit PROVE DeliveryInv
  OBVIOUS
<1>1. HandlerOK
  BY DEF DeliveryInit, HandlerOK, NoRequest
<1>2. DataOK
  BY DEF DeliveryInit, DataOK, ClientsOK, NewClient, Fields, HasFields
<1>3. NothingMissed
  BY DEF DeliveryInit, NothingMissed, NewClient
<1> QED
  BY <1>1, <1>2, <1>3 DEF DeliveryInv

\* A publish handler makes its calls one after the other, and none twice.
LEMMA HandlerStep == HandlerOK /\ DataOK /\ [DeliveryNext]_delVars => HandlerOK'
<1> SUFFICES ASSUME HandlerOK, DataOK, [DeliveryNext]_delVars PROVE HandlerOK'
  OBVIOUS
<1>1. ASSUME NEW w \in Workers, nextCacheId(w) PROVE HandlerOK'
  BY <1>1 DEF nextCacheId, publishCalls, HandlerOK, DataOK
<1>2. ASSUME NEW w \in Workers, cacheMessage(w) \/ publishMessage(w) PROVE HandlerOK'
  <2>1. handler[w].calls \in {<<"publish">>, <<"cache", "publish">>}
    BY <1>2 DEF cacheMessage, publishMessage, Calls, HandlerOK
  <2>2. Tail(<<"publish">>) = <<>> /\ Tail(<<"cache", "publish">>) = <<"publish">>
    OBVIOUS
  <2>3. Tail(handler[w].calls) \in {<<>>, <<"publish">>}
    BY <2>1, <2>2, Zenon
  <2> QED
    BY <1>2, <2>3, Zenon DEF cacheMessage, publishMessage, return, HandlerOK
<1>3. ASSUME NEW w \in Workers, publishThrows(w) PROVE HandlerOK'
  BY <1>3 DEF publishThrows, NoRequest, HandlerOK
<1>4. ASSUME UNCHANGED handler PROVE HandlerOK'
  BY <1>4 DEF HandlerOK
<1> QED
  BY <1>1, <1>2, <1>3, <1>4, Zenon
  DEF DeliveryNext, working, runJob, expire, linkBreaks, psubscribe, consume, handleSubscribe,
      handleUnsubscribe, delVars

\* A client keeps its fields when one is changed.
LEMMA KeepsFields ==
  ASSUME NEW r, HasFields(r), NEW x, NEW y, NEW z
  PROVE  /\ HasFields([r EXCEPT !.lost = x])
         /\ HasFields([r EXCEPT !.on = x])
         /\ HasFields([r EXCEPT !.got = x, !.last = y, !.live = z])
  BY Zenon DEF HasFields, Fields

\* A lost connection to Redis leaves the clients' records well-formed.
LEMMA LoseKeeps ==
  ASSUME ClientsOK, NEW ids, Lose(ids)
  PROVE  ClientsOK'
<1>1. DOMAIN client' = Subscribers
  BY DEF Lose
<1>2. ASSUME NEW c \in Subscribers PROVE HasFields(client'[c])
  <2>1. client'[c] = IF client[c].on THEN [client[c] EXCEPT !.lost = @ \cup ids] ELSE client[c]
    BY DEF Lose
  <2>2. HasFields(client[c])
    BY DEF ClientsOK
  <2>3. HasFields([client[c] EXCEPT !.lost = @ \cup ids])
    BY <2>2, KeepsFields, Zenon
  <2> QED
    BY <2>1, <2>2, <2>3, Zenon
<1> QED
  BY <1>1, <1>2 DEF ClientsOK

\* Ids, queues and clients' records keep their types.
LEMMA DataStep == HandlerOK /\ DataOK /\ [DeliveryNext]_delVars => DataOK'
<1> SUFFICES ASSUME HandlerOK, DataOK, [DeliveryNext]_delVars PROVE DataOK'
  OBVIOUS
<1>1. ASSUME NEW w \in Workers, nextCacheId(w) PROVE DataOK'
  BY <1>1 DEF nextCacheId, DataOK, ClientsOK
<1>2. ASSUME NEW w \in Workers, cacheMessage(w) \/ publishThrows(w) PROVE DataOK'
  BY <1>2 DEF cacheMessage, publishThrows, DataOK, ClientsOK
<1>3. ASSUME NEW w \in Workers, publishMessage(w) PROVE DataOK'
  <2>1. handler[w].id \in Nat
    BY DEF HandlerOK
  <2>2. channel' = channel \/ channel' = Append(channel, handler[w].id)
    BY <1>3, Zenon DEF publishMessage
  <2>3. ClientsOK'
    BY <1>3, LoseKeeps DEF publishMessage, DataOK, ClientsOK
  <2>4. last_id' = last_id /\ jobs' = jobs
    BY <1>3 DEF publishMessage
  <2>5. channel \in Seq(Nat)
    BY DEF DataOK
  <2>6. Append(channel, handler[w].id) \in Seq(Nat)
    BY <2>1, <2>5
  <2> QED
    BY <2>2, <2>3, <2>4, <2>6, Zenon DEF DataOK
<1>4. ASSUME NEW w \in Workers, runJob(w) PROVE DataOK'
  <2>1. jobs' \in [Workers -> Seq(Nat)]
    <3>1. jobs[w] \in Seq(Nat) /\ jobs[w] # <<>>
      BY <1>4, Zenon DEF runJob, hasJobs, DataOK
    <3>2. Tail(jobs[w]) \in Seq(Nat)
      BY <3>1
    <3> QED
      BY <1>4, <3>2, ZenonT(40) DEF runJob, DataOK
  <2>2. DOMAIN client' = Subscribers
    BY <1>4, Zenon DEF runJob
  <2>3. ASSUME NEW c \in Subscribers PROVE HasFields(client'[c])
    <3>1. HasFields(client[c])
      BY DEF DataOK, ClientsOK
    <3> DEFINE id == Head(jobs[w])
               heard == [client[c] EXCEPT !.got = @ \cup {id}, !.last = id, !.live = Append(@, id)]
    <3>2. client'[c] = IF WorkerOf[c] = w /\ client[c].on THEN heard ELSE client[c]
      BY <1>4, ZenonT(40) DEF runJob
    <3>3. HasFields(heard)
      BY <3>1, KeepsFields, Zenon
    <3> QED
      BY <3>1, <3>2, <3>3, Zenon
  <2> QED
    BY <1>4, <2>1, <2>2, <2>3, ZenonT(40) DEF runJob, DataOK, ClientsOK
<1>5. ASSUME NEW id \in cached, expire(id) PROVE DataOK'
  BY <1>5 DEF expire, DataOK, ClientsOK
<1>6. CASE linkBreaks
  <2>1. ClientsOK'
    BY <1>6, LoseKeeps DEF linkBreaks, DataOK
  <2> QED
    BY <1>6, <2>1 DEF linkBreaks, DataOK
<1>7. CASE psubscribe \/ UNCHANGED delVars
  BY <1>7 DEF psubscribe, delVars, DataOK, ClientsOK
<1>8. CASE consume
  BY <1>8 DEF consume, addJob, DataOK, ClientsOK
<1>9. ASSUME NEW c \in Subscribers, NEW throws, handleSubscribe(c, throws) PROVE DataOK'
  BY <1>9, ZenonT(40) DEF handleSubscribe, DataOK, ClientsOK, Fields, HasFields
<1>10. ASSUME NEW c \in Subscribers, handleUnsubscribe(c) PROVE DataOK'
  BY <1>10, KeepsFields, Zenon DEF handleUnsubscribe, DataOK, ClientsOK
<1> QED
  BY <1>1, <1>2, <1>3, <1>4, <1>5, <1>6, <1>7, <1>8, <1>9, <1>10, Zenon DEF DeliveryNext, working

------------------------------------------------------------------------------
(***************************************************************************)
(* NothingMissed, one client and one message at a time.                    *)
(***************************************************************************)
Covered(c, id) == id \in client[c].got \cup client[c].lost \cup failed \/ OnItsWay(c, id)

Resumed(c, id) == client[c].on /\ client[c].resumed /\ id > client[c].since

\* What a session keeps when messages are lost, or one arrives.
LEMMA FieldsOf ==
  ASSUME NEW r, HasFields(r), NEW x, NEW y, NEW z
  PROVE  LET lose == [r EXCEPT !.lost = x]
             hear == [r EXCEPT !.got = x, !.last = y, !.live = z]
         IN  /\ lose.on = r.on /\ lose.resumed = r.resumed /\ lose.since = r.since
             /\ lose.got = r.got /\ lose.lost = x
             /\ hear.on = r.on /\ hear.resumed = r.resumed /\ hear.since = r.since
             /\ hear.lost = r.lost /\ hear.got = x
  BY DEF HasFields, Fields

\* A lost connection to Redis marks what its clients miss and takes nothing they have.
LEMMA LoseSession ==
  ASSUME ClientsOK, NEW ids, Lose(ids), NEW c \in Subscribers, NEW id
  PROVE  /\ Resumed(c, id)' => Resumed(c, id)
         /\ client[c].got \cup client[c].lost \subseteq client'[c].got \cup client'[c].lost
         /\ client[c].on /\ id \in ids => id \in client'[c].lost
<1> DEFINE lose == [client[c] EXCEPT !.lost = client[c].lost \cup ids]
<1>1. client'[c] = IF client[c].on THEN lose ELSE client[c]
  BY DEF Lose
<1>2. /\ lose.on = client[c].on /\ lose.resumed = client[c].resumed
      /\ lose.since = client[c].since /\ lose.got = client[c].got
      /\ lose.lost = client[c].lost \cup ids
  BY FieldsOf DEF ClientsOK
<1> HIDE DEF lose
<1>3. CASE client[c].on
  BY <1>1, <1>2, <1>3 DEF Resumed
<1>4. CASE ~client[c].on
  <2>1. client'[c] = client[c]
    BY <1>1, <1>4
  <2> QED
    BY <2>1, <1>4 DEF Resumed
<1> QED
  BY <1>3, <1>4

\* A job gives its message to the worker's clients and takes nothing they have.
LEMMA RunJobSession ==
  ASSUME DataOK, NEW w \in Workers, runJob(w), NEW c \in Subscribers, NEW id
  PROVE  /\ Resumed(c, id)' => Resumed(c, id)
         /\ client[c].got \cup client[c].lost \subseteq client'[c].got \cup client'[c].lost
         /\ client[c].on /\ WorkerOf[c] = w => Head(jobs[w]) \in client'[c].got
<1> DEFINE job == Head(jobs[w])
           hear == [client[c] EXCEPT !.got = client[c].got \cup {job}, !.last = job,
                                     !.live = Append(client[c].live, job)]
<1>1. client'[c] = IF WorkerOf[c] = w /\ client[c].on THEN hear ELSE client[c]
  BY Zenon DEF runJob
<1>2. /\ hear.on = client[c].on /\ hear.resumed = client[c].resumed
      /\ hear.since = client[c].since /\ hear.lost = client[c].lost
      /\ hear.got = client[c].got \cup {job}
  BY FieldsOf DEF DataOK, ClientsOK
<1> HIDE DEF hear
<1>3. CASE WorkerOf[c] = w /\ client[c].on
  BY <1>1, <1>2, <1>3 DEF Resumed
<1>4. CASE ~(WorkerOf[c] = w /\ client[c].on)
  <2>1. client'[c] = client[c]
    BY <1>1, <1>4
  <2> QED
    BY <2>1, <1>4 DEF Resumed
<1> QED
  BY <1>3, <1>4

\* A message that is covered stays so, unless a step takes it from where it was.
LEMMA MissedStep ==
  HandlerOK /\ DataOK /\ NothingMissed /\ [DeliveryNext]_delVars => NothingMissed'
<1> SUFFICES ASSUME HandlerOK, DataOK, NothingMissed, [DeliveryNext]_delVars,
                    NEW c \in Subscribers, NEW id \in cached', Resumed(c, id)'
             PROVE  Covered(c, id)'
  BY DEF NothingMissed, Resumed, Covered
<1>1. id \in cached /\ Resumed(c, id) => Covered(c, id)
  BY DEF NothingMissed, Resumed, Covered
<1>2. WorkerOf[c] \in Workers
  BY DeliveryAssumption
<1>3. ASSUME NEW w \in Workers, nextCacheId(w) PROVE Covered(c, id)'
  <2>1. Covered(c, id)
    BY <1>1, <1>3 DEF nextCacheId, Resumed
  <2>2. <<"publish">> # <<>>
    OBVIOUS
  <2> QED
    BY <1>3, <2>1, <2>2, Zenon DEF nextCacheId, Covered, OnItsWay, HandlerOK
<1>4. ASSUME NEW w \in Workers, cacheMessage(w) PROVE Covered(c, id)'
  <2>1. /\ Head(<<"publish">>) = "publish" /\ Head(<<"cache", "publish">>) = "cache"
        /\ Tail(<<"cache", "publish">>) = <<"publish">>
    OBVIOUS
  <2>2. handler[w].calls = <<"cache", "publish">>
    BY <1>4, <2>1 DEF cacheMessage, Calls, HandlerOK
  <2>3. handler'[w].calls = <<"publish">> /\ handler'[w].id = handler[w].id
    BY <1>4, <2>1, <2>2 DEF cacheMessage, return, HandlerOK
  <2>4. CASE id = handler[w].id
    BY <2>3, <2>4 DEF Covered, OnItsWay
  <2>5. CASE id # handler[w].id
    <3>1. Covered(c, id)
      BY <1>1, <1>4, <2>5 DEF cacheMessage, Resumed
    <3> QED
      BY <1>4, <2>3, <2>5, <3>1 DEF cacheMessage, return, Covered, OnItsWay, HandlerOK
  <2> QED
    BY <2>4, <2>5
<1>5. ASSUME NEW w \in Workers, publishMessage(w) PROVE Covered(c, id)'
  <2>1. /\ cached' = cached /\ failed' = failed /\ jobs' = jobs
        /\ \A v \in Workers \ {w} : handler'[v] = handler[v]
    BY <1>5 DEF publishMessage, return, HandlerOK
  <2>2. CASE linked
    <3>1. channel' = Append(channel, handler[w].id) /\ client' = client
      BY <1>5, <2>2 DEF publishMessage
    <3>2. handler[w].id \in Nat /\ channel \in Seq(Nat)
      BY DEF HandlerOK, DataOK
    <3>3. Elems(channel') = Elems(channel) \cup {handler[w].id}
      BY <3>1, <3>2, ElemsAppend
    <3>4. Covered(c, id)
      BY <1>1, <2>1, <3>1 DEF Resumed
    <3> QED
      BY <2>1, <3>1, <3>3, <3>4 DEF Covered, OnItsWay
  <2>3. CASE ~linked
    <3>1. channel' = channel /\ Lose({handler[w].id})
      BY <1>5, <2>3 DEF publishMessage
    <3>2. ClientsOK
      BY DEF DataOK
    <3>3. /\ Resumed(c, id)
          /\ client[c].got \cup client[c].lost \subseteq client'[c].got \cup client'[c].lost
          /\ client[c].on /\ id = handler[w].id => id \in client'[c].lost
      BY <3>1, <3>2, LoseSession
    <3> QED
      BY <1>1, <2>1, <3>1, <3>3 DEF Covered, OnItsWay, Resumed
  <2> QED
    BY <2>2, <2>3
<1>6. ASSUME NEW w \in Workers, publishThrows(w) PROVE Covered(c, id)'
  <2>1. Covered(c, id)
    BY <1>1, <1>6 DEF publishThrows, Resumed
  <2> QED
    BY <1>6, <2>1 DEF publishThrows, Covered, OnItsWay, HandlerOK
<1>7. ASSUME NEW w \in Workers, runJob(w) PROVE Covered(c, id)'
  <2>1. /\ Resumed(c, id)
        /\ client[c].got \cup client[c].lost \subseteq client'[c].got \cup client'[c].lost
        /\ WorkerOf[c] = w => Head(jobs[w]) \in client'[c].got
    BY <1>7, RunJobSession DEF Resumed
  <2>2. /\ cached' = cached /\ failed' = failed /\ handler' = handler /\ channel' = channel
    BY <1>7, ZenonT(40) DEF runJob
  <2>3. jobs[w] \in Seq(Nat) /\ jobs[w] # <<>>
    BY <1>7, Zenon DEF runJob, hasJobs, DataOK
  <2>4. Elems(jobs[w]) \subseteq Elems(Tail(jobs[w])) \cup {Head(jobs[w])}
    BY <2>3, ElemsTail
  <2>5. jobs'[WorkerOf[c]] = IF WorkerOf[c] = w THEN Tail(jobs[w]) ELSE jobs[WorkerOf[c]]
    BY <1>2, <1>7, Zenon DEF runJob, DataOK
  <2> QED
    BY <1>1, <2>1, <2>2, <2>4, <2>5 DEF Covered, OnItsWay
<1>8. ASSUME NEW gone \in cached, expire(gone) PROVE Covered(c, id)'
  BY <1>1, <1>8 DEF expire, Resumed, Covered, OnItsWay
<1>9. CASE linkBreaks
  <2>1. /\ cached' = cached /\ failed' = failed /\ handler' = handler /\ jobs' = jobs
        /\ Lose(Elems(channel)) /\ ClientsOK
    BY <1>9 DEF linkBreaks, DataOK
  <2>2. /\ Resumed(c, id)
        /\ client[c].got \cup client[c].lost \subseteq client'[c].got \cup client'[c].lost
        /\ client[c].on /\ id \in Elems(channel) => id \in client'[c].lost
    BY <2>1, LoseSession
  <2> QED
    BY <1>1, <2>1, <2>2 DEF Covered, OnItsWay, Resumed
<1>10. CASE psubscribe \/ UNCHANGED delVars
  BY <1>1, <1>10 DEF psubscribe, delVars, Resumed, Covered, OnItsWay
<1>11. CASE consume
  <2>1. Covered(c, id)
    BY <1>1, <1>11 DEF consume, Resumed
  <2>2. channel \in Seq(Nat) /\ channel # <<>> /\ jobs[WorkerOf[c]] \in Seq(Nat)
    BY <1>2, <1>11 DEF consume, DataOK
  <2>3. Head(channel) \in Nat /\ Elems(channel) \subseteq Elems(channel') \cup {Head(channel)}
    BY <1>11, <2>2, ElemsTail DEF consume
  <2>4. jobs'[WorkerOf[c]] = Append(jobs[WorkerOf[c]], Head(channel))
    BY <1>2, <1>11 DEF consume, addJob
  <2>5. Elems(jobs'[WorkerOf[c]]) = Elems(jobs[WorkerOf[c]]) \cup {Head(channel)}
    BY <2>2, <2>3, <2>4, ElemsAppend
  <2> QED
    BY <1>11, <2>1, <2>3, <2>5 DEF consume, Covered, OnItsWay
<1>12. ASSUME NEW d \in Subscribers, NEW throws, handleSubscribe(d, throws) PROVE Covered(c, id)'
  <2>1. CASE c = d
    <3>1. /\ client'[c].resumed = (~throws /\ client[c].last \in cached)
          /\ client'[c].since = client[c].last /\ cached' = cached
          /\ client'[c].got = client[c].got \cup
               IF throws THEN {} ELSE CacheSinceId(client[c].last)
      BY <1>12, <2>1 DEF handleSubscribe, DataOK, ClientsOK
    <3> QED
      BY <3>1, Zenon DEF CacheSinceId, Resumed, Covered
  <2>2. CASE c # d
    <3>1. client'[c] = client[c]
      BY <1>12, <2>2 DEF handleSubscribe, DataOK, ClientsOK
    <3> QED
      BY <1>1, <1>12, <3>1 DEF handleSubscribe, Resumed, Covered, OnItsWay
  <2> QED
    BY <2>1, <2>2
<1>13. ASSUME NEW d \in Subscribers, handleUnsubscribe(d) PROVE Covered(c, id)'
  <2>1. c # d /\ client'[c] = client[c]
    BY <1>13 DEF handleUnsubscribe, DataOK, ClientsOK, HasFields, Fields, Resumed
  <2> QED
    BY <1>1, <1>13, <2>1 DEF handleUnsubscribe, Resumed, Covered, OnItsWay
<1> QED
  BY <1>3, <1>4, <1>5, <1>6, <1>7, <1>8, <1>9, <1>10, <1>11, <1>12, <1>13, Zenon
  DEF DeliveryNext, working

\* Whatever the workers, the clients and Redis do, a client that resumed from an id
\* has every newer message of the log, or it is on its way, or it is known to be lost
\* with the connection to Redis or with a publish that failed: RPCHandler's order of
\* cacheMessage() and publishMessage(), and of handleSubscribe and the read of the log.
THEOREM ResumeMissesNothing == DeliverySpec => []NothingMissed
<1>1. DeliveryInv /\ [DeliveryNext]_delVars => DeliveryInv'
  BY HandlerStep, DataStep, MissedStep DEF DeliveryInv
<1>2. DeliveryInv => NothingMissed
  BY DEF DeliveryInv
<1> QED
  BY DeliveryInitial, <1>1, <1>2, PTL DEF DeliverySpec

------------------------------------------------------------------------------
(***************************************************************************)
(* One order for all.  What is on its way stands in the order in which it  *)
(* was published: first a worker's jobs, then the channel, all of it after *)
(* the worker's last job.                                                  *)
(***************************************************************************)
Place(o, x) == CHOOSE i \in 1 .. Len(o) : o[i] = x
Distinct(o) == \A i, j \in 1 .. Len(o) : o[i] = o[j] => i = j
Rising(o, s) == \A i, j \in 1 .. Len(s) : i < j => Place(o, s[i]) < Place(o, s[j])

Pending(w) == handler[w].calls # <<>>

\* An id is published once: no handler holds one that was, or another's.
OrderOK ==
  /\ order \in Seq(Nat) /\ Distinct(order)
  /\ \A x \in Elems(order) : x <= last_id
  /\ \A w \in Workers : Pending(w) => handler[w].id <= last_id /\ handler[w].id \notin Elems(order)
  /\ \A v, w \in Workers : Pending(v) /\ Pending(w) /\ handler[v].id = handler[w].id => v = w

\* The messages of queue s are published ones, in order, after place n.
Follows(o, n, s) ==
  /\ Elems(s) \subseteq Elems(o) /\ Rising(o, s)
  /\ \A x \in Elems(s) : n < Place(o, x)

QueueOK ==
  /\ done \in [Workers -> 0 .. Len(order)]
  /\ \A w \in Workers : Follows(order, done[w], jobs[w]) /\ Follows(order, done[w], channel)
  /\ \A w \in Workers : \A x \in Elems(jobs[w]), y \in Elems(channel) :
       Place(order, x) < Place(order, y)

\* A published message is found at its place in Redis's order.
LEMMA PlaceIs ==
  ASSUME NEW o, NEW x \in Elems(o)
  PROVE  Place(o, x) \in 1 .. Len(o) /\ o[Place(o, x)] = x
<1>1. \E i \in 1 .. Len(o) : o[i] = x
  BY DEF Elems
<1> QED
  BY <1>1, Zenon DEF Place

\* Publishing adds a place at the end and moves no other message.
LEMMA PlaceAppend ==
  ASSUME NEW o \in Seq(Nat), Distinct(o), NEW n \in Nat, n \notin Elems(o)
  PROVE  /\ Distinct(Append(o, n))
         /\ Place(Append(o, n), n) = Len(o) + 1
         /\ \A x \in Elems(o) : Place(Append(o, n), x) = Place(o, x)
<1> DEFINE a == Append(o, n)
<1>1. /\ Len(a) = Len(o) + 1 /\ Len(o) \in Nat /\ a[Len(o) + 1] = n
      /\ \A i \in 1 .. Len(o) : a[i] = o[i]
  OBVIOUS
<1>2. \A i \in 1 .. Len(o) : o[i] \in Elems(o)
  BY DEF Elems
<1>3. Elems(a) = Elems(o) \cup {n}
  BY ElemsAppend
<1> HIDE DEF a
<1>4. Distinct(a)
  BY <1>1, <1>2 DEF Distinct
<1>5. \A i \in 1 .. Len(a) : Place(a, a[i]) = i
  <2>1. ASSUME NEW i \in 1 .. Len(a) PROVE Place(a, a[i]) = i
    <3>1. a[i] \in Elems(a)
      BY DEF Elems
    <3>2. Place(a, a[i]) \in 1 .. Len(a) /\ a[Place(a, a[i])] = a[i]
      BY <3>1, PlaceIs
    <3> QED
      BY <1>4, <3>2 DEF Distinct
  <2> QED
    BY <2>1
<1>6. ASSUME NEW x \in Elems(o) PROVE Place(a, x) = Place(o, x)
  <2>1. Place(o, x) \in 1 .. Len(o) /\ o[Place(o, x)] = x
    BY PlaceIs
  <2>2. Place(o, x) \in 1 .. Len(a) /\ a[Place(o, x)] = x
    BY <1>1, <2>1
  <2> QED
    BY <1>5, <2>2
<1>7. Len(o) + 1 \in 1 .. Len(a)
  BY <1>1
<1>8. Place(a, n) = Len(o) + 1
  BY <1>1, <1>5, <1>7
<1> QED
  BY <1>4, <1>6, <1>8 DEF a

\* A queue stays in order when a later message is added at its end.
LEMMA FollowsAppend ==
  ASSUME NEW o \in Seq(Nat), NEW n \in Nat, NEW s \in Seq(Nat), Follows(o, n, s),
         NEW m \in Nat, m \in Elems(o), n < Place(o, m),
         \A x \in Elems(s) : Place(o, x) < Place(o, m)
  PROVE  Follows(o, n, Append(s, m))
<1>1. /\ Len(Append(s, m)) = Len(s) + 1 /\ Len(s) \in Nat
      /\ \A i \in 1 .. Len(s) : Append(s, m)[i] = s[i]
      /\ Append(s, m)[Len(s) + 1] = m
  OBVIOUS
<1>2. Elems(Append(s, m)) = Elems(s) \cup {m}
  BY ElemsAppend
<1>3. \A i \in 1 .. Len(s) : s[i] \in Elems(s)
  BY DEF Elems
<1>4. Rising(o, Append(s, m))
  BY <1>1, <1>3 DEF Follows, Rising
<1> QED
  BY <1>2, <1>4 DEF Follows

\* A queue stays in order when its head is taken, also counted from the head's place.
LEMMA FollowsTail ==
  ASSUME NEW o \in Seq(Nat), NEW n \in Nat, NEW s \in Seq(Nat), s # <<>>, Follows(o, n, s)
  PROVE  /\ Follows(o, Place(o, Head(s)), Tail(s)) /\ Follows(o, n, Tail(s))
         /\ Elems(Tail(s)) \subseteq Elems(s) /\ Head(s) \in Elems(s)
<1>1. /\ Len(Tail(s)) = Len(s) - 1 /\ Len(s) \in Nat \ {0}
      /\ Head(s) = s[1]
      /\ \A i \in 1 .. Len(Tail(s)) : i + 1 \in 1 .. Len(s) /\ Tail(s)[i] = s[i + 1]
  OBVIOUS
<1>2. Elems(Tail(s)) \subseteq Elems(s) /\ Head(s) \in Elems(s)
  BY <1>1 DEF Elems
<1>3. Rising(o, Tail(s))
  BY <1>1 DEF Follows, Rising
<1>4. \A x \in Elems(Tail(s)) : Place(o, Head(s)) < Place(o, x)
  BY <1>1 DEF Follows, Rising, Elems
<1> QED
  BY <1>2, <1>3, <1>4 DEF Follows

\* A queue is still in order when another message is published.
LEMMA FollowsPublish ==
  ASSUME NEW o \in Seq(Nat), Distinct(o), NEW m \in Nat, m \notin Elems(o),
         NEW n, NEW s \in Seq(Nat), Follows(o, n, s)
  PROVE  Follows(Append(o, m), n, s)
<1>1. Elems(Append(o, m)) = Elems(o) \cup {m}
  BY ElemsAppend
<1>2. \A x \in Elems(s) : Place(Append(o, m), x) = Place(o, x)
  BY PlaceAppend DEF Follows
<1>3. \A i \in 1 .. Len(s) : s[i] \in Elems(s)
  BY DEF Elems
<1>4. Rising(Append(o, m), s)
  BY <1>2, <1>3 DEF Follows, Rising
<1> QED
  BY <1>1, <1>2, <1>4 DEF Follows

\* No step publishes an id twice.
LEMMA OrderStep == HandlerOK /\ DataOK /\ OrderOK /\ [DeliveryNext]_delVars => OrderOK'
<1> SUFFICES ASSUME HandlerOK, DataOK, OrderOK, [DeliveryNext]_delVars PROVE OrderOK'
  OBVIOUS
<1>a. /\ last_id \in Nat /\ \A w \in Workers : handler[w].id \in Nat
      /\ order \in Seq(Nat) /\ \A x \in Elems(order) : x \in Nat
  BY DEF DataOK, HandlerOK, OrderOK, Elems
<1>1. ASSUME UNCHANGED <<last_id, order>>,
             \A w \in Workers : Pending(w)' => Pending(w) /\ handler'[w].id = handler[w].id
      PROVE  OrderOK'
  BY <1>1 DEF OrderOK
<1>2. ASSUME NEW w \in Workers, nextCacheId(w) PROVE OrderOK'
  <2>1. /\ last_id' = last_id + 1 /\ order' = order
        /\ handler'[w].id = last_id + 1
        /\ \A v \in Workers \ {w} : handler'[v] = handler[v]
    BY <1>2 DEF nextCacheId, HandlerOK
  <2>2. \A v \in Workers \ {w} : Pending(v)' => Pending(v)
    BY <2>1 DEF Pending
  <2>3. \A x \in Elems(order) : x <= last_id + 1 /\ x # last_id + 1
    BY <1>a DEF OrderOK
  <2>4. \A v \in Workers : Pending(v)' =>
          handler'[v].id <= last_id + 1 /\ handler'[v].id \notin Elems(order)
    BY <1>a, <2>1, <2>2, <2>3 DEF OrderOK
  <2>5. \A v \in Workers \ {w} : Pending(v)' => handler'[v].id # last_id + 1
    BY <1>a, <2>1, <2>2 DEF OrderOK
  <2>6. \A u, v \in Workers : Pending(u)' /\ Pending(v)' /\ handler'[u].id = handler'[v].id => u = v
    BY <2>1, <2>2, <2>5 DEF OrderOK
  <2> QED
    BY <2>1, <2>3, <2>4, <2>6 DEF OrderOK
<1>3. ASSUME NEW w \in Workers, cacheMessage(w) PROVE OrderOK'
  <2>1. /\ handler'[w].id = handler[w].id /\ Pending(w)
        /\ \A v \in Workers \ {w} : handler'[v] = handler[v]
    BY <1>3 DEF cacheMessage, return, Calls, Pending, HandlerOK
  <2> QED
    BY <1>1, <1>3, <2>1 DEF cacheMessage, Pending
<1>4. ASSUME NEW w \in Workers, publishMessage(w) PROVE OrderOK'
  <2> DEFINE id == handler[w].id
  <2>1. Head(<<"cache", "publish">>) = "cache" /\ Tail(<<"publish">>) = <<>>
    OBVIOUS
  <2>2. handler[w].calls = <<"publish">>
    BY <1>4, <2>1 DEF publishMessage, Calls, HandlerOK
  <2>3. /\ handler'[w].calls = <<>>
        /\ \A v \in Workers \ {w} : handler'[v] = handler[v]
    BY <1>4, <2>1, <2>2 DEF publishMessage, return, HandlerOK
  <2>4. Pending(w) /\ ~Pending(w)' /\ \A v \in Workers \ {w} : Pending(v)' <=> Pending(v)
    BY <1>4, <2>3 DEF publishMessage, Calls, Pending
  <2>5. id \in Nat /\ id \notin Elems(order) /\ id <= last_id /\ Distinct(order)
    BY <1>a, <2>4 DEF OrderOK
  <2>6. order' = Append(order, id) /\ last_id' = last_id
    BY <1>4 DEF publishMessage
  <2>7. order' \in Seq(Nat) /\ Distinct(order') /\ Elems(order') = Elems(order) \cup {id}
    BY <1>a, <2>5, <2>6, PlaceAppend, ElemsAppend
  <2>8. \A v \in Workers : Pending(v)' =>
          handler'[v].id <= last_id /\ handler'[v].id \notin Elems(order')
    BY <2>3, <2>4, <2>7 DEF OrderOK
  <2>9. \A u, v \in Workers : Pending(u)' /\ Pending(v)' /\ handler'[u].id = handler'[v].id => u = v
    BY <2>3, <2>4 DEF OrderOK
  <2> QED
    BY <2>5, <2>6, <2>7, <2>8, <2>9 DEF OrderOK
<1>5. ASSUME NEW w \in Workers, publishThrows(w) PROVE OrderOK'
  <2>1. ~Pending(w)' /\ \A v \in Workers \ {w} : handler'[v] = handler[v]
    BY <1>5 DEF publishThrows, NoRequest, Pending, HandlerOK
  <2> QED
    BY <1>1, <1>5, <2>1 DEF publishThrows, Pending
<1>6. CASE UNCHANGED <<last_id, order, handler>>
  BY <1>1, <1>6 DEF Pending
<1> QED
  BY <1>2, <1>3, <1>4, <1>5, <1>6, Zenon
  DEF DeliveryNext, working, runJob, expire, linkBreaks, psubscribe, consume, handleSubscribe,
      handleUnsubscribe, delVars

\* No step brings a worker's jobs, and the channel after them, out of Redis's order.
LEMMA QueueStep == HandlerOK /\ DataOK /\ OrderOK /\ QueueOK /\ [DeliveryNext]_delVars => QueueOK'
<1> SUFFICES ASSUME HandlerOK, DataOK, OrderOK, QueueOK, [DeliveryNext]_delVars PROVE QueueOK'
  OBVIOUS
<1>a. /\ order \in Seq(Nat) /\ Distinct(order) /\ channel \in Seq(Nat) /\ Len(order) \in Nat
      /\ \A w \in Workers : jobs[w] \in Seq(Nat) /\ done[w] \in 0 .. Len(order)
  BY DEF DataOK, OrderOK, QueueOK
<1>1. ASSUME NEW w \in Workers, publishMessage(w) PROVE QueueOK'
  <2> DEFINE id == handler[w].id
             o == Append(order, id)
  <2>1. Pending(w)
    BY <1>1 DEF publishMessage, Calls, Pending
  <2>2. id \in Nat /\ id \notin Elems(order)
    BY <2>1 DEF HandlerOK, OrderOK
  <2>3. order' = o /\ UNCHANGED <<done, jobs>>
    BY <1>1 DEF publishMessage
  <2>4. channel' = channel \/ channel' = Append(channel, id)
    BY <1>1, Zenon DEF publishMessage
  <2>5. /\ Place(o, id) = Len(order) + 1 /\ Len(o) = Len(order) + 1 /\ o \in Seq(Nat)
        /\ id \in Elems(o)
    BY <1>a, <2>2, PlaceAppend, ElemsAppend
  <2>6. \A x \in Elems(order) : Place(o, x) = Place(order, x) /\ Place(o, x) \in 1 .. Len(order)
    BY <1>a, <2>2, PlaceAppend, PlaceIs
  <2>7. \A v \in Workers : Follows(o, done[v], jobs[v]) /\ Follows(o, done[v], channel)
    BY <1>a, <2>2, FollowsPublish DEF QueueOK
  <2>8. \A v \in Workers : Elems(jobs[v]) \subseteq Elems(order) /\ Elems(channel) \subseteq Elems(order)
    BY DEF QueueOK, Follows
  <2>9. \A v \in Workers : \A x \in Elems(jobs[v]), y \in Elems(channel) : Place(o, x) < Place(o, y)
    BY <2>6, <2>8 DEF QueueOK
  <2>10. done \in [Workers -> 0 .. Len(o)]
    BY <1>a, <2>5 DEF QueueOK
  <2> HIDE DEF o
  <2>11. CASE channel' = channel
    BY <2>3, <2>7, <2>9, <2>10, <2>11 DEF QueueOK
  <2>12. CASE channel' = Append(channel, id)
    <3>1. Elems(channel') = Elems(channel) \cup {id}
      BY <1>a, <2>2, <2>12, ElemsAppend
    <3>2. \A x \in Elems(order) : Place(o, x) < Place(o, id)
      BY <1>a, <2>5, <2>6, SMTT(40)
    <3>3. ASSUME NEW v \in Workers PROVE Follows(o, done[v], channel')
      <4>1. done[v] \in Nat /\ done[v] < Place(o, id)
        BY <1>a, <2>5
      <4>2. \A x \in Elems(channel) : Place(o, x) < Place(o, id)
        BY <2>8, <3>2, <3>3
      <4> QED
        BY <1>a, <2>2, <2>5, <2>7, <2>12, <4>1, <4>2, FollowsAppend, SMTT(40)
    <3>4. \A v \in Workers : \A x \in Elems(jobs[v]), y \in Elems(channel') : Place(o, x) < Place(o, y)
      BY <2>8, <2>9, <3>1, <3>2
    <3> QED
      BY <2>3, <2>7, <2>10, <3>3, <3>4 DEF QueueOK
  <2> QED
    BY <2>4, <2>11, <2>12
<1>2. ASSUME NEW w \in Workers, runJob(w) PROVE QueueOK'
  <2> DEFINE id == Head(jobs[w])
  <2>1. /\ UNCHANGED <<order, channel>> /\ jobs[w] # <<>>
        /\ \A v \in Workers : jobs'[v] = IF v = w THEN Tail(jobs[w]) ELSE jobs[v]
        /\ \A v \in Workers : done'[v] = IF v = w THEN Place(order, id) ELSE done[v]
        /\ DOMAIN done' = Workers /\ done' = [v \in Workers |-> done'[v]]
    <3>1. PlaceOf(id) = Place(order, id)
      BY DEF PlaceOf, Place
    <3>2. done' = [done EXCEPT ![w] = Place(order, id)]
      BY <1>2, <3>1, Zenon DEF runJob
    <3>3. UNCHANGED <<order, channel>> /\ jobs[w] # <<>> /\ jobs' = [jobs EXCEPT ![w] = Tail(@)]
      BY <1>2, Zenon DEF runJob, hasJobs
    <3> QED
      BY <3>2, <3>3, ZenonT(40) DEF DataOK, QueueOK
  <2>2. /\ Follows(order, Place(order, id), Tail(jobs[w]))
        /\ Elems(Tail(jobs[w])) \subseteq Elems(jobs[w]) /\ id \in Elems(jobs[w])
    BY <1>a, <2>1, FollowsTail DEF QueueOK
  <2>3. Place(order, id) \in 1 .. Len(order)
    BY <2>2, PlaceIs DEF QueueOK, Follows
  <2>4. Follows(order, Place(order, id), channel)
    BY <2>2 DEF QueueOK, Follows
  <2>5. \A v \in Workers : Elems(jobs'[v]) \subseteq Elems(jobs[v])
    BY <2>1, <2>2
  <2>6. done' \in [Workers -> 0 .. Len(order)]
    <3>0. Place(order, id) \in 0 .. Len(order) /\ \A v \in Workers : done[v] \in 0 .. Len(order)
      BY <2>3 DEF QueueOK
    <3>1. \A v \in Workers : done'[v] \in 0 .. Len(order)
      BY <2>1, <3>0, Zenon
    <3>2. done' = [v \in Workers |-> done'[v]]
      BY <2>1
    <3> QED
      BY <3>1, <3>2, Zenon
  <2>7. \A v \in Workers : Follows(order, done'[v], jobs'[v]) /\ Follows(order, done'[v], channel)
    BY <2>1, <2>2, <2>4 DEF QueueOK
  <2> QED
    BY <2>1, <2>5, <2>6, <2>7 DEF QueueOK
<1>3. CASE consume
  <2> DEFINE m == Head(channel)
  <2>1. /\ UNCHANGED <<order, done>> /\ channel # <<>> /\ channel' = Tail(channel)
        /\ \A w \in Workers : jobs'[w] = Append(jobs[w], m)
    BY <1>3 DEF consume, addJob
  <2>2. ASSUME NEW w \in Workers
        PROVE  /\ Follows(order, done[w], jobs'[w]) /\ Follows(order, done[w], channel')
               /\ \A x \in Elems(jobs'[w]), y \in Elems(channel') : Place(order, x) < Place(order, y)
    <3>1. /\ Follows(order, done[w], channel) /\ Follows(order, done[w], jobs[w])
          /\ done[w] \in Nat
      BY <1>a DEF QueueOK
    <3>2. /\ Follows(order, Place(order, m), channel') /\ Follows(order, done[w], channel')
          /\ Elems(channel') \subseteq Elems(channel) /\ m \in Elems(channel)
      BY <1>a, <2>1, <3>1, FollowsTail
    <3>3. m \in Nat /\ m \in Elems(order) /\ done[w] < Place(order, m)
      <4>1. Elems(channel) \subseteq Nat
        BY <1>a DEF Elems
      <4> QED
        BY <3>1, <3>2, <4>1 DEF Follows
    <3>4. \A x \in Elems(jobs[w]) : Place(order, x) < Place(order, m)
      BY <3>2 DEF QueueOK
    <3>5. Follows(order, done[w], Append(jobs[w], m))
      BY <1>a, <3>1, <3>3, <3>4, FollowsAppend
    <3>6. Elems(jobs'[w]) = Elems(jobs[w]) \cup {m}
      BY <1>a, <2>1, <3>3, ElemsAppend, Zenon
    <3>7. \A y \in Elems(channel') : Place(order, m) < Place(order, y)
      BY <3>2 DEF Follows
    <3> QED
      BY <2>1, <3>2, <3>5, <3>6, <3>7, Zenon DEF QueueOK
  <2> QED
    BY <2>1, <2>2 DEF QueueOK
<1>4. CASE linkBreaks
  <2>1. Elems(<<>>) = {} /\ Len(<<>>) = 0
    BY DEF Elems
  <2>2. \A n : Follows(order, n, <<>>)
    BY <2>1 DEF Follows, Rising
  <2> QED
    BY <1>4, <2>1, <2>2 DEF linkBreaks, QueueOK
<1>5. CASE UNCHANGED <<order, channel, jobs, done>>
  BY <1>5 DEF QueueOK
<1> QED
  BY <1>1, <1>2, <1>3, <1>4, <1>5
  DEF DeliveryNext, working, nextCacheId, cacheMessage, publishThrows, expire, psubscribe,
      handleSubscribe, handleUnsubscribe, delVars

------------------------------------------------------------------------------
(***************************************************************************)
(* The refinement: what a subscriber hears live is Broadcast's heard.      *)
(***************************************************************************)
LiveKept == \A c \in Subscribers : client'[c].live = client[c].live

\* A lost connection to Redis delivers nothing.
LEMMA LoseKeepsLive ==
  ASSUME ClientsOK, NEW ids, Lose(ids)
  PROVE  LiveKept
<1> SUFFICES ASSUME NEW c \in Subscribers PROVE client'[c].live = client[c].live
  BY DEF LiveKept
<1> DEFINE lose == [client[c] EXCEPT !.lost = client[c].lost \cup ids]
<1>1. client'[c] = IF client[c].on THEN lose ELSE client[c]
  BY DEF Lose
<1>2. lose.live = client[c].live
  BY DEF ClientsOK, HasFields, Fields
<1> QED
  BY <1>1, <1>2, Zenon

\* Every step is one of Broadcast's, or is not seen there.
LEMMA CastStep ==
  HandlerOK /\ DataOK /\ OrderOK /\ QueueOK /\ [DeliveryNext]_delVars
    => [Cast!CastNext]_(Cast!castVars)
<1> SUFFICES ASSUME HandlerOK, DataOK, OrderOK, QueueOK, [DeliveryNext]_delVars
             PROVE  Cast!CastNext \/ UNCHANGED Cast!castVars
  OBVIOUS
<1>a. \A c \in Subscribers : WorkerOf[c] \in Workers
  BY DeliveryAssumption
<1>1. ASSUME UNCHANGED <<order, done>>, LiveKept PROVE UNCHANGED Cast!castVars
  BY <1>1 DEF Cast!castVars, LiveKept
<1>2. ASSUME NEW w \in Workers, publishMessage(w) PROVE Cast!Publish
  <2>1. order' = Append(order, handler[w].id) /\ done' = done
    BY <1>2 DEF publishMessage
  <2>2. order \in Seq(Nat) /\ handler[w].id \in Nat
    BY DEF OrderOK, HandlerOK
  <2>3. LiveKept
    BY <1>2, LoseKeepsLive DEF publishMessage, LiveKept, DataOK
  <2>4. Len(order') = Len(order) + 1 /\ SubSeq(order', 1, Len(order)) = order
    BY <2>1, <2>2
  <2> QED
    BY <2>1, <2>3, <2>4 DEF Cast!Publish, LiveKept
<1>3. ASSUME NEW w \in Workers, runJob(w) PROVE Cast!CastNext
  <2> DEFINE id == Head(jobs[w])
             i == Place(order, id)
             M == {c \in Subscribers : WorkerOf[c] = w}
             S == {c \in M : client[c].on}
  <2>1. PlaceOf(id) = i
    BY DEF PlaceOf, Place
  <2>2. jobs[w] # <<>> /\ jobs[w] \in Seq(Nat) /\ order' = order
    BY <1>3, Zenon DEF runJob, hasJobs, DataOK
  <2>3. id \in Elems(jobs[w])
    BY <2>2 DEF Elems
  <2>4. i \in 1 .. Len(order) /\ order[i] = id /\ done[w] < i
    BY <2>3, PlaceIs DEF QueueOK, Follows
  <2>5. ASSUME NEW c \in Subscribers
        PROVE  /\ client'[c].live = IF c \in S THEN Append(client[c].live, id) ELSE client[c].live
               /\ done'[WorkerOf[c]] = IF c \in M THEN i ELSE done[WorkerOf[c]]
    <3> DEFINE hear == [client[c] EXCEPT !.got = client[c].got \cup {id}, !.last = id,
                                         !.live = Append(client[c].live, id)]
    <3>1. client'[c] = IF WorkerOf[c] = w /\ client[c].on THEN hear ELSE client[c]
      BY <1>3, Zenon DEF runJob
    <3>2. hear.live = Append(client[c].live, id)
      BY DEF DataOK, ClientsOK, HasFields, Fields
    <3>3. done' = [done EXCEPT ![w] = i]
      BY <1>3, <2>1, Zenon DEF runJob
    <3>4. done'[WorkerOf[c]] = IF c \in M THEN i ELSE done[WorkerOf[c]]
      BY <1>a, <3>3 DEF QueueOK
    <3>5. c \in S <=> WorkerOf[c] = w /\ client[c].on
      OBVIOUS
    <3> QED
      BY <3>1, <3>2, <3>4, <3>5, ZenonT(40)
  <2>6. \A c \in M : done[WorkerOf[c]] < i
    BY <2>4
  <2> HIDE DEF i
  <2>7. Cast!Hear(S, M, i)
    BY <2>2, <2>4, <2>5, <2>6 DEF Cast!Hear
  <2>8. S \in SUBSET Subscribers /\ M \in SUBSET Subscribers
    OBVIOUS
  <2> HIDE DEF S, M
  <2> QED
    BY <2>4, <2>7, <2>8, Zenon DEF Cast!CastNext, Cast!Hear
<1>4. ASSUME NEW c \in Subscribers, NEW throws, handleSubscribe(c, throws) PROVE Cast!CastNext
  <2>1. /\ client'[c].live = <<>> /\ \A d \in Subscribers \ {c} : client'[d] = client[d]
        /\ UNCHANGED <<order, done>>
    BY <1>4 DEF handleSubscribe, DataOK, ClientsOK
  <2>2. Cast!Join(c)
    BY <2>1, Zenon DEF Cast!Join
  <2> QED
    BY <2>2 DEF Cast!CastNext
<1>5. ASSUME NEW c \in Subscribers, handleUnsubscribe(c) PROVE UNCHANGED Cast!castVars
  <2>1. UNCHANGED <<order, done>> /\ LiveKept
    BY <1>5 DEF handleUnsubscribe, DataOK, ClientsOK, HasFields, Fields, LiveKept
  <2> QED
    BY <1>1, <2>1
<1>6. CASE linkBreaks
  <2>1. UNCHANGED <<order, done>> /\ LiveKept
    BY <1>6, LoseKeepsLive DEF linkBreaks, DataOK
  <2> QED
    BY <1>1, <2>1
<1>7. CASE UNCHANGED <<order, done, client>>
  BY <1>1, <1>7 DEF LiveKept
<1>8. ASSUME NEW w \in Workers, publishMessage(w) PROVE Cast!CastNext
  BY <1>2, <1>8 DEF Cast!CastNext
<1> QED
  BY <1>3, <1>4, <1>5, <1>6, <1>7, <1>8, Zenon
  DEF DeliveryNext, working, nextCacheId, cacheMessage, publishThrows, expire, psubscribe,
      consume, delVars

\* When the server starts nothing is published, nor heard.
LEMMA CastInitial == DeliveryInit => OrderOK /\ QueueOK /\ Cast!CastInit
<1> SUFFICES ASSUME DeliveryInit PROVE OrderOK /\ QueueOK /\ Cast!CastInit
  OBVIOUS
<1>1. Elems(<<>>) = {} /\ Len(<<>>) = 0 /\ <<>> \in Seq(Nat)
  BY DEF Elems
<1>2. OrderOK
  BY <1>1 DEF DeliveryInit, OrderOK, Distinct, Pending, NoRequest
<1>3. QueueOK
  BY <1>1 DEF DeliveryInit, QueueOK, Follows, Rising
<1>4. Cast!CastInit
  BY DeliveryAssumption DEF DeliveryInit, Cast!CastInit, NewClient
<1> QED
  BY <1>2, <1>3, <1>4

\* The whole path from RPCHandler through Redis, the server's callback and the workers'
\* jobs implements Broadcast: every subscriber hears live messages in the one order in
\* which Redis published them, and none of them twice.
THEOREM DeliveryIsBroadcast == DeliverySpec => ImplementsBroadcast
<1>1. DeliveryInit => HandlerOK /\ DataOK
  BY DeliveryInitial DEF DeliveryInv
<1> QED
  BY <1>1, HandlerStep, DataStep, CastInitial, OrderStep, QueueStep, CastStep, PTL
  DEF DeliverySpec, ImplementsBroadcast, Cast!CastSpec
==============================================================================
