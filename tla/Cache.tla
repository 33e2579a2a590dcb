--------------------------------- MODULE Cache ---------------------------------
(***************************************************************************)
(* The event log kept in Redis (src/Redis.cpp): cacheMessage(), the reads  *)
(* getCacheSince() and getCacheSinceId(), and purgeExpiredCacheItems().    *)
(* Messages are published by worker threads of any server that shares the  *)
(* Redis database; the reader is a worker thread that answers an eventlog  *)
(* request, the purger a server's cron thread.  A step is one Redis command*)
(* with the local work around it; Redis runs one command at a time.        *)
(***************************************************************************)
EXTENDS Ranking

CONSTANTS Messages,     \* the messages published
          TopicNames,   \* topics published to; a pattern matches all of them
          Timestamps,   \* explicit timestamps a client may give to publish
          TTLs,         \* times to live a client may give
          IdLife,       \* the second after which an id counter expires
          Sinces,       \* timestamps a client may ask for
          SinceLimits,  \* limits it may ask for with a timestamp
          IdLimits,     \* limits it may ask for with an id
          FirstSeq,     \* ids that other topics have taken at the first timestamp
          EnableCache,  \* enable_cache of the configuration
          MaxNow        \* bound on the clock

ASSUME CacheAssumption ==
  /\ MaxNow \in Nat \ {0} /\ Timestamps \subseteq 1 .. MaxNow
  /\ TTLs \subseteq Nat /\ IdLife \in Nat /\ Sinces \subseteq Nat
  /\ SinceLimits \subseteq Nat /\ IdLimits \subseteq Nat
  /\ FirstSeq \in 0 .. 99
  /\ EnableCache \in BOOLEAN

VARIABLES
  now,      \* the clock, in the unit of timestamps
  idseq,    \* per timestamp: the id counter, 0 when the key does not exist
  idleft,   \* per timestamp: the counter's time to live, 0 for none
  data,     \* HSETs: [topic, id, msg], one entry per topic and id
  scores,   \* ZSETs: members [topic, id, expire], the score is id[1]
  seen,     \* topics in the pub_count HSET
  pub,      \* per message: how far cacheMessage() and publishMessage() are
  rd,       \* the reader: its request, what it still reads, its result
  purger,   \* the purger: its clock reading and what it still looks at
  stored,   \* history: every message whose data cacheMessage() has stored
  log       \* history: those of them that it has cached entirely

cacheVars == <<now, idseq, idleft, data, scores, seen, pub, rd, purger, log, stored>>

Clock == 1 .. MaxNow
MaxSeq == 100     \* bound on the ids of one timestamp
Step(at) == [pc |-> at, topic |-> "", id |-> <<0, 0>>, expire |-> 0]
NoRead == [pc |-> "idle", pattern |-> FALSE, topic |-> "", byId |-> FALSE, since |-> <<0, 0>>,
           limit |-> 0, now |-> 0, todo |-> {}, keys |-> {}, result |-> <<>>, had |-> {}]
NoPurge == [pc |-> "idle", now |-> 0, todo |-> {}, expired |-> {}, topic |-> "", item |-> <<>>]

CacheInit ==
  /\ now = 1
  /\ idseq = [ts \in Clock |-> IF ts = 1 THEN FirstSeq ELSE 0]
  /\ idleft = [ts \in Clock |-> IF idseq[ts] = 0 THEN 0 ELSE IdLife]
  /\ data = {} /\ scores = {} /\ seen = {} /\ log = {} /\ stored = {}
  /\ pub = [m \in Messages |-> Step("new")]
  /\ rd = NoRead
  /\ purger = NoPurge

--------------------------------------------------------------------------------
\* cacheMessage()

\* The message is stamped with the clock, or with the client's own timestamp.
stamp(m, t, ts) ==
  /\ pub[m].pc = "new"
  /\ pub' = [pub EXCEPT ![m] = [pc |-> "incr", topic |-> t, id |-> <<ts, 0>>, expire |-> 0]]
  /\ UNCHANGED <<now, idseq, idleft, data, scores, seen, rd, purger, log, stored>>

\* _getNextCacheId(): INCR, which creates a counter that does not exist.
nextId(m) ==
  LET ts == pub[m].id[1] IN
  /\ pub[m].pc = "incr"
  /\ idseq[ts] < MaxSeq
  /\ pub' = [pub EXCEPT ![m].pc = "expire", ![m].id = <<ts, idseq[ts]>>]
  /\ idseq' = [idseq EXCEPT ![ts] = @ + 1]
  /\ UNCHANGED <<now, idleft, data, scores, seen, rd, purger, log, stored>>

\* EXPIRE, then the message's own time to live starts.
expireId(m, ttl) ==
  LET ts == pub[m].id[1] IN
  /\ pub[m].pc = "expire"
  /\ idleft' = [idleft EXCEPT ![ts] = IF idseq[ts] = 0 THEN 0 ELSE IdLife]
  /\ pub' = [pub EXCEPT ![m].pc = IF EnableCache THEN "hset" ELSE "publish",
                        ![m].expire = now + ttl]
  /\ UNCHANGED <<now, idseq, data, scores, seen, rd, purger, log, stored>>

Entry(m) == [topic |-> pub[m].topic, id |-> pub[m].id, msg |-> m]
Member(m) == [topic |-> pub[m].topic, id |-> pub[m].id, expire |-> pub[m].expire]
Message(m) == [topic |-> pub[m].topic, id |-> pub[m].id, expire |-> pub[m].expire, msg |-> m]

hset(m) ==
  /\ pub[m].pc = "hset"
  /\ data' = {d \in data : d.topic # pub[m].topic \/ d.id # pub[m].id} \cup {Entry(m)}
  /\ stored' = stored \cup {Message(m)}
  /\ pub' = [pub EXCEPT ![m].pc = "zadd"]
  /\ UNCHANGED <<now, idseq, idleft, scores, seen, rd, purger, log>>

zadd(m) ==
  /\ pub[m].pc = "zadd"
  /\ scores' = scores \cup {Member(m)}
  /\ pub' = [pub EXCEPT ![m].pc = "hincrby"]
  /\ UNCHANGED <<now, idseq, idleft, data, seen, rd, purger, log, stored>>

\* _incrTopicPubCount()
incrTopicPubCount(m) ==
  /\ pub[m].pc = "hincrby"
  /\ seen' = seen \cup {pub[m].topic}
  /\ log' = log \cup {Message(m)}
  /\ pub' = [pub EXCEPT ![m] = Step("publish")]
  /\ UNCHANGED <<now, idseq, idleft, data, scores, rd, purger, stored>>

\* publishMessage(), which changes nothing of the event log; or a command failed,
\* and _handlePublish() catches the exception and gives up.
endPublish(m) ==
  /\ pub[m].pc \notin {"new", "done"}
  /\ pub' = [pub EXCEPT ![m] = Step("done")]
  /\ UNCHANGED <<now, idseq, idleft, data, scores, seen, rd, purger, log, stored>>

cacheMessage(m) ==
  \/ nextId(m) \/ (\E ttl \in TTLs : expireId(m, ttl)) \/ hset(m) \/ zadd(m)
  \/ incrTopicPubCount(m) \/ endPublish(m)

--------------------------------------------------------------------------------
\* getCacheSince() and getCacheSinceId()

\* Members of one score are in the order of their strings "<ts>-<seq>:<expire>",
\* where "<ts>-10" comes before "<ts>-9" and before "<ts>-1:" (seq below MaxSeq).
LexKey(seq) == IF seq < 10 THEN 11 * seq + 10 ELSE 11 * (seq \div 10) + (seq % 10)

Before(x, y) ==
  \/ x.id[1] < y.id[1]
  \/ x.id[1] = y.id[1] /\ LexKey(x.id[2]) < LexKey(y.id[2])
  \/ x.id = y.id /\ x.expire < y.expire

Newer(x, y) == x[1] > y[1] \/ (x[1] = y[1] /\ x[2] > y[2])

\* The newest members up to limit.
Newest(S, limit) == {z \in S : Cardinality({y \in S : Before(z, y)}) < limit}

\* A request for one topic, or for a pattern, since a timestamp or an id.
beginRead(pattern, t, byId, since, limit) ==
  /\ rd.pc = "idle" /\ EnableCache
  /\ rd' = [NoRead EXCEPT !.pc = IF pattern THEN "hkeys" ELSE "zrevrange", !.pattern = pattern,
                          !.topic = t, !.byId = byId, !.since = since,
                          !.limit = limit, !.now = now,
                          !.todo = IF pattern THEN {} ELSE {t}, !.had = log]
  /\ UNCHANGED <<now, idseq, idleft, data, scores, seen, pub, purger, log, stored>>

\* _getTopicsSeen(): HKEYS.
getTopicsSeen ==
  /\ rd.pc = "hkeys"
  /\ rd' = [rd EXCEPT !.todo = seen, !.pc = "zrevrange"]
  /\ UNCHANGED <<now, idseq, idleft, data, scores, seen, pub, purger, log, stored>>

Since(t) == {z \in scores : z.topic = t /\ z.id[1] >= rd.since[1]}
readKeys(t, keys) ==
  /\ rd' = [rd EXCEPT !.todo = @ \ {t}, !.keys = keys,
                      !.pc = IF keys = {} THEN "zrevrange" ELSE "hmget"]
  /\ UNCHANGED <<now, idseq, idleft, data, scores, seen, pub, purger, log, stored>>

\* Mutant: the oldest members up to the limit instead of the newest.
readScoresOldest(t) ==
  /\ rd.pc = "zrevrange" /\ t \in rd.todo
  /\ LET oldest == {z \in Since(t) : Cardinality({y \in Since(t) : Before(y, z)}) < rd.limit}
     IN readKeys(t, {z \in oldest : z.expire >= rd.now})

\* Mutant: expired members are kept.
readScoresExpired(t) ==
  /\ rd.pc = "zrevrange" /\ t \in rd.todo
  /\ readKeys(t, Newest(Since(t), rd.limit))

\* ZREVRANGEBYSCORE of the next topic, of which expired members are dropped.
readScores(t) ==
  /\ rd.pc = "zrevrange" /\ t \in rd.todo
  /\ readKeys(t, {z \in Newest(Since(t), rd.limit) : z.expire >= rd.now})

\* HMGET, the oldest first; keys without data are left out.
Items(k) == {d \in data : d.topic = k.topic /\ d.id = k.id}
Found == LET S == {k \in rd.keys : Items(k) # {}}
         IN InOrder(S, {xy \in S \X S : Before(xy[1], xy[2])})
readData ==
  /\ rd.pc = "hmget"
  /\ LET items == [i \in DOMAIN Found |-> CHOOSE d \in Items(Found[i]) : TRUE]
     IN rd' = [rd EXCEPT !.result = @ \o items, !.keys = {}, !.pc = "zrevrange"]
  /\ UNCHANGED <<now, idseq, idleft, data, scores, seen, pub, purger, log, stored>>

\* Mutant: messages of later milliseconds only.
AfterIdByTime(s, id) ==
  IF \E i \in DOMAIN s : s[i].id = id /\ \A j \in 1 .. i - 1 : ~ Newer(s[j].id, id)
  THEN Selected(s, {i \in DOMAIN s : s[i].id[1] > id[1]})
  ELSE <<>>

\* getCacheSinceId(): what comes after the id, or nothing if a newer element
\* comes before it or it is not there.
AfterId(s, id) ==
  IF \E i \in DOMAIN s : s[i].id = id /\ \A j \in 1 .. i - 1 : ~ Newer(s[j].id, id)
  THEN Selected(s, {i \in DOMAIN s : Newer(s[i].id, id)})
  ELSE <<>>

\* The whole result has been read; it is what the client is sent.
AllRead == rd.pc = "zrevrange" /\ rd.todo = {}
Result == IF rd.byId THEN AfterId(rd.result, rd.since) ELSE rd.result

\* The client is answered, or a command failed and an error is sent.
answer ==
  /\ rd.pc # "idle"
  /\ rd' = NoRead
  /\ UNCHANGED <<now, idseq, idleft, data, scores, seen, pub, purger, log, stored>>

read == getTopicsSeen \/ (\E t \in TopicNames : readScores(t)) \/ readData \/ answer

--------------------------------------------------------------------------------
\* purgeExpiredCacheItems()

beginPurge ==
  /\ purger.pc = "idle" /\ EnableCache
  /\ purger' = [NoPurge EXCEPT !.pc = "zrange", !.now = now, !.todo = seen]
  /\ UNCHANGED <<now, idseq, idleft, data, scores, seen, pub, rd, log, stored>>

\* Mutant: an element is purged in the unit of time in which it still is live.
purgeScanEarly(t) ==
  /\ purger.pc = "zrange" /\ t \in purger.todo
  /\ LET all == {z \in scores : z.topic = t}
     IN purger' = [purger EXCEPT !.todo = @ \ {t}, !.topic = IF all = {} THEN t ELSE "",
                     !.pc = IF all = {} THEN "hdelcount" ELSE "zrange",
                     !.expired = @ \cup {z \in all : z.expire <= purger.now}]
  /\ UNCHANGED <<now, idseq, idleft, data, scores, seen, pub, rd, log, stored>>

\* ZRANGE of the next topic.
purgeScan(t) ==
  /\ purger.pc = "zrange" /\ t \in purger.todo
  /\ LET all == {z \in scores : z.topic = t}
     IN purger' = [purger EXCEPT !.todo = @ \ {t}, !.topic = IF all = {} THEN t ELSE "",
                     !.pc = IF all = {} THEN "hdelcount" ELSE "zrange",
                     !.expired = @ \cup {z \in all : z.expire < purger.now}]
  /\ UNCHANGED <<now, idseq, idleft, data, scores, seen, pub, rd, log, stored>>

\* A topic without cached elements is removed from pub_count.
purgeTopic ==
  /\ purger.pc = "hdelcount"
  /\ seen' = seen \ {purger.topic}
  /\ purger' = [purger EXCEPT !.pc = "zrange", !.topic = ""]
  /\ UNCHANGED <<now, idseq, idleft, data, scores, pub, rd, log, stored>>

\* ZREM of the next expired member.
purgeScore(z) ==
  /\ purger.pc = "zrange" /\ purger.todo = {} /\ z \in purger.expired
  /\ scores' = scores \ {z}
  /\ purger' = [purger EXCEPT !.pc = "hdel", !.item = z]
  /\ UNCHANGED <<now, idseq, idleft, data, seen, pub, rd, log, stored>>

\* HDEL of its data.
purgeData ==
  /\ purger.pc = "hdel"
  /\ data' = {d \in data : d.topic # purger.item.topic \/ d.id # purger.item.id}
  /\ purger' = [purger EXCEPT !.pc = "zrange", !.expired = @ \ {purger.item}, !.item = <<>>]
  /\ UNCHANGED <<now, idseq, idleft, scores, seen, pub, rd, log, stored>>

\* The list is done, or a command failed; the cron thread tries again later.
endPurge ==
  /\ purger.pc # "idle"
  /\ purger' = NoPurge
  /\ UNCHANGED <<now, idseq, idleft, data, scores, seen, pub, rd, log, stored>>

purge ==
  \/ beginPurge
  \/ \E t \in TopicNames : purgeScan(t)
  \/ purgeTopic
  \/ \E z \in purger.expired : purgeScore(z)
  \/ purgeData
  \/ endPurge

--------------------------------------------------------------------------------
\* Time passes; id counters at the end of their time are gone.
cacheTick ==
  /\ now < MaxNow
  /\ now' = now + 1
  /\ idleft' = [ts \in Clock |-> IF idleft[ts] > 0 THEN idleft[ts] - 1 ELSE 0]
  /\ idseq' = [ts \in Clock |-> IF idleft[ts] = 1 THEN 0 ELSE idseq[ts]]
  /\ UNCHANGED <<data, scores, seen, pub, rd, purger, log, stored>>

\* Requests a client may make: since a time, or since an event it has received.
request ==
  \/ \E ts \in Sinces, limit \in SinceLimits :
       \/ beginRead(TRUE, "", FALSE, <<ts, 0>>, limit)
       \/ \E t \in TopicNames : beginRead(FALSE, t, FALSE, <<ts, 0>>, limit)
  \/ \E m \in log, limit \in IdLimits :
       \/ beginRead(TRUE, "", TRUE, m.id, limit)
       \/ beginRead(FALSE, m.topic, TRUE, m.id, limit)

CacheNext ==
  \/ cacheTick
  \/ \E m \in Messages :
       \/ \E t \in TopicNames, ts \in {now} \cup Timestamps : stamp(m, t, ts)
       \/ cacheMessage(m)
  \/ request \/ read
  \/ purge

CacheSpec == CacheInit /\ [][CacheNext]_cacheVars

--------------------------------------------------------------------------------
\* No other message on its topic was given the message's id.
Unique(m) == \A e \in stored : e.topic = m.topic /\ e.id = m.id => e.msg = m.msg

\* A cached message with an id of its own stays in the event log until it expires,
\* whatever the purger and other publishers do meanwhile.
CachedUntilExpired ==
  \A m \in log : Unique(m) /\ m.expire >= now =>
    /\ [topic |-> m.topic, id |-> m.id, expire |-> m.expire] \in scores
    /\ [topic |-> m.topic, id |-> m.id, msg |-> m.msg] \in data

Matches(m) == rd.pattern \/ rd.topic = m.topic
Returned(m) == \E i \in DOMAIN Result : Result[i].msg = m.msg
SameDigits(x, y) == x[1] # y[1] \/ (x[2] < 10 <=> y[2] < 10)

\* What a read returns was cached, on a topic asked for, at or after the time asked
\* for, and had not expired when the read began; each topic's messages come oldest
\* first (within a millisecond, for ids with as many digits).
ReadSound ==
  AllRead =>
    /\ \A i \in DOMAIN Result : \E m \in stored :
         /\ m.topic = Result[i].topic /\ m.id = Result[i].id
         /\ Matches(m) /\ m.id[1] >= rd.since[1] /\ m.expire >= rd.now
         /\ Unique(m) => m.msg = Result[i].msg
    /\ \A i, j \in DOMAIN Result :
         LET x == Result[i]
             y == Result[j]
         IN i < j /\ x.topic = y.topic /\ Unique(x) /\ SameDigits(x.id, y.id) => Newer(y.id, x.id)

\* A read of one topic since a time returns every message that was cached when it
\* began and has not expired when it ends, but for those with as many newer ones as it asks for.
ReadComplete ==
  AllRead /\ ~ rd.byId /\ ~ rd.pattern =>
    \A m \in rd.had :
      Matches(m) /\ Unique(m) /\ m.expire >= now /\ m.id[1] >= rd.since[1] =>
        Returned(m) \/ Cardinality({l \in stored : l.topic = m.topic /\ Before(m, l)}) >= rd.limit

\* Messages newer than the id asked for that were there when the read began and
\* still are live when it ends.
Missed == {m \in rd.had : Matches(m) /\ Newer(m.id, rd.since) /\ m.expire >= now
                           /\ Unique(m) /\ ~ Returned(m)}

\* "it can request this log when it reconnects to get all new events since the last
\* event that was received": a read since a cached, live event misses none.
CatchUp ==
  AllRead /\ rd.byId
    /\ (\E m \in rd.had : m.id = rd.since /\ Matches(m) /\ Unique(m) /\ m.expire >= now)
    /\ Cardinality({l \in stored : Matches(l) /\ l.id[1] >= rd.since[1]}) <= rd.limit
    => Missed = {}

\* CatchUp holds for a topic without wildcards whose ids of that millisecond have as
\* many digits as the id asked for.
CatchUpOnTopic ==
  ~ rd.pattern /\ (\A m \in stored : SameDigits(m.id, rd.since)) => CatchUp
================================================================================
