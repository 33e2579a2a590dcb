---------------------------- MODULE EventLogProofs -----------------------------
(***************************************************************************)
(* What a reader of the event log gets while publishers and the purger are *)
(* at work, for any number of messages, topics and publishers.             *)
(***************************************************************************)
EXTENDS RedisProofs

(***************************************************************************)
(* What the reader keeps.                                                  *)
(***************************************************************************)
Readers == [pc : {"idle", "hkeys", "zrevrange", "hmget"}, pattern : BOOLEAN, topic : Names,
            byId : BOOLEAN, since : Ids, limit : Nat, now : Nat, todo : SUBSET Names,
            keys : SUBSET Members, result : Seq(Entries), had : SUBSET CachedMessages]

\* A member or a message that the reader may return.
Wanted(z) == z.expire >= rd.now /\ z.id[1] >= rd.since[1] /\ Matches(z)
After(m) == {l \in stored : l.topic = m.topic /\ Before(m, l)}

ReadTypeOK ==
  /\ rd \in Readers /\ rd.had \subseteq log /\ rd.now <= now
  /\ rd.pc = "hkeys" => rd.pattern /\ rd.result = <<>>
  /\ rd.pc # "hmget" => rd.keys = {}
  /\ ~rd.pattern => rd.todo \subseteq {rd.topic}

\* The keys of one topic are read at a time, and its entries are not yet in the result.
KeysInv ==
  /\ \A k \in rd.keys : Backed(k) /\ Wanted(k) /\ k.topic \notin rd.todo
  /\ \A k, l \in rd.keys : k.topic = l.topic
  /\ IsFiniteSet(rd.keys)
  /\ \A i \in DOMAIN rd.result :
       /\ rd.result[i].topic \notin rd.todo
       /\ \A k \in rd.keys : k.topic # rd.result[i].topic

\* The result is of messages stored and wanted, each topic's in the order of its members.
ResultInv ==
  /\ \A i \in DOMAIN rd.result :
       \E e, f \in stored : /\ e.topic = rd.result[i].topic /\ e.id = rd.result[i].id /\ Wanted(e)
                            /\ EntryOf(f) = rd.result[i]
  /\ \A i, j \in DOMAIN rd.result :
       i < j /\ rd.result[i].topic = rd.result[j].topic =>
         \E e, f \in stored : /\ e.topic = rd.result[i].topic /\ e.id = rd.result[i].id
                              /\ f.topic = rd.result[j].topic /\ f.id = rd.result[j].id
                              /\ Before(e, f)

\* On a single topic, no live message is lost on the way.
CompleteInv ==
  rd.pc # "idle" /\ ~rd.pattern =>
    \A m \in rd.had : Matches(m) /\ Unique(m) /\ m.expire >= now /\ m.id[1] >= rd.since[1] =>
      \/ m.topic \in rd.todo
      \/ MemberOf(m) \in rd.keys
      \/ \E i \in DOMAIN rd.result : rd.result[i] = EntryOf(m)
      \/ Cardinality(After(m)) >= rd.limit

ReadInv == ReadTypeOK /\ KeysInv /\ ResultInv /\ CompleteInv

------------------------------------------------------------------------------
\* The order of members by their strings.
LEMMA LexOrder ==
  ASSUME NEW a \in Nat, NEW b \in Nat
  PROVE  /\ LexKey(a) \in Nat
         /\ LexKey(a) = LexKey(b) => a = b
         /\ (a < 10 <=> b < 10) /\ LexKey(a) < LexKey(b) => a < b
  BY DEF LexKey

\* A message id is its timestamp and its sequence number.
LEMMA IdParts ==
  ASSUME NEW x \in Ids
  PROVE  x[1] \in Nat /\ x[2] \in Nat /\ x = <<x[1], x[2]>>
  BY DEF Ids

\* A member of a sorted set is its topic, its id and its expiry.
LEMMA MemberParts ==
  ASSUME NEW x \in Members
  PROVE  /\ x.id \in Ids /\ x.id[1] \in Nat /\ x.id[2] \in Nat /\ x.expire \in Nat
         /\ \A y \in Members : x.topic = y.topic /\ x.id = y.id /\ x.expire = y.expire => x = y
<1>1. x.id \in Ids /\ x.expire \in Nat
  BY Zenon DEF Members
<1>2. \A y \in Members : x.topic = y.topic /\ x.id = y.id /\ x.expire = y.expire => x = y
  BY DEF Members
<1> QED BY <1>1, <1>2, IdParts

\* Before puts the members of one topic in a strict total order.
LEMMA BeforeIsOrder ==
  ASSUME NEW S \in SUBSET Members, \A x, y \in S : x.topic = y.topic
  PROVE  StrictOrder(S, {xy \in S \X S : Before(xy[1], xy[2])})
<1> DEFINE R == {xy \in S \X S : Before(xy[1], xy[2])}
<1>1. \A x, y : <<x, y>> \in R <=> x \in S /\ y \in S /\ Before(x, y)
  BY Zenon
<1>2. ASSUME NEW x \in S PROVE ~Before(x, x)
  <2>1. x.id[1] \in Nat /\ x.id[2] \in Nat /\ x.expire \in Nat
    BY MemberParts
  <2>2. LexKey(x.id[2]) \in Nat
    BY <2>1, LexOrder
  <2> QED BY <2>1, <2>2 DEF Before
<1>3. ASSUME NEW x \in S, NEW y \in S, NEW z \in S, Before(x, y), Before(y, z) PROVE Before(x, z)
  <2>1. /\ x.id[1] \in Nat /\ x.id[2] \in Nat /\ x.expire \in Nat
        /\ y.id[1] \in Nat /\ y.id[2] \in Nat /\ y.expire \in Nat
        /\ z.id[1] \in Nat /\ z.id[2] \in Nat /\ z.expire \in Nat
    BY MemberParts
  <2>2. LexKey(x.id[2]) \in Nat /\ LexKey(y.id[2]) \in Nat /\ LexKey(z.id[2]) \in Nat
    BY <2>1, LexOrder
  <2> QED BY <1>3, <2>1, <2>2 DEF Before
<1>4. ASSUME NEW x \in S, NEW y \in S, ~Before(x, y), ~Before(y, x) PROVE x = y
  <2>1. /\ x.id[1] \in Nat /\ x.id[2] \in Nat /\ x.expire \in Nat /\ x.id \in Ids
        /\ y.id[1] \in Nat /\ y.id[2] \in Nat /\ y.expire \in Nat /\ y.id \in Ids
    BY MemberParts
  <2>2. LexKey(x.id[2]) \in Nat /\ LexKey(y.id[2]) \in Nat
    BY <2>1, LexOrder
  <2>3. x.id[1] = y.id[1] /\ LexKey(x.id[2]) = LexKey(y.id[2])
    BY <1>4, <2>1, <2>2 DEF Before
  <2>4. x.id[2] = y.id[2]
    BY <2>1, <2>3, LexOrder
  <2>5. x.id = y.id
    BY <2>1, <2>3, <2>4, IdParts
  <2>6. x.expire = y.expire
    BY <1>4, <2>1, <2>5 DEF Before
  <2> QED BY <2>5, <2>6, MemberParts
<1> HIDE DEF R
<1>5. StrictOrder(S, R)
  BY <1>1, <1>2, <1>3, <1>4, Zenon DEF StrictOrder
<1> QED BY <1>5 DEF R

\* The elements of a concatenation.
LEMMA Concatenation ==
  ASSUME NEW T, NEW r \in Seq(T), NEW s \in Seq(T)
  PROVE  /\ r \o s \in Seq(T)
         /\ \A i \in DOMAIN r : i \in DOMAIN (r \o s) /\ (r \o s)[i] = r[i]
         /\ \A k \in DOMAIN s : Len(r) + k \in DOMAIN (r \o s) /\ (r \o s)[Len(r) + k] = s[k]
         /\ \A i \in DOMAIN (r \o s) : i \in DOMAIN r \/ (i - Len(r) \in DOMAIN s /\ i = Len(r) + (i - Len(r)))
  OBVIOUS

\* The parts of a read under way.
LEMMA ReaderParts ==
  ASSUME rd \in Readers
  PROVE  /\ rd.pattern \in BOOLEAN /\ rd.topic \in Names /\ rd.since \in Ids /\ rd.byId \in BOOLEAN
         /\ rd.limit \in Nat /\ rd.now \in Nat /\ rd.todo \subseteq Names
         /\ rd.keys \subseteq Members /\ rd.result \in Seq(Entries) /\ rd.had \subseteq CachedMessages
  BY Zenon DEF Readers

\* A cached message with its member in the sorted set and its entry in the hash.
LEMMA MessageParts ==
  ASSUME NEW e \in CachedMessages
  PROVE  /\ e.topic \in Names /\ e.id \in Ids /\ e.expire \in Nat /\ e.msg \in Messages
         /\ e.id[1] \in Nat /\ e.id[2] \in Nat
         /\ MemberOf(e) \in Members /\ EntryOf(e) \in Entries
         /\ MemberOf(e).topic = e.topic /\ MemberOf(e).id = e.id /\ MemberOf(e).expire = e.expire
         /\ EntryOf(e).topic = e.topic /\ EntryOf(e).id = e.id /\ EntryOf(e).msg = e.msg
<1>1. e.topic \in Names /\ e.id \in Ids /\ e.expire \in Nat /\ e.msg \in Messages
  BY Zenon DEF CachedMessages
<1>2. MemberOf(e) \in Members /\ EntryOf(e) \in Entries
  BY <1>1, Zenon DEF Members, Entries, MemberOf, EntryOf
<1>3. /\ MemberOf(e).topic = e.topic /\ MemberOf(e).id = e.id /\ MemberOf(e).expire = e.expire
      /\ EntryOf(e).topic = e.topic /\ EntryOf(e).id = e.id /\ EntryOf(e).msg = e.msg
  BY Zenon DEF MemberOf, EntryOf
<1> QED BY <1>1, <1>2, <1>3, IdParts

\* What is stored stays so, and the clock goes forward.
LEMMA LogGrows ==
  ASSUME LogInv, [CacheNext]_cacheVars
  PROVE  stored \subseteq stored' /\ log \subseteq log' /\ now' >= now /\ now \in Nat
<1>1. now \in Nat
  BY CacheAssumption DEF LogInv, LogTypeOK, Clock
<1>2. CASE request
  <2>1. UNCHANGED <<stored, log, now>>
    BY <1>2, ZenonT(40) DEF request, beginRead
  <2> QED BY <1>1, <2>1
<1>3. CASE read
  <2>1. UNCHANGED <<stored, log, now>>
    BY <1>3, ZenonT(40) DEF read, getTopicsSeen, readScores, readKeys, readData, answer
  <2> QED BY <1>1, <2>1
<1>4. CASE purge
  <2>1. UNCHANGED <<stored, log, now>>
    BY <1>4, ZenonT(40) DEF purge, beginPurge, purgeScan, purgeTopic, purgeScore, purgeData, endPurge
  <2> QED BY <1>1, <2>1
<1>5. CASE cacheTick \/ UNCHANGED cacheVars
  BY <1>1, <1>5 DEF cacheTick, cacheVars
<1>6. ASSUME NEW m \in Messages, cacheMessage(m) PROVE stored \subseteq stored' /\ log \subseteq log' /\ now' >= now
  BY <1>1, <1>6 DEF cacheMessage, nextId, expireId, hset, zadd, incrTopicPubCount, endPublish
<1>7. ASSUME NEW m \in Messages, NEW t, NEW ts, stamp(m, t, ts) PROVE stored \subseteq stored' /\ log \subseteq log' /\ now' >= now
  BY <1>1, <1>7 DEF stamp
<1> QED
  BY <1>1, <1>2, <1>3, <1>4, <1>5, <1>6, <1>7 DEF CacheNext

\* A step of a publisher, the purger or the clock takes nothing from the reader.
LEMMA OthersKeepReader ==
  ASSUME LogInv, LogInv', ReadInv, rd' = rd,
         stored \subseteq stored', log \subseteq log', now' >= now, now \in Nat
  PROVE  ReadInv'
<1>n. now' \in Nat
  BY CacheAssumption DEF LogInv, LogTypeOK, Clock
<1>r. rd.now \in Nat /\ rd.limit \in Nat /\ rd.had \subseteq CachedMessages
  BY ReaderParts DEF ReadInv, ReadTypeOK
<1>1. ReadTypeOK'
  BY <1>n, <1>r DEF ReadInv, ReadTypeOK
<1>2. \A z : Wanted(z)' <=> Wanted(z)
  BY DEF Wanted, Matches
<1>3. \A z : Backed(z) => Backed(z)'
  BY DEF Backed
<1>4. KeysInv'
  BY <1>2, <1>3 DEF ReadInv, KeysInv
<1>5. ResultInv'
  BY <1>2 DEF ReadInv, ResultInv
<1>6. ASSUME NEW m \in rd.had, Unique(m)', m.expire >= now'
      PROVE  /\ Unique(m) /\ m.expire >= now
             /\ Cardinality(After(m)) >= rd.limit => Cardinality(After(m)') >= rd.limit
  <2>1. Unique(m)
    BY <1>6 DEF Unique
  <2>2. m.expire \in Nat
    BY <1>r, MessageParts
  <2>3. IsFiniteSet(stored')
    BY DEF LogInv, LogTypeOK
  <2>4. After(m) \subseteq After(m)' /\ After(m)' \subseteq stored'
    BY DEF After
  <2>5. IsFiniteSet(After(m)') /\ IsFiniteSet(After(m)) /\ Cardinality(After(m)) <= Cardinality(After(m)')
    BY <2>3, <2>4, FS_Subset, Zenon
  <2>6. Cardinality(After(m)) \in Nat /\ Cardinality(After(m)') \in Nat
    BY <2>5, FS_CardinalityType
  <2>7. Cardinality(After(m)) >= rd.limit => Cardinality(After(m)') >= rd.limit
    BY <1>r, <2>5, <2>6
  <2> QED BY <1>6, <1>n, <2>1, <2>2, <2>7
<1>7. CompleteInv'
  <2> SUFFICES ASSUME rd.pc # "idle", ~rd.pattern,
                      NEW m \in rd.had, Matches(m)', Unique(m)', m.expire >= now', m.id[1] >= rd.since[1]
               PROVE  \/ m.topic \in rd.todo
                      \/ MemberOf(m) \in rd.keys
                      \/ \E i \in DOMAIN rd.result : rd.result[i] = EntryOf(m)
                      \/ Cardinality(After(m)') >= rd.limit
    BY DEF CompleteInv
  <2>1. Matches(m)
    BY DEF Matches
  <2> QED BY <1>6, <2>1 DEF ReadInv, CompleteInv
<1> QED BY <1>1, <1>4, <1>5, <1>7 DEF ReadInv

\* A reader that holds no keys and no result.
LEMMA FreshReader ==
  ASSUME ReadTypeOK', rd'.keys = {}, rd'.result = <<>>,
         rd'.pc = "idle" \/ rd'.pattern \/ rd'.topic \in rd'.todo
  PROVE  ReadInv'
<1>1. IsFiniteSet({}) /\ DOMAIN <<>> = {}
  BY FS_EmptySet
<1>2. KeysInv' /\ ResultInv'
  BY <1>1 DEF KeysInv, ResultInv
<1>3. CompleteInv'
  BY DEF CompleteInv, Matches
<1> QED BY <1>2, <1>3 DEF ReadInv

\* The reader at rest.
LEMMA NoReadParts ==
  NoRead \in Readers /\ NoRead.keys = {} /\ NoRead.result = <<>> /\ NoRead.pc = "idle"
  /\ NoRead.had = {} /\ NoRead.now = 0 /\ NoRead.todo = {} /\ NoRead.pattern = FALSE
<1>1. 0 \in Nat /\ <<0, 0>> \in Ids /\ "" \in Names /\ <<>> \in Seq(Entries)
  BY DEF Ids, Names
<1> QED BY <1>1, Zenon DEF NoRead, Readers

\* A request is begun, and a request is answered.
LEMMA BeginKeepsReader ==
  ASSUME LogInv, ReadInv, request
  PROVE  ReadInv'
<1>n. now \in Nat
  BY CacheAssumption DEF LogInv, LogTypeOK, Clock
<1>l. log \subseteq CachedMessages
  BY DEF LogInv, LogTypeOK
<1>1. ASSUME NEW pattern \in BOOLEAN, NEW t \in Names, NEW byId \in BOOLEAN, NEW since \in Ids,
             NEW limit \in Nat, beginRead(pattern, t, byId, since, limit)
      PROVE  ReadInv'
  <2> DEFINE at == IF pattern THEN "hkeys" ELSE "zrevrange"
             todo == IF pattern THEN {} ELSE {t}
  <2>1. /\ rd' = [NoRead EXCEPT !.pc = at, !.pattern = pattern, !.topic = t, !.byId = byId, !.since = since,
                                !.limit = limit, !.now = now, !.todo = todo, !.had = log]
        /\ UNCHANGED <<now, log>>
    BY <1>1, Zenon DEF beginRead
  <2>2. /\ at \in {"idle", "hkeys", "zrevrange", "hmget"} /\ at # "hmget" /\ (at = "hkeys" => pattern)
        /\ todo \in SUBSET Names /\ (~pattern => todo = {t}) /\ log \in SUBSET CachedMessages
    BY <1>l
  <2> HIDE DEF at, todo
  <2>3. rd' \in Readers
    BY <1>n, <2>1, <2>2, NoReadParts, ZenonT(40) DEF Readers
  <2>4. /\ rd'.pc = at /\ rd'.pattern = pattern /\ rd'.topic = t /\ rd'.now = now
        /\ rd'.todo = todo /\ rd'.had = log
    BY <2>1, NoReadParts, ZenonT(40) DEF Readers
  <2>5. rd'.keys = {} /\ rd'.result = <<>>
    BY <2>1, NoReadParts, ZenonT(40) DEF Readers
  <2>6. ReadTypeOK'
    BY <1>n, <2>1, <2>2, <2>3, <2>4, <2>5 DEF ReadTypeOK
  <2> QED BY <2>2, <2>4, <2>5, <2>6, FreshReader
<1>2. \A ts \in Sinces : <<ts, 0>> \in Ids
  BY CacheAssumption DEF Ids
<1>3. \A m \in log : m.id \in Ids /\ m.topic \in Names
  BY <1>l, MessageParts
<1>4. "" \in Names /\ TopicNames \subseteq Names /\ SinceLimits \subseteq Nat /\ IdLimits \subseteq Nat
  BY CacheAssumption, Zenon DEF Names
<1>5. CASE \E ts \in Sinces, limit \in SinceLimits :
             \/ beginRead(TRUE, "", FALSE, <<ts, 0>>, limit)
             \/ \E t \in TopicNames : beginRead(FALSE, t, FALSE, <<ts, 0>>, limit)
  BY <1>1, <1>2, <1>4, <1>5, ZenonT(40)
<1>6. CASE \E m \in log, limit \in IdLimits :
             \/ beginRead(TRUE, "", TRUE, m.id, limit)
             \/ beginRead(FALSE, m.topic, TRUE, m.id, limit)
  BY <1>1, <1>3, <1>4, <1>6, ZenonT(40)
<1> QED BY <1>5, <1>6, Zenon DEF request

\* Answering a request leaves the reader at rest.
LEMMA AnswerKeepsReader ==
  ASSUME LogInv, ReadInv, answer
  PROVE  ReadInv'
<1>1. rd' = NoRead /\ UNCHANGED <<now, log>>
  BY DEF answer
<1>2. now \in Nat
  BY CacheAssumption DEF LogInv, LogTypeOK, Clock
<1>3. ReadTypeOK'
  BY <1>1, <1>2, NoReadParts DEF ReadTypeOK
<1> QED BY <1>1, <1>3, NoReadParts, FreshReader

\* HKEYS gives a pattern's read the topics to go through.
LEMMA TopicsKeepReader ==
  ASSUME LogInv, ReadInv, getTopicsSeen
  PROVE  ReadInv'
<1>1. /\ rd' = [rd EXCEPT !.todo = seen, !.pc = "zrevrange"]
      /\ rd.pc = "hkeys" /\ UNCHANGED <<now, log>>
  BY DEF getTopicsSeen
<1>2. rd \in Readers /\ seen \in SUBSET Names
  BY DEF LogInv, LogTypeOK, ReadInv, ReadTypeOK
<1>3. rd' \in Readers /\ rd'.pc = "zrevrange" /\ rd'.pattern = rd.pattern
  BY <1>1, <1>2, Zenon DEF Readers
<1>4. rd'.keys = rd.keys /\ rd'.result = rd.result /\ rd'.had = rd.had /\ rd'.now = rd.now
  BY <1>1, <1>2, Zenon DEF Readers
<1>5. rd.pattern /\ rd.result = <<>> /\ rd.keys = {}
  BY <1>1 DEF ReadInv, ReadTypeOK
<1>6. ReadTypeOK'
  BY <1>1, <1>3, <1>4, <1>5 DEF ReadInv, ReadTypeOK
<1> QED BY <1>3, <1>4, <1>5, <1>6, FreshReader

\* ZREVRANGEBYSCORE: a live message is among the keys, or its topic has as many newer
\* ones as the reader asked for.
LEMMA ScoresKeepReader ==
  ASSUME LogInv, ReadInv, NEW t \in TopicNames, readScores(t)
  PROVE  ReadInv'
<1> DEFINE keys == {z \in Newest(Since(t), rd.limit) : z.expire >= rd.now}
           at == IF keys = {} THEN "zrevrange" ELSE "hmget"
           todo == rd.todo \ {t}
<1>1. /\ rd' = [rd EXCEPT !.todo = todo, !.keys = keys, !.pc = at]
      /\ t \in rd.todo /\ rd.pc = "zrevrange" /\ UNCHANGED <<now, log, stored, scores>>
  BY DEF readScores, readKeys
<1>2. /\ rd \in Readers /\ scores \subseteq Members /\ IsFiniteSet(scores)
      /\ stored \subseteq CachedMessages /\ IsFiniteSet(stored) /\ now \in Nat
      /\ rd.had \subseteq log /\ log \subseteq stored /\ rd.now <= now
  BY CacheAssumption DEF LogInv, LogTypeOK, ReadInv, ReadTypeOK, Clock
<1>3. rd.limit \in Nat /\ rd.now \in Nat /\ rd.todo \subseteq Names /\ rd.result \in Seq(Entries)
  BY <1>2, ReaderParts
<1>4. keys \subseteq scores /\ Since(t) \subseteq scores
  BY DEF Newest, Since
<1>5. \A z \in keys : z.topic = t /\ z.id[1] >= rd.since[1] /\ z.expire >= rd.now
  BY DEF Newest, Since
<1>6. /\ at \in {"idle", "hkeys", "zrevrange", "hmget"} /\ at # "hkeys" /\ at # "idle"
      /\ (at # "hmget" => keys = {}) /\ todo \in SUBSET Names /\ keys \in SUBSET Members
  BY <1>2, <1>3, <1>4
<1>7. \A m \in stored : MemberOf(m) \in Since(t) =>
        MemberOf(m) \in Newest(Since(t), rd.limit) \/ Cardinality(After(m)) >= rd.limit
  <2> SUFFICES ASSUME NEW m \in stored, MemberOf(m) \in Since(t), MemberOf(m) \notin Newest(Since(t), rd.limit)
               PROVE  Cardinality(After(m)) >= rd.limit
    OBVIOUS
  <2> DEFINE Y == {y \in Since(t) : Before(MemberOf(m), y)}
             g == [y \in Y |-> CHOOSE e \in stored : MemberOf(e) = y]
  <2>1. IsFiniteSet(Y) /\ Cardinality(Y) \in Nat /\ IsFiniteSet(After(m)) /\ Cardinality(After(m)) \in Nat
    <3>1. Y \subseteq scores /\ After(m) \subseteq stored
      BY <1>4 DEF After
    <3> HIDE DEF Y
    <3>2. IsFiniteSet(Y) /\ IsFiniteSet(After(m))
      BY <1>2, <3>1, FS_Subset, Zenon
    <3> QED BY <3>2, FS_CardinalityType, Zenon
  <2>2. Cardinality(Y) >= rd.limit
    <3>1. ~(Cardinality(Y) < rd.limit)
      BY DEF Newest
    <3> HIDE DEF Y
    <3> QED BY <1>3, <2>1, <3>1
  <2>3. \A y \in Y : g[y] \in stored /\ MemberOf(g[y]) = y
    <3>1. \A y \in Y : \E e \in stored : MemberOf(e) = y
      BY <1>4 DEF LogInv, AllBacked, Backed
    <3> QED BY <3>1, Zenon
  <2>4. \A y \in Y : g[y] \in After(m)
    <3> SUFFICES ASSUME NEW y \in Y PROVE g[y] \in After(m)
      OBVIOUS
    <3>1. g[y] \in stored /\ MemberOf(g[y]) = y
      BY <2>3
    <3>2. y.topic = t /\ MemberOf(m).topic = t /\ Before(MemberOf(m), y)
      BY DEF Since
    <3> HIDE DEF Y, g
    <3>3. /\ g[y].topic = y.topic /\ g[y].id = y.id /\ g[y].expire = y.expire
          /\ MemberOf(m).topic = m.topic /\ MemberOf(m).id = m.id /\ MemberOf(m).expire = m.expire
      BY <1>2, <3>1, MessageParts
    <3>4. Before(m, g[y])
      BY <3>2, <3>3, Zenon DEF Before
    <3> QED BY <3>1, <3>2, <3>3, <3>4 DEF After
  <2>5. g \in Injection(Y, After(m))
    <3>1. DOMAIN g = Y
      OBVIOUS
    <3>2. g \in [Y -> After(m)]
      BY <2>4, Zenon
    <3> HIDE DEF g, Y
    <3> QED BY <2>3, <3>1, <3>2, Zenon DEF Injection, IsInjective
  <2>6. Cardinality(Y) <= Cardinality(After(m))
    BY <2>1, <2>5, FS_Injection, Zenon
  <2> HIDE DEF Y
  <2> QED BY <1>3, <2>1, <2>2, <2>6
<1>8. \A m \in rd.had : m.topic = t /\ m.expire >= now /\ m.id[1] >= rd.since[1] =>
        MemberOf(m) \in keys \/ Cardinality(After(m)) >= rd.limit
  <2> SUFFICES ASSUME NEW m \in rd.had, m.topic = t, m.expire >= now, m.id[1] >= rd.since[1]
               PROVE  MemberOf(m) \in keys \/ Cardinality(After(m)) >= rd.limit
    OBVIOUS
  <2>1. m \in stored /\ m \in CachedMessages /\ MemberOf(m) \in scores
    BY <1>2 DEF LogInv, LiveInv
  <2>2. /\ MemberOf(m).topic = m.topic /\ MemberOf(m).id = m.id /\ MemberOf(m).expire = m.expire
        /\ m.expire \in Nat
    BY <2>1, MessageParts
  <2>3. MemberOf(m) \in Since(t)
    BY <2>1, <2>2 DEF Since
  <2>4. MemberOf(m).expire >= rd.now
    BY <1>2, <1>3, <2>2
  <2> QED BY <1>7, <2>1, <2>3, <2>4
<1> HIDE DEF keys, at, todo
<1>9. rd' \in Readers /\ rd'.pc = at /\ rd'.todo = todo /\ rd'.keys = keys
  BY <1>1, <1>2, <1>6, Zenon DEF Readers
<1>10. /\ rd'.pattern = rd.pattern /\ rd'.topic = rd.topic /\ rd'.result = rd.result /\ rd'.had = rd.had
       /\ rd'.now = rd.now /\ rd'.since = rd.since /\ rd'.limit = rd.limit
  BY <1>1, <1>2, Zenon DEF Readers
<1>11. \A z \in keys : Matches(z)
  BY <1>1, <1>5 DEF ReadInv, ReadTypeOK, Matches
<1>12. ReadTypeOK'
  BY <1>1, <1>6, <1>9, <1>10 DEF ReadInv, ReadTypeOK, todo
<1>13. \A z : (Wanted(z)' <=> Wanted(z)) /\ (Matches(z)' <=> Matches(z))
  BY <1>10 DEF Wanted, Matches
<1>14. KeysInv'
  <2>1. IsFiniteSet(keys)
    BY <1>2, <1>4, FS_Subset, Zenon
  <2>2. \A k \in keys : Backed(k)' /\ Wanted(k) /\ k.topic \notin todo
    BY <1>1, <1>4, <1>5, <1>11 DEF LogInv, AllBacked, Backed, Wanted, todo
  <2>3. \A i \in DOMAIN rd.result :
          rd.result[i].topic \notin todo /\ \A k \in keys : k.topic # rd.result[i].topic
    BY <1>1, <1>5 DEF ReadInv, KeysInv, todo
  <2> QED BY <1>5, <1>9, <1>10, <1>13, <2>1, <2>2, <2>3 DEF KeysInv
<1>15. ResultInv'
  BY <1>1, <1>10, <1>13 DEF ReadInv, ResultInv
<1>16. CompleteInv'
  <2> SUFFICES ASSUME ~rd.pattern, NEW m \in rd.had, Matches(m), Unique(m), m.expire >= now, m.id[1] >= rd.since[1]
               PROVE  MemberOf(m) \in keys \/ Cardinality(After(m)) >= rd.limit
    BY <1>1, <1>9, <1>10, <1>13 DEF CompleteInv, Unique, After
  <2>1. m.topic = t
    BY <1>1 DEF Matches, ReadInv, ReadTypeOK
  <2> QED BY <1>8, <2>1
<1> QED BY <1>12, <1>14, <1>15, <1>16 DEF ReadInv

\* HMGET: of every key with data, the entry is appended to the result.
LEMMA DataKeepsReader ==
  ASSUME LogInv, ReadInv, readData
  PROVE  ReadInv'
<1> DEFINE S == {k \in rd.keys : Items(k) # {}}
           R == {xy \in S \X S : Before(xy[1], xy[2])}
           n == Cardinality(S)
           items == [i \in DOMAIN Found |-> CHOOSE d \in Items(Found[i]) : TRUE]
           r == rd.result
           L == Len(r)
<1>1. /\ rd' = [rd EXCEPT !.result = r \o items, !.keys = {}, !.pc = "zrevrange"]
      /\ rd.pc = "hmget" /\ UNCHANGED <<now, log, stored, data>>
  BY DEF readData
<1>2. /\ rd \in Readers /\ data \subseteq Entries /\ stored \subseteq CachedMessages
      /\ rd.had \subseteq log /\ log \subseteq stored
      /\ IsFiniteSet(rd.keys) /\ (\A k, l \in rd.keys : k.topic = l.topic)
      /\ \A k \in rd.keys : Backed(k) /\ Wanted(k) /\ k.topic \notin rd.todo
  BY DEF LogInv, LogTypeOK, ReadInv, ReadTypeOK, KeysInv
<1>3. r \in Seq(Entries) /\ rd.keys \subseteq Members /\ L \in Nat
  BY <1>2, ReaderParts
<1>4. IsFiniteSet(S) /\ n \in Nat /\ S \in SUBSET Members
  <2>1. S \subseteq rd.keys
    OBVIOUS
  <2> HIDE DEF S
  <2> QED BY <1>2, <1>3, <2>1, FS_Subset, FS_CardinalityType, Zenon
<1>5. StrictOrder(S, R)
  <2>1. \A x, y \in S : x.topic = y.topic
    BY <1>2
  <2> HIDE DEF S
  <2> QED BY <1>4, <2>1, BeforeIsOrder
<1>6. Found = InOrder(S, R)
  BY Zenon DEF Found
<1>7. \A x, y : <<x, y>> \in R => Before(x, y)
  OBVIOUS
<1>8. \A x \in S : x \in rd.keys /\ Items(x) # {}
  OBVIOUS
<1>9. \A x \in rd.keys : Items(x) # {} => x \in S
  OBVIOUS
<1> HIDE DEF S, R
<1>10. /\ Found \in [1 .. n -> S]
       /\ \A i, j \in 1 .. n : i < j => Before(Found[i], Found[j])
       /\ \A x \in S : \E i \in 1 .. n : Found[i] = x
  <2>1. /\ InOrder(S, R) \in [1 .. n -> S]
        /\ \A i, j \in 1 .. n : i < j => <<InOrder(S, R)[i], InOrder(S, R)[j]>> \in R
        /\ \A x \in S : \E i \in 1 .. n : InOrder(S, R)[i] = x
    BY <1>4, <1>5, Ordered
  <2> QED BY <1>6, <1>7, <2>1, Zenon
<1>11. \A i \in 1 .. n : items[i] \in Items(Found[i]) /\ Found[i] \in rd.keys
  BY <1>8, <1>10, Zenon
<1>12. DOMAIN items = 1 .. n
  BY <1>10, Zenon
<1> HIDE DEF items, n
<1>13. \A i \in 1 .. n :
         /\ items[i] \in data /\ items[i] \in Entries
         /\ items[i].topic = Found[i].topic /\ items[i].id = Found[i].id
  BY <1>2, <1>11 DEF Items
<1>14. items \in Seq(Entries)
  <2>1. items \in [1 .. n -> Entries]
    <3>1. DOMAIN Found = 1 .. n
      BY <1>10, Zenon
    <3> QED BY <1>13, <3>1, Zenon DEF items
  <2>2. n \in Nat
    BY <1>4 DEF n
  <2> QED BY <2>1, <2>2
<1> DEFINE Sent(x) == \E e, f \in stored : /\ e.topic = x.topic /\ e.id = x.id /\ Wanted(e)
                                         /\ EntryOf(f) = x
           Later(x, y) == \E e, f \in stored : /\ e.topic = x.topic /\ e.id = x.id
                                              /\ f.topic = y.topic /\ f.id = y.id
                                              /\ Before(e, f)
<1>a. /\ \A i \in DOMAIN r : Sent(r[i])
      /\ \A i, j \in DOMAIN r : i < j /\ r[i].topic = r[j].topic => Later(r[i], r[j])
      /\ \A i \in DOMAIN r : r[i].topic \notin rd.todo
      /\ \A i \in DOMAIN r : \A k \in rd.keys : k.topic # r[i].topic
  BY Zenon DEF ReadInv, ResultInv, KeysInv
<1>b. rd.result = r
  OBVIOUS
<1> HIDE DEF r
<1>15. /\ r \o items \in Seq(Entries)
       /\ \A i \in DOMAIN r : i \in DOMAIN (r \o items) /\ (r \o items)[i] = r[i]
       /\ \A k \in 1 .. n : L + k \in DOMAIN (r \o items) /\ (r \o items)[L + k] = items[k]
       /\ \A i \in DOMAIN (r \o items) : i \in DOMAIN r \/ (i - L \in 1 .. n /\ i = L + (i - L))
  <2>1. /\ r \o items \in Seq(Entries)
        /\ \A i \in DOMAIN r : i \in DOMAIN (r \o items) /\ (r \o items)[i] = r[i]
        /\ \A k \in DOMAIN items : L + k \in DOMAIN (r \o items) /\ (r \o items)[L + k] = items[k]
        /\ \A i \in DOMAIN (r \o items) : i \in DOMAIN r \/ (i - L \in DOMAIN items /\ i = L + (i - L))
    BY <1>3, <1>14, Concatenation
  <2> QED BY <1>12, <2>1, Zenon
<1> DEFINE s == r \o items
<1>16. DOMAIN r = 1 .. L /\ DOMAIN s \subseteq Nat
  BY <1>3, <1>15
<1> HIDE DEF s, L
<1>17. \A i \in DOMAIN s :
         \/ i \in DOMAIN r /\ s[i] = r[i]
         \/ \E k \in 1 .. n : i = L + k /\ s[i] = items[k]
  BY <1>15, Zenon DEF s
<1>18. rd' \in Readers /\ rd'.result = s /\ rd'.keys = {} /\ rd'.pc = "zrevrange"
  <2>1. s \in Seq(Entries) /\ rd' = [rd EXCEPT !.result = s, !.keys = {}, !.pc = "zrevrange"]
    BY <1>1, <1>15, Zenon DEF s
  <2> QED BY <1>2, <2>1, Zenon DEF Readers
<1>19. /\ rd'.pattern = rd.pattern /\ rd'.topic = rd.topic /\ rd'.todo = rd.todo /\ rd'.had = rd.had
       /\ rd'.now = rd.now /\ rd'.since = rd.since /\ rd'.limit = rd.limit
  BY <1>1, <1>2, Zenon DEF Readers
<1>20. ReadTypeOK'
  BY <1>1, <1>18, <1>19 DEF ReadInv, ReadTypeOK
<1>21. \A z : (Wanted(z)' <=> Wanted(z)) /\ (Matches(z)' <=> Matches(z))
  BY <1>19 DEF Wanted, Matches
<1>22. KeysInv'
  <2>1. \A i \in DOMAIN s : s[i].topic \notin rd.todo
    <3>2. \A k \in 1 .. n : items[k].topic \notin rd.todo
      BY <1>2, <1>11, <1>13
    <3> QED BY <1>17, <1>a, <3>2
  <2> QED BY <1>18, <1>19, <2>1, FS_EmptySet DEF KeysInv
<1>23. \A k \in 1 .. n : \E e, f \in stored :
         /\ e.topic = items[k].topic /\ e.id = items[k].id /\ e.expire = Found[k].expire /\ Wanted(e)
         /\ EntryOf(f) = items[k]
  <2> SUFFICES ASSUME NEW k \in 1 .. n
               PROVE  \E e, f \in stored :
                        /\ e.topic = items[k].topic /\ e.id = items[k].id /\ e.expire = Found[k].expire
                        /\ Wanted(e) /\ EntryOf(f) = items[k]
    OBVIOUS
  <2>1. PICK f \in stored : EntryOf(f) = items[k]
    BY <1>13 DEF LogInv, AllBacked
  <2>2. Backed(Found[k]) /\ Wanted(Found[k])
    BY <1>2, <1>11
  <2>3. PICK e \in stored : MemberOf(e) = Found[k]
    BY <2>2 DEF Backed
  <2>4. e.topic = Found[k].topic /\ e.id = Found[k].id /\ e.expire = Found[k].expire
    BY <1>2, <2>3, MessageParts
  <2>5. Wanted(e)
    BY <2>2, <2>4, Zenon DEF Wanted, Matches
  <2> QED BY <1>13, <2>1, <2>4, <2>5
<1>24. ResultInv'
  <2>1. \A i \in DOMAIN s : Sent(s[i])
    <3>1. \A k \in 1 .. n : Sent(items[k])
      BY <1>23, Zenon
    <3> HIDE DEF Sent
    <3> QED BY <1>17, <1>a, <3>1, Zenon
  <2>2. ASSUME NEW i \in DOMAIN s, NEW j \in DOMAIN s, i < j, s[i].topic = s[j].topic
        PROVE  Later(s[i], s[j])
    <3>1. CASE i \in DOMAIN r /\ s[i] = r[i] /\ j \in DOMAIN r /\ s[j] = r[j]
      <4> HIDE DEF Later
      <4> QED BY <1>a, <2>2, <3>1, Zenon
    <3>2. ASSUME i \in DOMAIN r, s[i] = r[i], NEW k \in 1 .. n, s[j] = items[k] PROVE FALSE
      <4>1. items[k].topic = Found[k].topic /\ Found[k] \in rd.keys
        BY <1>11, <1>13, Zenon
      <4>2. Found[k].topic # r[i].topic
        BY <1>a, <3>2, <4>1, Zenon
      <4> QED BY <2>2, <3>2, <4>1, <4>2, Zenon
    <3>3. ASSUME NEW k \in 1 .. n, i = L + k, j \in DOMAIN r PROVE FALSE
      BY <1>3, <1>16, <2>2, <3>3
    <3>4. ASSUME NEW k \in 1 .. n, i = L + k, s[i] = items[k], NEW l \in 1 .. n, j = L + l, s[j] = items[l]
          PROVE  Later(s[i], s[j])
      <4>1. k < l
        BY <1>3, <2>2, <3>4
      <4>2. Before(Found[k], Found[l])
        BY <1>10, <4>1
      <4>3. PICK e \in stored : e.topic = items[k].topic /\ e.id = items[k].id /\ e.expire = Found[k].expire
        BY <1>23, Zenon
      <4>4. PICK f \in stored : f.topic = items[l].topic /\ f.id = items[l].id /\ f.expire = Found[l].expire
        BY <1>23, Zenon
      <4>5. items[k].id = Found[k].id /\ items[l].id = Found[l].id
        BY <1>13
      <4>6. Before(e, f)
        BY <4>2, <4>3, <4>4, <4>5, Zenon DEF Before
      <4> QED BY <3>4, <4>3, <4>4, <4>6, Zenon
    <3> HIDE DEF Later
    <3> QED BY <1>17, <3>1, <3>2, <3>3, <3>4, Zenon
  <2>3. \A i, j \in DOMAIN s : i < j /\ s[i].topic = s[j].topic => Later(s[i], s[j])
    BY <2>2, Zenon
  <2>4. stored' = stored
    BY <1>1
  <2>5. ASSUME NEW i \in DOMAIN s
        PROVE  \E e, f \in stored : /\ e.topic = s[i].topic /\ e.id = s[i].id /\ Wanted(e)'
                                    /\ EntryOf(f) = s[i]
    BY <1>21, <2>1, Zenon
  <2> QED BY <1>18, <2>3, <2>4, <2>5, ZenonT(40) DEF ResultInv
<1>25. CompleteInv'
  <2> SUFFICES ASSUME ~rd.pattern, NEW m \in rd.had, Matches(m), Unique(m), m.expire >= now, m.id[1] >= rd.since[1]
               PROVE  \/ m.topic \in rd.todo
                      \/ \E i \in DOMAIN s : s[i] = EntryOf(m)
                      \/ Cardinality(After(m)) >= rd.limit
    BY <1>1, <1>18, <1>19, <1>21, Zenon DEF CompleteInv, Unique, After
  <2>1. m \in stored /\ m \in CachedMessages
    BY <1>2
  <2>2. CASE MemberOf(m) \in rd.keys
    <3>1. EntryOf(m) \in data
      BY <2>1 DEF LogInv, LiveInv
    <3>2. /\ MemberOf(m).topic = EntryOf(m).topic /\ MemberOf(m).id = EntryOf(m).id
      BY <2>1, MessageParts
    <3>3. EntryOf(m) \in Items(MemberOf(m))
      BY <3>1, <3>2, Zenon DEF Items
    <3>4. PICK k \in 1 .. n : Found[k] = MemberOf(m)
      BY <1>9, <1>10, <2>2, <3>3
    <3>5. items[k] = EntryOf(m)
      BY <1>13, <3>1, <3>2, <3>4 DEF LogInv, AllBacked
    <3> QED BY <1>15, <3>5, Zenon DEF s
  <2>3. CASE \E i \in DOMAIN r : r[i] = EntryOf(m)
    BY <1>15, <2>3, Zenon DEF s
  <2>4. CASE m.topic \in rd.todo \/ Cardinality(After(m)) >= rd.limit
    BY <2>4
  <2> QED BY <1>1, <1>b, <2>2, <2>3, <2>4 DEF ReadInv, CompleteInv
<1> QED BY <1>20, <1>22, <1>24, <1>25 DEF ReadInv

\* Every step of publishers, purger, clock and reader keeps the reader's invariant.
LEMMA ReadStep == LogInv /\ LogInv' /\ ReadInv /\ [CacheNext]_cacheVars => ReadInv'
<1> SUFFICES ASSUME LogInv, LogInv', ReadInv, [CacheNext]_cacheVars PROVE ReadInv'
  OBVIOUS
<1>1. CASE rd' = rd
  BY <1>1, LogGrows, OthersKeepReader
<1>2. CASE request
  BY <1>2, BeginKeepsReader
<1>3. CASE read
  BY <1>3, TopicsKeepReader, ScoresKeepReader, DataKeepsReader, AnswerKeepsReader, Zenon DEF read
<1>4. CASE cacheTick \/ purge \/ UNCHANGED cacheVars
  <2>1. rd' = rd
    BY <1>4, Zenon DEF cacheTick, purge, beginPurge, purgeScan, purgeTopic, purgeScore, purgeData,
                       endPurge, cacheVars
  <2> QED BY <1>1, <2>1
<1>5. ASSUME NEW m \in Messages,
             \/ \E t \in TopicNames, ts \in {now} \cup Timestamps : stamp(m, t, ts)
             \/ cacheMessage(m)
      PROVE  ReadInv'
  <2>1. rd' = rd
    BY <1>5, Zenon DEF stamp, cacheMessage, nextId, expireId, hset, zadd, incrTopicPubCount, endPublish
  <2> QED BY <1>1, <2>1
<1> QED BY <1>2, <1>3, <1>4, <1>5, Zenon DEF CacheNext

\* At first no read is under way.
LEMMA ReadInit == CacheInit => ReadInv
<1> SUFFICES ASSUME CacheInit PROVE ReadInv
  OBVIOUS
<1>1. rd = NoRead /\ log = {} /\ now = 1
  BY DEF CacheInit
<1>2. ReadTypeOK
  BY <1>1, NoReadParts DEF ReadTypeOK
<1>3. rd.keys = {} /\ rd.result = <<>> /\ rd.pc = "idle"
  BY <1>1, NoReadParts, Zenon
<1>4. IsFiniteSet({}) /\ DOMAIN <<>> = {}
  BY FS_EmptySet
<1>5. KeysInv /\ ResultInv /\ CompleteInv
  BY <1>3, <1>4 DEF KeysInv, ResultInv, CompleteInv
<1> QED BY <1>2, <1>5 DEF ReadInv

\* The event log and its reader together.
EventLogInv == LogInv /\ ReadInv

\* The log's and the reader's invariants hold in every reachable state.
THEOREM EventLogInvariant == CacheSpec => []EventLogInv
  BY LogInit, LogStep, ReadInit, ReadStep, PTL DEF CacheSpec, EventLogInv

------------------------------------------------------------------------------
\* What the client is sent is some of the result, in the result's order.
LEMMA ResultIsSelected ==
  ASSUME rd.result \in Seq(Entries)
  PROVE  \E n \in Nat : \E at \in [1 .. n -> DOMAIN rd.result] :
           /\ Result = [k \in 1 .. n |-> rd.result[at[k]]]
           /\ \A j, k \in 1 .. n : j < k => at[j] < at[k]
<1> DEFINE r == rd.result
           I == {i \in DOMAIN r : Newer(r[i].id, rd.since)}
<1>1. Len(r) \in Nat /\ DOMAIN r = 1 .. Len(r) /\ r = [k \in 1 .. Len(r) |-> r[k]]
  OBVIOUS
<1>2. CASE Result = r
  <2> DEFINE n == Len(r)
             at == [k \in 1 .. n |-> k]
  <2>1. at \in [1 .. n -> DOMAIN r]
    BY <1>1
  <2>2. Result = [k \in 1 .. n |-> r[at[k]]]
    BY <1>1, <1>2, Zenon
  <2>3. \A j, k \in 1 .. n : j < k => at[j] < at[k]
    OBVIOUS
  <2> QED BY <1>1, <2>1, <2>2, <2>3, Zenon
<1>3. CASE Result = Selected(r, I)
  <2>1. I \in SUBSET (1 .. Len(r))
    BY <1>1
  <2>2. I \subseteq DOMAIN r
    OBVIOUS
  <2> HIDE DEF I
  <2>3. r \in Seq(Entries)
    OBVIOUS
  <2> HIDE DEF r
  <2>4. PICK n \in Nat : \E at \in [1 .. n -> I] : Takes(Selected(r, I), r, I, n, at)
    BY <2>1, <2>3, SelectedInOrder
  <2>5. PICK at \in [1 .. n -> I] : Takes(Selected(r, I), r, I, n, at)
    BY <2>4
  <2>6. at \in [1 .. n -> DOMAIN r]
    BY <2>2, <2>5, Zenon
  <2> QED BY <1>3, <2>5, <2>6, Zenon DEF Takes, r
<1>4. CASE Result = <<>>
  <2>1. 1 .. 0 = {} /\ <<>> = [k \in 1 .. 0 |-> r[k]]
    OBVIOUS
  <2>2. <<>> \in [1 .. 0 -> DOMAIN r] /\ <<>> = [k \in 1 .. 0 |-> r[<<>>[k]]]
    OBVIOUS
  <2>3. \A j, k \in 1 .. 0 : j < k => <<>>[j] < <<>>[k]
    OBVIOUS
  <2>4. 0 \in Nat
    OBVIOUS
  <2> QED BY <1>4, <2>2, <2>3, <2>4, Zenon
<1> QED BY <1>2, <1>3, <1>4, Zenon DEF Result, AfterId

\* Entries of a topic are in the order of their ids, if these are of as many digits.
LEMMA EntriesInOrder ==
  ASSUME LogInv, ReadInv, NEW i \in DOMAIN rd.result, NEW j \in DOMAIN rd.result, i < j,
         rd.result[i].topic = rd.result[j].topic,
         SameDigits(rd.result[i].id, rd.result[j].id)
  PROVE  /\ rd.result[i].id \in Ids /\ rd.result[j].id \in Ids
         /\ Newer(rd.result[j].id, rd.result[i].id) \/ rd.result[j].id = rd.result[i].id
         /\ Unique(rd.result[i]) => Newer(rd.result[j].id, rd.result[i].id)
<1> DEFINE x == rd.result[i]
           y == rd.result[j]
<1>1. PICK e \in stored, f \in stored : /\ e.topic = x.topic /\ e.id = x.id
                                        /\ f.topic = y.topic /\ f.id = y.id /\ Before(e, f)
  BY ZenonT(40) DEF ReadInv, ResultInv
<1>2. e \in CachedMessages /\ f \in CachedMessages
  BY DEF LogInv, LogTypeOK
<1>3. x.topic = y.topic /\ SameDigits(x.id, y.id)
  OBVIOUS
<1>4. Unique(x) => e.id # f.id
  <2>1. Unique(x) /\ e.id = f.id => e.msg = x.msg /\ f.msg = x.msg
    BY <1>1, <1>3, Zenon DEF Unique
  <2>2. e.msg = f.msg => e = f
    BY Zenon DEF LogInv, StoredOnce
  <2>3. e # f
    <3>1. e.expire \in Nat /\ e.id[1] \in Nat /\ LexKey(e.id[2]) \in Nat
      BY <1>2, MessageParts, LexOrder
    <3> QED BY <1>1, <3>1 DEF Before
  <2> QED BY <2>1, <2>2, <2>3, Zenon
<1> HIDE DEF x, y
<1>5. e.id \in Ids /\ f.id \in Ids
  BY <1>2, MessageParts, SMTT(40)
<1>6. Newer(f.id, e.id) \/ f.id = e.id
  <2>1. e.id[1] \in Nat /\ e.id[2] \in Nat /\ f.id[1] \in Nat /\ f.id[2] \in Nat
    BY <1>5, IdParts
  <2>2. (e.id[2] < 10 <=> f.id[2] < 10) /\ LexKey(e.id[2]) < LexKey(f.id[2]) => e.id[2] < f.id[2]
    BY <2>1, LexOrder
  <2>3. e.id[1] # f.id[1] \/ (e.id[2] < 10 <=> f.id[2] < 10)
    BY <1>1, <1>3, Zenon DEF SameDigits
  <2> QED BY <1>1, <2>1, <2>2, <2>3 DEF Newer, Before
<1> QED BY <1>1, <1>4, <1>5, <1>6 DEF x, y

\* What a read returns, for any number of topics, messages and publishers at work.
THEOREM ReadsAreSound == CacheSpec => []ReadSound
<1>1. EventLogInv => ReadSound
  <2> SUFFICES ASSUME LogInv, ReadInv PROVE ReadSound
    BY DEF EventLogInv
  <2> DEFINE r == rd.result
  <2>1. r \in Seq(Entries)
    BY ReaderParts DEF ReadInv, ReadTypeOK
  <2>2. PICK n \in Nat : \E at \in [1 .. n -> DOMAIN r] :
           /\ Result = [k \in 1 .. n |-> r[at[k]]]
           /\ \A j, k \in 1 .. n : j < k => at[j] < at[k]
    BY <2>1, ResultIsSelected, Zenon
  <2>3. PICK at \in [1 .. n -> DOMAIN r] :
           /\ Result = [k \in 1 .. n |-> r[at[k]]]
           /\ \A j, k \in 1 .. n : j < k => at[j] < at[k]
    BY <2>2, Zenon
  <2>4. /\ DOMAIN Result = 1 .. n
        /\ \A k \in 1 .. n : at[k] \in DOMAIN r /\ Result[k] = r[at[k]]
    BY <2>3, Zenon
  <2>5. ASSUME NEW i \in DOMAIN r
        PROVE  \E m \in stored :
                 /\ m.topic = r[i].topic /\ m.id = r[i].id
                 /\ Matches(m) /\ m.id[1] >= rd.since[1] /\ m.expire >= rd.now
                 /\ Unique(m) => m.msg = r[i].msg
    <3>1. PICK e \in stored, f \in stored : /\ e.topic = r[i].topic /\ e.id = r[i].id /\ Wanted(e)
                                            /\ EntryOf(f) = r[i]
      BY Zenon DEF ReadInv, ResultInv
    <3>2. f.topic = r[i].topic /\ f.id = r[i].id /\ f.msg = r[i].msg
      BY <3>1 DEF EntryOf
    <3>3. Unique(e) => e.msg = r[i].msg
      BY <3>1, <3>2, Zenon DEF Unique
    <3> QED BY <3>1, <3>3, Zenon DEF Wanted
  <2>6. ASSUME NEW i \in DOMAIN r, NEW j \in DOMAIN r, i < j, r[i].topic = r[j].topic,
               Unique(r[i]), SameDigits(r[i].id, r[j].id)
        PROVE  Newer(r[j].id, r[i].id)
    BY <2>6, EntriesInOrder, Zenon
  <2> HIDE DEF r
  <2>7. ASSUME NEW i \in DOMAIN Result
        PROVE  \E m \in stored :
                 /\ m.topic = Result[i].topic /\ m.id = Result[i].id
                 /\ Matches(m) /\ m.id[1] >= rd.since[1] /\ m.expire >= rd.now
                 /\ Unique(m) => m.msg = Result[i].msg
    <3>1. at[i] \in DOMAIN r /\ Result[i] = r[at[i]]
      BY <2>4, Zenon
    <3> QED BY <2>5, <3>1
  <2>8. ASSUME NEW i \in DOMAIN Result, NEW j \in DOMAIN Result, i < j,
               Result[i].topic = Result[j].topic, Unique(Result[i]),
               SameDigits(Result[i].id, Result[j].id)
        PROVE  Newer(Result[j].id, Result[i].id)
    <3>1. at[i] < at[j] /\ at[i] \in DOMAIN r /\ at[j] \in DOMAIN r
          /\ Result[i] = r[at[i]] /\ Result[j] = r[at[j]]
      BY <2>3, <2>4, <2>8, ZenonT(40)
    <3> QED BY <2>6, <2>8, <3>1, Zenon
  <2> QED BY <2>7, <2>8, Zenon DEF ReadSound
<1> QED
  BY <1>1, EventLogInvariant, PTL

\* At the end of a read of one topic, a live message is in the result or too old for it.
LEMMA AllReadComplete ==
  ASSUME LogInv, ReadInv, AllRead, ~rd.pattern, NEW m \in rd.had, Matches(m), Unique(m),
         m.expire >= now, m.id[1] >= rd.since[1]
  PROVE  \/ \E i \in DOMAIN rd.result : rd.result[i] = EntryOf(m)
         \/ Cardinality(After(m)) >= rd.limit
  BY DEF AllRead, ReadInv, ReadTypeOK, CompleteInv

\* A read of one topic since a time is complete, for any number of messages.
THEOREM ReadsAreComplete == CacheSpec => []ReadComplete
<1>1. EventLogInv => ReadComplete
  <2> SUFFICES ASSUME LogInv, ReadInv, AllRead, ~rd.byId, ~rd.pattern, NEW m \in rd.had,
                      Matches(m), Unique(m), m.expire >= now, m.id[1] >= rd.since[1]
               PROVE  Returned(m) \/ Cardinality(After(m)) >= rd.limit
    BY Zenon DEF EventLogInv, ReadComplete, After
  <2>1. Result = rd.result
    BY DEF Result
  <2>2. EntryOf(m).msg = m.msg
    BY Zenon DEF EntryOf
  <2> QED BY <2>1, <2>2, AllReadComplete, Zenon DEF Returned
<1> QED
  BY <1>1, EventLogInvariant, PTL

\* A message that fewer than limit messages could keep out of the result is in it.
LEMMA LiveIsRead ==
  ASSUME LogInv, ReadInv, AllRead, ~rd.pattern, NEW m \in rd.had, Matches(m), Unique(m),
         m.expire >= now, m.id[1] >= rd.since[1],
         Cardinality({l \in stored : Matches(l) /\ l.id[1] >= rd.since[1]}) <= rd.limit
  PROVE  \E i \in DOMAIN rd.result : rd.result[i] = EntryOf(m)
<1> DEFINE C == {l \in stored : Matches(l) /\ l.id[1] >= rd.since[1]}
           A == After(m)
<1>1. /\ m \in stored /\ stored \subseteq CachedMessages /\ IsFiniteSet(stored)
      /\ rd.since[1] \in Nat /\ rd.limit \in Nat
  <2>1. rd.since[1] \in Nat /\ rd.limit \in Nat
    BY ReaderParts, IdParts DEF ReadInv, ReadTypeOK
  <2> QED BY <2>1 DEF LogInv, LogTypeOK, ReadInv, ReadTypeOK
<1>2. \A e \in stored : e.id[1] \in Nat /\ e.expire \in Nat /\ LexKey(e.id[2]) \in Nat
  BY <1>1, MessageParts, LexOrder
<1>3. m \in C
  BY <1>1
<1>4. m \notin A
  BY <1>1, <1>2 DEF After, Before
<1>5. A \subseteq C
  <2>1. ASSUME NEW l \in A PROVE l \in stored /\ Matches(l) /\ l.id[1] >= rd.since[1]
    <3>1. l \in stored /\ l.topic = m.topic /\ Before(m, l)
      BY DEF After
    <3>2. Matches(l)
      BY <3>1 DEF Matches
    <3>3. l.id[1] >= m.id[1]
      BY <1>1, <1>2, <3>1 DEF Before
    <3> QED BY <1>1, <1>2, <3>1, <3>2, <3>3
  <2> QED BY <2>1
<1>6. IsFiniteSet(C)
  <2>1. C \subseteq stored
    OBVIOUS
  <2> HIDE DEF C
  <2> QED BY <1>1, <2>1, FS_Subset, Zenon
<1>7. Cardinality(C) <= rd.limit
  OBVIOUS
<1> HIDE DEF A, C
<1>8. Cardinality(A) < Cardinality(C) /\ Cardinality(A) \in Nat /\ Cardinality(C) \in Nat
  <2>1. /\ IsFiniteSet(A) /\ Cardinality(A) <= Cardinality(C)
        /\ Cardinality(A) = Cardinality(C) => A = C
    BY <1>5, <1>6, FS_Subset
  <2>2. Cardinality(A) \in Nat /\ Cardinality(C) \in Nat
    BY <1>6, <2>1, FS_CardinalityType
  <2>3. A # C
    BY <1>3, <1>4
  <2> QED BY <2>1, <2>2, <2>3
<1>9. ~(Cardinality(A) >= rd.limit)
  BY <1>1, <1>7, <1>8
<1> QED BY <1>9, AllReadComplete DEF A

\* A read of one topic since a cached, live event misses none, for any number of messages.
THEOREM CatchUpIsComplete == CacheSpec => []CatchUpOnTopic
<1>1. EventLogInv => CatchUpOnTopic
  <2> SUFFICES ASSUME LogInv, ReadInv, AllRead, rd.byId, ~rd.pattern,
                      \A e \in stored : SameDigits(e.id, rd.since),
                      NEW b \in rd.had, b.id = rd.since, Matches(b), Unique(b), b.expire >= now,
                      Cardinality({l \in stored : Matches(l) /\ l.id[1] >= rd.since[1]}) <= rd.limit,
                      NEW m \in rd.had, Matches(m), Newer(m.id, rd.since), m.expire >= now, Unique(m)
               PROVE  Returned(m)
    BY ZenonT(40) DEF EventLogInv, CatchUpOnTopic, CatchUp, Missed
  <2> DEFINE r == rd.result
             I == {i \in DOMAIN r : Newer(r[i].id, rd.since)}
  <2>1. /\ r \in Seq(Entries) /\ rd.since \in Ids
        /\ stored \subseteq CachedMessages /\ m \in stored /\ b \in stored
    BY ReaderParts DEF ReadInv, ReadTypeOK, LogInv, LogTypeOK
  <2>2. /\ m.id[1] >= rd.since[1] /\ b.id[1] >= rd.since[1]
    <3>1. m.id[1] \in Nat /\ rd.since[1] \in Nat
      BY <2>1, MessageParts, IdParts, SMTT(40)
    <3> QED BY <3>1 DEF Newer
  <2>3. PICK i \in DOMAIN r : r[i] = EntryOf(m)
    BY <2>2, LiveIsRead, SMTT(40)
  <2>4. PICK h \in DOMAIN r : r[h] = EntryOf(b)
    BY <2>2, LiveIsRead
  <2>5. /\ r[i].id = m.id /\ r[i].msg = m.msg /\ r[i].topic = m.topic
        /\ r[h].id = rd.since /\ r[h].topic = b.topic
    BY <2>3, <2>4, SMTT(40) DEF EntryOf
  <2>6. ASSUME NEW j \in DOMAIN r, j < h PROVE ~Newer(r[j].id, rd.since)
    <3>1. PICK e \in stored : e.topic = r[j].topic /\ e.id = r[j].id /\ Wanted(e)
      BY ZenonT(40) DEF ReadInv, ResultInv
    <3>2. r[j].topic = r[h].topic
      BY <2>5, <3>1, SMTT(40) DEF Wanted, Matches
    <3>3. SameDigits(r[j].id, r[h].id)
      BY <2>5, <3>1, SMTT(40)
    <3>4. r[j].id \in Ids /\ (Newer(rd.since, r[j].id) \/ rd.since = r[j].id)
      BY <2>5, <2>6, <3>2, <3>3, EntriesInOrder
    <3>5. r[j].id[1] \in Nat /\ r[j].id[2] \in Nat /\ rd.since[1] \in Nat /\ rd.since[2] \in Nat
      BY <2>1, <3>4, IdParts, SMTT(40)
    <3> QED BY <3>4, <3>5 DEF Newer
  <2>7. DOMAIN r = 1 .. Len(r) /\ Len(r) \in Nat
    BY <2>1
  <2>8. \A j \in 1 .. h - 1 : ~Newer(r[j].id, rd.since)
    <3>1. \A j \in 1 .. h - 1 : j \in DOMAIN r /\ j < h
      BY <2>7
    <3> QED BY <2>6, <3>1, Zenon
  <2>9. Result = Selected(r, I)
    BY <2>5, <2>8, ZenonT(40) DEF Result, AfterId
  <2>10. I \in SUBSET (1 .. Len(r)) /\ i \in I
    BY <2>5, <2>7
  <2> HIDE DEF I, r
  <2>11. PICK n \in Nat : \E at \in [1 .. n -> I] : Takes(Selected(r, I), r, I, n, at)
    BY <2>1, <2>10, SelectedInOrder, Zenon
  <2>12. PICK at \in [1 .. n -> I] : Takes(Selected(r, I), r, I, n, at)
    BY <2>11
  <2>13. PICK k \in 1 .. n : at[k] = i
    BY <2>10, <2>12 DEF Takes
  <2>14. k \in DOMAIN Result /\ Result[k] = r[i]
    BY <2>9, <2>12, <2>13, Zenon DEF Takes
  <2> QED BY <2>5, <2>14, Zenon DEF Returned
<1> QED
  BY <1>1, EventLogInvariant, PTL
================================================================================
