------------------------------ MODULE RedisProofs ------------------------------
(***************************************************************************)
(* What src/Redis.cpp keeps in Redis: what stays in the event log, and how *)
(* far concurrent publishers pass a rate limit, for any number of          *)
(* publishers, messages and topics.                                        *)
(***************************************************************************)
EXTENDS Cache, RateLimit, FiniteSetTheorems, TLAPS

(***************************************************************************)
(* Ranking.  A strict total order on a finite set puts it in order.        *)
(***************************************************************************)
StrictOrder(S, R) ==
  /\ \A x \in S : <<x, x>> \notin R
  /\ \A x, y, z \in S : <<x, y>> \in R /\ <<y, z>> \in R => <<x, z>> \in R
  /\ \A x, y \in S : x = y \/ <<x, y>> \in R \/ <<y, x>> \in R

\* The first n numbers are n numbers.
LEMMA IntervalSize ==
  ASSUME NEW n \in Nat
  PROVE  IsFiniteSet(0 .. n - 1) /\ Cardinality(0 .. n - 1) = n /\ IsFiniteSet(1 .. n)
  BY FS_Interval

\* An element that comes later has more elements before it.
LEMMA RankGrows ==
  ASSUME NEW S, NEW R, IsFiniteSet(S), StrictOrder(S, R)
  PROVE  /\ \A x \in S : Rank(S, R, x) \in 0 .. Cardinality(S) - 1
         /\ \A x, y \in S : <<x, y>> \in R => Rank(S, R, x) < Rank(S, R, y)
<1> DEFINE L(x, y) == <<x, y>> \in R
           B(x) == {y \in S : L(y, x)}
<1>1. /\ \A x \in S : ~L(x, x)
      /\ \A x, y, z \in S : L(x, y) /\ L(y, z) => L(x, z)
      /\ \A x : Rank(S, R, x) = Cardinality(B(x))
  BY Zenon DEF StrictOrder, Rank
<1> SUFFICES /\ \A x \in S : Rank(S, R, x) \in 0 .. Cardinality(S) - 1
             /\ \A x, y \in S : L(x, y) => Rank(S, R, x) < Rank(S, R, y)
  BY Zenon
<1> HIDE DEF L
<1>2. Cardinality(S) \in Nat
  BY FS_CardinalityType
<1>3. ASSUME NEW x \in S
      PROVE  IsFiniteSet(B(x)) /\ Cardinality(B(x)) \in Nat /\ Cardinality(B(x)) < Cardinality(S)
  <2>1. B(x) \subseteq S /\ x \notin B(x)
    BY <1>1
  <2>2. IsFiniteSet(B(x)) /\ Cardinality(B(x)) <= Cardinality(S) /\ Cardinality(B(x)) # Cardinality(S)
    BY <2>1, FS_Subset
  <2> QED BY <1>2, <2>2, FS_CardinalityType
<1>4. ASSUME NEW x \in S, NEW y \in S, L(x, y) PROVE Cardinality(B(x)) < Cardinality(B(y))
  <2>1. B(x) \subseteq B(y) /\ x \in B(y) /\ x \notin B(x)
    BY <1>1, <1>4
  <2>2. Cardinality(B(x)) <= Cardinality(B(y)) /\ Cardinality(B(x)) # Cardinality(B(y))
    BY <1>3, <2>1, FS_Subset, Zenon
  <2>3. Cardinality(B(x)) \in Nat /\ Cardinality(B(y)) \in Nat
    BY <1>3, ZenonT(40)
  <2> HIDE DEF B
  <2> QED BY <2>2, <2>3
<1> HIDE DEF B
<1> QED BY <1>1, <1>2, <1>3, <1>4

\* InOrder(S, R) has every element of S, and in the order of R.
LEMMA Ordered ==
  ASSUME NEW S, NEW R, IsFiniteSet(S), StrictOrder(S, R), NEW n \in Nat, n = Cardinality(S)
  PROVE  /\ InOrder(S, R) \in [1 .. n -> S]
         /\ \A i, j \in 1 .. n : i < j => <<InOrder(S, R)[i], InOrder(S, R)[j]>> \in R
         /\ \A x \in S : \E i \in 1 .. n : InOrder(S, R)[i] = x
<1> DEFINE L(x, y) == <<x, y>> \in R
           r(x) == Rank(S, R, x)
           s == InOrder(S, R)
           f == [x \in S |-> r(x)]
<1>1. /\ \A x \in S : r(x) \in 0 .. n - 1
      /\ \A x, y \in S : L(x, y) => r(x) < r(y)
  BY RankGrows
<1>2. \A x, y \in S : x = y \/ L(x, y) \/ L(y, x)
  BY Zenon DEF StrictOrder
<1>3. s = [i \in 1 .. n |-> CHOOSE x \in S : r(x) = i - 1]
  BY DEF InOrder
<1> SUFFICES /\ s \in [1 .. n -> S]
             /\ \A i, j \in 1 .. n : i < j => L(s[i], s[j])
             /\ \A x \in S : \E i \in 1 .. n : s[i] = x
  BY Zenon
<1> HIDE DEF L, r, s
<1>4. \A x, y \in S : r(x) = r(y) => x = y
  BY <1>1, <1>2
<1>5. f \in Injection(S, 0 .. n - 1)
  BY <1>1, <1>4 DEF Injection, IsInjective
<1>6. IsFiniteSet(0 .. n - 1) /\ Cardinality(0 .. n - 1) = n
  BY IntervalSize
<1>7. f \in Surjection(S, 0 .. n - 1)
  BY <1>5, <1>6, FS_Injection
<1>8. \A k \in 0 .. n - 1 : \E x \in S : r(x) = k
  BY <1>7, Zenon DEF Surjection
<1>9. \A i \in 1 .. n : i - 1 \in 0 .. n - 1 /\ i - 1 \in Nat
  OBVIOUS
<1>10. \A i \in 1 .. n : s[i] \in S /\ r(s[i]) = i - 1
  BY <1>3, <1>8, <1>9, Zenon
<1>11. s \in [1 .. n -> S]
  BY <1>3, <1>10, Zenon
<1>12. ASSUME NEW i \in 1 .. n, NEW j \in 1 .. n, i < j PROVE L(s[i], s[j])
  <2>1. s[i] \in S /\ s[j] \in S /\ r(s[i]) = i - 1 /\ r(s[j]) = j - 1
    BY <1>10
  <2>2. s[i] # s[j] /\ ~L(s[j], s[i])
    BY <1>1, <1>12, <2>1
  <2> QED BY <1>2, <2>1, <2>2
<1>13. ASSUME NEW x \in S PROVE \E i \in 1 .. n : s[i] = x
  <2>1. r(x) + 1 \in 1 .. n /\ (r(x) + 1) - 1 = r(x)
    BY <1>1
  <2>2. s[r(x) + 1] \in S /\ r(s[r(x) + 1]) = r(x)
    BY <1>10, <2>1
  <2> QED BY <1>4, <2>1, <2>2
<1> QED BY <1>11, <1>12, <1>13

\* t takes the elements of s at the places in I, in their order.
Takes(t, s, I, n, at) ==
  /\ t = [k \in 1 .. n |-> s[at[k]]]
  /\ \A j, k \in 1 .. n : j < k => at[j] < at[k]
  /\ \A i \in I : \E k \in 1 .. n : at[k] = i

\* Selected(s, I) has the elements of s with an index in I, in the order of s.
LEMMA SelectedInOrder ==
  ASSUME NEW T, NEW s \in Seq(T), NEW I \in SUBSET (1 .. Len(s))
  PROVE  \E n \in Nat : \E at \in [1 .. n -> I] : Takes(Selected(s, I), s, I, n, at)
<1> DEFINE R == {ij \in I \X I : ij[1] < ij[2]}
           n == Cardinality(I)
           at == InOrder(I, R)
<1>1. IsFiniteSet(I) /\ n \in Nat
  <2>1. Len(s) \in Nat
    OBVIOUS
  <2>2. IsFiniteSet(I)
    BY <2>1, IntervalSize, FS_Subset, Zenon
  <2> QED BY <2>2, FS_CardinalityType, Zenon
<1>2. \A i, j : <<i, j>> \in R <=> i \in I /\ j \in I /\ i < j
  OBVIOUS
<1>3. I \subseteq Int
  OBVIOUS
<1> HIDE DEF R
<1>4. StrictOrder(I, R)
  BY <1>2, <1>3 DEF StrictOrder
<1>5. /\ at \in [1 .. n -> I]
      /\ \A i, j \in 1 .. n : i < j => <<at[i], at[j]>> \in R
      /\ \A x \in I : \E i \in 1 .. n : at[i] = x
  BY <1>1, <1>4, Ordered
<1>6. \A i, j \in 1 .. n : i < j => at[i] < at[j]
  BY <1>2, <1>5, Zenon
<1>7. Selected(s, I) = [k \in 1 .. n |-> s[at[k]]]
  BY DEF Selected, R
<1> QED BY <1>1, <1>5, <1>6, <1>7, Zenon DEF Takes

(***************************************************************************)
(* What publishers and the purger keep.                                    *)
(***************************************************************************)
Ids == Nat \X Nat
Names == TopicNames \cup {""}
Entries == [topic : Names, id : Ids, msg : Messages]
Members == [topic : Names, id : Ids, expire : Nat]
CachedMessages == [topic : Names, id : Ids, expire : Nat, msg : Messages]
Publications == [pc : {"new", "incr", "expire", "hset", "zadd", "hincrby", "publish", "done"},
                 topic : Names, id : Ids, expire : Nat]

EntryOf(e) == [topic |-> e.topic, id |-> e.id, msg |-> e.msg]
MemberOf(e) == [topic |-> e.topic, id |-> e.id, expire |-> e.expire]
Backed(z) == \E e \in stored : MemberOf(e) = z

LogTypeOK ==
  /\ now \in Clock
  /\ idseq \in [Clock -> Nat]
  /\ pub \in [Messages -> Publications]
  /\ \A m \in Messages : pub[m].pc = "incr" => pub[m].id[1] \in Clock
  /\ data \subseteq Entries
  /\ scores \subseteq Members /\ IsFiniteSet(scores)
  /\ stored \subseteq CachedMessages /\ IsFiniteSet(stored)
  /\ log \subseteq stored /\ seen \subseteq Names

\* A message is stored once.
StoredOnce ==
  /\ \A e \in stored :
       /\ pub[e.msg].pc \in {"zadd", "hincrby", "publish", "done"}
       /\ pub[e.msg].pc \in {"zadd", "hincrby"} => e = Message(e.msg)
  /\ \A e, f \in stored : e.msg = f.msg => e = f
  /\ \A m \in Messages : pub[m].pc \in {"zadd", "hincrby"} => Message(m) \in stored

\* What is in the database was stored by a publisher, and a topic has one entry of an id.
AllBacked ==
  /\ \A z \in scores : Backed(z)
  /\ \A d \in data : \E e \in stored : EntryOf(e) = d
  /\ \A c, d \in data : c.topic = d.topic /\ c.id = d.id => c = d

\* The purger holds expired members only.
PurgerInv ==
  /\ purger.now \in Nat /\ purger.now <= now
  /\ \A z \in purger.expired : z \in Members /\ Backed(z) /\ z.expire < now
  /\ purger.pc = "hdel" => purger.item \in purger.expired

\* What is live is in the database.
LiveInv ==
  /\ \A m \in Messages : pub[m].pc = "hincrby" /\ pub[m].expire >= now => Member(m) \in scores
  /\ \A e \in log : e.expire >= now => MemberOf(e) \in scores
  /\ \A e \in stored : Unique(e) /\ e.expire >= now => EntryOf(e) \in data

LogInv == LogTypeOK /\ StoredOnce /\ AllBacked /\ PurgerInv /\ LiveInv

\* Steps of a publisher before it stores its message and after it added its member.
LEMMA PublisherStep ==
  ASSUME LogInv, LogTypeOK', NEW m \in Messages,
         UNCHANGED <<now, data, scores, stored, purger>>,
         \A n \in Messages \ {m} : pub'[n] = pub[n],
         pub'[m].pc \notin {"zadd", "hincrby"},
         \/ pub'[m].pc \in {"publish", "done"}
         \/ pub[m].pc \in {"new", "incr", "expire", "hset"},
         \/ log' = log
         \/ log' = log \cup {Message(m)} /\ pub[m].pc = "hincrby"
  PROVE  LogInv'
<1>1. \A e \in stored : e.msg \in Messages
  BY DEF LogInv, LogTypeOK, CachedMessages
<1>2. StoredOnce'
  <2>1. ASSUME NEW e \in stored'
        PROVE  /\ pub'[e.msg].pc \in {"zadd", "hincrby", "publish", "done"}
               /\ pub'[e.msg].pc \in {"zadd", "hincrby"} => e = Message(e.msg)'
    <3>1. CASE e.msg = m
      BY <3>1 DEF LogInv, StoredOnce
    <3>2. CASE e.msg # m
      <4>1. pub'[e.msg] = pub[e.msg]
        BY <1>1, <3>2
      <4> QED BY <4>1 DEF LogInv, StoredOnce, Message
    <3> QED BY <3>1, <3>2
  <2>2. ASSUME NEW n \in Messages, pub'[n].pc \in {"zadd", "hincrby"} PROVE Message(n)' \in stored'
    <3>1. pub'[n] = pub[n]
      BY <2>2
    <3> QED BY <2>2, <3>1 DEF LogInv, StoredOnce, Message
  <2> QED BY <2>1, <2>2 DEF LogInv, StoredOnce
<1>3. AllBacked'
  BY DEF LogInv, AllBacked, Backed
<1>4. PurgerInv'
  BY DEF LogInv, PurgerInv, Backed
<1>5. LiveInv'
  <2>1. ASSUME NEW n \in Messages, pub'[n].pc = "hincrby", pub'[n].expire >= now' PROVE Member(n)' \in scores'
    <3>1. pub'[n] = pub[n]
      BY <2>1
    <3> QED BY <2>1, <3>1 DEF LogInv, LiveInv, Member
  <2>2. ASSUME NEW e \in log', e.expire >= now' PROVE MemberOf(e) \in scores'
    <3>1. CASE e \in log
      BY <2>2, <3>1 DEF LogInv, LiveInv
    <3>2. CASE e = Message(m) /\ pub[m].pc = "hincrby"
      <4>1. MemberOf(e) = Member(m) /\ e.expire = pub[m].expire
        BY <3>2 DEF MemberOf, Member, Message
      <4> QED BY <2>2, <3>2, <4>1 DEF LogInv, LiveInv
    <3> QED BY <3>1, <3>2
  <2> QED BY <2>1, <2>2 DEF LogInv, LiveInv, Unique
<1> QED BY <1>2, <1>3, <1>4, <1>5 DEF LogInv

\* The type of the publications, with that of one of them.
LEMMA PublicationType ==
  ASSUME pub \in [Messages -> Publications], NEW m \in Messages
  PROVE  /\ pub[m].topic \in Names /\ pub[m].id \in Ids /\ pub[m].expire \in Nat
         /\ pub[m].id = <<pub[m].id[1], pub[m].id[2]>> /\ pub[m].id[1] \in Nat /\ pub[m].id[2] \in Nat
         /\ Entry(m) \in Entries /\ Member(m) \in Members /\ Message(m) \in CachedMessages
<1>1. pub[m] \in Publications
  OBVIOUS
<1>2. pub[m].topic \in Names /\ pub[m].id \in Ids /\ pub[m].expire \in Nat
  BY <1>1, Zenon DEF Publications
<1>3. /\ pub[m].id = <<pub[m].id[1], pub[m].id[2]>>
      /\ pub[m].id[1] \in Nat /\ pub[m].id[2] \in Nat
  BY <1>2 DEF Ids
<1>4. Entry(m) \in Entries /\ Member(m) \in Members /\ Message(m) \in CachedMessages
  BY <1>2, Zenon DEF Entry, Member, Message, Entries, Members, CachedMessages
<1> QED BY <1>2, <1>3, <1>4

\* cacheMessage() and publishMessage() keep the invariant.
LEMMA PublishKeepsLog ==
  ASSUME LogInv, NEW m \in Messages,
         cacheMessage(m) \/ \E t \in TopicNames, ts \in {now} \cup Timestamps : stamp(m, t, ts)
  PROVE  LogInv'
<1>t. /\ LogTypeOK /\ now \in Clock /\ pub \in [Messages -> Publications]
      /\ idseq \in [Clock -> Nat] /\ pub[m] \in Publications
  BY DEF LogInv, LogTypeOK
<1>p. /\ pub[m].topic \in Names /\ pub[m].id \in Ids /\ pub[m].expire \in Nat
      /\ pub[m].id[1] \in Nat
      /\ Entry(m) \in Entries /\ Member(m) \in Members /\ Message(m) \in CachedMessages
  BY <1>t, PublicationType
<1>n. now \in Nat /\ Clock \subseteq Nat /\ Timestamps \subseteq Clock /\ TTLs \subseteq Nat
  BY <1>t, CacheAssumption DEF Clock
<1>z. 0 \in Nat /\ <<0, 0>> \in Ids /\ "" \in Names
  BY DEF Ids, Names
<1>s. ASSUME NEW at \in {"publish", "done"}, pub' = [pub EXCEPT ![m] = Step(at)]
      PROVE  /\ pub' \in [Messages -> Publications] /\ pub'[m].pc = at
             /\ \A n \in Messages \ {m} : pub'[n] = pub[n]
  <2>1. Step(at) \in Publications /\ Step(at).pc = at
    BY <1>z, <1>s, Zenon DEF Step, Publications
  <2> QED BY <1>s, <1>t, <2>1, Zenon
<1>1. ASSUME NEW t \in TopicNames, NEW ts \in {now} \cup Timestamps, stamp(m, t, ts) PROVE LogInv'
  <2> DEFINE x == [pc |-> "incr", topic |-> t, id |-> <<ts, 0>>, expire |-> 0]
  <2>1. /\ pub[m].pc = "new" /\ pub' = [pub EXCEPT ![m] = x]
        /\ UNCHANGED <<now, idseq, data, scores, seen, purger, log, stored>>
    BY <1>1 DEF stamp
  <2>2. ts \in Clock /\ <<ts, 0>> \in Ids /\ <<ts, 0>>[1] = ts /\ t \in Names
    <3>1. ts \in Clock /\ ts \in Nat
      BY <1>t, <1>n
    <3> QED BY <3>1, Zenon DEF Ids, Names
  <2>3. x \in Publications /\ x.pc = "incr" /\ x.id[1] \in Clock
    BY <1>z, <2>2, Zenon DEF Publications
  <2> HIDE DEF x
  <2>4. /\ pub' \in [Messages -> Publications] /\ pub'[m] = x
        /\ \A n \in Messages \ {m} : pub'[n] = pub[n]
    BY <1>t, <2>1, <2>3, Zenon
  <2>5. LogTypeOK'
    BY <1>t, <2>1, <2>3, <2>4 DEF LogTypeOK
  <2> QED BY <2>1, <2>3, <2>4, <2>5, PublisherStep
<1>2. ASSUME nextId(m) PROVE LogInv'
  <2> DEFINE ts == pub[m].id[1]
             x == [pub[m] EXCEPT !.pc = "expire", !.id = <<ts, idseq[ts]>>]
  <2>1. /\ pub[m].pc = "incr" /\ pub' = [pub EXCEPT ![m] = x]
        /\ idseq' = [idseq EXCEPT ![ts] = idseq[ts] + 1]
        /\ UNCHANGED <<now, data, scores, seen, purger, log, stored>>
    BY <1>2, <1>t, Zenon DEF nextId
  <2>2. ts \in Clock /\ <<ts, idseq[ts]>> \in Ids /\ idseq' \in [Clock -> Nat]
    <3>1. ts \in Clock
      BY <1>t, <2>1 DEF LogTypeOK
    <3> HIDE DEF ts
    <3>2. ts \in Nat /\ idseq[ts] \in Nat
      BY <1>n, <1>t, <3>1
    <3> QED BY <1>t, <2>1, <3>1, <3>2 DEF Ids
  <2>3. x \in Publications /\ x.pc = "expire"
    BY <1>t, <2>2, Zenon DEF Publications
  <2> HIDE DEF x, ts
  <2>4. /\ pub' \in [Messages -> Publications] /\ pub'[m] = x
        /\ \A n \in Messages \ {m} : pub'[n] = pub[n]
    BY <1>t, <2>1, <2>3, Zenon
  <2>5. LogTypeOK'
    BY <1>t, <2>1, <2>2, <2>3, <2>4 DEF LogTypeOK
  <2> QED BY <2>1, <2>3, <2>4, <2>5, PublisherStep
<1>3. ASSUME NEW ttl \in TTLs, expireId(m, ttl) PROVE LogInv'
  <2> DEFINE at == IF EnableCache THEN "hset" ELSE "publish"
             x == [pub[m] EXCEPT !.pc = at, !.expire = now + ttl]
  <2>1. /\ pub[m].pc = "expire" /\ pub' = [pub EXCEPT ![m] = x]
        /\ UNCHANGED <<now, idseq, data, scores, seen, purger, log, stored>>
    BY <1>3, <1>t, Zenon DEF expireId
  <2>2. now + ttl \in Nat /\ at \in {"hset", "publish"}
    BY <1>n
  <2> HIDE DEF at
  <2>3. x \in Publications /\ x.pc = at
    BY <1>t, <2>2, Zenon DEF Publications
  <2> HIDE DEF x
  <2>4. /\ pub' \in [Messages -> Publications] /\ pub'[m] = x
        /\ \A n \in Messages \ {m} : pub'[n] = pub[n]
    BY <1>t, <2>1, <2>3, Zenon
  <2>5. LogTypeOK'
    BY <1>t, <2>1, <2>2, <2>3, <2>4 DEF LogTypeOK
  <2> QED BY <2>1, <2>2, <2>3, <2>4, <2>5, PublisherStep
<1>6. ASSUME incrTopicPubCount(m) PROVE LogInv'
  <2>1. /\ pub[m].pc = "hincrby" /\ pub' = [pub EXCEPT ![m] = Step("publish")]
        /\ seen' = seen \cup {pub[m].topic} /\ log' = log \cup {Message(m)}
        /\ UNCHANGED <<now, idseq, data, scores, purger, stored>>
    BY <1>6 DEF incrTopicPubCount
  <2>2. Message(m) \in stored
    BY <2>1 DEF LogInv, StoredOnce
  <2>3. /\ pub' \in [Messages -> Publications] /\ pub'[m].pc = "publish"
        /\ \A n \in Messages \ {m} : pub'[n] = pub[n]
    BY <1>s, <2>1
  <2>4. LogTypeOK'
    BY <1>t, <1>p, <2>1, <2>2, <2>3 DEF LogTypeOK
  <2> QED BY <2>1, <2>3, <2>4, PublisherStep
<1>7. ASSUME endPublish(m) PROVE LogInv'
  <2>1. /\ pub' = [pub EXCEPT ![m] = Step("done")]
        /\ UNCHANGED <<now, idseq, data, scores, seen, purger, log, stored>>
    BY <1>7 DEF endPublish
  <2>2. /\ pub' \in [Messages -> Publications] /\ pub'[m].pc = "done"
        /\ \A n \in Messages \ {m} : pub'[n] = pub[n]
    BY <1>s, <2>1
  <2>3. LogTypeOK'
    BY <1>t, <2>1, <2>2 DEF LogTypeOK
  <2> QED BY <2>1, <2>2, <2>3, PublisherStep
<1>4. ASSUME hset(m) PROVE LogInv'
  <2> DEFINE x == [pub[m] EXCEPT !.pc = "zadd"]
             e == Message(m)
  <2>1. /\ pub[m].pc = "hset" /\ pub' = [pub EXCEPT ![m] = x]
        /\ data' = {d \in data : d.topic # pub[m].topic \/ d.id # pub[m].id} \cup {Entry(m)}
        /\ stored' = stored \cup {e}
        /\ UNCHANGED <<now, idseq, scores, seen, purger, log>>
    BY <1>4, <1>t DEF hset
  <2>2. x \in Publications /\ x.pc = "zadd" /\ x.topic = pub[m].topic /\ x.id = pub[m].id
        /\ x.expire = pub[m].expire
    BY <1>t, Zenon DEF Publications
  <2> HIDE DEF x
  <2>3. /\ pub' \in [Messages -> Publications] /\ pub'[m] = x
        /\ \A n \in Messages \ {m} : pub'[n] = pub[n]
    BY <1>t, <2>1, <2>2, Zenon
  <2>4. e.msg = m /\ EntryOf(e) = Entry(m) /\ e.topic = pub[m].topic /\ e.id = pub[m].id
        /\ Message(m)' = e
    BY <2>2, <2>3 DEF Message, EntryOf, Entry
  <2> HIDE DEF e
  <2>5. \A f \in stored : f.msg # m /\ f.msg \in Messages
    BY <2>1 DEF LogInv, StoredOnce, LogTypeOK, CachedMessages
  <2>6. LogTypeOK'
    <3>1. IsFiniteSet(stored')
      BY <1>t, <2>1, FS_AddElement DEF LogTypeOK
    <3>2. stored' \subseteq CachedMessages /\ data' \subseteq Entries /\ log' \subseteq stored'
      BY <1>t, <1>p, <2>1 DEF LogTypeOK, e
    <3> QED BY <1>t, <2>1, <2>2, <2>3, <3>1, <3>2 DEF LogTypeOK
  <2>7. StoredOnce'
    <3>1. ASSUME NEW f \in stored'
          PROVE  /\ pub'[f.msg].pc \in {"zadd", "hincrby", "publish", "done"}
                 /\ pub'[f.msg].pc \in {"zadd", "hincrby"} => f = Message(f.msg)'
      <4>1. CASE f = e
        BY <2>2, <2>3, <2>4, <4>1
      <4>2. CASE f \in stored
        <5>1. pub'[f.msg] = pub[f.msg]
          BY <2>3, <2>5, <4>2
        <5> QED BY <4>2, <5>1 DEF LogInv, StoredOnce, Message
      <4> QED BY <2>1, <4>1, <4>2
    <3>2. ASSUME NEW f \in stored', NEW g \in stored', f.msg = g.msg PROVE f = g
      BY <2>1, <2>4, <2>5, <3>2 DEF LogInv, StoredOnce
    <3>3. ASSUME NEW n \in Messages, pub'[n].pc \in {"zadd", "hincrby"} PROVE Message(n)' \in stored'
      <4>1. CASE n = m
        BY <2>1, <2>4, <4>1
      <4>2. CASE n # m
        <5>1. pub'[n] = pub[n]
          BY <2>3, <4>2
        <5> QED BY <2>1, <3>3, <5>1 DEF LogInv, StoredOnce, Message
      <4> QED BY <4>1, <4>2
    <3> QED BY <3>1, <3>2, <3>3 DEF StoredOnce
  <2>8. AllBacked'
    <3>1. ASSUME NEW d \in data' PROVE \E f \in stored' : EntryOf(f) = d
      BY <2>1, <2>4 DEF LogInv, AllBacked
    <3>2. Entry(m).topic = pub[m].topic /\ Entry(m).id = pub[m].id
      BY DEF Entry
    <3>3. ASSUME NEW c \in data', NEW d \in data', c.topic = d.topic, c.id = d.id PROVE c = d
      BY <2>1, <3>2, <3>3 DEF LogInv, AllBacked
    <3>4. \A z \in scores' : Backed(z)'
      BY <2>1 DEF LogInv, AllBacked, Backed
    <3> QED BY <3>1, <3>3, <3>4 DEF AllBacked
  <2>9. PurgerInv'
    BY <2>1 DEF LogInv, PurgerInv, Backed
  <2>10. LiveInv'
    <3>1. ASSUME NEW n \in Messages, pub'[n].pc = "hincrby", pub'[n].expire >= now' PROVE Member(n)' \in scores'
      <4>1. pub'[n] = pub[n]
        BY <2>2, <2>3, <3>1
      <4> QED BY <2>1, <3>1, <4>1 DEF LogInv, LiveInv, Member
    <3>2. ASSUME NEW f \in log', f.expire >= now' PROVE MemberOf(f) \in scores'
      BY <2>1, <3>2 DEF LogInv, LiveInv
    <3>3. ASSUME NEW f \in stored', Unique(f)', f.expire >= now' PROVE EntryOf(f) \in data'
      <4>1. CASE f = e
        BY <2>1, <2>4, <4>1
      <4>2. CASE f \in stored
        <5>1. Unique(f) /\ ~(e.topic = f.topic /\ e.id = f.id)
          BY <2>1, <2>4, <2>5, <3>3, <4>2, SMTT(40) DEF Unique
        <5>2. EntryOf(f) \in data /\ EntryOf(f).topic = f.topic /\ EntryOf(f).id = f.id
          BY <2>1, <3>3, <4>2, <5>1 DEF LogInv, LiveInv, EntryOf
        <5> QED BY <2>1, <2>4, <5>1, <5>2
      <4> QED BY <2>1, <4>1, <4>2
    <3> QED BY <3>1, <3>2, <3>3 DEF LiveInv
  <2> QED BY <2>6, <2>7, <2>8, <2>9, <2>10 DEF LogInv
<1>5. ASSUME zadd(m) PROVE LogInv'
  <2> DEFINE x == [pub[m] EXCEPT !.pc = "hincrby"]
  <2>1. /\ pub[m].pc = "zadd" /\ pub' = [pub EXCEPT ![m] = x]
        /\ scores' = scores \cup {Member(m)}
        /\ UNCHANGED <<now, idseq, data, stored, seen, purger, log>>
    BY <1>5, <1>t DEF zadd
  <2>2. x \in Publications /\ x.pc = "hincrby" /\ x.topic = pub[m].topic /\ x.id = pub[m].id
        /\ x.expire = pub[m].expire
    BY <1>t, Zenon DEF Publications
  <2> HIDE DEF x
  <2>3. /\ pub' \in [Messages -> Publications] /\ pub'[m] = x
        /\ \A n \in Messages \ {m} : pub'[n] = pub[n]
    BY <1>t, <2>1, <2>2, ZenonT(40)
  <2>4. Message(m)' = Message(m) /\ Member(m)' = Member(m) /\ MemberOf(Message(m)) = Member(m)
    BY <2>2, <2>3, SMTT(40) DEF Message, Member, MemberOf
  <2>5. Message(m) \in stored
    BY <2>1, SMTT(40) DEF LogInv, StoredOnce
  <2>6. LogTypeOK'
    <3>1. IsFiniteSet(scores')
      BY <1>t, <2>1, FS_AddElement DEF LogTypeOK
    <3> QED BY <1>t, <1>p, <2>1, <2>2, <2>3, <3>1, SMTT(40) DEF LogTypeOK
  <2>7. StoredOnce'
    <3>1. ASSUME NEW f \in stored'
          PROVE  /\ pub'[f.msg].pc \in {"zadd", "hincrby", "publish", "done"}
                 /\ pub'[f.msg].pc \in {"zadd", "hincrby"} => f = Message(f.msg)'
      <4>1. CASE f.msg = m
        BY <2>1, <2>2, <2>3, <2>4, <4>1 DEF LogInv, StoredOnce
      <4>2. CASE f.msg # m
        <5>1. pub'[f.msg] = pub[f.msg]
          BY <2>1, <2>3, <4>2 DEF LogInv, LogTypeOK, CachedMessages
        <5> QED BY <2>1, <5>1, SMTT(40) DEF LogInv, StoredOnce, Message
      <4> QED BY <4>1, <4>2
    <3>2. ASSUME NEW n \in Messages, pub'[n].pc \in {"zadd", "hincrby"} PROVE Message(n)' \in stored'
      <4>1. CASE n = m
        BY <2>1, <2>4, <2>5, <4>1
      <4>2. CASE n # m
        <5>1. pub'[n] = pub[n]
          BY <2>3, <4>2
        <5> QED BY <2>1, <3>2, <5>1 DEF LogInv, StoredOnce, Message
      <4> QED BY <4>1, <4>2
    <3> QED BY <2>1, <3>1, <3>2 DEF LogInv, StoredOnce
  <2>8. AllBacked'
    BY <2>1, <2>4, <2>5, SMTT(40) DEF LogInv, AllBacked, Backed
  <2>9. PurgerInv'
    BY <2>1 DEF LogInv, PurgerInv, Backed
  <2>10. LiveInv'
    <3>1. ASSUME NEW n \in Messages, pub'[n].pc = "hincrby", pub'[n].expire >= now' PROVE Member(n)' \in scores'
      <4>1. CASE n = m
        BY <2>1, <2>4, <4>1, SMTT(40)
      <4>2. CASE n # m
        <5>1. pub'[n] = pub[n]
          BY <2>3, <4>2
        <5> QED BY <2>1, <3>1, <5>1 DEF LogInv, LiveInv, Member
      <4> QED BY <4>1, <4>2
    <3> QED BY <2>1, <3>1 DEF LogInv, LiveInv, Unique
  <2> QED BY <2>6, <2>7, <2>8, <2>9, <2>10 DEF LogInv
<1> QED
  BY <1>1, <1>2, <1>3, <1>4, <1>5, <1>6, <1>7 DEF cacheMessage

\* The purger, which deletes only what has expired, keeps the invariant.
LEMMA PurgeKeepsLog == LogInv /\ purge => LogInv'
<1> SUFFICES ASSUME LogInv, purge PROVE LogInv'
  OBVIOUS
<1>n. now \in Nat
  BY CacheAssumption DEF LogInv, LogTypeOK, Clock
<1>u. ASSUME UNCHANGED <<now, idseq, pub, data, scores, stored, log>>, seen' \subseteq Names, PurgerInv'
      PROVE  LogInv'
  BY <1>u DEF LogInv, LogTypeOK, StoredOnce, AllBacked, LiveInv, Message, Member, Backed, Unique
<1>1. CASE beginPurge
  <2>1. purger' = [NoPurge EXCEPT !.pc = "zrange", !.now = now, !.todo = seen]
        /\ UNCHANGED <<now, idseq, pub, data, scores, stored, seen, log>>
    BY <1>1 DEF beginPurge
  <2>2. purger'.now = now /\ purger'.expired = {} /\ purger'.pc = "zrange"
    BY <2>1 DEF NoPurge
  <2>3. PurgerInv'
    BY <1>n, <2>1, <2>2 DEF PurgerInv
  <2> QED BY <1>u, <2>1, <2>3 DEF LogInv, LogTypeOK
<1>2. ASSUME NEW t \in TopicNames, purgeScan(t) PROVE LogInv'
  <2> DEFINE late == {z \in scores : z.topic = t /\ z.expire < purger.now}
  <2>1. /\ purger'.now = purger.now /\ purger'.pc # "hdel"
        /\ purger'.expired = purger.expired \cup late
        /\ UNCHANGED <<now, idseq, pub, data, scores, stored, seen, log>>
    BY <1>2 DEF purgeScan
  <2>2. \A z \in late : z \in Members /\ Backed(z) /\ z.expire < now
    <3> SUFFICES ASSUME NEW z \in late PROVE z \in Members /\ Backed(z) /\ z.expire < now
      OBVIOUS
    <3>1. z \in Members /\ Backed(z)
      BY DEF LogInv, LogTypeOK, AllBacked
    <3>2. z.expire \in Nat
      BY <3>1 DEF Members
    <3> QED BY <1>n, <3>1, <3>2 DEF LogInv, PurgerInv
  <2>3. PurgerInv'
    BY <2>1, <2>2, SMTT(40) DEF LogInv, PurgerInv, Backed
  <2> QED BY <1>u, <2>1, <2>3 DEF LogInv, LogTypeOK
<1>3. CASE purgeTopic
  <2>1. /\ purger'.now = purger.now /\ purger'.pc = "zrange" /\ purger'.expired = purger.expired
        /\ seen' \subseteq seen
        /\ UNCHANGED <<now, idseq, pub, data, scores, stored, log>>
    BY <1>3 DEF purgeTopic
  <2>2. PurgerInv'
    BY <2>1 DEF LogInv, PurgerInv, Backed
  <2> QED BY <1>u, <2>1, <2>2 DEF LogInv, LogTypeOK
<1>4. ASSUME NEW z \in purger.expired, purgeScore(z) PROVE LogInv'
  <2>1. /\ purger'.now = purger.now /\ purger'.expired = purger.expired /\ purger'.item = z
        /\ scores' = scores \ {z}
        /\ UNCHANGED <<now, idseq, pub, data, stored, seen, log>>
    BY <1>4 DEF purgeScore
  <2>2. PurgerInv'
    BY <2>1 DEF LogInv, PurgerInv, Backed
  <2>3. LogTypeOK'
    BY <2>1, FS_RemoveElement DEF LogInv, LogTypeOK
  <2>4. StoredOnce' /\ AllBacked'
    BY <2>1 DEF LogInv, StoredOnce, AllBacked, Message, Backed
  <2>5. z.expire \in Nat /\ z.expire < now
    BY DEF LogInv, PurgerInv, Members
  <2>6. LiveInv'
    <3>1. ASSUME NEW m \in Messages, pub'[m].pc = "hincrby", pub'[m].expire >= now' PROVE Member(m)' \in scores'
      <4>1. Member(m) \in scores /\ Member(m).expire = pub[m].expire /\ Member(m)' = Member(m)
        BY <2>1, <3>1 DEF LogInv, LiveInv, Member
      <4> QED BY <1>n, <2>1, <2>5, <3>1, <4>1
    <3>2. ASSUME NEW e \in log', e.expire >= now' PROVE MemberOf(e) \in scores'
      <4>1. MemberOf(e) \in scores /\ MemberOf(e).expire = e.expire
        BY <2>1, <3>2 DEF LogInv, LiveInv, MemberOf
      <4> QED BY <1>n, <2>1, <2>5, <3>2, <4>1
    <3> QED BY <2>1, <3>1, <3>2 DEF LogInv, LiveInv, Unique
  <2> QED BY <2>2, <2>3, <2>4, <2>6 DEF LogInv
<1>5. CASE purgeData
  <2> DEFINE z == purger.item
  <2>1. /\ purger'.now = purger.now /\ purger'.expired = purger.expired \ {z} /\ purger'.pc = "zrange"
        /\ data' = {d \in data : d.topic # z.topic \/ d.id # z.id}
        /\ UNCHANGED <<now, idseq, pub, scores, stored, seen, log>>
        /\ purger.pc = "hdel"
    BY <1>5 DEF purgeData
  <2>2. z.expire < now /\ z.expire \in Nat /\ Backed(z)
    BY <2>1 DEF LogInv, PurgerInv, Members
  <2>3. PICK f \in stored : MemberOf(f) = z
    BY <2>2 DEF Backed
  <2>4. f.topic = z.topic /\ f.id = z.id /\ f.expire = z.expire
    BY <2>3 DEF MemberOf
  <2>5. PurgerInv'
    BY <2>1 DEF LogInv, PurgerInv, Backed
  <2>6. LogTypeOK'
    BY <2>1 DEF LogInv, LogTypeOK
  <2>7. StoredOnce' /\ AllBacked'
    BY <2>1 DEF LogInv, StoredOnce, AllBacked, Message, Backed
  <2>8. ASSUME NEW e \in stored', Unique(e)', e.expire >= now' PROVE EntryOf(e) \in data'
    <3>1. e \in stored /\ Unique(e) /\ EntryOf(e) \in data
      BY <2>1, <2>8 DEF LogInv, LiveInv, Unique
    <3>2. EntryOf(e).topic = e.topic /\ EntryOf(e).id = e.id
      BY DEF EntryOf
    <3>3. ASSUME e.topic = z.topic, e.id = z.id PROVE FALSE
      <4>1. f = e
        BY <2>4, <3>1, <3>3, SMTT(40) DEF Unique, LogInv, StoredOnce
      <4> QED BY <1>n, <2>1, <2>2, <2>4, <2>8, <4>1
    <3> QED BY <2>1, <3>1, <3>2, <3>3
  <2>9. LiveInv'
    BY <2>1, <2>8, SMTT(40) DEF LogInv, LiveInv, Member
  <2> QED BY <2>5, <2>6, <2>7, <2>9 DEF LogInv
<1>6. CASE endPurge
  <2>1. purger' = NoPurge /\ UNCHANGED <<now, idseq, pub, data, scores, stored, seen, log>>
    BY <1>6 DEF endPurge
  <2>2. purger'.now = 0 /\ purger'.expired = {} /\ purger'.pc = "idle"
    BY <2>1, ZenonT(40) DEF NoPurge
  <2>3. PurgerInv'
    BY <1>n, <2>1, <2>2 DEF PurgerInv
  <2> QED BY <1>u, <2>1, <2>3 DEF LogInv, LogTypeOK
<1> QED
  BY <1>1, <1>2, <1>3, <1>4, <1>5, <1>6 DEF purge

\* So does the clock: what is live later is live now.
LEMMA TickKeepsLog == LogInv /\ cacheTick => LogInv'
<1> SUFFICES ASSUME LogInv, cacheTick PROVE LogInv'
  OBVIOUS
<1>1. /\ now \in Nat /\ now' = now + 1 /\ now' \in Clock
      /\ UNCHANGED <<pub, data, scores, stored, seen, log, purger>>
  BY CacheAssumption DEF cacheTick, LogInv, LogTypeOK, Clock
<1>2. idseq' \in [Clock -> Nat]
  BY DEF cacheTick, LogInv, LogTypeOK
<1>3. LogTypeOK'
  BY <1>1, <1>2 DEF LogInv, LogTypeOK
<1>4. StoredOnce' /\ AllBacked'
  BY <1>1 DEF LogInv, StoredOnce, AllBacked, Message, Backed
<1>5. PurgerInv'
  <2>1. \A z \in purger.expired : z.expire \in Nat /\ z.expire < now
    BY DEF LogInv, PurgerInv, Members
  <2> QED BY <1>1, <2>1 DEF LogInv, PurgerInv, Backed
<1>6. LiveInv'
  <2>1. \A m \in Messages : pub[m].expire \in Nat
    BY PublicationType DEF LogInv, LogTypeOK
  <2>2. \A e \in stored : e.expire \in Nat
    BY DEF LogInv, LogTypeOK, CachedMessages
  <2>3. log \subseteq stored
    BY DEF LogInv, LogTypeOK
  <2>4. \A e \in Nat : e >= now + 1 => e >= now
    BY <1>1
  <2> QED BY <1>1, <2>1, <2>2, <2>3, <2>4, SMTT(40) DEF LogInv, LiveInv, Unique, Member
<1> QED BY <1>3, <1>4, <1>5, <1>6 DEF LogInv

\* The invariant of the event log is inductive.
LEMMA LogStep == LogInv /\ [CacheNext]_cacheVars => LogInv'
<1> SUFFICES ASSUME LogInv, [CacheNext]_cacheVars PROVE LogInv'
  OBVIOUS
<1>1. ASSUME UNCHANGED <<now, idseq, pub, data, scores, stored, seen, log, purger>> PROVE LogInv'
  <2>1. LogTypeOK' /\ StoredOnce' /\ PurgerInv'
    BY <1>1, SMTT(40) DEF LogInv, LogTypeOK, StoredOnce, PurgerInv, Message, Backed
  <2>2. AllBacked' /\ LiveInv'
    BY <1>1, SMTT(40) DEF LogInv, AllBacked, LiveInv, Member, Backed, Unique
  <2> QED BY <2>1, <2>2, SMTT(40) DEF LogInv
<1>2. CASE request
  <2>1. UNCHANGED <<now, idseq, pub, data, scores, stored, seen, log, purger>>
    BY <1>2, ZenonT(40) DEF request, beginRead
  <2> QED BY <1>1, <2>1
<1>3. CASE read
  <2>1. UNCHANGED <<now, idseq, pub, data, scores, stored, seen, log, purger>>
    BY <1>3, ZenonT(40) DEF read, getTopicsSeen, readScores, readKeys, readData, answer
  <2> QED BY <1>1, <2>1
<1>4. CASE UNCHANGED cacheVars
  BY <1>1, <1>4 DEF cacheVars
<1>5. CASE \E m \in Messages :
             \/ \E t \in TopicNames, ts \in {now} \cup Timestamps : stamp(m, t, ts)
             \/ cacheMessage(m)
  BY <1>5, PublishKeepsLog
<1> QED
  BY <1>2, <1>3, <1>4, <1>5, PurgeKeepsLog, TickKeepsLog DEF CacheNext

\* The empty database satisfies the log's invariant.
LEMMA LogInit == CacheInit => LogInv
<1> SUFFICES ASSUME CacheInit PROVE LogInv
  OBVIOUS
<1>1. /\ data = {} /\ scores = {} /\ seen = {} /\ log = {} /\ stored = {} /\ now = 1
      /\ pub = [m \in Messages |-> Step("new")] /\ purger = NoPurge
  BY DEF CacheInit
<1>2. Step("new") \in Publications /\ Step("new").pc = "new"
  <2>1. 0 \in Nat /\ <<0, 0>> \in Ids /\ "" \in Names
    BY DEF Ids, Names
  <2> QED BY <2>1, Zenon DEF Step, Publications
<1>3. now \in Clock /\ idseq \in [Clock -> Nat]
  BY CacheAssumption DEF CacheInit, Clock
<1>4. LogTypeOK
  BY <1>1, <1>2, <1>3, FS_EmptySet DEF LogTypeOK
<1>5. StoredOnce /\ AllBacked /\ LiveInv
  BY <1>1, <1>2 DEF StoredOnce, AllBacked, LiveInv
<1>6. PurgerInv
  <2>1. purger.now = 0 /\ purger.expired = {} /\ purger.pc = "idle"
    BY <1>1, Zenon DEF NoPurge
  <2> QED BY <1>1, <2>1 DEF PurgerInv
<1> QED BY <1>4, <1>5, <1>6 DEF LogInv

\* A live message with an id of its own stays in the event log, for any number of
\* publishers and whatever the purger does.
THEOREM CachedStaysUntilExpired == CacheSpec => []CachedUntilExpired
<1>1. LogInv => CachedUntilExpired
  BY DEF LogInv, LogTypeOK, LiveInv, CachedUntilExpired, MemberOf, EntryOf
<1> QED
  BY <1>1, LogInit, LogStep, PTL DEF CacheSpec

(***************************************************************************)
(* The rate limit: how far it can be passed.                               *)
(***************************************************************************)
\* The publishers that isRateLimited() has let pass and that have yet to count.
Uncounted == {p \in Publishers : rpc[p] \in {"get", "incr", "setex"}}

\* Counted and uncounted publishes together exceed the maximum by at most one
\* less than the number of publishers.  It is the inductive form of CountBounded:
\* counting moves a publish from the second term to the first.
RateInv ==
  /\ RateTypeOK
  /\ LimitMax > 0 => rcount + Cardinality(Uncounted) <= LimitMax + Cardinality(Publishers) - 1

\* Publishers that have yet to count are publishers.
LEMMA UncountedFinite ==
  /\ IsFiniteSet(Uncounted)
  /\ Cardinality(Uncounted) \in Nat
  /\ Cardinality(Publishers) \in Nat
  /\ Cardinality(Uncounted) <= Cardinality(Publishers)
<1>1. Uncounted \subseteq Publishers
  BY DEF Uncounted
<1> QED
  BY <1>1, RateLimitAssumption, FS_Subset, FS_CardinalityType

\* A step that neither lets a publisher pass nor counts one leaves them as they are
\* or takes publishers away.
LEMMA FewerUncounted ==
  ASSUME Uncounted' \subseteq Uncounted
  PROVE  Cardinality(Uncounted') \in Nat /\ Cardinality(Uncounted') <= Cardinality(Uncounted)
  BY UncountedFinite, FS_Subset, FS_CardinalityType

\* A publisher that counts is one less.
LEMMA CountingRemoves ==
  ASSUME NEW p \in Uncounted, Uncounted' = Uncounted \ {p}
  PROVE  Cardinality(Uncounted') = Cardinality(Uncounted) - 1
  BY UncountedFinite, FS_RemoveElement

\* Redis and the publishers keep the types.
LEMMA RateTypeStep == RateTypeOK /\ [RateNext]_rateVars => RateTypeOK'
<1> SUFFICES ASSUME RateTypeOK, [RateNext]_rateVars PROVE RateTypeOK'
  OBVIOUS
<1> USE RateLimitAssumption DEF RateTypeOK, goTo, NoTTL
<1>1. CASE rateTick
  BY <1>1 DEF rateTick
<1>2. ASSUME NEW p \in Publishers, isRateLimited(p) PROVE RateTypeOK'
  BY <1>2 DEF isRateLimited
<1>3. ASSUME NEW p \in Publishers, getCount(p) PROVE RateTypeOK'
  BY <1>3 DEF getCount
<1>4. ASSUME NEW p \in Publishers, incr(p) PROVE RateTypeOK'
  BY <1>4 DEF incr
<1>5. ASSUME NEW p \in Publishers, setex(p) PROVE RateTypeOK'
  BY <1>5 DEF setex
<1>6. ASSUME NEW p \in Publishers, rateError(p) \/ allowed(p) PROVE RateTypeOK'
  BY <1>6 DEF rateError, allowed
<1>7. CASE UNCHANGED rateVars
  BY <1>7 DEF rateVars
<1> QED
  BY <1>1, <1>2, <1>3, <1>4, <1>5, <1>6, <1>7 DEF RateNext, rateSteps

\* Every step keeps the bound on counted and uncounted publishes.
LEMMA RateBoundStep == RateInv /\ [RateNext]_rateVars => RateInv'
<1> SUFFICES ASSUME RateInv, [RateNext]_rateVars PROVE RateInv'
  OBVIOUS
<1>0. RateTypeOK /\ RateTypeOK'
  BY RateTypeStep DEF RateInv
<1>u. /\ Cardinality(Uncounted) \in Nat /\ Cardinality(Publishers) \in Nat
      /\ Cardinality(Uncounted) <= Cardinality(Publishers)
  BY UncountedFinite
<1>v. Cardinality(Uncounted') \in Nat /\ Cardinality(Uncounted') <= Cardinality(Publishers)
  <2>1. Uncounted' \subseteq Publishers
    BY DEF Uncounted
  <2> QED
    BY <2>1, RateLimitAssumption, FS_Subset, FS_CardinalityType
<1>b. LimitMax > 0 => rcount + Cardinality(Uncounted) <= LimitMax + Cardinality(Publishers) - 1
  BY DEF RateInv
<1>t. rcount \in Nat /\ rcount' \in Nat /\ LimitMax \in Nat
  BY <1>0, RateLimitAssumption DEF RateTypeOK
<1> SUFFICES ASSUME LimitMax > 0
             PROVE rcount' + Cardinality(Uncounted') <= LimitMax + Cardinality(Publishers) - 1
  BY <1>0 DEF RateInv
<1>1. CASE rateTick
  <2>1. Uncounted' = Uncounted
    BY <1>1 DEF rateTick, Uncounted
  <2>2. Cardinality(Uncounted') = Cardinality(Uncounted)
    BY <2>1
  <2>3. rcount' <= rcount
    BY <1>1, <1>t DEF rateTick
  <2> QED
    BY <1>b, <1>u, <1>t, <2>2, <2>3
<1>2. ASSUME NEW p \in Publishers, isRateLimited(p)
      PROVE rcount' + Cardinality(Uncounted') <= LimitMax + Cardinality(Publishers) - 1
  <2>1. CASE rcount >= LimitMax
    <3>1. Uncounted' \subseteq Uncounted
      BY <1>2, <1>0, <2>1 DEF isRateLimited, goTo, Uncounted, RateTypeOK
    <3>2. Cardinality(Uncounted') <= Cardinality(Uncounted)
      BY <3>1, FewerUncounted
    <3> QED
      BY <1>2, <1>b, <1>u, <1>v, <1>t, <3>2 DEF isRateLimited
  <2>2. CASE rcount < LimitMax
    BY <1>2, <2>2, <1>u, <1>v, <1>t, RateLimitAssumption DEF isRateLimited
  <2> QED
    BY <2>1, <2>2, <1>t
<1>3. ASSUME NEW p \in Publishers, getCount(p)
      PROVE rcount' + Cardinality(Uncounted') <= LimitMax + Cardinality(Publishers) - 1
  <2>1. Uncounted' = Uncounted
    BY <1>3, <1>0 DEF getCount, goTo, Uncounted, RateTypeOK
  <2>2. Cardinality(Uncounted') = Cardinality(Uncounted)
    BY <2>1
  <2> QED
    BY <1>3, <1>b, <2>2 DEF getCount
<1>4. ASSUME NEW p \in Publishers, incr(p)
      PROVE rcount' + Cardinality(Uncounted') <= LimitMax + Cardinality(Publishers) - 1
  <2>1. p \in Uncounted /\ Uncounted' = Uncounted \ {p}
    BY <1>4, <1>0 DEF incr, goTo, Uncounted, RateTypeOK
  <2>2. Cardinality(Uncounted') = Cardinality(Uncounted) - 1
    BY <2>1, CountingRemoves
  <2> QED
    BY <1>4, <1>b, <1>u, <1>t, <2>2 DEF incr
<1>5. ASSUME NEW p \in Publishers, setex(p)
      PROVE rcount' + Cardinality(Uncounted') <= LimitMax + Cardinality(Publishers) - 1
  <2>1. p \in Uncounted /\ Uncounted' = Uncounted \ {p}
    BY <1>5, <1>0 DEF setex, goTo, Uncounted, RateTypeOK
  <2>2. Cardinality(Uncounted') = Cardinality(Uncounted) - 1
    BY <2>1, CountingRemoves
  <2>3. rcount' = 1
    BY <1>5 DEF setex
  <2> QED
    BY <1>u, <1>t, <2>2, <2>3
<1>6. ASSUME NEW p \in Publishers, rateError(p) \/ allowed(p)
      PROVE rcount' + Cardinality(Uncounted') <= LimitMax + Cardinality(Publishers) - 1
  <2>1. Uncounted' \subseteq Uncounted /\ rcount' = rcount
    BY <1>6, <1>0 DEF rateError, allowed, goTo, Uncounted, RateTypeOK
  <2>2. Cardinality(Uncounted') <= Cardinality(Uncounted)
    BY <2>1, FewerUncounted
  <2> QED
    BY <1>b, <1>u, <1>v, <1>t, <2>1, <2>2
<1>7. CASE UNCHANGED rateVars
  <2>1. Uncounted' = Uncounted /\ rcount' = rcount
    BY <1>7 DEF rateVars, Uncounted
  <2>2. Cardinality(Uncounted') = Cardinality(Uncounted)
    BY <2>1
  <2> QED
    BY <1>b, <2>1, <2>2
<1> QED
  BY <1>1, <1>2, <1>3, <1>4, <1>5, <1>6, <1>7 DEF RateNext, rateSteps

(***************************************************************************)
(* What one life of the key lets through, late SETEX included.             *)
(***************************************************************************)
\* The publishers whose GET found no key: each will count anew from one.
Resetting == {p \in Publishers : rpc[p] = "setex"}
Others == Cardinality(Publishers) - Cardinality(Resetting)

\* Twice what k rounds let through, when the first passes the maximum by nothing
\* and each passes it by one more than the one before.
Budget(k) == k * (2 * LimitMax + k - 1)

\* The inductive form of UsedBounded.  While the key exists no GET finds it
\* missing, so Resetting only shrinks, and every SETEX ends a round: what was
\* counted before it is within the budget of the publishers that are not resetting,
\* less the one that counts in the current round.
UsedInv ==
  /\ rcount = 0 => used = 0
  /\ rcount > 0 => Others >= 1 /\ 2 * used <= 2 * rcount + Budget(Others - 1)

\* One round more lets through the maximum and one for every round before.
LEMMA BudgetGrows ==
  ASSUME NEW k \in Nat
  PROVE  Budget(k + 1) = Budget(k) + 2 * (LimitMax + k) /\ Budget(k) \in Int /\ Budget(0) = 0
<1> USE RateLimitAssumption
<1>1. (k + 1) * (2 * LimitMax + (k + 1) - 1) = k * (2 * LimitMax + k - 1) + 2 * (LimitMax + k)
  OBVIOUS
<1> QED BY <1>1 DEF Budget

\* More publishers have the larger budget.
LEMMA BudgetMonotone ==
  ASSUME LimitMax > 0, NEW j \in Nat, NEW k \in Nat, j <= k
  PROVE  Budget(j) <= Budget(k)
<1> USE RateLimitAssumption
<1>1. PICK d \in Nat : k = j + d
  <2>1. k - j \in Nat /\ k = j + (k - j)
    OBVIOUS
  <2> QED BY <2>1
<1>2. (j + d) * (2 * LimitMax + (j + d) - 1) = j * (2 * LimitMax + j - 1) + d * (2 * LimitMax + 2 * j + d - 1)
  OBVIOUS
<1>3. 2 * LimitMax + 2 * j + d - 1 \in Nat /\ 2 * LimitMax + j - 1 \in Nat
  OBVIOUS
<1>4. \A a, b \in Nat : a * b \in Nat
  OBVIOUS
<1>5. d * (2 * LimitMax + 2 * j + d - 1) \in Nat /\ j * (2 * LimitMax + j - 1) \in Nat
  BY <1>3, <1>4
<1> QED BY <1>1, <1>2, <1>5 DEF Budget

\* A budget is a number of publishes.
LEMMA BudgetType == ASSUME LimitMax > 0, NEW k \in Nat PROVE Budget(k) \in Nat
<1>1. Budget(0) = 0 /\ Budget(k) \in Int
  BY BudgetGrows
<1>2. Budget(0) <= Budget(k)
  BY BudgetMonotone
<1> QED BY <1>1, <1>2

\* Publishers that are resetting are publishers that have yet to count.
LEMMA ResettingFinite ==
  /\ IsFiniteSet(Resetting)
  /\ Cardinality(Resetting) \in Nat
  /\ Cardinality(Resetting) <= Cardinality(Uncounted)
  /\ Others \in Nat /\ Others <= Cardinality(Publishers)
<1>1. Resetting \subseteq Uncounted
  BY DEF Resetting, Uncounted
<1>2. /\ IsFiniteSet(Resetting) /\ Cardinality(Resetting) \in Nat
      /\ Cardinality(Resetting) <= Cardinality(Uncounted)
  BY <1>1, UncountedFinite, FS_Subset, FS_CardinalityType
<1> QED BY <1>2, UncountedFinite DEF Others

\* With the key there, a step takes at most one publisher out of Resetting.
LEMMA OthersSteps ==
  ASSUME RateTypeOK
  PROVE  /\ Resetting' = Resetting => Others' = Others
         /\ \A p \in Resetting : Resetting' = Resetting \ {p} => Others' = Others + 1
         /\ \A p \in Publishers \ Resetting : Others >= 1
<1>1. Resetting' = Resetting => Others' = Others
  BY DEF Others
<1>2. ASSUME NEW p \in Resetting, Resetting' = Resetting \ {p} PROVE Others' = Others + 1
  <2>1. Cardinality(Resetting') = Cardinality(Resetting) - 1
    BY <1>2, ResettingFinite, FS_RemoveElement
  <2> QED BY <2>1, ResettingFinite, UncountedFinite DEF Others
<1>3. ASSUME NEW p \in Publishers \ Resetting PROVE Others >= 1
  <2>1. Resetting \subseteq Publishers \ {p}
    BY <1>3 DEF Resetting
  <2>2. IsFiniteSet(Publishers \ {p}) /\ Cardinality(Publishers \ {p}) = Cardinality(Publishers) - 1
    BY RateLimitAssumption, FS_RemoveElement
  <2>3. Cardinality(Resetting) <= Cardinality(Publishers \ {p})
    BY <2>1, <2>2, FS_Subset
  <2> QED BY <2>2, <2>3, ResettingFinite, UncountedFinite DEF Others
<1> QED BY <1>1, <1>2, <1>3

\* Every step stays within the budget.
LEMMA UsedStep ==
  ASSUME LimitMax > 0, RateInv, UsedInv, [RateNext]_rateVars PROVE UsedInv'
<1>0. RateTypeOK /\ RateTypeOK'
  BY RateTypeStep DEF RateInv
<1>t. /\ rcount \in Nat /\ used \in Nat /\ LimitMax \in Nat
      /\ rcount' \in Nat /\ used' \in Nat
      /\ Others \in Nat /\ Others' \in Nat
  <2>0. Resetting' \subseteq Publishers
    BY DEF Resetting
  <2>1. Others' \in Nat
    BY <2>0, RateLimitAssumption, FS_Subset, FS_CardinalityType DEF Others
  <2> QED BY <1>0, <2>1, RateLimitAssumption, ResettingFinite DEF RateTypeOK
<1>1. ASSUME UNCHANGED <<rcount, used>>, Resetting' = Resetting \/ rcount = 0 PROVE UsedInv'
  BY <1>1, <1>t, OthersSteps, <1>0 DEF UsedInv
<1>2. CASE rateTick
  <2>1. Resetting' = Resetting
    BY <1>2 DEF rateTick, Resetting
  <2>2. CASE rttl = 1
    BY <1>2, <2>2 DEF rateTick, UsedInv
  <2>3. CASE rttl # 1
    BY <1>1, <1>2, <2>1, <2>3 DEF rateTick
  <2> QED BY <2>2, <2>3
<1>3. ASSUME NEW p \in Publishers, isRateLimited(p) PROVE UsedInv'
  <2>1. Resetting' = Resetting
    BY <1>3, <1>0 DEF isRateLimited, goTo, Resetting, RateTypeOK
  <2> QED BY <1>1, <1>3, <2>1 DEF isRateLimited
<1>4. ASSUME NEW p \in Publishers, getCount(p) PROVE UsedInv'
  <2>1. rcount > 0 => Resetting' = Resetting
    BY <1>4, <1>0 DEF getCount, goTo, Resetting, RateTypeOK
  <2> QED BY <1>1, <1>4, <1>t, <2>1 DEF getCount
<1>5. ASSUME NEW p \in Publishers, incr(p) PROVE UsedInv'
  <2>1. Resetting' = Resetting /\ p \in Publishers \ Resetting
    BY <1>5, <1>0 DEF incr, goTo, Resetting, RateTypeOK
  <2>2. Others' = Others /\ Others >= 1
    BY <1>0, <2>1, OthersSteps
  <2>3. Budget(Others - 1) \in Nat
    BY <1>t, <2>2, BudgetType
  <2>4. rcount' = rcount + 1 /\ used' = used + 1
    BY <1>5 DEF incr
  <2>5. 2 * used <= 2 * rcount + Budget(Others - 1)
    BY <1>t, <2>3 DEF UsedInv
  <2>6. 2 * used' <= 2 * rcount' + Budget(Others - 1)
    BY <1>t, <2>3, <2>4, <2>5
  <2>7. Budget(Others' - 1) = Budget(Others - 1)
    BY <2>2
  <2> QED BY <1>t, <2>2, <2>4, <2>6, <2>7 DEF UsedInv
<1>6. ASSUME NEW p \in Publishers, setex(p) PROVE UsedInv'
  <2>1. p \in Resetting /\ Resetting' = Resetting \ {p}
    BY <1>6, <1>0 DEF setex, goTo, Resetting, RateTypeOK
  <2>2. Others' = Others + 1
    BY <1>0, <2>1, OthersSteps
  <2>3. rcount' = 1 /\ used' = used + 1
    BY <1>6 DEF setex
  <2>4. Budget(Others) \in Nat
    BY <1>t, BudgetType
  <2>5. 2 * used <= Budget(Others)
    <3>1. CASE rcount = 0
      BY <3>1, <2>4 DEF UsedInv
    <3>2. CASE rcount > 0
      <4>1. Others >= 1 /\ 2 * used <= 2 * rcount + Budget(Others - 1)
        BY <3>2 DEF UsedInv
      <4>2. rcount <= LimitMax + Others - 1
        BY <1>t, ResettingFinite, UncountedFinite DEF RateInv, Others
      <4>3. Others - 1 \in Nat /\ (Others - 1) + 1 = Others
        BY <1>t, <4>1
      <4>4. Budget(Others) = Budget(Others - 1) + 2 * (LimitMax + (Others - 1)) /\ Budget(Others - 1) \in Int
        BY <4>3, BudgetGrows
      <4> QED BY <1>t, <4>1, <4>2, <4>4
    <3> QED BY <1>t, <3>1, <3>2
  <2>6. Budget(Others' - 1) = Budget(Others)
    <3>1. Others' - 1 = Others
      BY <1>t, <2>2
    <3> QED BY <3>1
  <2> QED BY <1>t, <2>2, <2>3, <2>4, <2>5, <2>6 DEF UsedInv
<1>7. ASSUME NEW p \in Publishers, rateError(p) \/ allowed(p) PROVE UsedInv'
  <2>0. UNCHANGED <<rcount, used>>
    BY <1>7 DEF rateError, allowed
  <2>1. CASE p \notin Resetting
    <3>1. Resetting' = Resetting
      BY <1>7, <1>0, <2>1 DEF rateError, allowed, goTo, Resetting, RateTypeOK
    <3> QED BY <1>1, <2>0, <3>1
  <2>2. CASE p \in Resetting /\ rcount > 0
    <3>1. Resetting' = Resetting \ {p}
      BY <1>7, <1>0, <2>2 DEF rateError, allowed, goTo, Resetting, RateTypeOK
    <3>2. Others' = Others + 1 /\ Others >= 1 /\ 2 * used <= 2 * rcount + Budget(Others - 1)
      BY <1>0, <2>2, <3>1, OthersSteps DEF UsedInv
    <3>3. /\ Budget(Others - 1) <= Budget(Others' - 1)
          /\ Budget(Others - 1) \in Int /\ Budget(Others' - 1) \in Int
      <4>1. Others - 1 \in Nat /\ Others' - 1 \in Nat /\ Others - 1 <= Others' - 1
        BY <1>t, <3>2
      <4> QED BY <4>1, BudgetMonotone, BudgetGrows
    <3> QED BY <1>t, <2>0, <3>2, <3>3, SMTT(40) DEF UsedInv
  <2> QED BY <1>1, <1>t, <2>0, <2>1, <2>2
<1>8. CASE UNCHANGED rateVars
  <2>1. Resetting' = Resetting
    BY <1>8 DEF rateVars, Resetting
  <2> QED BY <1>1, <1>8, <2>1 DEF rateVars
<1> QED
  BY <1>2, <1>3, <1>4, <1>5, <1>6, <1>7, <1>8 DEF RateNext, rateSteps

\* The empty key satisfies the invariant: some publisher exists, or nothing happens.
LEMMA RateInitial == RateInit /\ Publishers # {} => RateInv
<1> SUFFICES ASSUME RateInit, Publishers # {} PROVE RateInv
  OBVIOUS
<1>1. RateTypeOK
  BY DEF RateInit, RateTypeOK, NoTTL
<1>2. Uncounted = {}
  BY DEF RateInit, Uncounted
<1>3. Cardinality(Uncounted) = 0
  BY <1>2, FS_EmptySet
<1>4. Cardinality(Publishers) \in Nat /\ Cardinality(Publishers) # 0
  BY RateLimitAssumption, FS_EmptySet, FS_CardinalityType
<1> QED
  BY <1>1, <1>3, <1>4, RateLimitAssumption DEF RateInv, RateInit

\* The invariant holds throughout.
THEOREM RateInvariant == ASSUME Publishers # {} PROVE RateSpec => []RateInv
<1>1. RateInit => RateInv
  BY RateInitial
<1> QED
  BY <1>1, RateBoundStep, PTL DEF RateSpec

\* The key of isRateLimited() and incrementLimitCount() keeps its type, and a key
\* without a value has no time to live.
THEOREM RateTypeCorrect == RateSpec => []RateTypeOK
<1>1. RateInit => RateTypeOK
  BY DEF RateInit, RateTypeOK, NoTTL
<1> QED
  BY <1>1, RateTypeStep, PTL DEF RateSpec

\* Although isRateLimited() and incrementLimitCount() are separate commands, n
\* concurrent publishers pass a limit by at most n - 1, whatever the limit.
THEOREM OvershootBounded == ASSUME Publishers # {} PROVE RateSpec => []CountBounded
<1>1. RateInv => CountBounded
  BY UncountedFinite, RateLimitAssumption DEF RateInv, RateTypeOK, CountBounded
<1> QED
  BY <1>1, RateInvariant, PTL

\* Although a late SETEX of incrementLimitCount() forgets what others counted, n
\* publishers get at most n * max + n * (n - 1) / 2 publishes through in one life of
\* the key, whatever the limit.
THEOREM LeakBounded == ASSUME Publishers # {} PROVE RateSpec => []UsedBounded
<1>1. CASE LimitMax > 0
  <2>1. RateInit => UsedInv
    BY DEF RateInit, UsedInv
  <2>2. RateInv /\ UsedInv /\ [RateNext]_rateVars => UsedInv'
    BY <1>1, UsedStep
  <2>3. RateInv /\ UsedInv => UsedBounded
    <3> SUFFICES ASSUME RateInv, UsedInv PROVE 2 * used <= Budget(Cardinality(Publishers))
      BY DEF UsedBounded, Budget
    <3>t. /\ rcount \in Nat /\ used \in Nat /\ LimitMax \in Nat /\ Others \in Nat
          /\ Cardinality(Publishers) \in Nat /\ Others <= Cardinality(Publishers)
      BY RateLimitAssumption, ResettingFinite, UncountedFinite DEF RateInv, RateTypeOK
    <3>0. /\ Budget(Cardinality(Publishers)) \in Nat /\ Budget(Others) \in Nat
          /\ Budget(Others) <= Budget(Cardinality(Publishers))
      BY <1>1, <3>t, BudgetMonotone, BudgetType
    <3>1. CASE rcount = 0
      BY <3>0, <3>1 DEF UsedInv
    <3>2. CASE rcount > 0
      <4>1. Others >= 1 /\ 2 * used <= 2 * rcount + Budget(Others - 1)
        BY <3>2 DEF UsedInv
      <4>2. rcount <= LimitMax + Others - 1
        BY <1>1, <3>t, ResettingFinite, UncountedFinite DEF RateInv, Others
      <4>3. Others - 1 \in Nat /\ (Others - 1) + 1 = Others
        BY <3>t, <4>1
      <4>4. Budget(Others) = Budget(Others - 1) + 2 * (LimitMax + (Others - 1)) /\ Budget(Others - 1) \in Int
        BY <4>3, BudgetGrows
      <4> QED BY <3>t, <3>0, <4>1, <4>2, <4>4
    <3> QED BY <3>t, <3>1, <3>2
  <2> QED BY <2>1, <2>2, <2>3, RateInvariant, PTL DEF RateSpec
<1>2. CASE ~(LimitMax > 0)
  <2>1. UsedBounded
    BY <1>2 DEF UsedBounded
  <2> QED BY <2>1, PTL
<1> QED BY <1>1, <1>2
================================================================================
