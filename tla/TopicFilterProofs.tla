-------------------------- MODULE TopicFilterProofs --------------------------
(***************************************************************************)
(* The validation of names, and the loops of isFilterMatched() and         *)
(* getRateLimitForTopic(), for names and limits of any length.             *)
(***************************************************************************)
EXTENDS TopicFilter, FiniteSetTheorems, TLAPS

(***************************************************************************)
(* splitLevels().  Below counts the cuts before a position; the cuts are   *)
(* numbered by it, without gaps.                                           *)
(***************************************************************************)
Below(s, i) == Cardinality({d \in Cuts(s) : d < i})

\* The cuts of a name are positions around its characters, and the first is 0.
LEMMA CutsFinite ==
  ASSUME NEW s \in Seq(Chars)
  PROVE  /\ IsFiniteSet(Cuts(s)) /\ Cuts(s) \subseteq 0 .. Len(s) + 1
         /\ Cardinality(Cuts(s)) \in Nat \ {0}
<1>1. Cuts(s) \subseteq 0 .. Len(s) + 1 /\ 0 \in Cuts(s)
  BY DEF Cuts
<1>2. IsFiniteSet(0 .. Len(s) + 1)
  BY FS_Interval
<1>3. IsFiniteSet(Cuts(s))
  BY <1>1, <1>2, FS_Subset
<1> QED
  BY <1>1, <1>3, FS_CardinalityType, FS_EmptySet

\* The number of cuts before a position grows with the position, and at every cut.
LEMMA BelowGrows ==
  ASSUME NEW s \in Seq(Chars), NEW i \in Nat, NEW j \in Nat
  PROVE  /\ Below(s, i) \in Nat
         /\ Below(s, i) <= Cardinality(Cuts(s))
         /\ i <= j => Below(s, i) <= Below(s, j)
         /\ i \in Cuts(s) /\ i < j => Below(s, i) < Below(s, j)
         /\ i \in Cuts(s) => Below(s, i) < Cardinality(Cuts(s))
<1> DEFINE B(k) == {d \in Cuts(s) : d < k}
<1>1. IsFiniteSet(Cuts(s)) /\ Cuts(s) \subseteq Nat
  BY CutsFinite
<1>2. /\ IsFiniteSet(B(i)) /\ Cardinality(B(i)) <= Cardinality(Cuts(s))
      /\ IsFiniteSet(B(j))
  BY <1>1, FS_Subset
<1>3. Cardinality(B(i)) \in Nat /\ Cardinality(B(j)) \in Nat /\ Cardinality(Cuts(s)) \in Nat
  BY <1>1, <1>2, FS_CardinalityType
<1>4. i <= j => Cardinality(B(i)) <= Cardinality(B(j))
  <2> SUFFICES ASSUME i <= j PROVE Cardinality(B(i)) <= Cardinality(B(j))
    OBVIOUS
  <2>1. B(i) \subseteq B(j)
    BY <1>1
  <2> QED BY <1>2, <2>1, FS_Subset
<1>5. ASSUME i \in Cuts(s), i < j PROVE Cardinality(B(i)) < Cardinality(B(j))
  <2>1. B(i) \subseteq B(j) /\ i \in B(j) /\ i \notin B(i)
    BY <1>1, <1>5
  <2> QED BY <1>2, <1>3, <2>1, FS_Subset, SMTT(40)
<1>6. ASSUME i \in Cuts(s) PROVE Cardinality(B(i)) < Cardinality(Cuts(s))
  <2>1. B(i) \subseteq Cuts(s) /\ i \notin B(i)
    BY <1>1, <1>6
  <2> QED BY <1>1, <1>3, <1>6, <2>1, FS_Subset
<1> QED
  BY <1>2, <1>3, <1>4, <1>5, <1>6 DEF Below

\* Cut(s, k) is the cut with k others before it.
LEMMA CutIsRanked ==
  ASSUME NEW s \in Seq(Chars), NEW k \in 0 .. Cardinality(Cuts(s)) - 1
  PROVE  Cut(s, k) \in Cuts(s) /\ Cut(s, k) \in Nat /\ Below(s, Cut(s, k)) = k
<1> DEFINE n == Cardinality(Cuts(s))
           rank == [c \in Cuts(s) |-> Below(s, c)]
<1>1. n \in Nat \ {0} /\ Cuts(s) \subseteq Nat
  BY CutsFinite
<1>2. \A c \in Cuts(s) : Below(s, c) \in 0 .. n - 1
  BY <1>1, BelowGrows
<1>3. \A c, d \in Cuts(s) : Below(s, c) = Below(s, d) => c = d
  <2> SUFFICES ASSUME NEW c \in Cuts(s), NEW d \in Cuts(s), Below(s, c) = Below(s, d), c # d
               PROVE  FALSE
    OBVIOUS
  <2>1. c \in Nat /\ d \in Nat
    BY <1>1
  <2>2. c < d => Below(s, c) < Below(s, d)
    BY <2>1, BelowGrows
  <2>3. d < c => Below(s, d) < Below(s, c)
    BY <2>1, BelowGrows
  <2>4. Below(s, c) \in Nat /\ Below(s, d) \in Nat
    BY <2>1, BelowGrows
  <2> QED BY <2>1, <2>2, <2>3, <2>4
<1>4. rank \in Injection(Cuts(s), 0 .. n - 1)
  BY <1>2, <1>3 DEF Injection, IsInjective
<1>5. IsFiniteSet(0 .. n - 1) /\ Cardinality(0 .. n - 1) = n
  BY <1>1, FS_Interval
<1>6. rank \in Surjection(Cuts(s), 0 .. n - 1)
  BY <1>4, <1>5, FS_Injection
<1>7. \E c \in Cuts(s) : Below(s, c) = k
  BY <1>6, Zenon DEF Surjection
<1> QED
  BY <1>1, <1>7, Zenon DEF Cut, Below

\* Cuts with successive numbers have no cut between them; the first is before the
\* name and the last after it.
LEMMA CutsInOrder ==
  ASSUME NEW s \in Seq(Chars), NEW n \in Nat, n = Cardinality(Cuts(s)) - 1
  PROVE  /\ n >= 1 /\ Cut(s, 0) = 0 /\ Cut(s, n) = Len(s) + 1
         /\ \A k \in 1 .. n :
              /\ Cut(s, k - 1) \in Cuts(s) /\ Cut(s, k) \in Cuts(s)
              /\ Cut(s, k - 1) \in Nat /\ Cut(s, k) \in Nat /\ Cut(s, k) <= Len(s) + 1
              /\ Cut(s, k - 1) < Cut(s, k)
              /\ \A c \in Cuts(s) : ~(Cut(s, k - 1) < c /\ c < Cut(s, k))
<1>1. /\ 0 \in Cuts(s) /\ Len(s) + 1 \in Cuts(s) /\ Cuts(s) \subseteq Nat
      /\ \A c \in Cuts(s) : c <= Len(s) + 1
  BY DEF Cuts
<1>2. Cardinality(Cuts(s)) = n + 1
  BY CutsFinite
<1>3. Below(s, 0) \in Nat /\ Below(s, Len(s) + 1) \in Nat
  BY BelowGrows
<1>4. n >= 1
  <2>1. Below(s, 0) < Below(s, Len(s) + 1)
    BY <1>1, BelowGrows
  <2>2. Below(s, Len(s) + 1) < Cardinality(Cuts(s))
    BY <1>1, BelowGrows
  <2> QED BY <1>2, <1>3, <2>1, <2>2
<1>5. \A k \in 0 .. n : Cut(s, k) \in Cuts(s) /\ Cut(s, k) \in Nat /\ Below(s, Cut(s, k)) = k
  BY <1>2, CutIsRanked, Zenon
<1>6. Cut(s, 0) = 0
  <2>1. Cut(s, 0) \in Nat /\ Below(s, Cut(s, 0)) = 0
    BY <1>5
  <2>2. Cut(s, 0) > 0 => Below(s, 0) < Below(s, Cut(s, 0))
    BY <1>1, <2>1, BelowGrows
  <2> QED BY <1>3, <2>1, <2>2
<1>7. Cut(s, n) = Len(s) + 1
  <2>1. Cut(s, n) \in Cuts(s) /\ Cut(s, n) \in Nat /\ Below(s, Cut(s, n)) = n
    BY <1>5
  <2>2. Cut(s, n) < Len(s) + 1 => n < Below(s, Len(s) + 1)
    BY <1>1, <2>1, BelowGrows, SMTT(40)
  <2>3. Below(s, Len(s) + 1) < n + 1
    BY <1>1, <1>2, BelowGrows, Zenon
  <2> QED BY <1>1, <1>3, <2>1, <2>2, <2>3
<1>8. ASSUME NEW k \in 1 .. n
      PROVE  /\ Cut(s, k - 1) < Cut(s, k)
             /\ \A c \in Cuts(s) : ~(Cut(s, k - 1) < c /\ c < Cut(s, k))
  <2>1. /\ Cut(s, k - 1) \in Cuts(s) /\ Cut(s, k - 1) \in Nat /\ Below(s, Cut(s, k - 1)) = k - 1
        /\ Cut(s, k) \in Cuts(s) /\ Cut(s, k) \in Nat /\ Below(s, Cut(s, k)) = k
    BY <1>5
  <2>2. Cut(s, k) <= Cut(s, k - 1) => k <= k - 1
    BY <2>1, BelowGrows
  <2>3. ASSUME NEW c \in Cuts(s), Cut(s, k - 1) < c, c < Cut(s, k) PROVE FALSE
    <3>1. c \in Nat /\ Below(s, c) \in Nat
      BY <1>1, BelowGrows
    <3>2. k - 1 < Below(s, c)
      BY <2>1, <2>3, <3>1, BelowGrows
    <3>3. Below(s, c) < k
      BY <2>1, <2>3, <3>1, BelowGrows
    <3> QED BY <3>1, <3>2, <3>3
  <2> QED BY <2>1, <2>2, <2>3
<1> QED
  BY <1>1, <1>4, <1>5, <1>6, <1>7, <1>8

\* A level is what is between two successive cuts.
LEMMA SplitLevels ==
  ASSUME NEW s \in Seq(Chars), NEW n \in Nat, n = Cardinality(Cuts(s)) - 1
  PROVE  /\ Len(splitLevels(s)) = n
         /\ \A k \in 1 .. n :
              /\ splitLevels(s)[k] \in Seq(Chars)
              /\ Len(splitLevels(s)[k]) = Cut(s, k) - Cut(s, k - 1) - 1
              /\ \A j \in 1 .. Cut(s, k) - Cut(s, k - 1) - 1 :
                   splitLevels(s)[k][j] = s[Cut(s, k - 1) + j]
<1>1. splitLevels(s) = [k \in 1 .. n |-> SubSeq(s, Cut(s, k - 1) + 1, Cut(s, k) - 1)]
  BY DEF splitLevels
<1>2. Len(splitLevels(s)) = n
  BY <1>1
<1>3. ASSUME NEW k \in 1 .. n
      PROVE  /\ splitLevels(s)[k] \in Seq(Chars)
             /\ Len(splitLevels(s)[k]) = Cut(s, k) - Cut(s, k - 1) - 1
             /\ \A j \in 1 .. Cut(s, k) - Cut(s, k - 1) - 1 :
                  splitLevels(s)[k][j] = s[Cut(s, k - 1) + j]
  <2> DEFINE c == Cut(s, k - 1)
             d == Cut(s, k)
  <2>1. c \in Nat /\ d \in Nat /\ c < d /\ d <= Len(s) + 1
    BY CutsInOrder
  <2>2. splitLevels(s)[k] = SubSeq(s, c + 1, d - 1)
    BY <1>1, Zenon
  <2> HIDE DEF c, d
  <2>3. /\ SubSeq(s, c + 1, d - 1) \in Seq(Chars)
        /\ Len(SubSeq(s, c + 1, d - 1)) = d - c - 1
        /\ \A j \in 1 .. d - c - 1 : SubSeq(s, c + 1, d - 1)[j] = s[c + j]
    BY <2>1
  <2> QED BY <2>2, <2>3, SMTT(40) DEF c, d
<1> QED
  BY <1>2, <1>3

\* The k-th level f[k] of the name s.
Level(s, f, k) ==
  /\ Cut(s, k - 1) \in Nat /\ Cut(s, k) \in Nat /\ Cut(s, k - 1) < Cut(s, k)
  /\ Cut(s, k - 1) \in Cuts(s) /\ Cut(s, k) \in Cuts(s) /\ Cut(s, k) <= Len(s) + 1
  /\ \A c \in Cuts(s) : ~(Cut(s, k - 1) < c /\ c < Cut(s, k))
  /\ f[k] \in Seq(Chars) /\ Len(f[k]) = Cut(s, k) - Cut(s, k - 1) - 1
  /\ \A j \in 1 .. Cut(s, k) - Cut(s, k - 1) - 1 : f[k][j] = s[Cut(s, k - 1) + j]

\* The levels splitLevels() returns are those between successive cuts.
LEMMA Levels ==
  ASSUME NEW s \in Seq(Chars), NEW n \in Nat, n = Cardinality(Cuts(s)) - 1, NEW k \in 1 .. n
  PROVE  Level(s, splitLevels(s), k)
<1>1. /\ Cut(s, k - 1) \in Nat /\ Cut(s, k) \in Nat /\ Cut(s, k - 1) < Cut(s, k)
      /\ Cut(s, k - 1) \in Cuts(s) /\ Cut(s, k) \in Cuts(s) /\ Cut(s, k) <= Len(s) + 1
      /\ \A c \in Cuts(s) : ~(Cut(s, k - 1) < c /\ c < Cut(s, k))
  BY CutsInOrder
<1>2. /\ splitLevels(s)[k] \in Seq(Chars)
      /\ Len(splitLevels(s)[k]) = Cut(s, k) - Cut(s, k - 1) - 1
      /\ \A j \in 1 .. Cut(s, k) - Cut(s, k - 1) - 1 :
           splitLevels(s)[k][j] = s[Cut(s, k - 1) + j]
  BY SplitLevels
<1> QED BY <1>1, <1>2, Zenon DEF Level

\* splitLevels() returns at least one level.
LEMMA SplitLevelsLength ==
  ASSUME NEW s \in Seq(Chars)
  PROVE  Len(splitLevels(s)) \in Nat
<1> DEFINE n == Cardinality(Cuts(s)) - 1
<1>1. n \in Nat
  BY CutsFinite
<1> HIDE DEF n
<1> QED
  BY <1>1, SplitLevels DEF n

\* Every character that is not a slash is in a level.
LEMMA InSomeLevel ==
  ASSUME NEW s \in Seq(Chars), NEW n \in Nat, n = Cardinality(Cuts(s)) - 1,
         NEW i \in 1 .. Len(s), s[i] # "/"
  PROVE  \E k \in 1 .. n : Cut(s, k - 1) < i /\ i < Cut(s, k)
<1> DEFINE k == Below(s, i)
<1>1. 0 \in Cuts(s) /\ Len(s) + 1 \in Cuts(s) /\ Cuts(s) \subseteq Nat /\ i \notin Cuts(s)
  BY DEF Cuts
<1>2. k \in Nat /\ Below(s, 0) \in Nat /\ Below(s, Len(s) + 1) \in Nat
  BY BelowGrows, SMTT(40)
<1>3. Below(s, 0) < k
  BY <1>1, BelowGrows
<1>4. k <= Below(s, Len(s) + 1)
  BY <1>1, BelowGrows
<1>5. Below(s, Len(s) + 1) < n + 1
  BY <1>1, BelowGrows, CutsFinite
<1>6. k \in 1 .. n
  BY <1>2, <1>3, <1>4, <1>5
<1> HIDE DEF k
<1>7. /\ Cut(s, k) \in Cuts(s) /\ Cut(s, k) \in Nat /\ Below(s, Cut(s, k)) = k
      /\ Cut(s, k - 1) \in Cuts(s) /\ Cut(s, k - 1) \in Nat /\ Below(s, Cut(s, k - 1)) = k - 1
  BY <1>6, CutIsRanked
<1>8. Cut(s, k) < i => k < k
  BY <1>7, BelowGrows DEF k
<1>9. i <= Cut(s, k - 1) => k <= k - 1
  BY <1>7, BelowGrows DEF k
<1> QED
  BY <1>1, <1>6, <1>7, <1>8, <1>9

\* What the validation of names promises: the loop gets well-formed filters only.
LEMMA ValidIsWellFormed ==
  ASSUME NEW s \in Seq(Chars), isValidTopicOrFilter(s)
  PROVE  WellFormed(splitLevels(s)) /\ (s[Len(s)] # "/" \/ Has(s, "+"))
<1> DEFINE f == splitLevels(s)
           n == Cardinality(Cuts(s)) - 1
<1>1. n \in Nat
  BY CutsFinite
<1>2. /\ s # <<>> /\ s[1] # "/"
      /\ \A i \in 1 .. Len(s) :
           /\ s[i] \in Alnum \cup {"+", "#", "/"}
           /\ s[i] = "+" => plusOk(s, i)
           /\ s[i] = "#" => hashOk(s, i)
  BY Zenon DEF isValidTopicOrFilter, isValidTopic, isValidTopicFilter, Alnum
<1>3. s[Len(s)] # "/" \/ Has(s, "+")
  <2>1. CASE isValidTopic(s)
    BY <2>1 DEF isValidTopic
  <2>2. CASE isValidTopicFilter(s)
    <3>1. Has(s, "#") => s[Len(s)] = "#"
      BY <1>2 DEF Has, hashOk
    <3> QED BY <2>2, <3>1 DEF isValidTopicFilter
  <2> QED BY <2>1, <2>2 DEF isValidTopicOrFilter
<1> HIDE DEF n
<1>4. /\ n >= 1 /\ Cut(s, 0) = 0 /\ Cut(s, n) = Len(s) + 1 /\ Len(f) = n
  BY <1>1, CutsInOrder, SplitLevels DEF n
<1>5. ASSUME NEW k \in 1 .. n PROVE Level(s, f, k)
  BY <1>1, Levels DEF n
<1> HIDE DEF f
<1>6. f[1] # <<>>
  <2>1. Cut(s, 1) \in Nat /\ Cut(s, 1) > 0 /\ Cut(s, 1) \in Cuts(s) /\ Len(f[1]) = Cut(s, 1) - 1
    BY <1>4, <1>5 DEF Level
  <2>2. Cut(s, 1) # 1
    BY <1>2, <2>1 DEF Cuts
  <2> QED BY <2>1, <2>2
<1>7. ASSUME NEW k \in 1 .. n, NEW j \in 1 .. Len(f[k])
      PROVE  /\ f[k][j] \in Alnum \cup {"+", "#"}
             /\ f[k][j] = "+" => f[k] = Plus
             /\ f[k][j] = "#" => f[k] = Hash /\ k = n
  <2> DEFINE c == Cut(s, k - 1)
             d == Cut(s, k)
             i == c + j
  <2>1. /\ c \in Nat /\ d \in Nat /\ c < d /\ d <= Len(s) + 1 /\ d \in Cuts(s)
        /\ Len(f[k]) = d - c - 1
    BY <1>5 DEF Level
  <2>2. \A e \in Cuts(s) : ~(c < e /\ e < d)
    BY <1>5 DEF Level
  <2>3. f[k][j] = s[i]
    BY <1>5, <2>1 DEF Level
  <2>4. f[k] \in Seq(Chars)
    BY <1>5 DEF Level
  <2> HIDE DEF c, d
  <2>5. i \in 1 .. Len(s) /\ c < i /\ i < d
    BY <2>1
  <2>6. s[i] # "/"
    BY <2>2, <2>5 DEF Cuts
  <2>7. PrevOk(s, i) => c = i - 1
    <3> SUFFICES ASSUME PrevOk(s, i), c # i - 1 PROVE FALSE
      OBVIOUS
    <3>1. i # 1 /\ i - 1 \in 1 .. Len(s) /\ c < i - 1 /\ i - 1 < d
      BY <2>1, <2>5
    <3> QED BY <2>2, <3>1 DEF PrevOk, Cuts
  <2>8. NextOk(s, i) => d = i + 1
    <3> SUFFICES ASSUME NextOk(s, i), d # i + 1 PROVE FALSE
      OBVIOUS
    <3>1. i # Len(s) /\ i + 1 \in 1 .. Len(s) /\ c < i + 1 /\ i + 1 < d
      BY <2>1, <2>5
    <3> QED BY <2>2, <3>1 DEF NextOk, Cuts
  <2>9. ASSUME c = i - 1, d = i + 1 PROVE f[k] = <<s[i]>>
    <3>1. Len(f[k]) = 1 /\ f[k][1] = s[i]
      BY <2>1, <2>3, <2>9
    <3> QED BY <2>4, <3>1
  <2>10. s[i] = "+" => f[k] = Plus
    BY <1>2, <2>5, <2>7, <2>8, <2>9 DEF plusOk, Plus
  <2>11. ASSUME s[i] = "#" PROVE f[k] = Hash /\ k = n
    <3>1. c = i - 1 /\ i = Len(s)
      BY <1>2, <2>5, <2>7, <2>11 DEF hashOk
    <3>2. d = i + 1
      BY <2>1, <2>5, <3>1
    <3>3. k # n => Cut(s, k) < Len(s) + 1
      <4> SUFFICES ASSUME k # n PROVE Cut(s, k) < Len(s) + 1
        OBVIOUS
      <4>1. k + 1 \in 1 .. n /\ (k + 1) - 1 = k
        BY <1>1
      <4>2. Cut(s, k) < Cut(s, k + 1) /\ Cut(s, k + 1) <= Len(s) + 1
            /\ Cut(s, k) \in Nat /\ Cut(s, k + 1) \in Nat
        BY <1>5, <4>1 DEF Level
      <4> QED BY <4>2
    <3> QED BY <2>9, <2>11, <3>1, <3>2, <3>3 DEF Hash, d
  <2> QED BY <1>2, <2>3, <2>5, <2>6, <2>10, <2>11, Zenon DEF Alnum
<1>8. \A k \in 1 .. n :
        /\ Has(f[k], "+") => f[k] = Plus
        /\ Has(f[k], "#") => f[k] = Hash /\ k = n
        /\ \A j \in 1 .. Len(f[k]) : f[k][j] \in Alnum \cup {"+", "#"}
  BY <1>7 DEF Has
<1> QED BY <1>3, <1>4, <1>6, <1>8 DEF WellFormed, f

\* The other way: a name whose levels are well-formed is accepted.
LEMMA WellFormedIsValid ==
  ASSUME NEW s \in Seq(Chars), WellFormed(splitLevels(s)), s[Len(s)] # "/" \/ Has(s, "+")
  PROVE  isValidTopicOrFilter(s)
<1> DEFINE f == splitLevels(s)
           n == Cardinality(Cuts(s)) - 1
<1>1. n \in Nat
  BY CutsFinite
<1> HIDE DEF n
<1>2. /\ n >= 1 /\ Cut(s, 0) = 0 /\ Cut(s, n) = Len(s) + 1 /\ Len(f) = n
  BY <1>1, CutsInOrder, SplitLevels DEF n
<1>3. ASSUME NEW k \in 1 .. n PROVE Level(s, f, k)
  BY <1>1, Levels DEF n
<1>4. /\ f[1] # <<>>
      /\ \A k \in 1 .. n :
           /\ Has(f[k], "+") => f[k] = Plus
           /\ Has(f[k], "#") => f[k] = Hash /\ k = n
           /\ \A j \in 1 .. Len(f[k]) : f[k][j] \in Alnum \cup {"+", "#"}
  BY <1>2 DEF WellFormed
<1> HIDE DEF f
<1>5. s # <<>> /\ s[1] # "/"
  <2>1. /\ Cut(s, 1) \in Nat /\ Len(f[1]) = Cut(s, 1) - 1 /\ f[1] \in Seq(Chars)
        /\ \A c \in Cuts(s) : ~(0 < c /\ c < Cut(s, 1))
    BY <1>2, <1>3 DEF Level
  <2>2. Cut(s, 1) > 1
    BY <1>4, <2>1
  <2>3. 1 \notin Cuts(s)
    BY <2>1, <2>2
  <2> QED BY <2>3 DEF Cuts
<1>6. ASSUME NEW i \in 1 .. Len(s), s[i] # "/"
      PROVE  /\ s[i] \in Alnum \cup {"+", "#"}
             /\ s[i] = "+" => plusOk(s, i)
             /\ s[i] = "#" => hashOk(s, i)
  <2>1. PICK k \in 1 .. n : Cut(s, k - 1) < i /\ i < Cut(s, k)
    BY <1>1, <1>6, InSomeLevel DEF n
  <2> DEFINE c == Cut(s, k - 1)
             d == Cut(s, k)
             j == i - c
  <2>2. /\ c \in Nat /\ d \in Nat /\ c \in Cuts(s) /\ d \in Cuts(s) /\ Len(f[k]) = d - c - 1
    BY <1>3 DEF Level
  <2>3. j \in 1 .. Len(f[k]) /\ j \in 1 .. d - c - 1 /\ c + j = i
    BY <2>1, <2>2
  <2>4. f[k][j] = s[i]
    BY <1>3, <2>3, SMTT(40) DEF Level
  <2>5. s[i] \in Alnum \cup {"+", "#"}
    BY <1>4, <2>3, <2>4
  <2>6. s[i] = "+" => Len(f[k]) = 1
    <3>1. s[i] = "+" => Has(f[k], "+")
      BY <2>3, <2>4, Zenon DEF Has
    <3>2. Has(f[k], "+") => f[k] = Plus
      BY <1>4
    <3>3. Len(Plus) = 1
      BY DEF Plus
    <3> QED BY <3>1, <3>2, <3>3, Zenon
  <2>7. s[i] = "#" => Len(f[k]) = 1 /\ d = Len(s) + 1
    <3>1. s[i] = "#" => Has(f[k], "#")
      BY <2>3, <2>4, Zenon DEF Has
    <3>2. Has(f[k], "#") => f[k] = Hash /\ k = n
      BY <1>4
    <3>3. Len(Hash) = 1
      BY DEF Hash
    <3> QED BY <1>2, <3>1, <3>2, <3>3, Zenon
  <2>8. Len(f[k]) = 1 => c = i - 1 /\ d = i + 1
    <3>1. c < i /\ i < d /\ c \in Nat /\ d \in Nat /\ i \in Nat
      BY <2>1, <2>2
    <3>2. Len(f[k]) = d - c - 1
      BY <2>2
    <3> HIDE DEF c, d
    <3>3. d - c - 1 = 1 => c = i - 1 /\ d = i + 1
      BY <3>1
    <3> QED BY <3>2, <3>3, Zenon
  <2> HIDE DEF c, d, j
  <2>9. c = i - 1 => PrevOk(s, i)
    BY <2>2 DEF Cuts, PrevOk
  <2>10. d = i + 1 => NextOk(s, i)
    BY <2>2 DEF Cuts, NextOk
  <2> QED BY <2>2, <2>5, <2>6, <2>7, <2>8, <2>9, <2>10 DEF plusOk, hashOk
<1>7. CASE Has(s, "+") \/ Has(s, "#")
  <2>1. isValidTopicFilter(s)
    BY <1>5, <1>6, <1>7 DEF isValidTopicFilter
  <2> QED BY <2>1 DEF isValidTopicOrFilter
<1>8. CASE ~Has(s, "+") /\ ~Has(s, "#")
  <2>1. isValidTopic(s)
    BY <1>5, <1>6, <1>8 DEF isValidTopic, Has
  <2> QED BY <2>1 DEF isValidTopicOrFilter
<1> QED BY <1>7, <1>8

\* Until it is validated the name has its levels, and then its verdict is right.
ValidInv ==
  /\ name \in Seq(Chars)
  /\ filterLevels = splitLevels(name)
  /\ outcome \in {"new", "refused", "matching", "matched", "unmatched"}
  /\ AcceptedIsWellFormed

\* Names are accepted just if they are well-formed: every name, of any length.
THEOREM AcceptedAreWellFormed == FilterSpec => []AcceptedIsWellFormed
<1>1. FilterInit => ValidInv
  BY InputsAssumption DEF FilterInit, ValidInv, AcceptedIsWellFormed
<1>2. ValidInv /\ [FilterNext]_filterVars => ValidInv'
  <2> SUFFICES ASSUME ValidInv, [FilterNext]_filterVars PROVE ValidInv'
    OBVIOUS
  <2>1. CASE validate
    <3>1. /\ UNCHANGED <<name, filterLevels>>
          /\ outcome' = IF isValidTopicOrFilter(name) THEN "matching" ELSE "refused"
      BY <2>1 DEF validate
    <3>2. isValidTopicOrFilter(name) <=>
            WellFormed(filterLevels) /\ (name[Len(name)] # "/" \/ Has(name, "+"))
      BY ValidIsWellFormed, WellFormedIsValid DEF ValidInv
    <3> QED BY <3>1, <3>2 DEF ValidInv, AcceptedIsWellFormed
  <2>2. CASE ~validate
    <3>1. /\ UNCHANGED <<name, filterLevels>>
          /\ \/ outcome' = outcome
             \/ outcome = "matching" /\ outcome' \in {"matched", "unmatched"}
      BY <2>2 DEF FilterNext, matchLevel, matchEnd, end, advance, tryLimit, endSearch,
                  filterVars, matchVars
    <3> QED BY <3>1 DEF ValidInv, AcceptedIsWellFormed
  <2> QED BY <2>1, <2>2
<1>3. ValidInv => AcceptedIsWellFormed
  BY DEF ValidInv
<1> QED
  BY <1>1, <1>2, <1>3, PTL DEF FilterSpec

------------------------------------------------------------------------------
\* isFilterMatched(): both counters are the same, all levels before them are
\* covered, and an answer, once given, is right.
MatchInv ==
  /\ Len(filterLevels) \in Nat /\ Len(topicLevels) \in Nat
  /\ outcome \in {"new", "refused", "matching", "matched", "unmatched"}
  /\ filterIndex \in 1 .. Len(filterLevels) + 1
  /\ topicIndex = filterIndex
  /\ outcome \in {"new", "matching"} => Covers(filterLevels, topicLevels, filterIndex - 1)
  /\ MatchAgrees

\* The loop of isFilterMatched() begins with no level compared.
LEMMA MatchInit == FilterInit => MatchInv
<1> SUFFICES ASSUME FilterInit PROVE MatchInv
  OBVIOUS
<1>1. name \in Seq(Chars) /\ topic \in Seq(Chars)
  BY InputsAssumption DEF FilterInit
<1>2. Len(filterLevels) \in Nat /\ Len(topicLevels) \in Nat
  BY <1>1, SplitLevelsLength DEF FilterInit
<1> QED
  BY <1>2 DEF FilterInit, MatchInv, MatchAgrees, Covers

\* A turn of the loop of isFilterMatched() covers one level more.
LEMMA MatchStep == MatchInv /\ [FilterNext]_filterVars => MatchInv'
<1> SUFFICES ASSUME MatchInv, [FilterNext]_filterVars PROVE MatchInv'
  OBVIOUS
<1> DEFINE f == filterLevels
           t == topicLevels
           k == filterIndex
<1>1. CASE validate
  BY <1>1 DEF validate, MatchInv, MatchAgrees
<1>2. CASE matchLevel
  <2>1. /\ outcome = "matching" /\ k \in 1 .. Len(f) /\ topicIndex = k
        /\ Covers(f, t, k - 1)
        /\ Len(f) \in Nat /\ Len(t) \in Nat
    BY <1>2 DEF matchLevel, MatchInv
  <2>2. CASE f[k] = Hash
    <3>1. end(TRUE)
      BY <1>2, <2>2, Zenon DEF matchLevel
    <3>2. Matches(f, t)
      <4>1. k - 1 \in 0 .. Len(f) - 1 /\ f[(k - 1) + 1] = Hash
        BY <2>1, <2>2
      <4> QED
        BY <2>1, <4>1 DEF Matches
    <3> QED
      BY <2>1, <3>1, <3>2 DEF end, MatchInv, MatchAgrees
  <2>3. CASE f[k] # Hash /\ k > Len(t)
    <3>1. end(FALSE)
      BY <1>2, <2>1, <2>3, Zenon DEF matchLevel
    <3>2. ASSUME Matches(f, t) PROVE FALSE
      <4>1. CASE Len(f) = Len(t)
        BY <2>1, <2>3, <4>1
      <4>2. ASSUME NEW n \in 0 .. Len(f) - 1, f[n + 1] = Hash, Covers(f, t, n) PROVE FALSE
        BY <2>1, <2>3, <4>2 DEF Covers
      <4> QED
        BY <3>2, <4>1, <4>2 DEF Matches
    <3> QED
      BY <2>1, <3>1, <3>2 DEF end, MatchInv, MatchAgrees
  <2>4. CASE f[k] # Hash /\ k <= Len(t) /\ f[k] \notin {Plus, t[k]}
    <3>1. end(FALSE)
      BY <1>2, <2>1, <2>4, Zenon DEF matchLevel
    <3>2. ASSUME Matches(f, t) PROVE FALSE
      <4>1. ASSUME Covers(f, t, Len(f)) PROVE FALSE
        BY <2>1, <2>4, <4>1 DEF Covers
      <4>2. ASSUME NEW n \in 0 .. Len(f) - 1, f[n + 1] = Hash, Covers(f, t, n) PROVE FALSE
        BY <2>1, <2>4, <4>2 DEF Covers
      <4> QED
        BY <3>2, <4>1, <4>2 DEF Matches
    <3> QED
      BY <2>1, <3>1, <3>2 DEF end, MatchInv, MatchAgrees
  <2>5. CASE f[k] # Hash /\ k <= Len(t) /\ f[k] \in {Plus, t[k]}
    <3>1. advance
      <4>1. ~(topicIndex > Len(t)) /\ topicIndex = k
        BY <2>1, <2>5
      <4>2. f[k] = Plus \/ ~(f[k] # t[topicIndex])
        BY <2>5, <4>1
      <4> QED
        BY <1>2, <2>5, <4>1, <4>2, Zenon DEF matchLevel
    <3>2. Covers(f, t, k)
      BY <2>1, <2>5 DEF Covers
    <3> QED
      BY <2>1, <3>1, <3>2 DEF advance, MatchInv, MatchAgrees
  <2> QED
    BY <2>1, <2>2, <2>3, <2>4, <2>5
<1>3. CASE matchEnd
  <2>1. /\ outcome = "matching" /\ k = Len(f) + 1 /\ topicIndex = k
        /\ Covers(f, t, Len(f))
        /\ Len(f) \in Nat /\ Len(t) \in Nat
    BY <1>3 DEF matchEnd, MatchInv
  <2>2. end(Len(f) = Len(t))
    BY <1>3, <2>1 DEF matchEnd, allLevelsUsed
  <2>3. Matches(f, t) <=> Len(f) = Len(t)
    <3>1. ASSUME NEW n \in 0 .. Len(f) - 1, f[n + 1] = Hash PROVE FALSE
      BY <2>1, <3>1 DEF Covers
    <3> QED
      BY <2>1, <3>1 DEF Matches
  <2> QED
    BY <2>1, <2>2, <2>3 DEF end, MatchInv, MatchAgrees
<1>4. CASE tryLimit \/ endSearch \/ UNCHANGED filterVars
  BY <1>4 DEF tryLimit, endSearch, filterVars, matchVars, MatchInv, MatchAgrees
<1> QED
  BY <1>1, <1>2, <1>3, <1>4 DEF FilterNext

\* The loop of isFilterMatched() computes Matches for every filter and topic.
THEOREM MatchIsRight == FilterSpec => []MatchAgrees
<1>1. MatchInv => MatchAgrees
  BY DEF MatchInv
<1> QED
  BY <1>1, MatchInit, MatchStep, PTL DEF FilterSpec

------------------------------------------------------------------------------
\* getRateLimitForTopic(): the topic's own limit is not among those passed, and of
\* those that match, the longest is kept, and of the longest the first.
Best(n) ==
  LET candidates == {i \in 1 .. n : Pattern(i)} IN
  \/ candidates = {} /\ rlimit = 0
  \/ /\ rlimit \in candidates
     /\ \A i \in candidates :
          \/ Len(limits[i]) < Len(limits[rlimit])
          \/ Len(limits[i]) = Len(limits[rlimit]) /\ rlimit <= i

LimitInv ==
  /\ limits \in Seq(Seq(Chars) \ {<<>>})
  /\ limitIndex \in 1 .. Len(limits) + 1
  /\ searching \in BOOLEAN
  /\ searching => Best(limitIndex - 1) /\ \A i \in 1 .. limitIndex - 1 : limits[i] # topic
  /\ LimitIsClosest

\* The loop of getRateLimitForTopic() begins with no limit tried.
LEMMA LimitInit == FilterInit => LimitInv
<1> SUFFICES ASSUME FilterInit PROVE LimitInv
  OBVIOUS
<1>1. limits \in Seq(Seq(Chars) \ {<<>>})
  BY InputsAssumption DEF FilterInit
<1>2. Best(0)
  BY DEF FilterInit, Best
<1> QED
  BY <1>1, <1>2 DEF FilterInit, LimitInv, LimitIsClosest

\* A turn of the loop of getRateLimitForTopic() keeps the best of the limits tried.
LEMMA LimitStep == LimitInv /\ [FilterNext]_filterVars => LimitInv'
<1> SUFFICES ASSUME LimitInv, [FilterNext]_filterVars PROVE LimitInv'
  OBVIOUS
<1> DEFINE k == limitIndex
<1>1. CASE validate \/ matchLevel \/ matchEnd \/ UNCHANGED filterVars
  <2>1. UNCHANGED <<topic, topicLevels, limits, limitIndex, rlimit, searching>>
    BY <1>1 DEF validate, matchLevel, matchEnd, end, advance, filterVars, matchVars, limitVars
  <2> QED
    BY <2>1 DEF LimitInv, LimitIsClosest, Best, Pattern
<1>2. CASE tryLimit
  <2>1. /\ k \in 1 .. Len(limits) /\ Len(limits) \in Nat
        /\ Best(k - 1) /\ \A i \in 1 .. k - 1 : limits[i] # topic
        /\ \A i \in 1 .. Len(limits) : Len(limits[i]) \in Nat \ {0}
    BY <1>2 DEF tryLimit, LimitInv
  <2>2. UNCHANGED <<topic, topicLevels, limits>>
    BY <1>2 DEF tryLimit, matchVars
  <2>3. CASE limits[k] = topic
    <3>1. rlimit' = k /\ searching' = FALSE /\ limitIndex' = k
      BY <1>2, <2>3 DEF tryLimit
    <3>2. \A i \in 1 .. Len(limits) : limits[i] = topic => k <= i
      BY <2>1
    <3>3. LimitIsClosest'
      BY <2>1, <2>2, <2>3, <3>1, <3>2 DEF LimitIsClosest, Pattern
    <3> QED
      BY <2>1, <2>2, <3>1, <3>3, Zenon DEF LimitInv
  <2>4. CASE limits[k] # topic
    <3>1. /\ rlimit' = IF Pattern(k) /\ longer(k) THEN k ELSE rlimit
          /\ limitIndex' = k + 1 /\ searching' = searching /\ searching
      BY <1>2, <2>4, Zenon DEF tryLimit
    <3>2. Best(limitIndex - 1)'
      <4>1. CASE Pattern(k) /\ longer(k)
        <5>1. rlimit' = k /\ limitIndex' - 1 = k
          BY <2>1, <3>1, <4>1
        <5>2. \A i \in 1 .. k - 1 : Pattern(i) => Len(limits[i]) < Len(limits[k])
          BY <2>1, <4>1, SMTT(40) DEF Best, longer, matchedPatternLen
        <5>3. \A i : Pattern(i)' <=> Pattern(i)
          BY <2>2 DEF Pattern
        <5> QED
          BY <2>1, <2>2, <4>1, <5>1, <5>2, <5>3 DEF Best
      <4>2. CASE ~Pattern(k)
        BY <2>1, <2>2, <3>1, <4>2 DEF Best, Pattern
      <4>3. CASE Pattern(k) /\ ~longer(k)
        BY <2>1, <2>2, <3>1, <4>3 DEF Best, Pattern, longer, matchedPatternLen
      <4> QED
        BY <4>1, <4>2, <4>3
    <3>3. \A i \in 1 .. limitIndex' - 1 : limits[i] # topic
      BY <2>1, <2>4, <3>1
    <3> QED
      BY <2>1, <2>2, <3>1, <3>2, <3>3 DEF LimitInv, LimitIsClosest
  <2> QED
    BY <2>3, <2>4
<1>3. CASE endSearch
  <2>1. /\ searching' = FALSE /\ k = Len(limits) + 1 /\ Len(limits) \in Nat
        /\ Best(Len(limits)) /\ \A i \in 1 .. Len(limits) : limits[i] # topic
    BY <1>3 DEF endSearch, LimitInv
  <2>2. UNCHANGED <<topic, topicLevels, limits, limitIndex, rlimit>>
    BY <1>3 DEF endSearch, matchVars
  <2>3. LimitIsClosest'
    BY <2>1, <2>2 DEF LimitIsClosest, Best, Pattern
  <2> QED
    BY <2>1, <2>2, <2>3, Zenon DEF LimitInv
<1> QED
  BY <1>1, <1>2, <1>3 DEF FilterNext

\* getRateLimitForTopic() finds the closest limit for every topic and every list of
\* limits.
THEOREM ClosestLimitIsFound == FilterSpec => []LimitIsClosest
<1>1. LimitInv => LimitIsClosest
  BY DEF LimitInv
<1> QED
  BY <1>1, LimitInit, LimitStep, PTL DEF FilterSpec
==============================================================================
