------------------------------ MODULE TopicFilter ------------------------------
(***************************************************************************)
(* Names of topics and topic filters: which are valid, which topics a      *)
(* filter matches (the static functions of src/TopicManager.cpp), and      *)
(* which rate limit of a token is used for a topic                         *)
(* (getRateLimitForTopic() of src/AccessController.cpp).                   *)
(*                                                                         *)
(* A name is a sequence of characters.  A step of the two loops is a turn. *)
(***************************************************************************)
EXTENDS Integers, Sequences, FiniteSets

CONSTANTS
  Chars,    \* characters
  Inputs    \* a set of [name, topic, limits]: names, and a token's limits by their topics

\* A limit without a topic matches none, and is left out.
ASSUME InputsAssumption ==
  Inputs \subseteq
    [name : Seq(Chars), topic : Seq(Chars), limits : Seq(Seq(Chars) \ {<<>>})]

VARIABLES
  name,           \* the name a client subscribes to
  topic,          \* a topic
  filterLevels,   \* the levels of both
  topicLevels,
  filterIndex,    \* isFilterMatched()'s loop counters, from 1
  topicIndex,
  outcome,        \* "new", "refused", "matching", "matched" or "unmatched"
  limits,         \* RateLimitConfig::_limitConfigs, as the topics of the limits
  limitIndex,     \* getRateLimitForTopic()'s loop counter, from 1
  rlimit,         \* the limit found so far, as its index; 0 for none
  searching       \* is the loop running?

matchVars == <<name, topic, filterLevels, topicLevels, filterIndex, topicIndex, outcome>>
limitVars == <<limits, limitIndex, rlimit, searching>>
filterVars == <<matchVars, limitVars>>

(***************************************************************************)
(* Names                                                                   *)
(***************************************************************************)
Alnum == {"a", "b", "-", "_"}     \* isalnum(), and the two others
Has(s, char) == \E i \in 1 .. Len(s) : s[i] = char

\* splitLevels(): what is between the slashes.
Cuts(s) == {0, Len(s) + 1} \cup {i \in 1 .. Len(s) : s[i] = "/"}
Cut(s, k) == CHOOSE c \in Cuts(s) : Cardinality({d \in Cuts(s) : d < c}) = k
splitLevels(s) ==
  [k \in 1 .. Cardinality(Cuts(s)) - 1 |-> SubSeq(s, Cut(s, k - 1) + 1, Cut(s, k) - 1)]

isValidTopic(s) ==
  /\ s # <<>>
  /\ s[1] # "/"
  /\ \A i \in 1 .. Len(s) : s[i] \in Alnum \cup {"/"}
  /\ s[Len(s)] # "/"

PrevOk(s, i) == i = 1 \/ s[i - 1] = "/"
NextOk(s, i) == i = Len(s) \/ s[i + 1] = "/"

\* Mutant: what follows a + is not looked at.
plusOkOneSided(s, i) == PrevOk(s, i)

plusOk(s, i) == PrevOk(s, i) /\ NextOk(s, i)
hashOk(s, i) == PrevOk(s, i) /\ i = Len(s)

isValidTopicFilter(s) ==
  /\ s # <<>>
  /\ s[1] # "/"
  /\ \A i \in 1 .. Len(s) :
       /\ s[i] \in Alnum \cup {"+", "#", "/"}
       /\ s[i] = "+" => plusOk(s, i)
       /\ s[i] = "#" => hashOk(s, i)
  /\ Has(s, "+") \/ Has(s, "#")

isValidTopicOrFilter(s) == isValidTopic(s) \/ isValidTopicFilter(s)

(***************************************************************************)
(* isFilterMatched(), for a name that was accepted                         *)
(***************************************************************************)
Plus == <<"+">>
Hash == <<"#">>

FilterInit ==
  /\ \E x \in Inputs : name = x.name /\ topic = x.topic /\ limits = x.limits
  /\ filterLevels = splitLevels(name)
  /\ topicLevels = splitLevels(topic)
  /\ filterIndex = 1 /\ topicIndex = 1
  /\ outcome = "new"
  /\ limitIndex = 1
  /\ rlimit = 0
  /\ searching = TRUE

validate ==
  /\ outcome = "new"
  /\ outcome' = IF isValidTopicOrFilter(name) THEN "matching" ELSE "refused"
  /\ UNCHANGED <<name, topic, filterLevels, topicLevels, filterIndex, topicIndex, limitVars>>

end(result) ==
  /\ outcome' = IF result THEN "matched" ELSE "unmatched"
  /\ UNCHANGED <<name, topic, filterLevels, topicLevels, filterIndex, topicIndex, limitVars>>

advance ==
  /\ filterIndex' = filterIndex + 1
  /\ topicIndex' = topicIndex + 1
  /\ UNCHANGED <<name, topic, filterLevels, topicLevels, outcome, limitVars>>

matchLevel ==
  /\ outcome = "matching"
  /\ filterIndex <= Len(filterLevels)
  /\ IF filterLevels[filterIndex] = Hash THEN end(TRUE)
     ELSE IF topicIndex > Len(topicLevels) THEN end(FALSE)
     ELSE IF filterLevels[filterIndex] = Plus THEN advance
     ELSE IF filterLevels[filterIndex] # topicLevels[topicIndex] THEN end(FALSE)
     ELSE advance

\* Mutant: a topic with more levels than the filter matches too.
allLevelsUsedAlways == TRUE

allLevelsUsed == topicIndex = Len(topicLevels) + 1

matchEnd ==
  /\ outcome = "matching"
  /\ filterIndex > Len(filterLevels)
  /\ end(allLevelsUsed)

(***************************************************************************)
(* What it computes: the first n levels of a filter cover those of a topic *)
(* one by one; a # covers all that follow, also none.                      *)
(***************************************************************************)
Covers(f, t, n) ==
  /\ n <= Len(t)
  /\ \A i \in 1 .. n : f[i] # Hash /\ f[i] \in {Plus, t[i]}
Matches(f, t) ==
  \/ Len(f) = Len(t) /\ Covers(f, t, Len(f))
  \/ \E n \in 0 .. Len(f) - 1 : f[n + 1] = Hash /\ Covers(f, t, n)

(***************************************************************************)
(* getRateLimitForTopic()                                                  *)
(***************************************************************************)
Pattern(i) == Matches(splitLevels(limits[i]), topicLevels)
matchedPatternLen == IF rlimit = 0 THEN 0 ELSE Len(limits[rlimit])

\* Mutant: a later limit wins over one that is as long.
longerOrEqual(i) == Len(limits[i]) >= matchedPatternLen

longer(i) == Len(limits[i]) > matchedPatternLen

\* An exact match ends the loop; of the patterns, the longest is kept.
tryLimit ==
  /\ searching
  /\ limitIndex <= Len(limits)
  /\ \/ /\ limits[limitIndex] = topic
        /\ rlimit' = limitIndex
        /\ searching' = FALSE
        /\ UNCHANGED limitIndex
     \/ /\ limits[limitIndex] # topic
        /\ rlimit' = IF Pattern(limitIndex) /\ longer(limitIndex) THEN limitIndex ELSE rlimit
        /\ limitIndex' = limitIndex + 1
        /\ UNCHANGED searching
  /\ UNCHANGED <<matchVars, limits>>

endSearch ==
  /\ searching
  /\ limitIndex > Len(limits)
  /\ searching' = FALSE
  /\ UNCHANGED <<matchVars, limits, limitIndex, rlimit>>

FilterNext == validate \/ matchLevel \/ matchEnd \/ tryLimit \/ endSearch
FilterSpec == FilterInit /\ [][FilterNext]_filterVars
------------------------------------------------------------------------------
(***************************************************************************)
(* Properties                                                              *)
(***************************************************************************)
\* A filter as the matching loop expects it: a wildcard is a whole level, a # the
\* last one, and the first level is not empty.
WellFormed(f) ==
  /\ f[1] # <<>>
  /\ \A i \in 1 .. Len(f) :
       /\ Has(f[i], "+") => f[i] = Plus
       /\ Has(f[i], "#") => f[i] = Hash /\ i = Len(f)
       /\ \A j \in 1 .. Len(f[i]) : f[i][j] \in Alnum \cup {"+", "#"}

\* The checks on characters come to the same as a condition on levels: a name is
\* accepted just if it is well-formed and, unless it has a wildcard, does not end in
\* a slash.
AcceptedIsWellFormed ==
  outcome # "new" =>
    (outcome = "refused" <=>
       ~(WellFormed(filterLevels) /\ (name[Len(name)] # "/" \/ Has(name, "+"))))

\* The loop's answer is the one of Matches.
MatchAgrees ==
  /\ outcome = "matched" => Matches(filterLevels, topicLevels)
  /\ outcome = "unmatched" => ~Matches(filterLevels, topicLevels)

\* The limit that is found is the topic's own if there is one; otherwise the longest
\* that matches, and of those the first.  None is found only if none matches.
LimitIsClosest ==
  ~searching =>
    LET candidates == {i \in 1 .. Len(limits) : limits[i] = topic \/ Pattern(i)}
        exact == {i \in candidates : limits[i] = topic}
    IN  \/ candidates = {} /\ rlimit = 0
        \/ rlimit \in exact /\ \A i \in exact : rlimit <= i
        \/ /\ exact = {}
           /\ rlimit \in candidates
           /\ \A i \in candidates :
                \/ Len(limits[i]) < Len(limits[rlimit])
                \/ Len(limits[i]) = Len(limits[rlimit]) /\ rlimit <= i
==============================================================================
