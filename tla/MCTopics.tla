------------------------------- MODULE MCTopics -------------------------------
(* Instances of Topics for TLC: a topic, a pattern that matches it too, and    *)
(* one name that both match.                                                   *)
EXTENDS Topics

MCMatched == {<<f, n>> : f \in Filters, n \in Names}
==============================================================================
