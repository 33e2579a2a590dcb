-------------------------------- MODULE MCHub --------------------------------
(* From a publisher to the subscribers: the rate limit of a publisher, the way of a
   message through Redis and the workers, the subscriptions of a worker, and topic filters.  Each is a model of its
   own, so a behaviour explores one of them beside the others at rest; the product
   would add no behaviour of any. *)
EXTENDS Topics, Delivery, TopicFilter, RateLimit, TLC

CONSTANTS w1, w2, s1
VARIABLE part

\* A topic, a pattern that matches it too, and one name that both match.
MCMatched == {<<f, n>> : f \in Filters, n \in Names}

MCWorkerOf == (s1 :> w1)

StringsUpTo(chars, n) == UNION {[1 .. k -> chars] : k \in 0 .. n}
ValidTopics == {s \in StringsUpTo({"a", "b", "/"}, 3) : isValidTopic(s)}
Limits == {<<"a", "/", "b">>, <<"a", "/", "+">>, <<"+", "/", "b">>, <<"+", "/", "#">>, <<"#">>, <<"b">>}
MCInputs ==
  [name : StringsUpTo(Chars \ {"b"}, 4), topic : ValidTopics, limits : {<<>>}]
  \cup [name : {<<"a">>}, topic : ValidTopics, limits : StringsUpTo(Limits, 3)]

Init ==
  /\ TopicsInit /\ DeliveryInit /\ FilterInit /\ RateInit
  /\ part \in {"topics", "delivery", "filters", "limit"}
  /\ part # "topics" => ~shared
  /\ part # "filters" => name = <<"a">> /\ topic = <<"a">> /\ limits = <<>>
Next ==
  /\ UNCHANGED part
  /\ \/ part = "topics" /\ TopicsNext /\ UNCHANGED <<delVars, filterVars, rateVars>>
     \/ part = "delivery" /\ DeliveryNext /\ UNCHANGED <<topicVars, filterVars, rateVars>>
     \/ part = "filters" /\ FilterNext /\ UNCHANGED <<topicVars, delVars, rateVars>>
     \/ part = "limit" /\ RateNext /\ UNCHANGED <<topicVars, delVars, filterVars>>

\* The fairness of each, where it runs.
Fairness ==
  /\ \A th \in {"worker", "acceptor"} : WF_topicVars(part = "topics" /\ unsubscribeSteps(th))
  /\ WF_topicVars(part = "topics" /\ publishSteps)
  /\ \A w \in Workers : WF_delVars(part = "delivery" /\ working(w))
  /\ WF_delVars(part = "delivery" /\ consume) /\ WF_delVars(part = "delivery" /\ psubscribe)

Spec == Init /\ [][Next]_<<topicVars, delVars, filterVars, rateVars, part>> /\ Fairness
================================================================================
