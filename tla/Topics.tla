-------------------------------- MODULE Topics --------------------------------
(***************************************************************************)
(* The subscriptions of one worker: TopicManager's list of topics, each    *)
(* Topic's list of subscribers, and each Connection's map of the topics it *)
(* is subscribed to (src/TopicManager.cpp, src/Topic.cpp, and subscribe()  *)
(* to unsubscribeAll() of src/Connection.cpp).                             *)
(*                                                                         *)
(* The worker thread runs every handler.  A Connection is destroyed, and   *)
(* its destructor unsubscribes it, on the thread that drops the last       *)
(* reference.  That is the worker, or another worker's thread that         *)
(* accepted the client and still holds the pointer _addConnection()        *)
(* returned: the acceptor here.                                            *)
(***************************************************************************)
EXTENDS Naturals, FiniteSets

CONSTANTS Conns,        \* clients of this worker
          Filters,      \* topics and topic filters clients subscribe to
          Names,        \* topic names messages are published to
          Matched,      \* the pairs <<filter, name>> isFilterMatched() accepts
          Objects,      \* Topic objects
          Nil           \* a null pointer

ASSUME TopicsAssumption ==
  /\ Matched \subseteq Filters \X Names
  /\ Nil \notin Objects \cup Conns \cup Filters \cup Names

VARIABLES
  shared,           \* are there other workers, whose threads accept clients for this one?
  topic_list,       \* TopicManager::_topic_list: per filter its Topic, or Nil
  subscriber_list,  \* Topic::_subscriber_list: the clients in the list of a Topic
  subscribed,       \* Connection::_subscribedTopics: per client and filter a Topic, or Nil
  life,             \* "new", "live", "shut", "removed" from the connection list, "destroyed"
  held,             \* does the acceptor still hold its pointer to the client?
  task,             \* per thread: the unsubscribe in progress
  pub,              \* the publish() in progress on the worker
  sent              \* <<client, Topic>> of every send of the last publish()

subVars == <<shared, topic_list, subscriber_list, subscribed>>
topicVars == <<shared, topic_list, subscriber_list, subscribed, life, held, task, pub, sent>>

Idle == [conn |-> Nil, todo |-> {}, at |-> "idle", filter |-> Nil]
NoPublish == [name |-> Nil, todo |-> {}, topic |-> Nil, visit |-> {}, pin |-> Nil]

TopicsInit ==
  /\ shared \in BOOLEAN
  /\ topic_list = [f \in Filters |-> Nil]
  /\ subscriber_list = [o \in Objects |-> {}]
  /\ subscribed = [c \in Conns |-> [f \in Filters |-> Nil]]
  /\ life = [c \in Conns |-> "new"]
  /\ held = [c \in Conns |-> FALSE]
  /\ task = [th \in {"worker", "acceptor"} |-> Idle]
  /\ pub = NoPublish
  /\ sent = {}

WorkerFree == task["worker"] = Idle /\ pub = NoPublish
\* _topic_list_lock is held during publish(), _subscriber_lock while in a topic.
ListLockFree == pub.name = Nil
SubscriberLockFree(o) == pub.topic # o
SubscribedTo(c) == {f \in Filters : subscribed[c][f] # Nil}
\* Topic objects something points to; the others are free for make_shared.
Referenced == {topic_list[f] : f \in Filters} \cup
              {subscribed[c][f] : c \in Conns, f \in Filters}

(***************************************************************************)
(* The life of a client.                                                   *)
(***************************************************************************)
connect(c) ==
  /\ life[c] = "new"
  /\ life' = [life EXCEPT ![c] = "live"]
  /\ \E h \in {FALSE, shared} : held' = [held EXCEPT ![c] = h]
  /\ UNCHANGED <<subVars, task, pub, sent>>

\* Connection::shutdown(), from a handler, a timer or a failed write.
shutdown(c) ==
  /\ WorkerFree
  /\ life[c] = "live"
  /\ life' = [life EXCEPT ![c] = "shut"]
  /\ UNCHANGED <<subVars, held, task, pub, sent>>

\* Mutant: the destructor does not unsubscribe.
destroySubscribed(th, c) ==
  /\ task' = [task EXCEPT ![th] =
       [conn |-> c, todo |-> {}, at |-> "next", filter |-> Nil]]
  /\ life' = [life EXCEPT ![c] = "destroyed"]

\* ~Connection(), on thread th: unsubscribeAll().
destroy(th, c) ==
  /\ task' = [task EXCEPT ![th] =
       [conn |-> c, todo |-> SubscribedTo(c), at |-> "next", filter |-> Nil]]
  /\ life' = [life EXCEPT ![c] = "destroyed"]

\* Worker::_removeConnection(), then the main loop drops its own pointer.
removeConnection(c) ==
  /\ WorkerFree
  /\ life[c] = "shut"
  /\ IF held[c]
     THEN life' = [life EXCEPT ![c] = "removed"] /\ UNCHANGED task
     ELSE destroy("worker", c)
  /\ UNCHANGED <<subVars, held, pub, sent>>

\* The acceptor's pointer goes out of scope in _acceptConnection().
acceptorReleases(c) ==
  /\ held[c]
  /\ task["acceptor"] = Idle
  /\ held' = [held EXCEPT ![c] = FALSE]
  /\ IF life[c] = "removed" /\ pub.pin # c
     THEN destroy("acceptor", c)
     ELSE UNCHANGED <<life, task>>
  /\ UNCHANGED <<subVars, pub, sent>>

(***************************************************************************)
(* Connection::subscribe() with TopicManager::subscribeConnection().  A    *)
(* second subscribe() to the same filter returns early.  The client may    *)
(* have been shut down by an earlier frame of the same read().             *)
(***************************************************************************)
subscribe(c, f) ==
  /\ WorkerFree
  /\ life[c] \in {"live", "shut"}
  /\ subscribed[c][f] = Nil
  /\ \E o \in IF topic_list[f] # Nil THEN {topic_list[f]} ELSE Objects \ Referenced :
       /\ topic_list' = [topic_list EXCEPT ![f] = o]
       /\ subscriber_list' = [subscriber_list EXCEPT ![o] = @ \cup {c}]
       /\ subscribed' = [subscribed EXCEPT ![c][f] = o]
  /\ UNCHANGED <<shared, life, held, task, pub, sent>>

(***************************************************************************)
(* unsubscribe(), unsubscribeAll() and ~Connection(): per topic, delete    *)
(* the subscriber, ask the topic for its count, delete an empty topic.     *)
(* Each of the three takes a lock of its own.                              *)
(***************************************************************************)
unsubscribe(c, F) ==
  /\ WorkerFree
  /\ life[c] \in {"live", "shut"}
  /\ F # {}
  /\ F \subseteq SubscribedTo(c)
  /\ task' = [task EXCEPT !["worker"] = [conn |-> c, todo |-> F, at |-> "next", filter |-> Nil]]
  /\ UNCHANGED <<subVars, life, held, pub, sent>>

deleteSubscriber(th, f) ==
  LET c == task[th].conn
      o == subscribed[c][f] IN
  /\ task[th].at = "next"
  /\ f \in task[th].todo
  /\ SubscriberLockFree(o)
  /\ subscriber_list' = [subscriber_list EXCEPT ![o] = @ \ {c}]
  /\ task' = [task EXCEPT ![th] = [@ EXCEPT !.at = "count", !.filter = f]]
  /\ UNCHANGED <<shared, topic_list, subscribed, life, held, pub, sent>>

\* Mutant: the subscription stays in _subscribedTopics.
eraseSubscriptionKeepsMap(th) ==
  LET f == task[th].filter IN
  /\ UNCHANGED subscribed
  /\ task' = [task EXCEPT ![th] = [@ EXCEPT !.at = "next", !.todo = task[th].todo \ {f}, !.filter = Nil]]

\* _subscribedTopics.erase(it), and on to the next topic.
eraseSubscription(th) ==
  LET f == task[th].filter IN
  /\ subscribed' = [subscribed EXCEPT ![task[th].conn][f] = Nil]
  /\ task' = [task EXCEPT ![th] = [@ EXCEPT !.at = "next", !.todo = task[th].todo \ {f}, !.filter = Nil]]

\* Mutant: an empty topic is not deleted.
subscriberCountIgnored(th) ==
  LET o == subscribed[task[th].conn][task[th].filter] IN
  /\ task[th].at = "count"
  /\ SubscriberLockFree(o)
  /\ IF FALSE
     THEN task' = [task EXCEPT ![th].at = "delete"] /\ UNCHANGED subscribed
     ELSE eraseSubscription(th)
  /\ UNCHANGED <<shared, topic_list, subscriber_list, life, held, pub, sent>>

\* Mutant: a topic is deleted although others subscribe to it.
subscriberCountAlways(th) ==
  LET o == subscribed[task[th].conn][task[th].filter] IN
  /\ task[th].at = "count"
  /\ SubscriberLockFree(o)
  /\ IF TRUE
     THEN task' = [task EXCEPT ![th].at = "delete"] /\ UNCHANGED subscribed
     ELSE eraseSubscription(th)
  /\ UNCHANGED <<shared, topic_list, subscriber_list, life, held, pub, sent>>

subscriberCount(th) ==
  LET o == subscribed[task[th].conn][task[th].filter] IN
  /\ task[th].at = "count"
  /\ SubscriberLockFree(o)
  /\ IF subscriber_list[o] = {}
     THEN task' = [task EXCEPT ![th].at = "delete"] /\ UNCHANGED subscribed
     ELSE eraseSubscription(th)
  /\ UNCHANGED <<shared, topic_list, subscriber_list, life, held, pub, sent>>

deleteTopic(th) ==
  /\ task[th].at = "delete"
  /\ ListLockFree
  /\ topic_list' = [topic_list EXCEPT ![task[th].filter] = Nil]
  /\ eraseSubscription(th)
  /\ UNCHANGED <<shared, subscriber_list, life, held, pub, sent>>

endUnsubscribe(th) ==
  /\ task[th].at = "next"
  /\ task[th].todo = {}
  /\ task' = [task EXCEPT ![th] = Idle]
  /\ UNCHANGED <<subVars, life, held, pub, sent>>

unsubscribeSteps(th) ==
  \/ \E f \in Filters : deleteSubscriber(th, f)
  \/ subscriberCount(th) \/ deleteTopic(th) \/ endUnsubscribe(th)

(***************************************************************************)
(* TopicManager::publish() and Topic::publish(), on the worker.            *)
(***************************************************************************)
publish(n) ==
  /\ WorkerFree
  /\ pub' = [NoPublish EXCEPT !.name = n,
       !.todo = {f \in Filters : topic_list[f] # Nil /\ <<f, n>> \in Matched}]
  /\ sent' = {}
  /\ UNCHANGED <<subVars, life, held, task>>

publishTopic(f) ==
  /\ pub.topic = Nil
  /\ f \in pub.todo
  /\ pub' = [pub EXCEPT !.topic = topic_list[f], !.todo = @ \ {f},
                        !.visit = subscriber_list[topic_list[f]]]
  /\ UNCHANGED <<subVars, life, held, task, sent>>

\* Mutant: a client whose buffer overflows is destroyed on the spot.
visitSubscriberRemoves(c) ==
  /\ pub.topic # Nil /\ pub.pin = Nil /\ task["worker"] = Idle
  /\ c \in pub.visit
  /\ pub' = [pub EXCEPT !.visit = @ \ {c}, !.pin = IF life[c] = "removed" THEN c ELSE Nil]
  /\ IF life[c] = "live"
     THEN /\ sent' = sent \cup {<<c, pub.topic>>}
          /\ UNCHANGED <<life, task>> \/ destroy("worker", c)
     ELSE UNCHANGED <<sent, life, task>>
  /\ UNCHANGED <<subVars, held>>

\* One turn of Topic::publish()'s loop.  A live client is sent the message, and
\* a write that overflows shuts it down; a shut or expired one is skipped; one
\* that only the acceptor holds is skipped too, but lock() has made this thread
\* an owner for the turn.
visitSubscriber(c) ==
  /\ pub.topic # Nil /\ pub.pin = Nil /\ task["worker"] = Idle
  /\ c \in pub.visit
  /\ pub' = [pub EXCEPT !.visit = @ \ {c}, !.pin = IF life[c] = "removed" THEN c ELSE Nil]
  /\ IF life[c] = "live"
     THEN /\ sent' = sent \cup {<<c, pub.topic>>}
          /\ \E l \in {"live", "shut"} : life' = [life EXCEPT ![c] = l]
     ELSE UNCHANGED <<sent, life>>
  /\ UNCHANGED <<subVars, held, task>>

\* The turn ends.  If the pointer is the last one by now, the destructor runs
\* here, inside the loop, with the topic's _subscriber_lock held.
unpin ==
  /\ pub.pin # Nil
  /\ pub' = [pub EXCEPT !.pin = Nil]
  /\ IF held[pub.pin] THEN UNCHANGED <<life, task>> ELSE destroy("worker", pub.pin)
  /\ UNCHANGED <<subVars, held, sent>>

leaveTopic ==
  /\ pub.topic # Nil /\ pub.pin = Nil /\ task["worker"] = Idle
  /\ pub.visit = {}
  /\ pub' = [pub EXCEPT !.topic = Nil]
  /\ UNCHANGED <<subVars, life, held, task, sent>>

endPublish ==
  /\ pub.name # Nil /\ pub.topic = Nil
  /\ pub.todo = {}
  /\ pub' = NoPublish
  /\ UNCHANGED <<subVars, life, held, task, sent>>

publishSteps ==
  \/ \E f \in Filters : publishTopic(f)
  \/ \E c \in Conns : visitSubscriber(c)
  \/ unpin \/ leaveTopic \/ endPublish

TopicsNext ==
  \/ \E c \in Conns : connect(c) \/ shutdown(c) \/ removeConnection(c) \/ acceptorReleases(c)
  \/ \E c \in Conns, f \in Filters : subscribe(c, f)
  \/ \E c \in Conns, F \in SUBSET Filters : unsubscribe(c, F)
  \/ \E th \in {"worker", "acceptor"} : unsubscribeSteps(th)
  \/ \E n \in Names : publish(n)
  \/ publishSteps

TopicsSpec == TopicsInit /\ [][TopicsNext]_topicVars

\* A thread that is inside a call runs on until it waits for a lock.
TopicsFairness ==
  /\ \A th \in {"worker", "acceptor"} : WF_topicVars(unsubscribeSteps(th))
  /\ WF_topicVars(publishSteps)
FairTopicsSpec == TopicsSpec /\ TopicsFairness
------------------------------------------------------------------------------
\* Is some thread between deleting c's entry and erasing c's subscription to f?
Leaving(c, f) ==
  \E th \in {"worker", "acceptor"} : task[th].conn = c /\ task[th].filter = f

\* A client's own map and the topics' lists agree: a client is in the list of
\* exactly those topics it is subscribed to, each for one filter, so the iterator
\* it hands to deleteSubscriberByIterator() is valid.  Only an unsubscribe in
\* progress on that very subscription is an exception.
SubscribersAgree ==
  \A c \in Conns, o \in Objects :
    LET subs == {f \in Filters : subscribed[c][f] = o /\ ~Leaving(c, f)}
    IN /\ c \in subscriber_list[o] <=> subs # {}
       /\ \A f, g \in subs : f = g

\* With one worker, TopicManager lists a topic exactly while it has subscribers:
\* deleteTopic() is neither missed for the last of them nor done while one is left.
ListedWhileSubscribed ==
  ~shared => \A f \in Filters :
    \/ \E c \in Conns : Leaving(c, f)
    \/ {subscribed[c][f] : c \in Conns} \ {Nil} = {topic_list[f]} \ {Nil}

\* "distributed to all clients that are subscribed to the topic or a topic pattern
\* that matches": when publish() is done, every client that is still connected
\* has been sent the message for every subscription that matches, and nothing
\* has been sent for a subscription that does not.
PublishReachesSubscribers ==
  pub.name # Nil /\ pub.topic = Nil /\ pub.todo = {} =>
    \A c \in Conns :
      LET topics == {subscribed[c][f] : f \in {g \in SubscribedTo(c) : <<g, pub.name>> \in Matched}}
          got == {o \in Objects : <<c, o>> \in sent}
      IN got \subseteq topics /\ (life[c] = "live" => got = topics)

\* With one worker it does.
OwnPublishReachesSubscribers == ~shared => PublishReachesSubscribers

\* A destroyed client leaves nothing behind once its destructor has returned.
DestroyedIsForgotten ==
  \A c \in Conns : life[c] = "destroyed" =>
    \/ \E th \in {"worker", "acceptor"} : task[th].conn = c
    \/ /\ SubscribedTo(c) = {}
       /\ \A o \in Objects : c \notin subscriber_list[o]

\* A publish() that has begun comes to an end: the worker never waits for good
\* on a lock of the topic manager.
PublishEnds == pub.name # Nil ~> pub.name = Nil

\* With one worker it does.
OwnPublishEnds == ~shared /\ pub.name # Nil ~> pub.name = Nil
==============================================================================
