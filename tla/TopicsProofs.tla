---------------------------- MODULE TopicsProofs ----------------------------
(***************************************************************************)
(* Clients, topics and the topic list agree, for any number of clients,    *)
(* filters, names and Topic objects.  AgreeInv is the inductive invariant  *)
(* for a shared TopicManager; OwnOK and SentOK are what one worker adds.   *)
(***************************************************************************)
EXTENDS Topics, TLAPS

Threads == {"worker", "acceptor"}
Lives == {"new", "live", "shut", "removed", "destroyed"}
Tasks == [conn : Conns \cup {Nil}, todo : SUBSET Filters,
          at : {"idle", "next", "count", "delete"}, filter : Filters \cup {Nil}]
Publishes == [name : Names \cup {Nil}, todo : SUBSET Filters, topic : Objects \cup {Nil},
              visit : SUBSET Conns, pin : Conns \cup {Nil}]

TopicsTypeOK ==
  /\ shared \in BOOLEAN
  /\ topic_list \in [Filters -> Objects \cup {Nil}]
  /\ subscriber_list \in [Objects -> SUBSET Conns]
  /\ subscribed \in [Conns -> [Filters -> Objects \cup {Nil}]]
  /\ life \in [Conns -> Lives]
  /\ held \in [Conns -> BOOLEAN]
  /\ task \in [Threads -> Tasks]
  /\ pub \in Publishes

\* An unsubscribe in progress is about topics its client is subscribed to.
TaskOf(th) ==
  /\ task[th].at = "idle" => task[th] = Idle
  /\ task[th].at # "idle" => /\ task[th].conn \in Conns
                             /\ task[th].todo \subseteq SubscribedTo(task[th].conn)
  /\ task[th].at = "next" => task[th].filter = Nil
  /\ task[th].at \in {"count", "delete"} => task[th].filter \in task[th].todo
TaskOK == \A th \in Threads : TaskOf(th)

\* Both threads never work on one client: the acceptor only on one it destroys, the
\* worker on one that is not removed.  What a destroyed client is subscribed to is
\* still to be done by its destructor.
LifeOK ==
  /\ \A c \in Conns : life[c] = "new" => SubscribedTo(c) = {}
  /\ task["worker"].at # "idle" => life[task["worker"].conn] \in {"live", "shut", "destroyed"}
  /\ task["acceptor"].at # "idle" => /\ life[task["acceptor"].conn] = "destroyed"
                                     /\ task["acceptor"].conn # task["worker"].conn
  /\ \A c \in Conns : life[c] = "destroyed" =>
       \/ SubscribedTo(c) = {}
       \/ \E th \in Threads : task[th].conn = c /\ SubscribedTo(c) \subseteq task[th].todo

\* A publish that has not begun has no state, and one that pins a client is the only
\* thing the worker does.
PubOK ==
  /\ pub.name = Nil => pub = NoPublish
  /\ pub.pin # Nil => life[pub.pin] = "removed" /\ task["worker"] = Idle
  /\ \A f \in pub.todo : topic_list[f] # Nil /\ <<f, pub.name>> \in Matched

\* A Topic object belongs to one filter.
Uses(o, f) == topic_list[f] = o \/ \E c \in Conns : subscribed[c][f] = o
OneFilter == \A o \in Objects, f, g \in Filters : Uses(o, f) /\ Uses(o, g) => f = g

AgreeInv == TopicsTypeOK /\ TaskOK /\ LifeOK /\ PubOK /\ OneFilter /\ SubscribersAgree

\* With one worker only: nobody else holds a client, a subscription is to the topic
\* that is listed, and a topic that is listed has a subscriber.
OwnOK ==
  ~shared =>
    /\ \A c \in Conns : ~held[c] /\ life[c] # "removed"
    /\ task["acceptor"] = Idle
    /\ \A c \in Conns, f \in Filters : subscribed[c][f] \in {Nil, topic_list[f]}
    /\ \A f \in Filters : topic_list[f] # Nil => \E c \in Conns : subscribed[c][f] # Nil
    /\ task["worker"].at = "delete" =>
         \A d \in Conns \ {task["worker"].conn} : subscribed[d][task["worker"].filter] = Nil

\* and during a publish, what matches is to be visited, being visited or sent.
SentOK ==
  ~shared /\ pub.name # Nil =>
    /\ task["worker"] = Idle
    /\ pub.topic # Nil => /\ pub.visit \subseteq subscriber_list[pub.topic]
                          /\ \E f \in Filters : topic_list[f] = pub.topic /\ <<f, pub.name>> \in Matched
    /\ \A c \in Conns, o \in Objects : <<c, o>> \in sent =>
         \E f \in Filters : <<f, pub.name>> \in Matched /\ subscribed[c][f] = o
    /\ \A c \in Conns, f \in Filters :
         life[c] = "live" /\ <<f, pub.name>> \in Matched /\ subscribed[c][f] # Nil =>
           \/ f \in pub.todo
           \/ pub.topic = subscribed[c][f] /\ c \in pub.visit
           \/ <<c, subscribed[c][f]>> \in sent
------------------------------------------------------------------------------
\* Without clients and topics everything agrees.
LEMMA AgreeInitial == TopicsInit => AgreeInv
<1> SUFFICES ASSUME TopicsInit PROVE AgreeInv
  OBVIOUS
<1>1. TopicsTypeOK
  BY DEF TopicsInit, TopicsTypeOK, Threads, Lives, Tasks, Publishes, Idle, NoPublish
<1>2. TaskOK /\ LifeOK /\ PubOK
  BY TopicsAssumption
  DEF TopicsInit, TaskOK, TaskOf, LifeOK, PubOK, Threads, Idle, NoPublish, SubscribedTo
<1>3. OneFilter /\ SubscribersAgree
  BY TopicsAssumption DEF TopicsInit, OneFilter, Uses, SubscribersAgree
<1> QED
  BY <1>1, <1>2, <1>3 DEF AgreeInv

(***************************************************************************)
(* What the steps of a task do.                                            *)
(***************************************************************************)
toDelete(th) == task' = [task EXCEPT ![th].at = "delete"] /\ UNCHANGED subscribed

\* After getSubscriberCount() an unsubscribe deletes an empty topic or goes on.
LEMMA CountSteps ==
  ASSUME NEW th, subscriberCount(th)
  PROVE  \/ eraseSubscription(th)
         \/ /\ toDelete(th)
            /\ subscriber_list[subscribed[task[th].conn][task[th].filter]] = {}
  BY Zenon DEF subscriberCount, toDelete

\* Erasing a subscription changes that one only, and its thread goes on with the next.
LEMMA Erases ==
  ASSUME TopicsTypeOK, TaskOK, NEW th \in Threads, task[th].at \in {"count", "delete"},
         eraseSubscription(th)
  PROVE  LET c == task[th].conn
             f == task[th].filter
         IN  /\ c \in Conns /\ f \in task[th].todo /\ f \in SubscribedTo(c)
             /\ \A d \in Conns, g \in Filters :
                  subscribed'[d][g] = IF d = c /\ g = f THEN Nil ELSE subscribed[d][g]
             /\ task'[th].conn = c /\ task'[th].at = "next" /\ task'[th].filter = Nil
             /\ task'[th].todo = task[th].todo \ {f}
             /\ \A o \in Threads \ {th} : task'[o] = task[o]
<1>1. task[th].conn \in Conns /\ task[th].filter \in task[th].todo /\ task[th] \in Tasks
  BY DEF TopicsTypeOK, TaskOK, TaskOf
<1>2. task[th].filter \in SubscribedTo(task[th].conn) /\ task[th].filter \in Filters
  BY <1>1 DEF TaskOK, TaskOf, SubscribedTo
<1>3. \A d \in Conns, g \in Filters : subscribed'[d][g] =
        IF d = task[th].conn /\ g = task[th].filter THEN Nil ELSE subscribed[d][g]
  BY <1>1, <1>2 DEF eraseSubscription, TopicsTypeOK
<1>4. /\ task'[th] = [task[th] EXCEPT !.at = "next",
                         !.todo = task[th].todo \ {task[th].filter}, !.filter = Nil]
      /\ \A o \in Threads \ {th} : task'[o] = task[o]
  BY DEF eraseSubscription, TopicsTypeOK
<1>5. /\ task'[th].conn = task[th].conn /\ task'[th].at = "next" /\ task'[th].filter = Nil
      /\ task'[th].todo = task[th].todo \ {task[th].filter}
  BY <1>1, <1>4 DEF Tasks
<1> QED
  BY <1>1, <1>2, <1>3, <1>4, <1>5

\* A destructor has all subscriptions of its client to end, and no other thread's work.
LEMMA Destroys ==
  ASSUME TopicsTypeOK, NEW th \in Threads, NEW c \in Conns, destroy(th, c)
  PROVE  /\ task'[th] = [conn |-> c, todo |-> SubscribedTo(c), at |-> "next", filter |-> Nil]
         /\ \A o \in Threads \ {th} : task'[o] = task[o]
         /\ \A d \in Conns : life'[d] = IF d = c THEN "destroyed" ELSE life[d]
  BY DEF TopicsTypeOK, destroy

------------------------------------------------------------------------------
\* Every step keeps the types.
LEMMA TypeStep == AgreeInv /\ [TopicsNext]_topicVars => TopicsTypeOK'
<1> SUFFICES ASSUME AgreeInv, [TopicsNext]_topicVars PROVE TopicsTypeOK'
  OBVIOUS
<1> USE DEF Threads, Lives
<1>1. ASSUME NEW c \in Conns, connect(c) \/ shutdown(c) PROVE TopicsTypeOK'
  <2>1. connect(c) => held' \in [Conns -> BOOLEAN]
    BY ZenonT(40) DEF connect, AgreeInv, TopicsTypeOK
  <2> QED
    BY <1>1, <2>1 DEF connect, shutdown, AgreeInv, TopicsTypeOK, subVars
<1>2. ASSUME NEW th \in Threads, NEW c \in Conns, destroy(th, c) 
      PROVE  task' \in [Threads -> Tasks] /\ life' \in [Conns -> Lives]
  BY <1>2 DEF destroy, AgreeInv, TopicsTypeOK, Tasks, SubscribedTo
<1>3. ASSUME NEW c \in Conns, removeConnection(c) \/ acceptorReleases(c) PROVE TopicsTypeOK'
  BY <1>2, <1>3, Zenon DEF removeConnection, acceptorReleases, AgreeInv, TopicsTypeOK, subVars
<1>4. ASSUME NEW c \in Conns, NEW f \in Filters, subscribe(c, f) PROVE TopicsTypeOK'
  BY <1>4 DEF subscribe, AgreeInv, TopicsTypeOK
<1>5. ASSUME NEW c \in Conns, NEW F \in SUBSET Filters, unsubscribe(c, F) PROVE TopicsTypeOK'
  BY <1>5 DEF unsubscribe, AgreeInv, TopicsTypeOK, subVars, Tasks
<1>6. ASSUME NEW th \in Threads, NEW f \in Filters, deleteSubscriber(th, f) PROVE TopicsTypeOK'
  BY <1>6, ZenonT(40) DEF deleteSubscriber, AgreeInv, TopicsTypeOK, Tasks
<1>7. ASSUME NEW th \in Threads, eraseSubscription(th)
      PROVE  /\ task' \in [Threads -> Tasks]
             /\ subscribed' \in [Conns -> [Filters -> Objects \cup {Nil}]]
  <2>1. task' \in [Threads -> Tasks]
    <3>1. [task[th] EXCEPT !.at = "next", !.todo = task[th].todo \ {task[th].filter}, !.filter = Nil] \in Tasks
      BY ZenonT(40) DEF AgreeInv, TopicsTypeOK, Tasks
    <3> QED
      BY <1>7, <3>1 DEF eraseSubscription, AgreeInv, TopicsTypeOK
  <2>2. subscribed' \in [Conns -> [Filters -> Objects \cup {Nil}]]
    BY <1>7, Zenon DEF eraseSubscription, AgreeInv, TopicsTypeOK
  <2> QED
    BY <2>1, <2>2
<1>8. ASSUME NEW th \in Threads, subscriberCount(th) PROVE TopicsTypeOK'
  <2>1. CASE eraseSubscription(th)
    BY <1>7, <1>8, <2>1 DEF subscriberCount, AgreeInv, TopicsTypeOK
  <2>2. CASE toDelete(th)
    BY <1>8, <2>2, ZenonT(40) DEF subscriberCount, toDelete, AgreeInv, TopicsTypeOK, Tasks
  <2> QED
    BY <1>8, <2>1, <2>2, CountSteps
<1>9. ASSUME NEW th \in Threads, deleteTopic(th) PROVE TopicsTypeOK'
  BY <1>7, <1>9, Zenon DEF deleteTopic, AgreeInv, TopicsTypeOK
<1>10. ASSUME NEW th \in Threads, endUnsubscribe(th) PROVE TopicsTypeOK'
  BY <1>10 DEF endUnsubscribe, AgreeInv, TopicsTypeOK, subVars, Tasks, Idle
<1>11. ASSUME NEW n \in Names, publish(n) PROVE TopicsTypeOK'
  BY <1>11, Zenon DEF publish, AgreeInv, TopicsTypeOK, subVars, Publishes, NoPublish
<1>12. ASSUME NEW f \in Filters, publishTopic(f) PROVE TopicsTypeOK'
  BY <1>12, Zenon DEF publishTopic, AgreeInv, TopicsTypeOK, subVars, Publishes, PubOK
<1>13. ASSUME NEW c \in Conns, visitSubscriber(c) PROVE TopicsTypeOK'
  BY <1>13, Zenon DEF visitSubscriber, AgreeInv, TopicsTypeOK, subVars, Publishes
<1>14. CASE unpin
  BY <1>2, <1>14, Zenon DEF unpin, AgreeInv, TopicsTypeOK, subVars, Publishes
<1>15. CASE leaveTopic \/ endPublish
  BY <1>15 DEF leaveTopic, endPublish, AgreeInv, TopicsTypeOK, subVars, Publishes, NoPublish
<1>16. CASE UNCHANGED topicVars
  BY <1>16 DEF topicVars, AgreeInv, TopicsTypeOK
<1> QED
  BY <1>1, <1>3, <1>4, <1>5, <1>6, <1>8, <1>9, <1>10, <1>11, <1>12, <1>13, <1>14, <1>15, <1>16
  DEF TopicsNext, unsubscribeSteps, publishSteps

\* An unsubscribe under way has to do only what its client is subscribed to.
LEMMA TaskStep == AgreeInv /\ [TopicsNext]_topicVars => TaskOK'
<1> SUFFICES ASSUME AgreeInv, [TopicsNext]_topicVars PROVE TaskOK'
  OBVIOUS
<1>a. TopicsTypeOK /\ TaskOK
  BY DEF AgreeInv
<1>1. ASSUME UNCHANGED <<subscribed, task>> PROVE TaskOK'
  BY <1>a, <1>1 DEF TaskOK, TaskOf, SubscribedTo
<1>2. ASSUME NEW th \in Threads, NEW c \in Conns, destroy(th, c), UNCHANGED subscribed
      PROVE  TaskOK'
  <2>1. TaskOf(th)'
    <3>0. task'[th] = [conn |-> c, todo |-> SubscribedTo(c), at |-> "next", filter |-> Nil]
      BY <1>a, <1>2, Destroys
    <3>1. /\ task'[th].conn = c /\ task'[th].todo = SubscribedTo(c)
          /\ task'[th].at = "next" /\ task'[th].filter = Nil
      BY <3>0
    <3> QED
      BY <1>2, <3>1 DEF TaskOf, SubscribedTo
  <2>2. ASSUME NEW o \in Threads \ {th} PROVE TaskOf(o)'
    <3>1. task'[o] = task[o]
      BY <1>a, <1>2, Destroys, Zenon
    <3> QED
      BY <1>a, <1>2, <3>1 DEF TaskOK, TaskOf, SubscribedTo
  <2> QED
    BY <2>1, <2>2 DEF TaskOK, TaskOf
<1>3. ASSUME NEW c \in Conns, removeConnection(c) \/ acceptorReleases(c) PROVE TaskOK'
  BY <1>1, <1>2, <1>3 DEF removeConnection, acceptorReleases, subVars, Threads
<1>4. ASSUME NEW c \in Conns, NEW f \in Filters, subscribe(c, f) PROVE TaskOK'
  <2>1. \A d \in Conns : SubscribedTo(d) \subseteq SubscribedTo(d)'
    BY <1>a, <1>4, TopicsAssumption DEF subscribe, TopicsTypeOK, SubscribedTo
  <2> QED
    BY <1>a, <1>4, <2>1 DEF subscribe, TaskOK, TaskOf
<1>5. ASSUME NEW c \in Conns, NEW F \in SUBSET Filters, unsubscribe(c, F) PROVE TaskOK'
  BY <1>a, <1>5 DEF unsubscribe, TopicsTypeOK, TaskOK, TaskOf, subVars, SubscribedTo, Threads
<1>6. ASSUME NEW th \in Threads, NEW f \in Filters, deleteSubscriber(th, f) PROVE TaskOK'
  <2>1. /\ task'[th] = [task[th] EXCEPT !.at = "count", !.filter = f]
        /\ \A o \in Threads \ {th} : task'[o] = task[o]
        /\ subscribed' = subscribed
    BY <1>a, <1>6 DEF deleteSubscriber, TopicsTypeOK
  <2>2. /\ task'[th].conn = task[th].conn /\ task'[th].todo = task[th].todo
        /\ task'[th].at = "count" /\ task'[th].filter = f
    BY <1>a, <2>1 DEF TopicsTypeOK, Tasks
  <2>3. TaskOf(th)'
    <3>1. task[th].at = "next" /\ f \in task[th].todo /\ TaskOf(th)
      BY <1>a, <1>6 DEF deleteSubscriber, TaskOK
    <3> QED
      BY <2>1, <2>2, <3>1 DEF TaskOf, SubscribedTo
  <2>4. ASSUME NEW o \in Threads \ {th} PROVE TaskOf(o)'
    BY <1>a, <2>1 DEF TaskOK, TaskOf, SubscribedTo
  <2> QED
    BY <2>3, <2>4 DEF TaskOK
<1>7. ASSUME NEW th \in Threads, task[th].at \in {"count", "delete"}, eraseSubscription(th)
      PROVE  TaskOK'
  <2> DEFINE c == task[th].conn
  <2>1. /\ task'[th].conn = c /\ task'[th].at = "next" /\ task'[th].filter = Nil
        /\ c \in Conns /\ task'[th].todo \subseteq SubscribedTo(c)'
    BY <1>a, <1>7, Erases DEF TaskOK, TaskOf, SubscribedTo
  <2>2. ASSUME NEW o \in Threads \ {th}, task[o].at # "idle"
        PROVE  task[o].conn # c /\ SubscribedTo(task[o].conn)' = SubscribedTo(task[o].conn)
    <3>1. task[o].conn # c
      BY <1>7, <2>2 DEF AgreeInv, LifeOK, TaskOK, TaskOf, Threads
    <3> QED
      BY <1>a, <1>7, <2>2, <3>1, Erases DEF SubscribedTo, TaskOK, TaskOf
  <2> QED
    BY <1>a, <1>7, <2>1, <2>2, Erases DEF TaskOK, TaskOf
<1>8. ASSUME NEW th \in Threads, subscriberCount(th) PROVE TaskOK'
  <2>1. CASE eraseSubscription(th)
    BY <1>7, <1>8, <2>1 DEF subscriberCount
  <2>2. CASE toDelete(th)
    <3>1. /\ task'[th] = [task[th] EXCEPT !.at = "delete"]
          /\ \A o \in Threads \ {th} : task'[o] = task[o]
          /\ subscribed' = subscribed
      BY <1>a, <2>2 DEF toDelete, TopicsTypeOK
    <3>2. /\ task'[th].conn = task[th].conn /\ task'[th].todo = task[th].todo
          /\ task'[th].at = "delete" /\ task'[th].filter = task[th].filter
      BY <1>a, <3>1 DEF TopicsTypeOK, Tasks
    <3>3. TaskOf(th)'
      BY <1>a, <1>8, <3>1, <3>2 DEF subscriberCount, TaskOK, TaskOf, SubscribedTo
    <3>4. ASSUME NEW o \in Threads \ {th} PROVE TaskOf(o)'
      BY <1>a, <3>1 DEF TaskOK, TaskOf, SubscribedTo
    <3> QED
      BY <3>3, <3>4 DEF TaskOK
  <2> QED
    BY <1>8, <2>1, <2>2, CountSteps
<1>9. ASSUME NEW th \in Threads, deleteTopic(th) PROVE TaskOK'
  BY <1>7, <1>9 DEF deleteTopic
<1>10. ASSUME NEW th \in Threads, endUnsubscribe(th) PROVE TaskOK'
  BY <1>a, <1>10 DEF endUnsubscribe, TopicsTypeOK, TaskOK, TaskOf, subVars, SubscribedTo, Idle
<1>11. CASE unpin
  <2>1. pub.pin \in Conns
    BY <1>a, <1>11 DEF unpin, TopicsTypeOK, Publishes
  <2> QED
    BY <1>1, <1>2, <1>11, <2>1 DEF unpin, subVars, Threads
<1> QED
  BY <1>1, <1>3, <1>4, <1>5, <1>6, <1>8, <1>9, <1>10, <1>11, Zenon
  DEF TopicsNext, unsubscribeSteps, publishSteps, connect, shutdown, publish, publishTopic,
      visitSubscriber, leaveTopic, endPublish, subVars, topicVars, Threads

\* What the acceptor and the worker do is about clients that are not each other's.
LEMMA LifeStep == AgreeInv /\ [TopicsNext]_topicVars => LifeOK'
<1> SUFFICES ASSUME AgreeInv, [TopicsNext]_topicVars PROVE LifeOK'
  OBVIOUS
<1> USE TopicsAssumption
<1>a. TopicsTypeOK /\ TaskOK /\ LifeOK /\ PubOK
  BY DEF AgreeInv
<1>b. \A th \in Threads : task[th] = Idle => task[th].conn = Nil /\ task[th].at = "idle"
  BY DEF Idle
<1>c. ASSUME UNCHANGED subscribed PROVE \A c \in Conns : SubscribedTo(c)' = SubscribedTo(c)
  BY <1>c DEF SubscribedTo
<1>1. ASSUME UNCHANGED <<subscribed, task>>, NEW c \in Conns, NEW l \in Lives,
             life[c] # "destroyed", l # "new", l # "destroyed",
             l = "removed" => task["worker"] = Idle,
             life' = [life EXCEPT ![c] = l]
      PROVE  LifeOK'
  <2>1. \A d \in Conns : life'[d] = IF d = c THEN l ELSE life[d]
    BY <1>a, <1>1 DEF TopicsTypeOK
  <2>2. l \in {"live", "shut", "removed"}
    BY <1>1 DEF Lives
  <2>3. task["worker"].at # "idle" => task["worker"].conn \in Conns
    BY <1>a DEF TaskOK, TaskOf, Threads
  <2>4. task["acceptor"].at # "idle" => task["acceptor"].conn \in Conns
    BY <1>a DEF TaskOK, TaskOf, Threads
  <2> QED
    BY <1>a, <1>b, <1>1, <2>1, <2>2, <2>3, <2>4 DEF LifeOK, SubscribedTo, Threads
<1>2. ASSUME UNCHANGED <<subscribed, task, life>> PROVE LifeOK'
  BY <1>a, <1>2 DEF LifeOK, SubscribedTo
<1>3. ASSUME NEW th \in Threads, NEW c \in Conns, destroy(th, c), UNCHANGED subscribed,
             task[th] = Idle, life[c] \in {"shut", "removed"},
             th = "acceptor" => life[c] = "removed"
      PROVE  LifeOK'
  <2>1. /\ task'[th] = [conn |-> c, todo |-> SubscribedTo(c), at |-> "next", filter |-> Nil]
        /\ \A o \in Threads \ {th} : task'[o] = task[o]
        /\ \A d \in Conns : life'[d] = IF d = c THEN "destroyed" ELSE life[d]
    BY <1>a, <1>3, Destroys
  <2>2. task'[th].conn = c /\ task'[th].todo = SubscribedTo(c) /\ task'[th].at = "next"
    BY <2>1
  <2>3. \A o \in Threads \ {th} : /\ task[o].at # "idle" => task[o].conn \in Conns \ {c}
                                  /\ task[o].conn # c
    BY <1>a, <1>3, <1>b DEF TaskOK, TaskOf, LifeOK, Threads
  <2>4. ASSUME NEW d \in Conns, life'[d] = "destroyed", SubscribedTo(d) # {}
        PROVE  \E o \in Threads : task'[o].conn = d /\ SubscribedTo(d) \subseteq task'[o].todo
    <3>1. CASE d = c
      BY <2>2, <3>1
    <3>2. CASE d # c
      <4>1. PICK o \in Threads : task[o].conn = d /\ SubscribedTo(d) \subseteq task[o].todo
        BY <1>a, <2>1, <2>4, <3>2 DEF LifeOK
      <4> QED
        BY <1>b, <1>3, <2>1, <4>1
    <3> QED
      BY <3>1, <3>2
  <2>5. /\ task'["worker"].at # "idle" => life'[task'["worker"].conn] \in {"live", "shut", "destroyed"}
        /\ task'["acceptor"].at # "idle" => /\ life'[task'["acceptor"].conn] = "destroyed"
                                            /\ task'["acceptor"].conn # task'["worker"].conn
    BY <1>a, <1>3, <2>1, <2>2, <2>3 DEF LifeOK, Threads
  <2>6. \A d \in Conns : life'[d] = "new" => SubscribedTo(d) = {}
    BY <1>a, <2>1 DEF LifeOK
  <2> QED
    BY <1>3, <2>4, <2>5, <2>6 DEF LifeOK, SubscribedTo
<1>4. ASSUME NEW c \in Conns, connect(c) \/ shutdown(c) \/ visitSubscriber(c) PROVE LifeOK'
  BY <1>1, <1>2, <1>4 DEF connect, shutdown, visitSubscriber, subVars, Lives
<1>5. ASSUME NEW c \in Conns, removeConnection(c) PROVE LifeOK'
  BY <1>1, <1>3, <1>5 DEF removeConnection, WorkerFree, subVars, Lives, Threads
<1>6. ASSUME NEW c \in Conns, acceptorReleases(c) PROVE LifeOK'
  BY <1>2, <1>3, <1>6 DEF acceptorReleases, subVars, Threads
<1>7. CASE unpin
  <2>1. pub.pin \in Conns /\ life[pub.pin] = "removed" /\ task["worker"] = Idle
    BY <1>a, <1>7 DEF unpin, TopicsTypeOK, Publishes, PubOK
  <2> QED
    BY <1>2, <1>3, <1>7, <2>1 DEF unpin, subVars, Threads
<1>8. ASSUME NEW c \in Conns, NEW f \in Filters, subscribe(c, f) PROVE LifeOK'
  <2>1. \A d \in Conns : d # c => SubscribedTo(d)' = SubscribedTo(d)
    BY <1>a, <1>8 DEF subscribe, TopicsTypeOK, SubscribedTo
  <2> QED
    BY <1>a, <1>8, <2>1 DEF subscribe, LifeOK, Threads
<1>9. ASSUME NEW c \in Conns, NEW F \in SUBSET Filters, unsubscribe(c, F) PROVE LifeOK'
  <2>1. /\ task'["worker"] = [conn |-> c, todo |-> F, at |-> "next", filter |-> Nil]
        /\ task'["acceptor"] = task["acceptor"]
        /\ life' = life /\ subscribed' = subscribed /\ task["worker"] = Idle
        /\ life[c] \in {"live", "shut"}
    BY <1>a, <1>9 DEF unsubscribe, TopicsTypeOK, Threads, WorkerFree, subVars
  <2>2. task'["worker"].conn = c
    BY <2>1
  <2>3. task["worker"].conn = Nil
    BY <1>b, <2>1 DEF Threads
  <2> QED
    BY <1>a, <2>1, <2>2, <2>3 DEF LifeOK, SubscribedTo, Threads
<1>10. ASSUME NEW th \in Threads, UNCHANGED <<subscribed, life>>, task[th].at # "idle",
              task'[th].conn = task[th].conn, task'[th].todo = task[th].todo,
              \A o \in Threads \ {th} : task'[o] = task[o]
       PROVE  LifeOK'
  BY <1>a, <1>10 DEF LifeOK, SubscribedTo, Threads
<1>11. ASSUME NEW th \in Threads, NEW f \in Filters, deleteSubscriber(th, f) PROVE LifeOK'
  <2>1. /\ task'[th] = [task[th] EXCEPT !.at = "count", !.filter = f]
        /\ \A o \in Threads \ {th} : task'[o] = task[o]
    BY <1>a, <1>11 DEF deleteSubscriber, TopicsTypeOK
  <2>2. task'[th].conn = task[th].conn /\ task'[th].todo = task[th].todo
    BY <1>a, <2>1 DEF TopicsTypeOK, Tasks
  <2> QED
    BY <1>10, <1>11, <2>1, <2>2 DEF deleteSubscriber
<1>12. ASSUME NEW th \in Threads, task[th].at \in {"count", "delete"}, eraseSubscription(th),
              UNCHANGED life
       PROVE  LifeOK'
  <2> DEFINE c == task[th].conn
             f == task[th].filter
  <2>1. /\ c \in Conns /\ f \in task[th].todo
        /\ task'[th].conn = c /\ task'[th].at = "next"
        /\ task'[th].todo = task[th].todo \ {f}
        /\ \A o \in Threads \ {th} : task'[o] = task[o]
    BY <1>a, <1>12, Erases
  <2>2. \A d \in Conns : SubscribedTo(d)' = IF d = c THEN SubscribedTo(d) \ {f} ELSE SubscribedTo(d)
    BY <1>a, <1>12, Erases DEF SubscribedTo
  <2>3. ASSUME NEW d \in Conns, life[d] = "destroyed", SubscribedTo(d)' # {}
        PROVE  \E o \in Threads : task'[o].conn = d /\ SubscribedTo(d)' \subseteq task'[o].todo
    <3>1. PICK o \in Threads : task[o].conn = d /\ SubscribedTo(d) \subseteq task[o].todo
      BY <1>a, <2>2, <2>3 DEF LifeOK
    <3>2. task'[o].conn = d
      BY <2>1, <3>1
    <3>3. SubscribedTo(d)' \subseteq task'[o].todo
      <4>1. CASE o = th
        BY <2>1, <2>2, <3>1, <4>1
      <4>2. CASE o # th
        BY <2>1, <2>2, <3>1, <4>2
      <4> QED
        BY <4>1, <4>2
    <3> QED
      BY <3>2, <3>3
  <2>4. /\ task'["worker"].at # "idle" => life'[task'["worker"].conn] \in {"live", "shut", "destroyed"}
        /\ task'["acceptor"].at # "idle" => /\ life'[task'["acceptor"].conn] = "destroyed"
                                            /\ task'["acceptor"].conn # task'["worker"].conn
    BY <1>a, <1>12, <2>1 DEF LifeOK, Threads
  <2>5. \A d \in Conns : life[d] = "new" => SubscribedTo(d)' = {}
    BY <1>a, <2>2 DEF LifeOK
  <2> QED
    BY <1>12, <2>3, <2>4, <2>5 DEF LifeOK
<1>13. ASSUME NEW th \in Threads, subscriberCount(th) PROVE LifeOK'
  <2>1. CASE eraseSubscription(th)
    BY <1>12, <1>13, <2>1 DEF subscriberCount
  <2>2. CASE toDelete(th)
    <3>1. /\ task'[th] = [task[th] EXCEPT !.at = "delete"]
          /\ \A o \in Threads \ {th} : task'[o] = task[o]
      BY <1>a, <2>2 DEF toDelete, TopicsTypeOK
    <3>2. task'[th].conn = task[th].conn /\ task'[th].todo = task[th].todo
      BY <1>a, <3>1 DEF TopicsTypeOK, Tasks
    <3> QED
      BY <1>10, <1>13, <2>2, <3>1, <3>2 DEF subscriberCount, toDelete
  <2> QED
    BY <1>13, <2>1, <2>2, CountSteps
<1>14. ASSUME NEW th \in Threads, deleteTopic(th) PROVE LifeOK'
  BY <1>12, <1>14 DEF deleteTopic
<1>15. ASSUME NEW th \in Threads, endUnsubscribe(th) PROVE LifeOK'
  <2>1. /\ task'[th] = Idle /\ \A o \in Threads \ {th} : task'[o] = task[o]
        /\ life' = life /\ subscribed' = subscribed /\ task[th].todo = {}
    BY <1>a, <1>15 DEF endUnsubscribe, TopicsTypeOK, subVars
  <2>2. task'[th].at = "idle" /\ task'[th].conn = Nil
    BY <2>1 DEF Idle
  <2>3. task["acceptor"].at # "idle" => task["acceptor"].conn # Nil
    BY <1>a DEF TaskOK, TaskOf, Threads
  <2>4. ASSUME NEW d \in Conns, life[d] = "destroyed", SubscribedTo(d) # {}
        PROVE  \E o \in Threads : task'[o].conn = d /\ SubscribedTo(d) \subseteq task'[o].todo
    BY <1>a, <2>1, <2>4 DEF LifeOK
  <2> QED
    BY <1>a, <2>1, <2>2, <2>3, <2>4 DEF LifeOK, SubscribedTo, Threads
<1> QED
  BY <1>2, <1>4, <1>5, <1>6, <1>7, <1>8, <1>9, <1>11, <1>13, <1>14, <1>15, Zenon
  DEF TopicsNext, unsubscribeSteps, publishSteps, publish, publishTopic,
      leaveTopic, endPublish, subVars, topicVars, Threads

\* A publish goes through topics that stay listed, and its client stays removed.
LEMMA PubStep == AgreeInv /\ [TopicsNext]_topicVars => PubOK'
<1> SUFFICES ASSUME AgreeInv, [TopicsNext]_topicVars PROVE PubOK'
  OBVIOUS
<1> USE TopicsAssumption
<1>a. TopicsTypeOK /\ TaskOK /\ LifeOK /\ PubOK
  BY DEF AgreeInv
<1>b. NoPublish.name = Nil /\ NoPublish.pin = Nil /\ NoPublish.todo = {}
  BY DEF NoPublish
<1>c. pub.pin # Nil => pub.pin \in Conns
  BY <1>a DEF TopicsTypeOK, Publishes
<1>1. ASSUME pub = NoPublish, pub' = pub PROVE PubOK'
  BY <1>b, <1>1 DEF PubOK
<1>2. ASSUME pub' = pub, topic_list' = topic_list, pub.pin # Nil => /\ life'[pub.pin] = life[pub.pin]
                                                                   /\ task'["worker"] = task["worker"]
      PROVE  PubOK'
  BY <1>a, <1>2 DEF PubOK
<1>3. ASSUME NEW c \in Conns, connect(c) PROVE PubOK'
  BY <1>a, <1>c, <1>2, <1>3 DEF connect, PubOK, TopicsTypeOK, subVars
<1>4. ASSUME NEW c \in Conns, shutdown(c) \/ removeConnection(c) PROVE PubOK'
  BY <1>1, <1>4 DEF shutdown, removeConnection, WorkerFree
<1>5. ASSUME NEW c \in Conns, acceptorReleases(c) PROVE PubOK'
  BY <1>a, <1>c, <1>2, <1>5 DEF acceptorReleases, destroy, TopicsTypeOK, subVars, Threads
<1>6. ASSUME NEW c \in Conns, NEW f \in Filters, subscribe(c, f) PROVE PubOK'
  BY <1>1, <1>6 DEF subscribe, WorkerFree
<1>7. ASSUME NEW c \in Conns, NEW F \in SUBSET Filters, unsubscribe(c, F) PROVE PubOK'
  BY <1>1, <1>7 DEF unsubscribe, WorkerFree
<1>8. ASSUME NEW th \in Threads, unsubscribeSteps(th) PROVE PubOK'
  <2>1. pub' = pub /\ life' = life /\ task[th].at # "idle"
    BY <1>8, ZenonT(40) DEF unsubscribeSteps, deleteSubscriber, subscriberCount, deleteTopic, endUnsubscribe
  <2>2. \A o \in Threads \ {th} : task'[o] = task[o]
    BY <1>a, <1>8, Zenon DEF unsubscribeSteps, deleteSubscriber, subscriberCount, deleteTopic,
                      endUnsubscribe, eraseSubscription, TopicsTypeOK
  <2>3. pub.pin # Nil => th # "worker"
    BY <1>a, <2>1 DEF PubOK, Idle
  <2>4. CASE deleteTopic(th)
    BY <1>a, <1>1, <2>1, <2>4 DEF deleteTopic, ListLockFree, PubOK
  <2>5. CASE ~deleteTopic(th)
    BY <1>2, <1>8, <2>1, <2>2, <2>3, <2>5, Zenon
    DEF unsubscribeSteps, deleteSubscriber, subscriberCount, endUnsubscribe, subVars, Threads
  <2> QED
    BY <2>4, <2>5
<1>9. ASSUME NEW n \in Names, publish(n) PROVE PubOK'
  BY <1>9 DEF publish, PubOK, NoPublish, subVars
<1>10. ASSUME NEW f \in Filters, publishTopic(f) PROVE PubOK'
  <2>1. /\ pub'.name = pub.name /\ pub'.pin = pub.pin /\ pub'.todo = pub.todo \ {f}
    BY <1>a, <1>10 DEF publishTopic, TopicsTypeOK, Publishes
  <2>2. pub.name # Nil
    BY <1>a, <1>b, <1>10 DEF publishTopic, PubOK
  <2> QED
    BY <1>a, <1>10, <2>1, <2>2 DEF publishTopic, PubOK, subVars
<1>11. ASSUME NEW c \in Conns, visitSubscriber(c) PROVE PubOK'
  <2>1. /\ pub'.name = pub.name /\ pub'.todo = pub.todo
        /\ pub'.pin = IF life[c] = "removed" THEN c ELSE Nil
    BY <1>a, <1>11 DEF visitSubscriber, TopicsTypeOK, Publishes
  <2>2. pub.name # Nil
    BY <1>a, <1>11 DEF visitSubscriber, PubOK, NoPublish
  <2>3. pub'.pin # Nil => life'[pub'.pin] = "removed" /\ task'["worker"] = Idle
    BY <1>11, <2>1 DEF visitSubscriber
  <2> QED
    BY <1>a, <1>11, <2>1, <2>2, <2>3 DEF visitSubscriber, PubOK, subVars
<1>12. CASE unpin
  <2>1. pub'.name = pub.name /\ pub'.todo = pub.todo /\ pub'.pin = Nil
    BY <1>a, <1>12 DEF unpin, TopicsTypeOK, Publishes
  <2>2. pub.name # Nil
    BY <1>a, <1>b, <1>12 DEF unpin, PubOK
  <2> QED
    BY <1>a, <1>12, <2>1, <2>2 DEF unpin, PubOK, subVars
<1>13. CASE leaveTopic
  <2>1. pub'.name = pub.name /\ pub'.todo = pub.todo /\ pub'.pin = pub.pin
    BY <1>a, <1>13 DEF leaveTopic, TopicsTypeOK, Publishes
  <2>2. pub.name # Nil
    BY <1>a, <1>13 DEF leaveTopic, PubOK, NoPublish
  <2> QED
    BY <1>a, <1>13, <2>1, <2>2 DEF leaveTopic, PubOK, subVars
<1>14. CASE endPublish
  BY <1>b, <1>14 DEF endPublish, PubOK
<1>15. CASE UNCHANGED topicVars
  BY <1>2, <1>15 DEF topicVars
<1> QED
  BY <1>3, <1>4, <1>5, <1>6, <1>7, <1>8, <1>9, <1>10, <1>11, <1>12, <1>13, <1>14, <1>15
  DEF TopicsNext, publishSteps, Threads

\* A new Topic is one nobody uses; an old one is only dropped.
LEMMA OneFilterStep == AgreeInv /\ [TopicsNext]_topicVars => OneFilter'
<1> SUFFICES ASSUME AgreeInv, [TopicsNext]_topicVars PROVE OneFilter'
  OBVIOUS
<1> USE TopicsAssumption
<1>a. TopicsTypeOK /\ TaskOK /\ OneFilter
  BY DEF AgreeInv
<1>1. ASSUME \A o \in Objects, f \in Filters : Uses(o, f)' => Uses(o, f) PROVE OneFilter'
  BY <1>a, <1>1 DEF OneFilter
<1>2. ASSUME NEW th \in Threads, deleteTopic(th) \/ subscriberCount(th) PROVE OneFilter'
  <2>1. \A f \in Filters : topic_list'[f] \in {topic_list[f], Nil}
    BY <1>a, <1>2 DEF deleteTopic, subscriberCount, TopicsTypeOK
  <2>2. \A c \in Conns, f \in Filters : subscribed'[c][f] \in {subscribed[c][f], Nil}
    <3>1. CASE eraseSubscription(th)
      <4>1. task[th].at \in {"count", "delete"}
        BY <1>2 DEF deleteTopic, subscriberCount
      <4>2. \A c \in Conns, f \in Filters : subscribed'[c][f] =
              IF c = task[th].conn /\ f = task[th].filter THEN Nil ELSE subscribed[c][f]
        BY <1>a, <3>1, <4>1, Erases
      <4> QED
        BY <4>2, SMTT(40)
    <3> QED
      BY <1>2, <3>1, CountSteps DEF deleteTopic, toDelete
  <2> QED
    BY <1>1, <2>1, <2>2 DEF Uses
<1>3. ASSUME NEW c \in Conns, NEW f \in Filters, subscribe(c, f) PROVE OneFilter'
  <2>1. PICK o \in (IF topic_list[f] # Nil THEN {topic_list[f]} ELSE Objects \ Referenced) :
          /\ topic_list' = [topic_list EXCEPT ![f] = o]
          /\ subscribed' = [subscribed EXCEPT ![c][f] = o]
    BY <1>3, Zenon DEF subscribe
  <2>2. \A x \in Objects, g \in Filters : Uses(x, g)' => Uses(x, g) \/ (x = o /\ g = f)
    BY <1>a, <2>1 DEF Uses, TopicsTypeOK
  <2>3. \/ Uses(o, f)
        \/ \A g \in Filters : ~Uses(o, g)
    BY <2>1 DEF Uses, Referenced
  <2> QED
    BY <1>a, <2>2, <2>3 DEF OneFilter
<1>4. CASE UNCHANGED <<topic_list, subscribed>>
  BY <1>1, <1>4 DEF Uses
<1> QED
  BY <1>2, <1>3, <1>4, Zenon
  DEF TopicsNext, unsubscribeSteps, publishSteps, connect, shutdown, removeConnection,
      acceptorReleases, unsubscribe, deleteSubscriber, endUnsubscribe, publish, publishTopic,
      visitSubscriber, unpin, leaveTopic, endPublish, subVars, topicVars, Threads

\* Whether c is in the list of o is settled by c's own map.
Agrees(c, o) ==
  c \in subscriber_list[o] <=> \E f \in Filters : subscribed[c][f] = o /\ ~Leaving(c, f)

\* When a topic has one filter, agreement is a matter of each client and topic.
LEMMA AgreesIsEnough == OneFilter => (SubscribersAgree <=> \A c \in Conns, o \in Objects : Agrees(c, o))
  BY DEF OneFilter, Uses, SubscribersAgree, Agrees

\* No step brings the clients' and the topics' lists apart.
LEMMA AgreeStep == AgreeInv /\ OneFilter' /\ [TopicsNext]_topicVars => SubscribersAgree'
<1> SUFFICES ASSUME AgreeInv, OneFilter', [TopicsNext]_topicVars
             PROVE  \A c \in Conns, o \in Objects : Agrees(c, o)'
  BY DEF OneFilter, Uses, SubscribersAgree, Agrees
<1> USE TopicsAssumption
<1>a. TopicsTypeOK /\ TaskOK /\ LifeOK /\ PubOK /\ OneFilter
  BY DEF AgreeInv
<1>b. \A c \in Conns, o \in Objects : Agrees(c, o)
  BY AgreesIsEnough DEF AgreeInv
<1>c. \A th \in Threads : task[th].at \in {"idle", "next"} => task[th].filter = Nil
  BY <1>a DEF TaskOK, TaskOf, Idle
<1>1. ASSUME UNCHANGED <<subscribed, subscriber_list>>,
             \A c \in Conns, f \in Filters : Leaving(c, f)' <=> Leaving(c, f)
      PROVE  \A c \in Conns, o \in Objects : Agrees(c, o)'
  BY <1>b, <1>1 DEF Agrees
<1>2. ASSUME UNCHANGED <<subscribed, subscriber_list>>, NEW th \in Threads,
             task[th].at \in {"idle", "next"}, task'[th].filter = Nil,
             \A o \in Threads \ {th} : task'[o] = task[o]
      PROVE  \A c \in Conns, o \in Objects : Agrees(c, o)'
  BY <1>1, <1>2, <1>c DEF Leaving, Threads
<1>3. ASSUME UNCHANGED <<subscribed, subscriber_list, task>>
      PROVE  \A c \in Conns, o \in Objects : Agrees(c, o)'
  BY <1>1, <1>3 DEF Leaving
<1>4. ASSUME NEW th \in Threads, NEW c \in Conns, destroy(th, c), task[th] = Idle,
             UNCHANGED subVars
      PROVE  \A d \in Conns, o \in Objects : Agrees(d, o)'
  <2>1. task'[th].filter = Nil /\ \A o \in Threads \ {th} : task'[o] = task[o]
    BY <1>a, <1>4 DEF destroy, TopicsTypeOK
  <2> QED
    BY <1>2, <1>4, <2>1 DEF subVars, Idle
<1>5. ASSUME NEW c \in Conns, removeConnection(c) \/ acceptorReleases(c)
      PROVE  \A d \in Conns, o \in Objects : Agrees(d, o)'
  BY <1>3, <1>4, <1>5 DEF removeConnection, acceptorReleases, WorkerFree, subVars, Threads
<1>6. CASE unpin
  <2>1. pub.pin \in Conns /\ task["worker"] = Idle
    BY <1>a, <1>6 DEF unpin, TopicsTypeOK, Publishes, PubOK
  <2> QED
    BY <1>3, <1>4, <1>6, <2>1 DEF unpin, subVars, Threads
<1>7. ASSUME NEW c \in Conns, NEW F \in SUBSET Filters, unsubscribe(c, F)
      PROVE  \A d \in Conns, o \in Objects : Agrees(d, o)'
  <2>1. /\ task["worker"].at = "idle" /\ task'["worker"].filter = Nil
        /\ \A o \in Threads \ {"worker"} : task'[o] = task[o]
    BY <1>a, <1>7 DEF unsubscribe, WorkerFree, TopicsTypeOK, Threads, Idle
  <2> QED
    BY <1>2, <1>7, <2>1 DEF unsubscribe, subVars, Threads
<1>8. ASSUME NEW th \in Threads, endUnsubscribe(th)
      PROVE  \A d \in Conns, o \in Objects : Agrees(d, o)'
  <2>1. task'[th].filter = Nil /\ \A o \in Threads \ {th} : task'[o] = task[o]
    BY <1>a, <1>8 DEF endUnsubscribe, TopicsTypeOK, Idle
  <2> QED
    BY <1>2, <1>8, <2>1 DEF endUnsubscribe, subVars
<1>9. ASSUME NEW c \in Conns, NEW f \in Filters, subscribe(c, f), NEW d \in Conns, NEW x \in Objects
      PROVE  Agrees(d, x)'
  <2>1. PICK o \in Objects :
          /\ subscriber_list' = [subscriber_list EXCEPT ![o] = @ \cup {c}]
          /\ subscribed' = [subscribed EXCEPT ![c][f] = o]
    BY <1>a, <1>9, Zenon DEF subscribe, TopicsTypeOK
  <2>2. /\ d \in subscriber_list'[x] <=> d \in subscriber_list[x] \/ (d = c /\ x = o)
        /\ \A g \in Filters : subscribed'[d][g] = IF d = c /\ g = f THEN o ELSE subscribed[d][g]
    BY <1>a, <2>1 DEF TopicsTypeOK
  <2>3. ~Leaving(c, f)
    <3>1. task["worker"].conn = Nil /\ life[c] \in {"live", "shut"}
      BY <1>9 DEF subscribe, WorkerFree, Idle
    <3>2. task["acceptor"].conn # c
      BY <1>a, <3>1 DEF LifeOK, TaskOK, TaskOf, Idle, Threads
    <3> QED
      BY <3>1, <3>2 DEF Leaving
  <2>4. subscribed[c][f] = Nil /\ \A g \in Filters : Leaving(d, g)' <=> Leaving(d, g)
    BY <1>9, SMTT(40) DEF subscribe, Leaving
  <2> QED
    BY <1>b, <2>2, <2>3, <2>4 DEF Agrees
<1>10. ASSUME NEW th \in Threads, NEW f \in Filters, deleteSubscriber(th, f),
              NEW d \in Conns, NEW x \in Objects
       PROVE  Agrees(d, x)'
  <2> DEFINE c == task[th].conn
             o == subscribed[c][f]
  <2>1. /\ task'[th] = [task[th] EXCEPT !.at = "count", !.filter = f]
        /\ \A t \in Threads \ {th} : task'[t] = task[t]
    BY <1>a, <1>10 DEF deleteSubscriber, TopicsTypeOK
  <2>2. task'[th].conn = c /\ task'[th].filter = f /\ task[th].filter = Nil
    BY <1>a, <1>c, <1>10, <2>1 DEF TopicsTypeOK, Tasks, deleteSubscriber
  <2>3. \A g \in Filters : Leaving(d, g)' <=> Leaving(d, g) \/ (d = c /\ g = f)
    BY <2>1, <2>2, ZenonT(40) DEF Leaving, Threads
  <2>4. c \in Conns /\ o \in Objects
    BY <1>a, <1>10 DEF deleteSubscriber, TaskOK, TaskOf, SubscribedTo, TopicsTypeOK
  <2>5. d \in subscriber_list'[x] <=> d \in subscriber_list[x] /\ ~(d = c /\ x = o)
    BY <1>a, <1>10, <2>4 DEF deleteSubscriber, TopicsTypeOK
  <2>6. \A g \in Filters : subscribed[c][g] = o => g = f
    BY <1>a, <2>4 DEF OneFilter, Uses
  <2>7. subscribed' = subscribed
    BY <1>10 DEF deleteSubscriber
  <2> QED
    BY <1>b, <2>3, <2>4, <2>5, <2>6, <2>7 DEF Agrees
<1>11. ASSUME NEW th \in Threads, task[th].at \in {"count", "delete"}, eraseSubscription(th),
              UNCHANGED subscriber_list, NEW d \in Conns, NEW x \in Objects
       PROVE  Agrees(d, x)'
  <2> DEFINE c == task[th].conn
             f == task[th].filter
  <2>1. /\ c \in Conns /\ f \in SubscribedTo(c)
        /\ \A g \in Filters : subscribed'[d][g] = IF d = c /\ g = f THEN Nil ELSE subscribed[d][g]
        /\ task'[th].filter = Nil /\ \A t \in Threads \ {th} : task'[t] = task[t]
    BY <1>a, <1>11, Erases
  <2>2. Leaving(c, f)
    BY DEF Leaving, Threads
  <2>3. \A g \in Filters : ~(d = c /\ g = f) => (Leaving(d, g)' <=> Leaving(d, g))
    BY <2>1 DEF Leaving, Threads
  <2> QED
    BY <1>b, <1>11, <2>1, <2>2, <2>3 DEF Agrees
<1>12. ASSUME NEW th \in Threads, subscriberCount(th)
       PROVE  \A d \in Conns, x \in Objects : Agrees(d, x)'
  <2>1. CASE eraseSubscription(th)
    BY <1>11, <1>12, <2>1 DEF subscriberCount
  <2>2. CASE toDelete(th)
    <3>1. \A t \in Threads : task'[t].conn = task[t].conn /\ task'[t].filter = task[t].filter
      BY <1>a, <2>2 DEF toDelete, TopicsTypeOK, Tasks
    <3> QED
      BY <1>1, <1>12, <2>2, <3>1 DEF subscriberCount, toDelete, Leaving, Threads
  <2> QED
    BY <1>12, <2>1, <2>2, CountSteps
<1>13. ASSUME NEW th \in Threads, deleteTopic(th)
       PROVE  \A d \in Conns, x \in Objects : Agrees(d, x)'
  BY <1>11, <1>13 DEF deleteTopic
<1>14. CASE UNCHANGED <<subscribed, subscriber_list, task>>
  BY <1>3, <1>14
<1> QED
  BY <1>5, <1>6, <1>7, <1>8, <1>9, <1>10, <1>12, <1>13, <1>14, Zenon
  DEF TopicsNext, unsubscribeSteps, publishSteps, connect, shutdown, publish, publishTopic,
      visitSubscriber, leaveTopic, endPublish, subVars, topicVars, Threads

------------------------------------------------------------------------------
\* The invariant holds in every reachable state, for any number of workers.
LEMMA AgreeInvariant == TopicsSpec => []AgreeInv
<1>1. AgreeInv /\ [TopicsNext]_topicVars => AgreeInv'
  BY TypeStep, TaskStep, LifeStep, PubStep, OneFilterStep, AgreeStep DEF AgreeInv
<1> QED
  BY AgreeInitial, <1>1, PTL DEF TopicsSpec

\* Whatever the workers and the acceptor do, a client is in the list of exactly the
\* topics its own map names (Connection::_subscribedTopics, Topic::_subscriber_list).
THEOREM ListsAgree == TopicsSpec => []SubscribersAgree
<1>1. AgreeInv => SubscribersAgree
  BY DEF AgreeInv
<1> QED
  BY AgreeInvariant, <1>1, PTL

\* Once ~Connection() has returned no topic lists the client any more.
THEOREM DestructorForgets == TopicsSpec => []DestroyedIsForgotten
<1>1. ASSUME AgreeInv PROVE DestroyedIsForgotten
  <2>1. SUFFICES ASSUME NEW c \in Conns, life[c] = "destroyed", SubscribedTo(c) = {},
                        NEW o \in Objects
                 PROVE  c \notin subscriber_list[o]
    BY <1>1 DEF AgreeInv, LifeOK, DestroyedIsForgotten, Threads
  <2>2. \A f \in Filters : subscribed[c][f] # o
    BY <2>1, TopicsAssumption, SMTT(40) DEF SubscribedTo
  <2> QED
    BY <1>1, <2>2, AgreesIsEnough DEF AgreeInv, Agrees
<1> QED
  BY AgreeInvariant, <1>1, PTL

(***************************************************************************)
(* One worker: the topic list is exact, and a publish misses nobody.       *)
(***************************************************************************)
\* With one worker only a subscription is being left when the worker leaves it.
LEMMA OwnCount ==
  ASSUME AgreeInv, OwnOK, ~shared, task["worker"].at = "count"
  PROVE  LET c == task["worker"].conn
             f == task["worker"].filter
             o == subscribed[c][f]
         IN  /\ c \in Conns /\ f \in Filters /\ o \in Objects /\ topic_list[f] = o
             /\ \A d \in Conns : d \in subscriber_list[o] <=> d # c /\ subscribed[d][f] = o
<1> USE TopicsAssumption
<1> DEFINE c == task["worker"].conn
           f == task["worker"].filter
           o == subscribed[c][f]
<1>1. c \in Conns /\ f \in Filters /\ o \in Objects
  BY DEF AgreeInv, TopicsTypeOK, TaskOK, TaskOf, SubscribedTo, Threads
<1>2. topic_list[f] = o
  BY <1>1 DEF OwnOK
<1>3. ASSUME NEW d \in Conns PROVE d \in subscriber_list[o] <=> d # c /\ subscribed[d][f] = o
  <2>1. \A g \in Filters : subscribed[d][g] = o => g = f
    BY <1>1, <1>2 DEF AgreeInv, OneFilter, Uses
  <2>2. Leaving(d, f) <=> d = c
    BY <1>1 DEF OwnOK, Leaving, Idle
  <2>3. Agrees(d, o)
    BY <1>1, AgreesIsEnough DEF AgreeInv
  <2> QED
    BY <1>1, <2>1, <2>2, <2>3 DEF Agrees
<1> QED
  BY <1>1, <1>2, <1>3

\* With one worker no step unlists a topic that has subscribers.
LEMMA OwnStep == AgreeInv /\ OwnOK /\ [TopicsNext]_topicVars => OwnOK'
<1> SUFFICES ASSUME AgreeInv, OwnOK, ~shared, [TopicsNext]_topicVars PROVE OwnOK'
  <2>1. [TopicsNext]_topicVars => shared' = shared
    BY Zenon DEF TopicsNext, unsubscribeSteps, publishSteps, connect, shutdown, removeConnection,
           acceptorReleases, subscribe, unsubscribe, deleteSubscriber, subscriberCount, deleteTopic,
           endUnsubscribe, publish, publishTopic, visitSubscriber, unpin, leaveTopic, endPublish,
           subVars, topicVars
  <2> QED
    BY <2>1 DEF OwnOK
<1> USE TopicsAssumption
<1>a. TopicsTypeOK /\ TaskOK /\ PubOK
  BY DEF AgreeInv
<1>b. /\ \A c \in Conns : ~held[c] /\ life[c] # "removed"
      /\ task["acceptor"] = Idle /\ task["acceptor"].at = "idle"
  BY DEF OwnOK, Idle
<1>1. ASSUME UNCHANGED <<topic_list, subscribed>>,
             task'["acceptor"] = task["acceptor"],
             task'["worker"].at = "delete" => task'["worker"] = task["worker"],
             \A c \in Conns : ~held'[c] /\ life'[c] # "removed"
      PROVE  OwnOK'
  BY <1>1 DEF OwnOK
<1>2. ASSUME NEW c \in Conns, connect(c) \/ shutdown(c) PROVE OwnOK'
  BY <1>a, <1>b, <1>1, <1>2 DEF connect, shutdown, subVars, TopicsTypeOK
<1>3. ASSUME NEW c \in Conns, removeConnection(c) PROVE OwnOK'
  <2>1. destroy("worker", c)
    BY <1>b, <1>3 DEF removeConnection
  <2>2. /\ task'["worker"].at = "next" /\ task'["acceptor"] = task["acceptor"]
        /\ \A d \in Conns : life'[d] # "removed"
    BY <1>a, <1>b, <2>1 DEF destroy, TopicsTypeOK, Threads
  <2> QED
    BY <1>b, <1>1, <1>3, <2>2 DEF removeConnection, subVars
<1>4. ASSUME NEW c \in Conns, NEW f \in Filters, subscribe(c, f) PROVE OwnOK'
  <2>1. PICK o \in Objects :
          /\ topic_list[f] \in {Nil, o}
          /\ topic_list' = [topic_list EXCEPT ![f] = o]
          /\ subscribed' = [subscribed EXCEPT ![c][f] = o]
    BY <1>a, <1>4, ZenonT(40) DEF subscribe, TopicsTypeOK
  <2>2. /\ \A g \in Filters : topic_list'[g] = IF g = f THEN o ELSE topic_list[g]
        /\ \A d \in Conns, g \in Filters :
             subscribed'[d][g] = IF d = c /\ g = f THEN o ELSE subscribed[d][g]
    BY <1>a, <2>1 DEF TopicsTypeOK
  <2>3. \A d \in Conns, g \in Filters : subscribed'[d][g] \in {Nil, topic_list'[g]}
    BY <2>1, <2>2 DEF OwnOK
  <2>4. \A g \in Filters : topic_list'[g] # Nil => \E d \in Conns : subscribed'[d][g] # Nil
    BY <2>2 DEF OwnOK
  <2>5. UNCHANGED <<held, life, task>> /\ task["worker"].at = "idle"
    BY <1>4 DEF subscribe, WorkerFree, Idle
  <2> QED
    BY <1>b, <2>3, <2>4, <2>5 DEF OwnOK
<1>5. ASSUME NEW c \in Conns, NEW F \in SUBSET Filters, unsubscribe(c, F) PROVE OwnOK'
  <2>1. task'["worker"].at = "next" /\ task'["acceptor"] = task["acceptor"]
    BY <1>a, <1>5 DEF unsubscribe, TopicsTypeOK, Threads
  <2> QED
    BY <1>b, <1>1, <1>5, <2>1 DEF unsubscribe, subVars
<1>6. ASSUME NEW f \in Filters, deleteSubscriber("worker", f) PROVE OwnOK'
  <2>1. /\ task'["worker"] = [task["worker"] EXCEPT !.at = "count", !.filter = f]
        /\ task'["acceptor"] = task["acceptor"]
    BY <1>a, <1>6 DEF deleteSubscriber, TopicsTypeOK, Threads
  <2>2. task'["worker"].at = "count"
    BY <1>a, <2>1 DEF TopicsTypeOK, Tasks, Threads
  <2> QED
    BY <1>b, <1>1, <1>6, <2>1, <2>2 DEF deleteSubscriber
<1>7. CASE subscriberCount("worker")
  <2> DEFINE c == task["worker"].conn
             f == task["worker"].filter
             o == subscribed[c][f]
  <2>0. task["worker"].at = "count" /\ UNCHANGED <<topic_list, held, life>>
    BY <1>7, SMTT(40) DEF subscriberCount
  <2>1. /\ c \in Conns /\ f \in Filters /\ o \in Objects /\ topic_list[f] = o
        /\ \A d \in Conns : d \in subscriber_list[o] <=> d # c /\ subscribed[d][f] = o
    BY <2>0, OwnCount
  <2>2. CASE toDelete("worker") /\ subscriber_list[o] = {}
    <3>1. /\ task'["worker"] = [task["worker"] EXCEPT !.at = "delete"]
          /\ task'["acceptor"] = task["acceptor"] /\ subscribed' = subscribed
      BY <1>a, <2>2 DEF toDelete, TopicsTypeOK, Threads
    <3>2. task'["worker"].conn = c /\ task'["worker"].filter = f
      BY <1>a, <3>1 DEF TopicsTypeOK, Tasks, Threads
    <3>3. \A d \in Conns \ {c} : subscribed[d][f] = Nil
      BY <2>1, <2>2 DEF OwnOK
    <3> QED
      BY <1>b, <2>0, <3>1, <3>2, <3>3 DEF OwnOK
  <2>3. CASE eraseSubscription("worker") /\ subscriber_list[o] # {}
    <3>1. /\ \A d \in Conns, g \in Filters :
               subscribed'[d][g] = IF d = c /\ g = f THEN Nil ELSE subscribed[d][g]
          /\ task'["worker"].at = "next" /\ task'["acceptor"] = task["acceptor"]
      BY <1>a, <2>0, <2>3, Erases, SMTT(40) DEF Threads
    <3>2. PICK d \in Conns : d # c /\ subscribed[d][f] = o
      BY <1>a, <2>1, <2>3, SMTT(40) DEF TopicsTypeOK
    <3>3. \A e \in Conns, g \in Filters : subscribed'[e][g] \in {Nil, topic_list[g]}
      BY <3>1, SMTT(30) DEF OwnOK
    <3>4. ASSUME NEW g \in Filters, topic_list[g] # Nil PROVE \E e \in Conns : subscribed'[e][g] # Nil
      <4>1. CASE g = f
        BY <2>1, <3>1, <3>2, <4>1, SMTT(30)
      <4>2. CASE g # f
        BY <3>1, <3>4, <4>2 DEF OwnOK
      <4> QED
        BY <4>1, <4>2, SMTT(40)
    <3> QED
      BY <1>b, <2>0, <3>1, <3>3, <3>4 DEF OwnOK
  <2> QED
    BY <1>7, <2>2, <2>3 DEF subscriberCount, toDelete
<1>8. CASE deleteTopic("worker")
  <2> DEFINE c == task["worker"].conn
             f == task["worker"].filter
  <2>0. task["worker"].at = "delete" /\ UNCHANGED <<held, life>> /\ eraseSubscription("worker")
    BY <1>8, SMTT(40) DEF deleteTopic
  <2>1. /\ \A d \in Conns, g \in Filters :
             subscribed'[d][g] = IF d = c /\ g = f THEN Nil ELSE subscribed[d][g]
        /\ f \in SubscribedTo(c)
        /\ task'["worker"].at = "next" /\ task'["acceptor"] = task["acceptor"]
    BY <1>a, <2>0, Erases DEF Threads
  <2>2. \A g \in Filters : topic_list'[g] = IF g = f THEN Nil ELSE topic_list[g]
    BY <1>a, <1>8, <2>1 DEF deleteTopic, TopicsTypeOK, SubscribedTo
  <2>3. \A d \in Conns : subscribed'[d][f] = Nil
    BY <2>0, <2>1 DEF OwnOK, SubscribedTo
  <2>4. \A d \in Conns, g \in Filters : subscribed'[d][g] \in {Nil, topic_list'[g]}
    BY <2>1, <2>2, <2>3 DEF OwnOK
  <2>5. \A g \in Filters : topic_list'[g] # Nil => \E d \in Conns : subscribed'[d][g] # Nil
    BY <2>1, <2>2 DEF OwnOK
  <2> QED
    BY <1>b, <2>0, <2>1, <2>4, <2>5 DEF OwnOK
<1>9. CASE endUnsubscribe("worker")
  <2>1. task'["worker"].at = "idle" /\ task'["acceptor"] = task["acceptor"]
    BY <1>a, <1>9 DEF endUnsubscribe, TopicsTypeOK, Threads, Idle
  <2> QED
    BY <1>b, <1>1, <1>9, <2>1 DEF endUnsubscribe, subVars
<1>10. ~unsubscribeSteps("acceptor") /\ ~unpin
  <2>1. pub.pin = Nil
    BY <1>a, <1>b DEF PubOK, TopicsTypeOK, Publishes
  <2> QED
    BY <1>b, <2>1 DEF unsubscribeSteps, deleteSubscriber, subscriberCount, deleteTopic,
                      endUnsubscribe, unpin
<1>11. ASSUME NEW c \in Conns, visitSubscriber(c) PROVE OwnOK'
  <2>1. \A d \in Conns : life'[d] # "removed"
    BY <1>a, <1>b, <1>11 DEF visitSubscriber, TopicsTypeOK
  <2> QED
    BY <1>b, <1>1, <1>11, <2>1 DEF visitSubscriber, subVars
<1>12. ASSUME NEW c \in Conns PROVE ~acceptorReleases(c)
  BY <1>b DEF acceptorReleases
<1>13. CASE UNCHANGED <<topic_list, subscribed, task, held, life>>
  BY <1>b, <1>1, <1>13
<1> QED
  BY <1>2, <1>3, <1>4, <1>5, <1>6, <1>7, <1>8, <1>9, <1>10, <1>11, <1>12, <1>13, ZenonT(40)
  DEF TopicsNext, unsubscribeSteps, publishSteps, publish, publishTopic, leaveTopic, endPublish,
      subVars, topicVars

\* With no unsubscribe in progress a client is in the lists of all its topics.
LEMMA ListedAtRest ==
  ASSUME AgreeInv, task["worker"] = Idle, task["acceptor"] = Idle,
         NEW c \in Conns, NEW o \in Objects
  PROVE  c \in subscriber_list[o] <=> \E f \in Filters : subscribed[c][f] = o
<1>1. \A f \in Filters : ~Leaving(c, f)
  BY TopicsAssumption DEF Leaving, Idle
<1> QED
  BY <1>1, AgreesIsEnough DEF AgreeInv, Agrees

\* With one worker no step passes over a subscriber that a publish has to reach.
LEMMA SentStep == AgreeInv /\ OwnOK /\ SentOK /\ [TopicsNext]_topicVars => SentOK'
<1> SUFFICES ASSUME AgreeInv, OwnOK, SentOK, [TopicsNext]_topicVars, ~shared', pub'.name # Nil
             PROVE  SentOK'
  BY DEF SentOK
<1> USE TopicsAssumption
<1>a. TopicsTypeOK /\ PubOK /\ LifeOK /\ OneFilter
  BY DEF AgreeInv
<1>b. ~shared
  BY Zenon DEF TopicsNext, unsubscribeSteps, publishSteps, connect, shutdown, removeConnection,
         acceptorReleases, subscribe, unsubscribe, deleteSubscriber, subscriberCount, deleteTopic,
         endUnsubscribe, publish, publishTopic, visitSubscriber, unpin, leaveTopic, endPublish,
         subVars, topicVars
<1>c. /\ task["acceptor"] = Idle /\ pub.pin = Nil
      /\ \A c \in Conns : ~held[c] /\ life[c] # "removed"
  BY <1>a, <1>b DEF OwnOK, PubOK, TopicsTypeOK, Publishes
<1>d. NoPublish.name = Nil
  BY DEF NoPublish
<1>1. ASSUME NEW n \in Names, publish(n) PROVE SentOK'
  <2>1. /\ pub'.name = n /\ pub'.topic = Nil
        /\ pub'.todo = {f \in Filters : topic_list[f] # Nil /\ <<f, n>> \in Matched}
    BY <1>1 DEF publish, NoPublish
  <2>2. /\ UNCHANGED <<topic_list, subscriber_list, subscribed, life, task>>
        /\ sent' = {} /\ task["worker"] = Idle
    BY <1>1 DEF publish, subVars, WorkerFree
  <2>3. \A c \in Conns, f \in Filters :
          <<f, n>> \in Matched /\ subscribed[c][f] # Nil => f \in pub'.todo
    BY <1>b, <2>1, SMTT(40) DEF OwnOK
  <2> QED
    BY <2>1, <2>2, <2>3 DEF SentOK
<1>2. ASSUME pub.name # Nil PROVE task["worker"] = Idle
  BY <1>b, <1>2 DEF SentOK
<1>3. ASSUME NEW f \in Filters, publishTopic(f) PROVE SentOK'
  <2> DEFINE o == topic_list[f]
  <2>1. /\ pub'.name = pub.name /\ pub'.topic = o /\ pub'.todo = pub.todo \ {f}
        /\ pub'.visit = subscriber_list[o] /\ pub.topic = Nil
        /\ UNCHANGED <<topic_list, subscriber_list, subscribed, life, task, sent>>
    BY <1>a, <1>3 DEF publishTopic, TopicsTypeOK, Publishes, subVars
  <2>2. o \in Objects /\ <<f, pub.name>> \in Matched
    BY <1>a, <1>3 DEF publishTopic, PubOK, TopicsTypeOK
  <2>3. ASSUME NEW c \in Conns, subscribed[c][f] # Nil
        PROVE  subscribed[c][f] = o /\ c \in subscriber_list[o]
    <3>1. subscribed[c][f] = o
      BY <1>b, <2>3 DEF OwnOK
    <3>2. task["worker"] = Idle
      BY <1>2, <2>1
    <3> QED
      BY <1>c, <2>2, <3>1, <3>2, ListedAtRest
  <2>4. ASSUME NEW c \in Conns, NEW g \in Filters,
               life[c] = "live", <<g, pub.name>> \in Matched, subscribed[c][g] # Nil
        PROVE  \/ g \in pub'.todo
               \/ pub'.topic = subscribed[c][g] /\ c \in pub'.visit
               \/ <<c, subscribed[c][g]>> \in sent
    <3>1. CASE g = f
      BY <2>1, <2>3, <2>4, <3>1, SMTT(40)
    <3>2. CASE g # f
      BY <1>b, <2>1, <2>4, <3>2 DEF SentOK
    <3> QED
      BY <3>1, <3>2
  <2> QED
    BY <1>b, <1>2, <2>1, <2>2, <2>4 DEF SentOK
<1>4. ASSUME NEW c \in Conns, visitSubscriber(c) PROVE SentOK'
  <2> DEFINE o == pub.topic
  <2>1. /\ pub'.name = pub.name /\ pub'.topic = o /\ pub'.todo = pub.todo
        /\ pub'.visit = pub.visit \ {c}
        /\ UNCHANGED <<topic_list, subscriber_list, subscribed, task>>
        /\ o # Nil /\ c \in pub.visit /\ task["worker"] = Idle
    BY <1>a, <1>4 DEF visitSubscriber, TopicsTypeOK, Publishes, subVars
  <2>2. /\ \A d \in Conns : life'[d] = "live" => life[d] = "live"
        /\ sent' = IF life[c] = "live" THEN sent \cup {<<c, o>>} ELSE sent
    BY <1>a, <1>4 DEF visitSubscriber, TopicsTypeOK
  <2>3. o \in Objects
    BY <1>a, <2>1 DEF TopicsTypeOK, Publishes
  <2>4. PICK f \in Filters : topic_list[f] = o /\ <<f, pub.name>> \in Matched
    BY <1>b, <2>1 DEF SentOK
  <2>5. subscribed[c][f] = o
    <3>1. c \in subscriber_list[o]
      BY <1>b, <2>1 DEF SentOK
    <3>2. PICK g \in Filters : subscribed[c][g] = o
      BY <1>c, <2>1, <2>3, <3>1, ListedAtRest, SMTT(40)
    <3> QED
      BY <1>a, <2>3, <2>4, <3>2 DEF OneFilter, Uses
  <2>6. \A d \in Conns, x \in Objects : <<d, x>> \in sent' =>
          \E g \in Filters : <<g, pub.name>> \in Matched /\ subscribed[d][g] = x
    <3>1. \A d \in Conns, x \in Objects : <<d, x>> \in sent' =>
            <<d, x>> \in sent \/ (d = c /\ x = o)
      BY <2>2
    <3> QED
      BY <1>b, <2>1, <2>4, <2>5, <3>1, SMTT(40) DEF SentOK
  <2>7. ASSUME NEW d \in Conns, NEW g \in Filters,
               life'[d] = "live", <<g, pub.name>> \in Matched, subscribed[d][g] # Nil
        PROVE  \/ g \in pub'.todo
               \/ pub'.topic = subscribed[d][g] /\ d \in pub'.visit
               \/ <<d, subscribed[d][g]>> \in sent'
    <3>1. \/ g \in pub.todo
          \/ pub.topic = subscribed[d][g] /\ d \in pub.visit
          \/ <<d, subscribed[d][g]>> \in sent
      BY <1>b, <2>1, <2>2, <2>7 DEF SentOK
    <3>2. sent \subseteq sent' /\ (life[c] = "live" => <<c, o>> \in sent')
      BY <2>2
    <3> QED
      BY <2>1, <2>2, <2>7, <3>1, <3>2
  <2>8. pub'.visit \subseteq subscriber_list[o]
    BY <1>b, <2>1 DEF SentOK
  <2> QED
    BY <2>1, <2>4, <2>6, <2>7, <2>8, SMTT(30) DEF SentOK
<1>5. CASE leaveTopic
  <2>1. /\ pub'.name = pub.name /\ pub'.topic = Nil /\ pub'.todo = pub.todo /\ pub.visit = {}
        /\ UNCHANGED <<topic_list, subscriber_list, subscribed, life, task, sent>>
    BY <1>a, <1>5 DEF leaveTopic, TopicsTypeOK, Publishes, subVars
  <2> QED
    BY <1>b, <2>1 DEF SentOK
<1>6. ASSUME NEW c \in Conns, connect(c) PROVE SentOK'
  <2>1. \A d \in Conns : life'[d] = "live" => life[d] = "live" \/ SubscribedTo(d) = {}
    BY <1>a, <1>6 DEF connect, TopicsTypeOK, LifeOK
  <2>2. \A d \in Conns, f \in Filters :
          life'[d] = "live" /\ subscribed[d][f] # Nil => life[d] = "live"
    BY <2>1 DEF SubscribedTo
  <2>3. UNCHANGED <<topic_list, subscriber_list, subscribed, task, pub, sent>>
    BY <1>6 DEF connect, subVars
  <2> QED
    BY <1>b, <2>2, <2>3, SMTT(40) DEF SentOK
<1>7. CASE UNCHANGED topicVars
  BY <1>7, ZenonT(40) DEF topicVars, SentOK
<1>8. ASSUME NEW th \in Threads PROVE ~unsubscribeSteps(th)
  <2>1. unsubscribeSteps(th) => pub' = pub /\ task[th].at # "idle"
    BY Zenon DEF unsubscribeSteps, deleteSubscriber, subscriberCount, deleteTopic, endUnsubscribe
  <2> QED
    BY <1>c, <1>2, <2>1 DEF Idle, Threads
<1>9. ~unpin /\ ~endPublish
  BY <1>c, <1>d DEF unpin, endPublish
<1>10. ASSUME NEW c \in Conns
       PROVE  ~shutdown(c) /\ ~removeConnection(c) /\ ~acceptorReleases(c)
  BY <1>c, <1>d DEF shutdown, removeConnection, acceptorReleases, WorkerFree
<1>11. ASSUME NEW c \in Conns
       PROVE  /\ \A f \in Filters : ~subscribe(c, f)
              /\ \A F \in SUBSET Filters : ~unsubscribe(c, F)
  BY <1>d DEF subscribe, unsubscribe, WorkerFree
<1> QED
  BY <1>1, <1>3, <1>4, <1>5, <1>6, <1>7, <1>8, <1>9, <1>10, <1>11, SMTT(40)
  DEF TopicsNext, publishSteps, Threads

\* The invariants of one worker hold in every reachable state.
LEMMA OwnInvariant == TopicsSpec => [](AgreeInv /\ OwnOK /\ SentOK)
<1>1. TopicsInit => OwnOK /\ SentOK
  <2> SUFFICES ASSUME TopicsInit PROVE OwnOK /\ SentOK
    OBVIOUS
  <2>1. task["worker"].at = "idle" /\ task["acceptor"] = Idle /\ pub.name = Nil
    BY DEF TopicsInit, NoPublish, Idle
  <2>2. OwnOK
    BY <2>1 DEF TopicsInit, OwnOK
  <2>3. SentOK
    BY <2>1 DEF SentOK
  <2> QED
    BY <2>2, <2>3
<1> QED
  BY AgreeInitial, <1>1, AgreeInvariant, OwnStep, SentStep, PTL DEF TopicsSpec

\* With one worker TopicManager lists a topic exactly while it has a subscriber.
THEOREM ListIsExact == TopicsSpec => []ListedWhileSubscribed
<1>1. ASSUME OwnOK PROVE ListedWhileSubscribed
  <2>1. SUFFICES ASSUME ~shared, NEW f \in Filters
                 PROVE  {subscribed[c][f] : c \in Conns} \ {Nil} = {topic_list[f]} \ {Nil}
    BY DEF ListedWhileSubscribed
  <2>2. \A c \in Conns : subscribed[c][f] \in {Nil, topic_list[f]}
    BY <1>1, <2>1 DEF OwnOK
  <2>3. topic_list[f] # Nil => \E c \in Conns : subscribed[c][f] = topic_list[f]
    BY <1>1, <2>1, <2>2 DEF OwnOK
  <2> QED
    BY <2>2, <2>3
<1> QED
  BY OwnInvariant, <1>1, PTL

\* With one worker publish() sends every live client the message for each of its
\* matching subscriptions, and nothing for another.
THEOREM PublishMissesNobody == TopicsSpec => []OwnPublishReachesSubscribers
<1>1. ASSUME AgreeInv, OwnOK, SentOK PROVE OwnPublishReachesSubscribers
  <2>1. SUFFICES ASSUME ~shared, pub.name # Nil, pub.topic = Nil, pub.todo = {}, NEW c \in Conns
                 PROVE  LET topics == {subscribed[c][f] : f \in {g \in SubscribedTo(c) :
                                                             <<g, pub.name>> \in Matched}}
                            got == {o \in Objects : <<c, o>> \in sent}
                        IN  got \subseteq topics /\ (life[c] = "live" => got = topics)
    BY SMTT(40) DEF OwnPublishReachesSubscribers, PublishReachesSubscribers
  <2>2. \A o \in Objects : <<c, o>> \in sent =>
          \E f \in Filters : <<f, pub.name>> \in Matched /\ subscribed[c][f] = o
    BY <1>1, <2>1 DEF SentOK
  <2>3. \A f \in Filters : life[c] = "live" /\ <<f, pub.name>> \in Matched /\ subscribed[c][f] # Nil
          => <<c, subscribed[c][f]>> \in sent
    <3>1. Nil \notin Objects
      BY TopicsAssumption
    <3> QED
      BY <1>1, <2>1, <3>1 DEF SentOK
  <2>4. \A f \in Filters : subscribed[c][f] # Nil => subscribed[c][f] \in Objects
    BY <1>1 DEF AgreeInv, TopicsTypeOK
  <2> QED
    BY <2>2, <2>3, <2>4, TopicsAssumption, Zenon DEF SubscribedTo
<1> QED
  BY OwnInvariant, <1>1, PTL
==============================================================================
