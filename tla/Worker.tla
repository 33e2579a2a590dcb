-------------------------------- MODULE Worker --------------------------------
(***************************************************************************)
(* class Worker (src/ConnectionWorker.cpp): one worker thread sleeping in  *)
(* epoll_wait() on its eventfd, its timerfd, the listening socket and its  *)
(* clients; its EventLoop; its list of connections.  Other threads act on  *)
(* it: publishers queue jobs and signal the eventfd, and acceptors (the    *)
(* other workers, when getWorker() picks this one for a client they        *)
(* accepted) run _addConnection() here, timers and timerfd included.       *)
(***************************************************************************)
EXTENDS EventLoop, FiniteSets

CONSTANTS Conns,       \* the clients getWorker() assigns to this worker
          Acceptors,   \* the other workers' threads
          Publishers,  \* the threads that call Worker::publish()
          Self,        \* the worker's own thread
          NoConn, NoThread

Threads == Acceptors \cup {Self}
SampleTimer == [kind |-> "sample", conn |-> NoConn]
HandshakeTimer(c) == [kind |-> "handshake", conn |-> c]
PingTimer(c) == [kind |-> "ping", conn |-> c]

ASSUME WorkerAssumption ==
  /\ Timers = {SampleTimer} \cup {HandshakeTimer(c) : c \in Conns}
                            \cup {PingTimer(c) : c \in Conns}
  /\ Repeating = {SampleTimer} \cup {PingTimer(c) : c \in Conns}
  /\ \A t \in Timers : Delay[t] > 0
  /\ Self \notin Acceptors
  /\ NoThread \notin Threads
  /\ NoConn \notin Conns
  /\ IsFiniteSet(Conns)

VARIABLES
  wpc,             \* where the worker thread is in _workerMain()
  batch,           \* the worker's own descriptors still to handle of this wake-up
  ready,           \* per client: the event of this wake-up still to handle
  stop_requested,  \* the promise stop() fulfils
  event_fd,        \* is the eventfd readable?
  timer_fd,        \* milliseconds until the timerfd expires, 0: readable, or Disarmed
  conn,            \* per client: its life on this worker
  sock,            \* per client: what its socket has for us
  conn_lock,       \* the thread that holds _connection_list_mutex, or NoThread
  adding,          \* the client that thread is adding, or NoConn
  apc,             \* per thread: where it is in _addConnection()
  armpc,           \* per thread: where it is in _armTimerFd()
  arm_delay,       \* per thread: the delay it computed in _armTimerFd()
  signalling,      \* the publishers between addJob() and _signalWork()
  count            \* _metrics.current_connections_count

workerVars == <<wpc, batch, ready, stop_requested>>
fdVars == <<event_fd, timer_fd>>
clientVars == <<conn, sock>>
addVars == <<conn_lock, adding, apc, count>>
armVars == <<armpc, arm_delay>>
vars == <<loopVars, workerVars, fdVars, clientVars, addVars, armVars, signalling>>

Disarmed == -1

\* conn[c]: "none" not connected, "backlog" waiting for accept(), "http" no
\* handshake yet, "open" WEBSOCKET or SSE, "shut" after Connection::shutdown(),
\* "gone" out of the list and destroyed.
InList == {c \in Conns : conn[c] \in {"http", "open", "shut"}}
Backlog == {c \in Conns : conn[c] = "backlog"}

Init ==
  /\ LoopInit
  /\ wpc = "start"
  /\ batch = {}
  /\ ready = [c \in Conns |-> "none"]
  /\ stop_requested = FALSE
  /\ event_fd = FALSE
  /\ timer_fd = Disarmed
  /\ conn = [c \in Conns |-> "none"]
  /\ sock = [c \in Conns |-> "quiet"]
  /\ conn_lock = NoThread
  /\ adding = NoConn
  /\ apc = [x \in Threads |-> "idle"]
  /\ armpc = [x \in Threads |-> "no"]
  /\ arm_delay = [x \in Threads |-> Disarmed]
  /\ signalling = {}
  /\ count = 0

(***************************************************************************)
(* _armTimerFd(), by any thread: read the next fire time, then set the     *)
(* timerfd; a zero delay is set to a nanosecond, no next timer disarms it. *)
(***************************************************************************)
armRead(x) ==
  /\ armpc[x] = "read"
  /\ arm_delay' = [arm_delay EXCEPT ![x] = IF next_fire = Zero THEN Disarmed ELSE next_fire]
  /\ armpc' = [armpc EXCEPT ![x] = "set"]
  /\ UNCHANGED <<loopVars, workerVars, fdVars, clientVars, addVars, signalling>>

armSet(x) ==
  /\ armpc[x] = "set"
  /\ timer_fd' = arm_delay[x]
  /\ armpc' = [armpc EXCEPT ![x] = "no"]
  /\ arm_delay' = [arm_delay EXCEPT ![x] = Disarmed]
  /\ UNCHANGED <<loopVars, workerVars, event_fd, clientVars, addVars, signalling>>

\* Mutant: _timer_queue_lock is not taken.
workerAddTimerUnlocked(x, t) ==
  /\ armpc[x] = "no"
  /\ t \notin Queued
  /\ next_fire' = decreaseNextFiretimeIfLess(next_fire, Delay[t])
  /\ timer_queue' = [timer_queue EXCEPT ![t] = Delay[t]]
  /\ UNCHANGED <<jobVars, at, visit, due>>
  /\ armpc' = [armpc EXCEPT ![x] = "read"]
  /\ UNCHANGED arm_delay

\* Worker::addTimer() on thread x, up to where it goes on to _armTimerFd().
workerAddTimer(x, t) ==
  /\ armpc[x] = "no"
  /\ addTimer(t)
  /\ armpc' = [armpc EXCEPT ![x] = "read"]
  /\ UNCHANGED arm_delay

(***************************************************************************)
(* _addConnection(), on the thread that accepted the client.               *)
(***************************************************************************)
MayAccept(x) ==
  /\ apc[x] = "idle"
  /\ x = Self => wpc = "events" /\ "listen" \in batch

\* The client is inserted, its callbacks set, its socket added to epoll.
addConnection(x, c) ==
  /\ MayAccept(x)
  /\ c \in Backlog
  /\ conn_lock = NoThread
  /\ conn_lock' = x
  /\ adding' = c
  /\ apc' = [apc EXCEPT ![x] = "handshake"]
  /\ conn' = [conn EXCEPT ![c] = "http"]
  /\ UNCHANGED <<loopVars, workerVars, fdVars, sock, count, armVars, signalling>>

\* Mutant: the client stays in the list.
addConnectionFailsListed(x, c) ==
  /\ MayAccept(x)
  /\ c \in Backlog
  /\ conn_lock = NoThread
  /\ conn' = [conn EXCEPT ![c] = "shut"]
  /\ UNCHANGED <<loopVars, workerVars, fdVars, sock, addVars, armVars, signalling>>

\* addToEpoll() fails: the client is erased from the list and destroyed.
addConnectionFails(x, c) ==
  /\ MayAccept(x)
  /\ c \in Backlog
  /\ conn_lock = NoThread
  /\ conn' = [conn EXCEPT ![c] = "gone"]
  /\ UNCHANGED <<loopVars, workerVars, fdVars, sock, addVars, armVars, signalling>>

addHandshakeTimer(x) ==
  /\ apc[x] = "handshake"
  /\ workerAddTimer(x, HandshakeTimer(adding))
  /\ apc' = [apc EXCEPT ![x] = "ping"]
  /\ UNCHANGED <<workerVars, fdVars, clientVars, conn_lock, adding, count, signalling>>

addPingTimer(x) ==
  /\ apc[x] = "ping"
  /\ workerAddTimer(x, PingTimer(adding))
  /\ apc' = [apc EXCEPT ![x] = "count"]
  /\ UNCHANGED <<workerVars, fdVars, clientVars, conn_lock, adding, count, signalling>>

endAddConnection(x) ==
  /\ apc[x] = "count"
  /\ armpc[x] = "no"
  /\ count' = count + 1
  /\ conn_lock' = NoThread
  /\ adding' = NoConn
  /\ apc' = [apc EXCEPT ![x] = "idle"]
  /\ UNCHANGED <<loopVars, workerVars, fdVars, clientVars, armVars, signalling>>

threadSteps(x) ==
  \/ addHandshakeTimer(x) \/ addPingTimer(x) \/ endAddConnection(x)
  \/ armRead(x) \/ armSet(x)

(***************************************************************************)
(* _workerMain(), on the worker's own thread.                              *)
(***************************************************************************)
\* Before the loop: the repeating timer that samples the loop's delay.
start ==
  /\ wpc = "start"
  /\ workerAddTimer(Self, SampleTimer)
  /\ wpc' = "loop"
  /\ UNCHANGED <<batch, ready, stop_requested, fdVars, clientVars, addVars, signalling>>

\* while (!stopRequested()), once _armTimerFd() of the last round is done.
loop ==
  /\ wpc = "loop"
  /\ armpc[Self] = "no"
  /\ wpc' = IF stop_requested THEN "exit" ELSE "wait"
  /\ UNCHANGED <<loopVars, batch, ready, stop_requested, fdVars, clientVars, addVars, armVars, signalling>>

\* What epoll reports.  After shutdown() a socket reports EPOLLHUP.
Signalled ==
  {fd \in {"event", "timer", "listen"} :
     \/ fd = "event" /\ event_fd
     \/ fd = "timer" /\ timer_fd = 0
     \/ fd = "listen" /\ Backlog # {}}
Events == [c \in Conns |->
  IF c \notin InList THEN "none"
  ELSE IF conn[c] = "shut" \/ sock[c] = "hup" THEN "hup"
  ELSE IF sock[c] = "data" THEN "in" ELSE "none"]

Reported == Signalled # {} \/ \E c \in Conns : Events[c] # "none"

epollWait ==
  /\ wpc = "wait"
  /\ Reported
  /\ batch' = Signalled
  /\ ready' = Events
  /\ wpc' = "events"
  /\ UNCHANGED <<loopVars, stop_requested, fdVars, clientVars, addVars, armVars, signalling>>

\* A signal interrupts the sleep: epoll_wait() returns -1, the round goes on.
epollInterrupted ==
  /\ wpc = "wait"
  /\ ~Reported
  /\ wpc' = "events"
  /\ UNCHANGED <<loopVars, batch, ready, stop_requested, fdVars, clientVars, addVars, armVars, signalling>>

Handling == wpc = "events" /\ apc[Self] = "idle"

drainEventFd ==
  /\ Handling
  /\ "event" \in batch
  /\ batch' = batch \ {"event"}
  /\ event_fd' = FALSE
  /\ UNCHANGED <<loopVars, wpc, ready, stop_requested, timer_fd, clientVars, addVars, armVars, signalling>>

\* A timerfd that was set anew since epoll_wait() has nothing to read.
drainTimerFd ==
  /\ Handling
  /\ "timer" \in batch
  /\ batch' = batch \ {"timer"}
  /\ timer_fd' = IF timer_fd = 0 THEN Disarmed ELSE timer_fd
  /\ UNCHANGED <<loopVars, wpc, ready, stop_requested, event_fd, clientVars, addVars, armVars, signalling>>

\* accept() has nothing more (EAGAIN) or fails (EMFILE, others).
endAccept ==
  /\ Handling
  /\ "listen" \in batch
  /\ batch' = batch \ {"listen"}
  /\ UNCHANGED <<loopVars, wpc, ready, stop_requested, fdVars, clientVars, addVars, armVars, signalling>>

\* Mutant: _removeConnection() takes the list's mutex a second time.
removeConnectionRelocks(c) ==
  /\ Handling
  /\ ready[c] = "hup"
  /\ conn_lock = NoThread
  /\ conn_lock' = Self
  /\ UNCHANGED <<loopVars, workerVars, fdVars, clientVars, adding, count, apc, armVars, signalling>>

\* EPOLLHUP, EPOLLERR, EPOLLRDHUP or an earlier shutdown(): _removeConnection().
removeConnection(c) ==
  /\ Handling
  /\ ready[c] = "hup"
  /\ conn_lock = NoThread
  /\ ready' = [ready EXCEPT ![c] = "none"]
  /\ conn' = [conn EXCEPT ![c] = "gone"]
  /\ count' = count - 1
  /\ UNCHANGED <<loopVars, wpc, batch, stop_requested, fdVars, sock, conn_lock, adding, apc, armVars, signalling>>

\* EPOLLIN: the handlers complete the handshake, shut the client down, or neither.
readClient(c) ==
  /\ Handling
  /\ ready[c] = "in"
  /\ ready' = [ready EXCEPT ![c] = "none"]
  /\ sock' = [sock EXCEPT ![c] = IF @ = "data" THEN "quiet" ELSE @]
  /\ \E s \in {conn[c], "open", "shut"} : conn' = [conn EXCEPT ![c] = s]
  /\ UNCHANGED <<loopVars, wpc, batch, stop_requested, fdVars, addVars, armVars, signalling>>

\* The batch is handled: _ev->process() begins.
beginProcess ==
  /\ Handling
  /\ batch = {}
  /\ \A c \in Conns : ready[c] = "none"
  /\ wpc' = "process"
  /\ beginJobs
  /\ UNCHANGED <<batch, ready, stop_requested, fdVars, clientVars, addVars, armVars, signalling>>

\* A job publishes to the clients: a write that overflows shuts a client down.
ShutSome(S) == \E T \in SUBSET {c \in S : conn[c] = "open"} :
  conn' = [c \in Conns |-> IF c \in T THEN "shut" ELSE conn[c]]

runJob ==
  /\ wpc = "process"
  /\ callJob
  /\ ShutSome(Conns)
  /\ UNCHANGED <<workerVars, fdVars, sock, addVars, armVars, signalling>>

\* The other steps of process(), those that call no callback.
processStep ==
  /\ wpc = "process"
  /\ endJobs \/ beginTimers \/ \E t \in Timers : passTimer(t)
  /\ UNCHANGED <<workerVars, fdVars, clientVars, addVars, armVars, signalling>>

\* Mutant: the eventfd is drained after the jobs, not before.
endProcessDrains ==
  /\ wpc = "process"
  /\ skipTimers \/ endTimers
  /\ wpc' = "loop"
  /\ armpc' = [armpc EXCEPT ![Self] = "read"]
  /\ event_fd' = FALSE
  /\ UNCHANGED <<batch, ready, stop_requested, timer_fd, clientVars, addVars, arm_delay, signalling>>

\* Mutant: the timerfd is not armed anew.
endProcessUnarmed ==
  /\ wpc = "process"
  /\ skipTimers \/ endTimers
  /\ wpc' = "loop"
  /\ UNCHANGED <<batch, ready, stop_requested, fdVars, clientVars, addVars, armVars, signalling>>

\* process() returns; _armTimerFd() begins.
endProcess ==
  /\ wpc = "process"
  /\ skipTimers \/ endTimers
  /\ wpc' = "loop"
  /\ armpc' = [armpc EXCEPT ![Self] = "read"]
  /\ UNCHANGED <<batch, ready, stop_requested, fdVars, clientVars, addVars, arm_delay, signalling>>

\* Mutant: the sample timer does not repeat.
fireSampleOnce ==
  /\ wpc = "process"
  /\ fireTimer(SampleTimer, FALSE)
  /\ UNCHANGED <<workerVars, fdVars, clientVars, addVars, armVars, signalling>>

fireSample ==
  /\ wpc = "process"
  /\ fireTimer(SampleTimer, TRUE)
  /\ UNCHANGED <<workerVars, fdVars, clientVars, addVars, armVars, signalling>>

\* Mutant: the client is not shut down.
fireHandshakeIdle(c) ==
  /\ wpc = "process"
  /\ fireTimer(HandshakeTimer(c), FALSE)
  /\ UNCHANGED conn
  /\ UNCHANGED <<workerVars, fdVars, sock, addVars, armVars, signalling>>

fireHandshake(c) ==
  /\ wpc = "process"
  /\ fireTimer(HandshakeTimer(c), FALSE)
  /\ conn' = [conn EXCEPT ![c] = IF @ = "http" THEN "shut" ELSE @]
  /\ UNCHANGED <<workerVars, fdVars, sock, addVars, armVars, signalling>>

\* Mutant: a client without a handshake loses its ping timer.
firePingOpenOnly(c) ==
  /\ wpc = "process"
  /\ fireTimer(PingTimer(c), conn[c] \in {"open"})
  /\ ShutSome({c})
  /\ UNCHANGED <<workerVars, fdVars, sock, addVars, armVars, signalling>>

\* The ping ends with its client; the write of a ping may overflow too.
firePing(c) ==
  /\ wpc = "process"
  /\ fireTimer(PingTimer(c), conn[c] \in {"http", "open"})
  /\ ShutSome({c})
  /\ UNCHANGED <<workerVars, fdVars, sock, addVars, armVars, signalling>>

workerSteps ==
  \/ start \/ loop \/ epollWait \/ drainEventFd \/ drainTimerFd \/ endAccept
  \/ beginProcess \/ runJob \/ processStep \/ endProcess \/ fireSample
  \/ \E c \in Conns : removeConnection(c) \/ readClient(c)
  \/ \E c \in Conns : fireHandshake(c) \/ firePing(c)

(***************************************************************************)
(* The other threads and the clients.                                      *)
(***************************************************************************)
\* Worker::publish(): addJob(), then _signalWork().
publish(p, j) ==
  /\ p \notin signalling
  /\ addJob(j)
  /\ signalling' = signalling \cup {p}
  /\ UNCHANGED <<workerVars, fdVars, clientVars, addVars, armVars>>

signalWork(p) ==
  /\ p \in signalling
  /\ event_fd' = TRUE
  /\ signalling' = signalling \ {p}
  /\ UNCHANGED <<loopVars, workerVars, timer_fd, clientVars, addVars, armVars>>

\* WorkerBase::stop(): it fulfils the promise and signals nothing.
stop ==
  /\ ~stop_requested
  /\ stop_requested' = TRUE
  /\ UNCHANGED <<loopVars, wpc, batch, ready, fdVars, clientVars, addVars, armVars, signalling>>

clientConnects(c) ==
  /\ conn[c] = "none"
  /\ conn' = [conn EXCEPT ![c] = "backlog"]
  /\ UNCHANGED <<loopVars, workerVars, fdVars, sock, addVars, armVars, signalling>>

clientSends(c) ==
  /\ conn[c] \in {"http", "open"}
  /\ sock[c] = "quiet"
  /\ sock' = [sock EXCEPT ![c] = "data"]
  /\ UNCHANGED <<loopVars, workerVars, fdVars, conn, addVars, armVars, signalling>>

clientHangsUp(c) ==
  /\ c \in InList
  /\ sock[c] # "hup"
  /\ sock' = [sock EXCEPT ![c] = "hup"]
  /\ UNCHANGED <<loopVars, workerVars, fdVars, conn, addVars, armVars, signalling>>

timePasses ==
  /\ Tick
  /\ timer_fd' = left(timer_fd)
  /\ UNCHANGED <<workerVars, event_fd, clientVars, addVars, armVars, signalling>>

Next ==
  \/ workerSteps \/ epollInterrupted \/ stop \/ timePasses
  \/ \E x \in Threads : threadSteps(x)
  \/ \E x \in Threads, c \in Conns : addConnection(x, c) \/ addConnectionFails(x, c)
  \/ \E p \in Publishers, j \in Jobs : publish(p, j)
  \/ \E p \in Publishers : signalWork(p)
  \/ \E c \in Conns : clientConnects(c) \/ clientSends(c) \/ clientHangsUp(c)

Spec == Init /\ [][Next]_vars

\* Every thread keeps running and time passes; a thread that waits for a mutex
\* that is released again and again obtains it; clients owe us nothing.
Fairness ==
  /\ SF_vars(workerSteps)
  /\ WF_vars(timePasses)
  /\ \A x \in Threads : SF_vars(threadSteps(x))
  /\ \A p \in Publishers : WF_vars(signalWork(p))
FairSpec == Spec /\ Fairness
------------------------------------------------------------------------------
(***************************************************************************)
(* Properties                                                              *)
(***************************************************************************)
\* The fields hold values of their C++ types; the locks have one holder.
TypeOK ==
  /\ LoopTypeOK
  /\ wpc \in {"start", "loop", "wait", "events", "process", "exit"}
  /\ batch \subseteq {"event", "timer", "listen"}
  /\ ready \in [Conns -> {"none", "in", "hup"}]
  /\ stop_requested \in BOOLEAN
  /\ event_fd \in BOOLEAN
  /\ timer_fd \in Milliseconds
  /\ conn \in [Conns -> {"none", "backlog", "http", "open", "shut", "gone"}]
  /\ sock \in [Conns -> {"quiet", "data", "hup"}]
  /\ conn_lock \in Threads \cup {NoThread}
  /\ adding \in Conns \cup {NoConn}
  /\ apc \in [Threads -> {"idle", "handshake", "ping", "count"}]
  /\ armpc \in [Threads -> {"no", "read", "set"}]
  /\ arm_delay \in [Threads -> Milliseconds]
  /\ signalling \subseteq Publishers
  /\ count \in Nat

\* publish() loses no wake-up: a worker that sleeps over a queued job has its
\* eventfd readable, or the publisher of a job is about to signal it.  The
\* drain of the eventfd comes before processJobs(), never after it.
NoLostWakeup ==
  wpc = "wait" /\ job_queue # <<>> => event_fd \/ signalling # {}

\* A worker that sleeps over queued timers has its timerfd armed or expired.
\* It holds when one thread runs _armTimerFd(); an acceptor's stale read of
\* the next fire time breaks it.
ArmedWhileAsleep ==
  wpc = "wait" /\ Queued # {} => timer_fd # Disarmed

\* Once _addConnection() is done with a client, the client has its handshake
\* timer while it owes a handshake and its ping timer while it is open: no
\* callback, removal or shutdown in between loses one.
ClientsHaveTimers ==
  \A c \in Conns : adding # c =>
    /\ conn[c] = "http" => HandshakeTimer(c) \in Queued
    /\ conn[c] \in {"http", "open"} => PingTimer(c) \in Queued

\* Whenever _connection_list_mutex is free, current_connections_count is the
\* length of the connection list, although the socket is in epoll, and the
\* client may hang up, before _addConnection() counts it.
CountIsListLength ==
  conn_lock = NoThread => count = Cardinality(InList)

\* A published job is called by processJobs(), unless the worker is told to stop.
\* The eventfd or the next sample timer wakes the worker; that the eventfd alone
\* does is NoLostWakeup.
PublishedIsCalled ==
  \A j \in Jobs : (j \in Range(added)) ~> (j \in Range(ran) \/ stop_requested)

\* A client that is shut down, by whatever callback, leaves the list.
ShutIsRemoved ==
  \A c \in Conns : (conn[c] = "shut") ~> (conn[c] = "gone" \/ stop_requested)

\* "Disconnect client if successful websocket handshake hasn't occurred in 10
\* seconds": a client does not stay without a handshake for ever.
HandshakeTimesOut ==
  \A c \in Conns : (conn[c] = "http") ~> (conn[c] # "http" \/ stop_requested)

\* stop() ends the worker thread although it signals no descriptor: the
\* repeating sample timer wakes the worker.
StopEnds == stop_requested ~> (wpc = "exit")
==============================================================================
