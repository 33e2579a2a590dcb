----------------------------- MODULE WorkerProofs ------------------------------
(***************************************************************************)
(* Proofs about Worker, for any number of clients, acceptors, publishers   *)
(* and jobs and any delays: the worker's steps are steps of its event      *)
(* loop, publish() loses no wake-up, the connection count is exact, every  *)
(* client has its timers, and a worker that accepts its clients itself     *)
(* never sleeps over them with its timerfd disarmed.                       *)
(***************************************************************************)
EXTENDS Worker, EventLoopProofs, FiniteSetTheorems

\* The connection list and its mutex.  The thread in _addConnection() is the one
\* that holds the mutex; the client it adds is in the list but not counted yet;
\* an event still to be handled is of a client in the list.
ListInv ==
  /\ conn_lock = NoThread => adding = NoConn
  /\ conn_lock # NoThread => adding \in InList
  /\ \A x \in Threads : apc[x] = "idle" <=> conn_lock # x
  /\ \A c \in Conns : ready[c] # "none" => c \in InList
  /\ count = Cardinality(InList \ {adding})

\* A queued job will be seen: its publisher is about to signal, the eventfd is
\* readable, or the worker is awake and has processJobs() ahead of it or runs it.
WakeInv ==
  job_queue # <<>> =>
    \/ event_fd \/ signalling # {}
    \/ wpc = "events"
    \/ wpc = "process" /\ at = "jobs"

\* What the clients' timers rest on.  Events wait to be handled only in the middle
\* of a wake-up, and none of them is input of a client that is shut down, so no
\* handler opens a client again after its ping timer ended.  The thread in
\* _addConnection() queues the handshake timer first, then the ping timer.
ClientInv ==
  /\ \A c \in Conns : ready[c] # "none" => wpc = "events"
  /\ \A c \in Conns : ready[c] = "in" => conn[c] \in {"http", "open"}
  /\ \A c \in Conns : adding = c => apc[conn_lock] \in {"handshake", "ping", "count"}
  /\ \A c \in Conns : adding # c \/ apc[conn_lock] # "handshake"
       => (conn[c] = "http" => HandshakeTimer(c) \in Queued)
  /\ \A c \in Conns : adding # c \/ apc[conn_lock] = "count"
       => (conn[c] \in {"http", "open"} => PingTimer(c) \in Queued)

\* Why the timerfd is armed while the worker sleeps, when only the worker's own
\* thread runs _armTimerFd(): between reading the next fire time and setting the
\* timerfd nobody queues or fires a timer, and the worker passes both steps on its
\* way to epoll_wait().
ArmInv ==
  /\ at # "out" => wpc = "process"
  /\ apc[Self] # "idle" => wpc = "events"
  /\ armpc[Self] # "no" => wpc = "loop" \/ apc[Self] # "idle"
  /\ armpc[Self] = "set" /\ Queued # {} => arm_delay[Self] # Disarmed
  /\ wpc = "wait" \/ (wpc = "loop" /\ armpc[Self] = "no")
       => (Queued # {} => timer_fd # Disarmed)

\* The inductive invariant.
WorkerInv == LoopInv /\ TypeOK /\ ListInv /\ WakeInv /\ ClientInv

\* The set of clients in the list is finite, so counting it makes sense.
LEMMA InListFinite == IsFiniteSet(InList) /\ InList \subseteq Conns
  BY WorkerAssumption, FS_Subset DEF InList

\* The initial state satisfies the invariant.
LEMMA WorkerInitInv == Init => WorkerInv
<1> SUFFICES ASSUME Init PROVE WorkerInv
  OBVIOUS
<1> USE WorkerAssumption DEF Init
<1>1. LoopInv
  BY LoopInitInv
<1>2. TypeOK
  BY <1>1, Zenon DEF LoopInv, TypeOK, Threads, Disarmed, Milliseconds
<1>3. ListInv
  <2>1. InList = {} /\ InList \ {adding} = {}
    BY DEF InList
  <2> QED BY <2>1, FS_EmptySet DEF ListInv, Threads
<1>4. WakeInv
  BY DEF WakeInv, LoopInit
<1>5. ClientInv
  BY DEF ClientInv
<1> QED BY <1>1, <1>2, <1>3, <1>4, <1>5 DEF WorkerInv

(***************************************************************************)
(* Refinement.                                                             *)
(***************************************************************************)
\* A thread in _addConnection() holds a client, so its timers are timers of the loop.
LEMMA AddingIsClient ==
  ASSUME ListInv, NEW x \in Threads, apc[x] # "idle"
  PROVE  adding \in Conns /\ HandshakeTimer(adding) \in Timers /\ PingTimer(adding) \in Timers
<1>1. adding \in Conns
  BY WorkerAssumption, InListFinite DEF ListInv
<1> QED BY <1>1, WorkerAssumption

\* Every step of a thread or a client is a step of the event loop, or leaves it alone.
LEMMA StepIsLoopStep == ListInv /\ [Next]_vars => [LoopNext]_loopVars
<1> SUFFICES ASSUME ListInv, [Next]_vars PROVE [LoopNext]_loopVars
  OBVIOUS
<1> USE WorkerAssumption
<1>1. CASE UNCHANGED vars
  BY <1>1 DEF vars
<1>2. ASSUME NEW x \in Threads, threadSteps(x) PROVE [LoopNext]_loopVars
  <2>1. CASE addHandshakeTimer(x)
    BY <2>1, AddingIsClient DEF addHandshakeTimer, workerAddTimer, LoopNext
  <2>2. CASE addPingTimer(x)
    BY <2>2, AddingIsClient DEF addPingTimer, workerAddTimer, LoopNext
  <2>3. CASE endAddConnection(x) \/ armRead(x) \/ armSet(x)
    BY <2>3 DEF endAddConnection, armRead, armSet
  <2> QED BY <1>2, <2>1, <2>2, <2>3 DEF threadSteps
<1>3. ASSUME NEW x \in Threads, NEW c \in Conns, addConnection(x, c) \/ addConnectionFails(x, c)
      PROVE [LoopNext]_loopVars
  BY <1>3 DEF addConnection, addConnectionFails
<1>4. CASE start
  BY <1>4 DEF start, workerAddTimer, LoopNext
<1>5. CASE loop \/ epollWait \/ epollInterrupted \/ drainEventFd \/ drainTimerFd \/ endAccept \/ stop
  BY <1>5 DEF loop, epollWait, epollInterrupted, drainEventFd, drainTimerFd, endAccept, stop
<1>6. CASE beginProcess \/ runJob \/ processStep \/ endProcess
  BY <1>6 DEF beginProcess, runJob, processStep, endProcess, LoopNext, process
<1>7. CASE fireSample
  BY <1>7, Zenon DEF fireSample, LoopNext, process
<1>8. ASSUME NEW c \in Conns, fireHandshake(c) PROVE LoopNext
  <2>1. HandshakeTimer(c) \in Timers /\ fireTimer(HandshakeTimer(c), FALSE)
    BY <1>8, Zenon DEF fireHandshake
  <2> QED BY <2>1, Zenon DEF LoopNext, process
<1>9. ASSUME NEW c \in Conns, firePing(c) PROVE LoopNext
  <2>1. PingTimer(c) \in Timers /\ fireTimer(PingTimer(c), conn[c] \in {"http", "open"})
    BY <1>9 DEF firePing
  <2>2. (conn[c] \in {"http", "open"}) \in BOOLEAN
    OBVIOUS
  <2> QED BY <2>1, <2>2, Zenon DEF LoopNext, process
<1>10. ASSUME NEW c \in Conns, removeConnection(c) \/ readClient(c) PROVE [LoopNext]_loopVars
  BY <1>10 DEF removeConnection, readClient
<1>11. ASSUME NEW p \in Publishers, NEW j \in Jobs, publish(p, j) PROVE LoopNext
  BY <1>11 DEF publish, LoopNext
<1>12. ASSUME NEW p \in Publishers, signalWork(p) PROVE [LoopNext]_loopVars
  BY <1>12 DEF signalWork
<1>13. ASSUME NEW c \in Conns, clientConnects(c) \/ clientSends(c) \/ clientHangsUp(c)
       PROVE [LoopNext]_loopVars
  BY <1>13 DEF clientConnects, clientSends, clientHangsUp
<1>14. CASE timePasses
  BY <1>14 DEF timePasses, LoopNext
<1> QED
  BY <1>1, <1>2, <1>3, <1>4, <1>5, <1>6, <1>7, <1>8, <1>9, <1>10, <1>11, <1>12, <1>13, <1>14
  DEF Next, workerSteps

(***************************************************************************)
(* The connection list.                                                    *)
(***************************************************************************)
\* Every step keeps the count exact and the mutex's holder the thread that adds.
LEMMA ListStep == TypeOK /\ ListInv /\ [Next]_vars => ListInv'
<1> SUFFICES ASSUME TypeOK, ListInv, [Next]_vars PROVE ListInv'
  OBVIOUS
<1> USE WorkerAssumption DEF TypeOK
<1>1. ASSUME InList' = InList, UNCHANGED <<conn_lock, adding, count>>,
             \A x \in Threads : apc'[x] = "idle" <=> apc[x] = "idle",
             \A c \in Conns : ready'[c] # "none" => c \in InList
      PROVE  ListInv'
  BY <1>1 DEF ListInv
<1>2. ASSUME UNCHANGED <<conn, addVars, ready>> PROVE ListInv'
  BY <1>2, <1>1 DEF ListInv, InList, addVars
<1>3. ASSUME NEW x \in Threads, NEW c \in Conns, addConnection(x, c) PROVE ListInv'
  <2>1. InList' = InList \cup {c} /\ c \notin InList
    BY <1>3 DEF addConnection, InList, Backlog
  <2>2. adding = NoConn /\ adding' = c /\ conn_lock' = x /\ x # NoThread
        /\ conn_lock = NoThread /\ UNCHANGED <<count, ready>>
    BY <1>3 DEF addConnection, ListInv, workerVars, Threads
  <2>3. InList' \ {adding'} = InList \ {adding}
    BY <2>1, <2>2 DEF InList
  <2>4. \A y \in Threads : apc'[y] = "idle" <=> conn_lock' # y
    BY <1>3, <2>2 DEF addConnection, ListInv, Threads
  <2> QED BY <2>1, <2>2, <2>3, <2>4, Zenon DEF ListInv
<1>4. ASSUME NEW x \in Threads, NEW c \in Conns, addConnectionFails(x, c) PROVE ListInv'
  <2>1. InList' = InList
    BY <1>4 DEF addConnectionFails, InList, Backlog
  <2> QED BY <1>1, <1>4, <2>1 DEF addConnectionFails, ListInv, addVars, workerVars
<1>5. ASSUME NEW x \in Threads, addHandshakeTimer(x) \/ addPingTimer(x) PROVE ListInv'
  <2>1. InList' = InList
    BY <1>5 DEF addHandshakeTimer, addPingTimer, InList, clientVars
  <2> QED BY <1>1, <1>5, <2>1 DEF addHandshakeTimer, addPingTimer, ListInv, workerVars
<1>6. ASSUME NEW x \in Threads, endAddConnection(x) PROVE ListInv'
  <2>1. InList' = InList /\ conn_lock = x /\ conn_lock' = NoThread /\ adding' = NoConn
        /\ count' = count + 1 /\ ready' = ready /\ adding \in InList
    BY <1>6 DEF endAddConnection, InList, clientVars, workerVars, ListInv, Threads
  <2>2. Cardinality(InList) = Cardinality(InList \ {adding}) + 1
    <3>1. Cardinality(InList \ {adding}) = Cardinality(InList) - 1 /\ Cardinality(InList) \in Nat
      BY <2>1, InListFinite, FS_RemoveElement, FS_CardinalityType
    <3> QED BY <3>1
  <2>3. InList \ {NoConn} = InList
    BY DEF InList
  <2>4. \A y \in Threads : apc'[y] = "idle"
    BY <1>6, <2>1 DEF endAddConnection, ListInv, Threads
  <2> QED BY <2>1, <2>2, <2>3, <2>4, ZenonT(40) DEF ListInv, Threads
<1>7. ASSUME NEW c \in Conns, removeConnection(c) PROVE ListInv'
  <2>1. InList' = InList \ {c} /\ c \in InList
    BY <1>7 DEF removeConnection, InList, ListInv
  <2>2. adding = NoConn /\ conn_lock = NoThread /\ UNCHANGED <<conn_lock, adding, apc>>
        /\ count' = count - 1
    BY <1>7 DEF removeConnection, ListInv
  <2>3. InList \ {adding} = InList /\ InList' \ {adding'} = InList \ {c}
    BY <2>1, <2>2 DEF InList
  <2>4. Cardinality(InList \ {c}) = Cardinality(InList) - 1
    BY <2>1, InListFinite, FS_RemoveElement, ZenonT(40)
  <2>5. \A d \in Conns : ready'[d] # "none" => d \in InList'
    BY <1>7, <2>1 DEF removeConnection, ListInv
  <2> QED BY <2>1, <2>2, <2>3, <2>4, <2>5, ZenonT(40) DEF ListInv
<1>8. ASSUME NEW c \in Conns, readClient(c) PROVE ListInv'
  <2>1. InList' = InList
    BY <1>8 DEF readClient, InList, ListInv
  <2> QED BY <1>1, <1>8, <2>1 DEF readClient, ListInv, addVars
<1>9. CASE epollWait
  <2>1. \A c \in Conns : ready'[c] # "none" => c \in InList
    BY <1>9 DEF epollWait, Events
  <2> QED BY <1>1, <1>9, <2>1 DEF epollWait, InList, clientVars, addVars
<1>10. ASSUME NEW S \in SUBSET Conns, ShutSome(S), UNCHANGED <<addVars, ready>> PROVE ListInv'
  <2>1. InList' = InList
    BY <1>10 DEF ShutSome, InList
  <2> QED BY <1>1, <1>10, <2>1 DEF ListInv, addVars
<1>11. ASSUME NEW c \in Conns, fireHandshake(c) PROVE ListInv'
  <2>1. InList' = InList
    BY <1>11 DEF fireHandshake, InList
  <2> QED BY <1>1, <1>11, <2>1 DEF fireHandshake, ListInv, addVars, workerVars
<1>12. ASSUME NEW c \in Conns, clientConnects(c) PROVE ListInv'
  <2>1. InList' = InList
    BY <1>12 DEF clientConnects, InList
  <2> QED BY <1>1, <1>12, <2>1 DEF clientConnects, ListInv, addVars, workerVars
<1>13. CASE runJob \/ \E c \in Conns : firePing(c)
  BY <1>10, <1>13, Zenon DEF runJob, firePing, workerVars
<1>14. ASSUME NEW x \in Threads, armRead(x) \/ armSet(x) PROVE ListInv'
  BY <1>2, <1>14 DEF armRead, armSet, clientVars, workerVars
<1>15. CASE start \/ loop \/ epollInterrupted \/ drainEventFd \/ drainTimerFd \/ endAccept \/ beginProcess
  BY <1>2, <1>15 DEF start, loop, epollInterrupted, drainEventFd, drainTimerFd, endAccept, beginProcess, clientVars
<1>16. CASE processStep \/ endProcess \/ fireSample \/ stop \/ timePasses \/ UNCHANGED vars
  BY <1>2, <1>16, Zenon DEF processStep, endProcess, fireSample, stop, timePasses, vars, clientVars, workerVars
<1>17. ASSUME NEW p \in Publishers, NEW j \in Jobs, publish(p, j) PROVE ListInv'
  BY <1>2, <1>17 DEF publish, clientVars, workerVars
<1>18. ASSUME NEW p \in Publishers, signalWork(p) PROVE ListInv'
  BY <1>2, <1>18 DEF signalWork, clientVars, workerVars
<1>19. ASSUME NEW c \in Conns, clientSends(c) \/ clientHangsUp(c) PROVE ListInv'
  BY <1>2, <1>19 DEF clientSends, clientHangsUp, workerVars
<1> QED
  BY <1>3, <1>4, <1>5, <1>6, <1>7, <1>8, <1>9, <1>11, <1>12, <1>13, <1>14, <1>15, <1>16, <1>17, <1>18, <1>19, SMTT(40)
  DEF Next, workerSteps, threadSteps

(***************************************************************************)
(* Types.  The loop's own fields are the loop's matter (LoopTypeStep).     *)
(***************************************************************************)
\* Every step keeps the fields' types.
LEMMA TypeStep == TypeOK /\ ListInv /\ ListInv' /\ LoopTypeOK' /\ [Next]_vars => TypeOK'
<1> SUFFICES ASSUME TypeOK, ListInv, ListInv', LoopTypeOK', [Next]_vars PROVE TypeOK'
  OBVIOUS
<1> USE WorkerAssumption DEF TypeOK, Milliseconds, Disarmed
<1>0. count' \in Nat
  <2>1. IsFiniteSet(InList' \ {adding'})
    BY FS_Subset DEF InList
  <2> QED BY <2>1, FS_CardinalityType DEF ListInv
<1>1. next_fire \in Milliseconds
  BY DEF LoopTypeOK
<1>2. ASSUME NEW x \in Threads, armRead(x) \/ armSet(x) PROVE TypeOK'
  <2>1. CASE armRead(x)
    <3>1. arm_delay' \in [Threads -> Milliseconds] /\ armpc' \in [Threads -> {"no", "read", "set"}]
      BY <1>1, <2>1 DEF armRead, Zero
    <3> QED BY <1>0, <2>1, <3>1 DEF armRead, clientVars, workerVars, addVars, fdVars
  <2>2. CASE armSet(x)
    BY <1>0, <2>2 DEF armSet, clientVars, workerVars, addVars
  <2> QED BY <1>2, <2>1, <2>2
<1>3. ASSUME NEW x \in Threads, addHandshakeTimer(x) \/ addPingTimer(x) PROVE TypeOK'
  <2>1. armpc' \in [Threads -> {"no", "read", "set"}] /\ UNCHANGED arm_delay
    BY <1>3 DEF addHandshakeTimer, addPingTimer, workerAddTimer
  <2>2. /\ apc' \in [Threads -> {"idle", "handshake", "ping", "count"}]
        /\ UNCHANGED <<workerVars, fdVars, clientVars, conn_lock, adding, count, signalling>>
    BY <1>3 DEF addHandshakeTimer, addPingTimer
  <2> QED BY <1>0, <2>1, <2>2 DEF clientVars, workerVars, fdVars
<1>4. ASSUME NEW x \in Threads, endAddConnection(x) PROVE TypeOK'
  BY <1>0, <1>4 DEF endAddConnection, clientVars, workerVars, fdVars, armVars
<1>5. ASSUME NEW x \in Threads, NEW c \in Conns, addConnection(x, c) \/ addConnectionFails(x, c)
      PROVE TypeOK'
  BY <1>0, <1>5, ZenonT(40) DEF addConnection, addConnectionFails, workerVars, fdVars, armVars, addVars
<1>6. CASE start
  BY <1>0, <1>6 DEF start, workerAddTimer, clientVars, fdVars, addVars, Threads
<1>7. CASE epollWait
  <2>1. batch' \subseteq {"event", "timer", "listen"} /\ ready' \in [Conns -> {"none", "in", "hup"}]
    BY <1>7 DEF epollWait, Signalled, Events
  <2> QED BY <1>0, <1>7, <2>1 DEF epollWait, clientVars, fdVars, addVars, armVars
<1>8. CASE loop \/ epollInterrupted \/ drainEventFd \/ drainTimerFd \/ endAccept \/ beginProcess
  BY <1>0, <1>8, ZenonT(40) DEF loop, epollInterrupted, drainEventFd, drainTimerFd, endAccept, beginProcess,
     clientVars, fdVars, addVars, armVars
<1>9. ASSUME NEW c \in Conns, removeConnection(c) \/ readClient(c) PROVE TypeOK'
  <2>1. CASE removeConnection(c)
    BY <1>0, <2>1, SMTT(40) DEF removeConnection, fdVars, armVars
  <2>2. CASE readClient(c)
    <3>1. /\ ready' \in [Conns -> {"none", "in", "hup"}]
          /\ sock' \in [Conns -> {"quiet", "data", "hup"}]
          /\ conn' \in [Conns -> {"none", "backlog", "http", "open", "shut", "gone"}]
      BY <2>2 DEF readClient
    <3> QED BY <1>0, <2>2, <3>1 DEF readClient, fdVars, addVars, armVars
  <2> QED BY <1>9, <2>1, <2>2
<1>10. ASSUME NEW S \in SUBSET Conns, ShutSome(S)
       PROVE conn' \in [Conns -> {"none", "backlog", "http", "open", "shut", "gone"}]
  BY <1>10 DEF ShutSome
<1>11. CASE runJob
  BY <1>0, <1>10, <1>11, SMTT(40) DEF runJob, workerVars, fdVars, addVars, armVars
<1>12. ASSUME NEW c \in Conns, firePing(c) PROVE TypeOK'
  BY <1>0, <1>10, <1>12 DEF firePing, workerVars, fdVars, addVars, armVars
<1>13. ASSUME NEW c \in Conns, fireHandshake(c) PROVE TypeOK'
  BY <1>0, <1>13 DEF fireHandshake, workerVars, fdVars, addVars, armVars
<1>14. CASE processStep \/ fireSample \/ stop
  BY <1>0, <1>14, ZenonT(40) DEF processStep, fireSample, stop, clientVars, workerVars, fdVars, addVars, armVars
<1>15. CASE endProcess
  BY <1>0, <1>15 DEF endProcess, clientVars, fdVars, addVars, Threads
<1>16. CASE timePasses
  BY <1>0, <1>16 DEF timePasses, left, clientVars, workerVars, addVars, armVars
<1>17. ASSUME NEW p \in Publishers, NEW j \in Jobs, publish(p, j) PROVE TypeOK'
  BY <1>0, <1>17 DEF publish, clientVars, workerVars, fdVars, addVars, armVars
<1>18. ASSUME NEW p \in Publishers, signalWork(p) PROVE TypeOK'
  BY <1>0, <1>18 DEF signalWork, clientVars, workerVars, addVars, armVars
<1>19. ASSUME NEW c \in Conns, clientConnects(c) \/ clientSends(c) \/ clientHangsUp(c) PROVE TypeOK'
  BY <1>0, <1>19, ZenonT(40) DEF clientConnects, clientSends, clientHangsUp, workerVars, fdVars, addVars, armVars
<1>20. CASE UNCHANGED vars
  BY <1>0, <1>20 DEF vars, clientVars, workerVars, fdVars, addVars, armVars
<1> QED
  BY <1>2, <1>3, <1>4, <1>5, <1>6, <1>7, <1>8, <1>9,
     <1>11, <1>12, <1>13, <1>14, <1>15, <1>16, <1>17, <1>18, <1>19, <1>20, ZenonT(40)
  DEF Next, workerSteps, threadSteps

(***************************************************************************)
(* Wake-ups.                                                               *)
(***************************************************************************)
\* Every step keeps a queued job in sight: the eventfd is drained only while the
\* worker is awake with processJobs() ahead, and processJobs() empties the queue.
LEMMA WakeStep == TypeOK /\ ListInv /\ WakeInv /\ [Next]_vars => WakeInv'
<1> SUFFICES ASSUME TypeOK, ListInv, WakeInv, [Next]_vars PROVE WakeInv'
  OBVIOUS
<1> USE DEF WakeInv
<1>1. ASSUME UNCHANGED <<job_queue, event_fd, signalling, wpc, at>> PROVE WakeInv'
  BY <1>1
<1>2. ASSUME NEW x \in Threads, armRead(x) \/ armSet(x) \/ endAddConnection(x) PROVE WakeInv'
  BY <1>1, <1>2 DEF armRead, armSet, endAddConnection, loopVars, workerVars, fdVars
<1>3. ASSUME NEW x \in Threads, addHandshakeTimer(x) \/ addPingTimer(x) PROVE WakeInv'
  BY <1>1, <1>3 DEF addHandshakeTimer, addPingTimer, workerAddTimer, addTimer, jobVars, workerVars, fdVars
<1>4. ASSUME NEW x \in Threads, NEW c \in Conns, addConnection(x, c) \/ addConnectionFails(x, c)
      PROVE WakeInv'
  BY <1>1, <1>4 DEF addConnection, addConnectionFails, loopVars, workerVars, fdVars
<1>5. CASE start
  BY <1>5 DEF start, workerAddTimer, addTimer, jobVars, fdVars
<1>6. CASE loop \/ epollWait \/ epollInterrupted
  BY <1>6 DEF loop, epollWait, epollInterrupted, loopVars, fdVars
<1>7. CASE drainEventFd
  BY <1>7 DEF drainEventFd, Handling, loopVars
<1>8. CASE drainTimerFd \/ endAccept \/ stop
  BY <1>1, <1>8 DEF drainTimerFd, endAccept, stop, loopVars, fdVars
<1>9. ASSUME NEW c \in Conns, removeConnection(c) \/ readClient(c) PROVE WakeInv'
  BY <1>1, <1>9 DEF removeConnection, readClient, loopVars, fdVars
<1>10. CASE beginProcess
  BY <1>10 DEF beginProcess, beginJobs, jobVars
<1>11. CASE runJob
  BY <1>1, <1>11 DEF runJob, callJob, workerVars, fdVars
<1>12. CASE processStep
  <2>1. CASE endJobs
    BY <2>1 DEF endJobs
  <2>2. CASE beginTimers
    BY <1>12, <2>2 DEF processStep, beginTimers, jobVars, workerVars, fdVars
  <2>3. CASE \E t \in Timers : passTimer(t)
    BY <1>1, <1>12, <2>3 DEF processStep, passTimer, jobVars, workerVars, fdVars
  <2> QED BY <1>12, <2>1, <2>2, <2>3 DEF processStep
<1>13. CASE endProcess
  BY <1>13 DEF endProcess, skipTimers, endTimers, jobVars, fdVars
<1>14. CASE fireSample \/ \E c \in Conns : fireHandshake(c) \/ firePing(c)
  BY <1>1, <1>14, ZenonT(40) DEF fireSample, fireHandshake, firePing, fireTimer, jobVars, workerVars, fdVars
<1>15. ASSUME NEW p \in Publishers, NEW j \in Jobs, publish(p, j) PROVE WakeInv'
  BY <1>15 DEF publish
<1>16. ASSUME NEW p \in Publishers, signalWork(p) PROVE WakeInv'
  BY <1>16 DEF signalWork
<1>17. ASSUME NEW c \in Conns, clientConnects(c) \/ clientSends(c) \/ clientHangsUp(c) PROVE WakeInv'
  BY <1>1, <1>17 DEF clientConnects, clientSends, clientHangsUp, loopVars, workerVars, fdVars
<1>18. CASE timePasses
  BY <1>1, <1>18 DEF timePasses, Tick, jobVars, workerVars
<1>19. CASE UNCHANGED vars
  BY <1>1, <1>19 DEF vars, loopVars, workerVars, fdVars
<1> QED
  BY <1>2, <1>3, <1>4, <1>5, <1>6, <1>7, <1>8, <1>9, <1>10,
     <1>11, <1>12, <1>13, <1>14, <1>15, <1>16, <1>17, <1>18, <1>19, SMTT(40)
  DEF Next, workerSteps, threadSteps

(***************************************************************************)
(* The clients' timers.                                                    *)
(***************************************************************************)
\* What the steps of the event loop do to the set of queued timers.
LEMMA QueuedSteps ==
  ASSUME LoopTypeOK, PassInv
  PROVE  /\ \A t \in Timers : addTimer(t) => Queued' = Queued \cup {t}
         /\ \A t \in Timers : fireTimer(t, TRUE) => Queued' = Queued
         /\ \A t \in Timers : fireTimer(t, FALSE) => Queued' = Queued \ {t}
         /\ Tick => Queued' = Queued
         /\ timer_queue' = timer_queue => Queued' = Queued
<1> USE EventLoopAssumption DEF LoopTypeOK, Milliseconds, NotQueued, Queued
<1>1. ASSUME NEW t \in Timers, addTimer(t) PROVE Queued' = Queued \cup {t}
  BY <1>1 DEF addTimer
<1>2. ASSUME NEW t \in Timers, fireTimer(t, TRUE) PROVE Queued' = Queued
  BY <1>2 DEF fireTimer, PassInv
<1>3. ASSUME NEW t \in Timers, fireTimer(t, FALSE) PROVE Queued' = Queued \ {t}
  BY <1>3 DEF fireTimer, PassInv
<1>4. Tick => Queued' = Queued
  BY DEF Tick, left
<1> QED BY <1>1, <1>2, <1>3, <1>4, ZenonT(40)

\* A client's two timers and the sample timer are different timers.
LEMMA TimersDiffer ==
  /\ SampleTimer \in Timers
  /\ \A c \in Conns : /\ HandshakeTimer(c) \in Timers /\ PingTimer(c) \in Timers
                      /\ HandshakeTimer(c) # SampleTimer /\ PingTimer(c) # SampleTimer
  /\ \A c, d \in Conns : /\ HandshakeTimer(c) # PingTimer(d)
                         /\ HandshakeTimer(c) = HandshakeTimer(d) => c = d
                         /\ PingTimer(c) = PingTimer(d) => c = d
  BY WorkerAssumption, Zenon DEF SampleTimer, HandshakeTimer, PingTimer

\* Every step keeps the clients' timers: a timer leaves the queue only when it fires,
\* and a client that still owes a handshake, or is open, leaves that state first.
LEMMA ClientStep == LoopInv /\ TypeOK /\ ListInv /\ ClientInv /\ [Next]_vars => ClientInv'
<1> SUFFICES ASSUME LoopInv, TypeOK, ListInv, ClientInv, [Next]_vars PROVE ClientInv'
  OBVIOUS
<1>0. LoopTypeOK /\ PassInv
  BY DEF LoopInv
<1>t. /\ ready \in [Conns -> {"none", "in", "hup"}]
      /\ conn \in [Conns -> {"none", "backlog", "http", "open", "shut", "gone"}]
      /\ apc \in [Threads -> {"idle", "handshake", "ping", "count"}]
      /\ conn_lock \in Threads \cup {NoThread} /\ NoThread \notin Threads /\ Self \in Threads
  BY WorkerAssumption, SMTT(40) DEF TypeOK, Threads
<1>1. ASSUME UNCHANGED <<conn, addVars, ready, wpc>>, Queued' = Queued PROVE ClientInv'
  BY <1>1, Zenon DEF ClientInv, addVars
<1>2. ASSUME UNCHANGED <<conn, addVars, ready, wpc, timer_queue>> PROVE ClientInv'
  BY <1>0, <1>1, <1>2, QueuedSteps, ZenonT(40)
<1>3. ASSUME NEW x \in Threads, NEW c \in Conns, addConnection(x, c) PROVE ClientInv'
  <2>1. Queued' = Queued
    BY <1>0, <1>3, QueuedSteps DEF addConnection, loopVars
  <2>2. adding = NoConn /\ NoConn \notin Conns
    BY <1>3, WorkerAssumption, ZenonT(40) DEF addConnection, ListInv
  <2> QED BY <1>3, <1>t, <2>1, <2>2 DEF addConnection, ClientInv, Backlog, workerVars
<1>4. ASSUME NEW x \in Threads, NEW c \in Conns, addConnectionFails(x, c) PROVE ClientInv'
  <2>1. Queued' = Queued
    BY <1>0, <1>4, QueuedSteps, SMTT(40) DEF addConnectionFails, loopVars
  <2> QED BY <1>4, <1>t, <2>1 DEF addConnectionFails, ClientInv, Backlog, workerVars, addVars
<1>5. ASSUME NEW x \in Threads, addHandshakeTimer(x) PROVE ClientInv'
  <2>1. conn_lock = x /\ adding \in Conns /\ HandshakeTimer(adding) \in Timers
    BY <1>5, <1>t, AddingIsClient DEF addHandshakeTimer, ListInv
  <2>2. Queued' = Queued \cup {HandshakeTimer(adding)}
    BY <1>0, <1>5, <2>1, QueuedSteps DEF addHandshakeTimer, workerAddTimer
  <2>3. apc[x] = "handshake" /\ apc'[conn_lock'] = "ping" /\ UNCHANGED <<wpc, ready, conn, adding>>
    BY <1>5, <1>t, <2>1, SMTT(40) DEF addHandshakeTimer, workerVars, clientVars
  <2> QED BY <2>1, <2>2, <2>3, ZenonT(40) DEF ClientInv
<1>6. ASSUME NEW x \in Threads, addPingTimer(x) PROVE ClientInv'
  <2>1. conn_lock = x /\ adding \in Conns /\ PingTimer(adding) \in Timers
    BY <1>6, <1>t, AddingIsClient DEF addPingTimer, ListInv
  <2>2. Queued' = Queued \cup {PingTimer(adding)}
    BY <1>0, <1>6, <2>1, QueuedSteps DEF addPingTimer, workerAddTimer
  <2>3. apc[x] = "ping" /\ apc'[conn_lock'] = "count" /\ UNCHANGED <<wpc, ready, conn, adding>>
    BY <1>6, <1>t, <2>1, SMTT(40) DEF addPingTimer, workerVars, clientVars
  <2> QED BY <2>1, <2>2, <2>3 DEF ClientInv
<1>7. ASSUME NEW x \in Threads, endAddConnection(x) PROVE ClientInv'
  <2>1. conn_lock = x /\ apc[x] = "count" /\ adding' = NoConn /\ UNCHANGED <<wpc, ready, conn>>
    BY <1>7, <1>t DEF endAddConnection, ListInv, workerVars, clientVars
  <2>2. Queued' = Queued
    BY <1>0, <1>7, QueuedSteps, SMTT(40) DEF endAddConnection, loopVars
  <2> QED BY <2>1, <2>2, WorkerAssumption DEF ClientInv
<1>8. CASE start
  <2>1. Queued' = Queued \cup {SampleTimer} /\ wpc = "start"
    BY <1>0, <1>8, QueuedSteps, TimersDiffer, SMTT(40) DEF start, workerAddTimer
  <2> QED BY <1>8, <2>1 DEF start, ClientInv, clientVars, addVars
<1>9. CASE loop \/ epollInterrupted
  <2>1. Queued' = Queued
    BY <1>0, <1>9, QueuedSteps DEF loop, epollInterrupted, loopVars
  <2> QED BY <1>9, <2>1 DEF loop, epollInterrupted, ClientInv, clientVars, addVars
<1>10. CASE epollWait
  <2>1. Queued' = Queued
    BY <1>0, <1>10, QueuedSteps, SMTT(40) DEF epollWait, loopVars
  <2>2. \A c \in Conns : ready'[c] = "in" => conn[c] \in {"http", "open"}
    BY <1>10, ZenonT(40) DEF epollWait, Events, InList
  <2> QED BY <1>10, <2>1, <2>2 DEF epollWait, ClientInv, clientVars, addVars
<1>11. CASE drainEventFd \/ drainTimerFd \/ endAccept \/ stop
  BY <1>2, <1>11 DEF drainEventFd, drainTimerFd, endAccept, stop, loopVars, clientVars
<1>12. ASSUME NEW c \in Conns, removeConnection(c) PROVE ClientInv'
  <2>1. Queued' = Queued
    BY <1>0, <1>12, QueuedSteps DEF removeConnection, loopVars
  <2> QED BY <1>12, <1>t, <2>1 DEF removeConnection, ClientInv
<1>13. ASSUME NEW c \in Conns, readClient(c) PROVE ClientInv'
  <2>1. Queued' = Queued
    BY <1>0, <1>13, QueuedSteps DEF readClient, loopVars
  <2>2. conn[c] \in {"http", "open"}
    BY <1>13 DEF readClient, ClientInv
  <2>3. PICK s \in {conn[c], "open", "shut"} : conn' = [conn EXCEPT ![c] = s]
    BY <1>13, Zenon DEF readClient
  <2>4. ready' = [ready EXCEPT ![c] = "none"] /\ UNCHANGED <<wpc, addVars>>
    BY <1>13 DEF readClient
  <2> QED BY <1>t, <2>1, <2>2, <2>3, <2>4 DEF ClientInv, addVars
<1>14. CASE beginProcess
  <2>1. Queued' = Queued
    BY <1>0, <1>14, QueuedSteps, SMTT(40) DEF beginProcess, beginJobs, timerVars
  <2> QED BY <1>14, <2>1 DEF beginProcess, ClientInv, clientVars, addVars
<1>15. ASSUME NEW S \in SUBSET Conns, ShutSome(S), wpc = "process", UNCHANGED <<addVars, ready, wpc>>,
              \A c \in Conns :
                /\ HandshakeTimer(c) \in Queued => HandshakeTimer(c) \in Queued'
                /\ PingTimer(c) \in Queued /\ conn[c] \in {"http", "open"} => PingTimer(c) \in Queued'
       PROVE  ClientInv'
  <2>1. \A c \in Conns : conn'[c] = conn[c] \/ conn'[c] = "shut"
    BY <1>15, <1>t DEF ShutSome
  <2> QED BY <1>15, <2>1, ZenonT(40) DEF ClientInv, addVars
<1>16. CASE runJob
  <2>1. Queued' = Queued
    BY <1>0, <1>16, QueuedSteps DEF runJob, callJob, timerVars
  <2> QED BY <1>15, <1>16, <2>1 DEF runJob, workerVars
<1>17. CASE processStep
  <2>1. timer_queue' = timer_queue
    BY <1>17 DEF processStep, endJobs, beginTimers, passTimer, timerVars
  <2> QED BY <1>2, <1>17, <2>1 DEF processStep, workerVars, clientVars
<1>18. CASE endProcess
  <2>1. Queued' = Queued
    BY <1>0, <1>18, QueuedSteps DEF endProcess, skipTimers, endTimers, timerVars
  <2> QED BY <1>18, <2>1 DEF endProcess, ClientInv, clientVars, addVars
<1>19. CASE fireSample
  <2>1. Queued' = Queued
    BY <1>0, <1>19, QueuedSteps, TimersDiffer, ZenonT(40) DEF fireSample
  <2> QED BY <1>1, <1>19, <2>1 DEF fireSample, workerVars, clientVars
<1>20. ASSUME NEW c \in Conns, fireHandshake(c) PROVE ClientInv'
  <2>1. Queued' = Queued \ {HandshakeTimer(c)}
    BY <1>0, <1>20, QueuedSteps, TimersDiffer, Zenon DEF fireHandshake
  <2>2. /\ wpc = "process" /\ UNCHANGED <<wpc, ready, addVars>>
        /\ conn' = [conn EXCEPT ![c] = IF conn[c] = "http" THEN "shut" ELSE conn[c]]
    BY <1>20 DEF fireHandshake, workerVars
  <2> QED BY <1>t, <2>1, <2>2, TimersDiffer DEF ClientInv, addVars
<1>21. ASSUME NEW c \in Conns, firePing(c) PROVE ClientInv'
  <2>1. PingTimer(c) \in Timers
    BY TimersDiffer
  <2>2. CASE conn[c] \in {"http", "open"}
    <3>1. Queued' = Queued
      BY <1>0, <1>21, <2>1, <2>2, QueuedSteps, Zenon DEF firePing
    <3> QED BY <1>15, <1>21, <3>1 DEF firePing, workerVars
  <2>3. CASE conn[c] \notin {"http", "open"}
    <3>1. Queued' = Queued \ {PingTimer(c)}
      BY <1>0, <1>21, <2>1, <2>3, SMTT(40)
      DEF firePing, fireTimer, PassInv, LoopTypeOK, Milliseconds, NotQueued, Queued
    <3>2. \A d \in Conns :
            /\ HandshakeTimer(d) \in Queued => HandshakeTimer(d) \in Queued'
            /\ PingTimer(d) \in Queued /\ conn[d] \in {"http", "open"} => PingTimer(d) \in Queued'
      BY <2>3, <3>1, TimersDiffer
    <3> QED BY <1>15, <1>21, <3>2, ZenonT(40) DEF firePing, workerVars
  <2> QED BY <2>2, <2>3
<1>22. ASSUME NEW x \in Threads, armRead(x) \/ armSet(x) PROVE ClientInv'
  BY <1>2, <1>22 DEF armRead, armSet, loopVars, workerVars, clientVars
<1>23. ASSUME NEW p \in Publishers, NEW j \in Jobs, publish(p, j) PROVE ClientInv'
  BY <1>2, <1>23 DEF publish, addJob, timerVars, workerVars, clientVars
<1>24. ASSUME NEW p \in Publishers, signalWork(p) PROVE ClientInv'
  BY <1>2, <1>24, SMTT(40) DEF signalWork, loopVars, workerVars, clientVars
<1>25. ASSUME NEW c \in Conns, clientConnects(c) PROVE ClientInv'
  <2>1. Queued' = Queued
    BY <1>0, <1>25, QueuedSteps DEF clientConnects, loopVars
  <2> QED BY <1>25, <1>t, <2>1 DEF clientConnects, ClientInv, workerVars, addVars
<1>26. ASSUME NEW c \in Conns, clientSends(c) \/ clientHangsUp(c) PROVE ClientInv'
  BY <1>2, <1>26 DEF clientSends, clientHangsUp, loopVars, workerVars
<1>27. CASE timePasses
  <2>1. Queued' = Queued
    BY <1>0, <1>27, QueuedSteps DEF timePasses
  <2> QED BY <1>1, <1>27, <2>1 DEF timePasses, workerVars, clientVars
<1>28. CASE UNCHANGED vars
  BY <1>2, <1>28 DEF vars, loopVars, workerVars, clientVars
<1> QED
  BY <1>3, <1>4, <1>5, <1>6, <1>7, <1>8, <1>9, <1>10, <1>11, <1>12, <1>13, <1>14, <1>16, <1>17, <1>18,
     <1>19, <1>20, <1>21, <1>22, <1>23, <1>24, <1>25, <1>26, <1>27, <1>28, ZenonT(40)
  DEF Next, workerSteps, threadSteps

(***************************************************************************)
(* The timerfd, with one thread that arms it.                              *)
(***************************************************************************)
\* Every step of a worker without acceptors keeps the timerfd in step with the
\* timer queue.
LEMMA ArmStep ==
  ASSUME Acceptors = {}, LoopInv, TypeOK, ListInv, ArmInv, [Next]_vars PROVE ArmInv'
<1>0. LoopTypeOK /\ PassInv /\ NextFireIsEarliest /\ next_fire \in Milliseconds
  BY DEF LoopInv, LoopTypeOK
<1>t. /\ Threads = {Self}
      /\ apc \in [Threads -> {"idle", "handshake", "ping", "count"}]
      /\ armpc \in [Threads -> {"no", "read", "set"}]
      /\ arm_delay \in [Threads -> Milliseconds]
      /\ timer_fd \in Milliseconds
  BY DEF TypeOK, Threads
<1>1. ASSUME UNCHANGED <<at, wpc, apc, armVars, timer_fd>>, Queued' = Queued PROVE ArmInv'
  BY <1>1 DEF ArmInv, armVars
<1>2. ASSUME UNCHANGED <<at, wpc, apc, armVars, timer_fd, timer_queue>> PROVE ArmInv'
  BY <1>0, <1>1, <1>2, QueuedSteps, ZenonT(40)
<1>3. ASSUME NEW x \in Threads, armRead(x) PROVE ArmInv'
  <2>1. x = Self /\ Queued' = Queued /\ wpc # "process" /\ at # "timers"
    BY <1>0, <1>3, <1>t, QueuedSteps DEF armRead, loopVars, ArmInv
  <2>2. Queued # {} => next_fire # Zero /\ next_fire # Disarmed
    BY <1>0, <2>1, SMTT(40) DEF NextFireIsEarliest, EarliestOf, Zero, Disarmed
  <2> QED BY <1>3, <1>t, <2>1, <2>2, SMTT(40) DEF armRead, ArmInv, loopVars, workerVars, addVars
<1>4. ASSUME NEW x \in Threads, armSet(x) PROVE ArmInv'
  <2>1. x = Self /\ Queued' = Queued
    BY <1>0, <1>4, <1>t, QueuedSteps, SMTT(40) DEF armSet, loopVars
  <2> QED BY <1>4, <1>t, <2>1, SMTT(40) DEF armSet, ArmInv, loopVars, workerVars, addVars
<1>5. ASSUME NEW x \in Threads, addHandshakeTimer(x) \/ addPingTimer(x) PROVE ArmInv'
  <2>1. /\ x = Self /\ wpc = "events" /\ wpc' = wpc /\ at' = at
        /\ apc'[Self] # "idle" /\ armpc'[Self] = "read"
    BY <1>5, <1>t, SMTT(40) DEF addHandshakeTimer, addPingTimer, workerAddTimer, addTimer, workerVars, ArmInv
  <2> QED BY <2>1, ZenonT(40) DEF ArmInv
<1>6. ASSUME NEW x \in Threads, endAddConnection(x) PROVE ArmInv'
  <2>1. /\ x = Self /\ wpc = "events" /\ wpc' = wpc /\ at' = at
        /\ apc'[Self] = "idle" /\ armpc[Self] = "no" /\ armpc' = armpc
    BY <1>6, <1>t, SMTT(40) DEF endAddConnection, loopVars, workerVars, armVars, ArmInv
  <2> QED BY <2>1, ZenonT(40) DEF ArmInv
<1>7. ASSUME NEW x \in Threads, NEW c \in Conns, addConnection(x, c) PROVE ArmInv'
  <2>1. /\ x = Self /\ wpc = "events" /\ wpc' = wpc /\ at' = at /\ armpc' = armpc
        /\ apc[Self] = "idle" /\ apc'[Self] # "idle"
    BY <1>7, <1>t DEF addConnection, MayAccept, loopVars, workerVars, armVars
  <2> QED BY <2>1 DEF ArmInv
<1>8. ASSUME NEW x \in Threads, NEW c \in Conns, addConnectionFails(x, c) PROVE ArmInv'
  BY <1>2, <1>8, SMTT(40) DEF addConnectionFails, loopVars, workerVars, fdVars, addVars
<1>9. CASE start
  <2>1. /\ armpc'[Self] = "read" /\ wpc' = "loop" /\ at' = at /\ apc' = apc
        /\ wpc = "start"
    BY <1>9, <1>t, SMTT(40) DEF start, workerAddTimer, addTimer, addVars
  <2> QED BY <2>1 DEF ArmInv
<1>10. CASE loop
  <2>1. Queued' = Queued
    BY <1>0, <1>10, QueuedSteps, SMTT(40) DEF loop, loopVars
  <2> QED BY <1>10, <2>1 DEF loop, ArmInv, loopVars, fdVars, addVars, armVars
<1>11. CASE epollWait \/ epollInterrupted
  <2>1. wpc = "wait" /\ wpc' = "events" /\ at' = at /\ armpc' = armpc /\ apc' = apc
    BY <1>11, SMTT(40) DEF epollWait, epollInterrupted, loopVars, addVars, armVars
  <2> QED BY <2>1 DEF ArmInv
<1>12. CASE drainTimerFd
  <2>1. Handling /\ wpc' = wpc /\ at' = at /\ armpc' = armpc /\ apc' = apc
    BY <1>12 DEF drainTimerFd, loopVars, addVars, armVars
  <2> QED BY <2>1 DEF ArmInv, Handling
<1>13. CASE drainEventFd \/ endAccept \/ stop
  BY <1>2, <1>13, SMTT(40) DEF drainEventFd, endAccept, stop, loopVars, fdVars, addVars
<1>14. ASSUME NEW c \in Conns, removeConnection(c) \/ readClient(c) PROVE ArmInv'
  BY <1>2, <1>14, SMTT(40) DEF removeConnection, readClient, loopVars, fdVars, addVars
<1>15. CASE beginProcess
  <2>1. Handling /\ wpc' = "process" /\ armpc' = armpc /\ apc' = apc
    BY <1>15, SMTT(40) DEF beginProcess, addVars, armVars
  <2> QED BY <2>1, ZenonT(40) DEF ArmInv, Handling
<1>16. ASSUME wpc = "process", UNCHANGED <<wpc, apc, armpc>> PROVE ArmInv'
  BY <1>16 DEF ArmInv
<1>17. CASE runJob \/ processStep \/ fireSample
  BY <1>16, <1>17, Zenon DEF runJob, processStep, fireSample, workerVars, addVars, armVars
<1>18. CASE \E c \in Conns : fireHandshake(c) \/ firePing(c)
  BY <1>16, <1>18, ZenonT(40) DEF fireHandshake, firePing, workerVars, addVars, armVars
<1>19. CASE endProcess
  <2>1. wpc = "process" /\ wpc' = "loop" /\ at' = "out" /\ apc' = apc /\ armpc'[Self] = "read"
    BY <1>19, <1>t DEF endProcess, skipTimers, endTimers, addVars
  <2> QED BY <2>1, ZenonT(40) DEF ArmInv
<1>20. ASSUME NEW p \in Publishers, NEW j \in Jobs, publish(p, j) PROVE ArmInv'
  BY <1>2, <1>20 DEF publish, addJob, timerVars, workerVars, fdVars, addVars
<1>21. ASSUME NEW p \in Publishers, signalWork(p) PROVE ArmInv'
  BY <1>2, <1>21, SMTT(40) DEF signalWork, loopVars, workerVars, addVars
<1>22. ASSUME NEW c \in Conns, clientConnects(c) \/ clientSends(c) \/ clientHangsUp(c) PROVE ArmInv'
  BY <1>2, <1>22, SMTT(40) DEF clientConnects, clientSends, clientHangsUp, loopVars, workerVars, fdVars, addVars
<1>23. CASE timePasses
  <2>1. Queued' = Queued
    BY <1>0, <1>23, QueuedSteps DEF timePasses
  <2>2. timer_fd # Disarmed => timer_fd' # Disarmed
    BY <1>23, <1>t DEF timePasses, left, Milliseconds, Disarmed
  <2> QED BY <1>23, <2>1, <2>2, ZenonT(40) DEF timePasses, Tick, ArmInv, workerVars, addVars, armVars
<1>24. CASE UNCHANGED vars
  BY <1>2, <1>24 DEF vars, loopVars, workerVars, fdVars, addVars
<1> QED
  BY <1>3, <1>4, <1>5, <1>6, <1>7, <1>8, <1>9, <1>10, <1>11, <1>12, <1>13, <1>14, <1>15,
     <1>17, <1>18, <1>19, <1>20, <1>21, <1>22, <1>23, <1>24, ZenonT(40)
  DEF Next, workerSteps, threadSteps

(***************************************************************************)
(* The theorems.                                                           *)
(***************************************************************************)
\* The worker's invariant holds in every reachable state.
THEOREM WorkerInvariant == Spec => []WorkerInv
<1>1. WorkerInv /\ [Next]_vars => WorkerInv'
  <2> SUFFICES ASSUME WorkerInv, [Next]_vars PROVE WorkerInv'
    OBVIOUS
  <2>1. LoopInv /\ TypeOK /\ ListInv /\ WakeInv /\ ClientInv
    BY DEF WorkerInv
  <2>2. [LoopNext]_loopVars
    BY <2>1, StepIsLoopStep
  <2>3. LoopInv'
    BY <2>1, <2>2, LoopTypeStep, LoopTimerStep, LoopJobStep DEF LoopInv
  <2>4. ListInv'
    BY <2>1, ListStep
  <2>5. TypeOK'
    BY <2>1, <2>3, <2>4, TypeStep DEF LoopInv
  <2>6. WakeInv'
    BY <2>1, WakeStep
  <2>7. ClientInv'
    BY <2>1, ClientStep
  <2> QED BY <2>3, <2>4, <2>5, <2>6, <2>7 DEF WorkerInv
<1> QED
  BY WorkerInitInv, <1>1, PTL DEF Spec

\* The fields of Worker keep their types; the connection count is never negative.
THEOREM WorkerTypeCorrect == Spec => []TypeOK
  BY WorkerInvariant, PTL DEF WorkerInv

\* However publishers, acceptors and clients interleave with it, the worker uses
\* its event loop as EventLoop describes: Worker implements EventLoop.
THEOREM WorkerImplementsLoop == Spec => LoopSpec
<1>1. Init => LoopInit
  BY DEF Init
<1>2. WorkerInv /\ [Next]_vars => [LoopNext]_loopVars
  BY StepIsLoopStep DEF WorkerInv
<1> QED
  BY <1>1, <1>2, WorkerInvariant, PTL DEF Spec, LoopSpec

\* publish() loses no wake-up: a worker asleep over a queued job has its eventfd
\* readable or is about to be signalled.
THEOREM NoWakeupIsLost == Spec => []NoLostWakeup
<1>1. WorkerInv => NoLostWakeup
  BY DEF WorkerInv, WakeInv, NoLostWakeup
<1> QED
  BY <1>1, WorkerInvariant, PTL

\* With _connection_list_mutex free, current_connections_count is the length of
\* the connection list.
THEOREM CountIsExact == Spec => []CountIsListLength
<1>1. WorkerInv => CountIsListLength
  <2> SUFFICES ASSUME ListInv, conn_lock = NoThread PROVE count = Cardinality(InList)
    BY SMTT(40) DEF WorkerInv, CountIsListLength
  <2>1. InList \ {adding} = InList
    BY WorkerAssumption, ZenonT(40) DEF ListInv, InList
  <2> QED BY <2>1 DEF ListInv
<1> QED
  BY <1>1, WorkerInvariant, PTL

\* However the handshake, the ping timer and shutdowns interleave with
\* _addConnection(), no client that is being served is without its timers.
THEOREM TimersAreKept == Spec => []ClientsHaveTimers
<1>1. WorkerInv => ClientsHaveTimers
  BY DEF WorkerInv, ClientInv, ClientsHaveTimers
<1> QED
  BY <1>1, WorkerInvariant, PTL

\* A worker that accepts all its clients itself never sleeps over a queued timer
\* with its timerfd disarmed.  With a second thread in _armTimerFd() it may.
THEOREM ArmedWhenAlone == ASSUME Acceptors = {} PROVE Spec => []ArmedWhileAsleep
<1>1. Init => ArmInv
  BY DEF Init, LoopInit, ArmInv, Threads
<1>2. WorkerInv /\ ArmInv /\ [Next]_vars => ArmInv'
  BY ArmStep DEF WorkerInv
<1>3. ArmInv => ArmedWhileAsleep
  BY DEF ArmInv, ArmedWhileAsleep
<1> QED
  BY <1>1, <1>2, <1>3, WorkerInvariant, PTL DEF Spec
================================================================================
