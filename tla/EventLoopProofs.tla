---------------------------- MODULE EventLoopProofs ----------------------------
(***************************************************************************)
(* Proofs about EventLoop: its type invariant, the exactness of the next   *)
(* fire time, and the order in which jobs are called, for any sets of jobs *)
(* and timers and any delays.                                              *)
(***************************************************************************)
EXTENDS EventLoop, TLAPS

\* While processTimers() holds the lock, the next fire time is the earliest among
\* the timers the pass has dealt with; those ahead of it are all in the queue.
PassInv ==
  at = "timers" => visit \subseteq Queued /\ EarliestOf(Queued \ visit)

\* Outside processJobs() no job of the queue has been called yet.
CallsInv == at # "jobs" => calls = 0

\* The inductive invariant.
LoopInv ==
  /\ LoopTypeOK
  /\ NextFireIsEarliest
  /\ PassInv
  /\ CallsInv
  /\ JobsInOrder

\* The initial state satisfies the invariant.
LEMMA LoopInitInv == LoopInit => LoopInv
  BY EventLoopAssumption
  DEF LoopInit, LoopInv, LoopTypeOK, NextFireIsEarliest, PassInv, CallsInv, JobsInOrder,
      EarliestOf, Queued, NotQueued, Zero, Milliseconds

\* Every step keeps the fields' types.
LEMMA LoopTypeStep == LoopTypeOK /\ CallsInv /\ [LoopNext]_loopVars => LoopTypeOK'
<1> SUFFICES ASSUME LoopTypeOK, CallsInv, [LoopNext]_loopVars PROVE LoopTypeOK'
  OBVIOUS
<1> USE EventLoopAssumption DEF LoopTypeOK, Milliseconds, NotQueued, Zero
<1>1. ASSUME NEW j \in Jobs, addJob(j) PROVE LoopTypeOK'
  BY <1>1 DEF addJob, timerVars
<1>2. CASE beginJobs
  BY <1>2 DEF beginJobs, jobVars, timerVars
<1>3. CASE callJob
  BY <1>3 DEF callJob, timerVars
<1>4. CASE endJobs
  BY <1>4 DEF endJobs, timerVars
<1>5. ASSUME NEW t \in Timers, addTimer(t) PROVE LoopTypeOK'
  BY <1>5 DEF addTimer, jobVars, decreaseNextFiretimeIfLess
<1>6. CASE skipTimers
  BY <1>6 DEF skipTimers, jobVars, timerVars
<1>7. CASE beginTimers
  BY <1>7 DEF beginTimers, jobVars, Queued
<1>8. ASSUME NEW t \in Timers, passTimer(t) PROVE LoopTypeOK'
  BY <1>8 DEF passTimer, jobVars, decreaseNextFiretimeIfLess
<1>9. ASSUME NEW t \in Timers, NEW again \in BOOLEAN, fireTimer(t, again) PROVE LoopTypeOK'
  BY <1>9, SMTT(40) DEF fireTimer, jobVars, decreaseNextFiretimeIfLess
<1>10. CASE endTimers
  BY <1>10 DEF endTimers, jobVars
<1>11. CASE Tick
  BY <1>11 DEF Tick, jobVars, left
<1>12. CASE UNCHANGED loopVars
  BY <1>12 DEF loopVars
<1> QED
  BY <1>1, <1>2, <1>3, <1>4, <1>5, <1>6, <1>7, <1>8, <1>9, <1>10, <1>11, <1>12
  DEF LoopNext, process

\* Every step keeps the next fire time exact, inside a pass over the timers too.
LEMMA LoopTimerStep ==
  LoopTypeOK /\ NextFireIsEarliest /\ PassInv /\ [LoopNext]_loopVars
    => NextFireIsEarliest' /\ PassInv'
<1> SUFFICES ASSUME LoopTypeOK, NextFireIsEarliest, PassInv, [LoopNext]_loopVars
             PROVE  NextFireIsEarliest' /\ PassInv'
  OBVIOUS
<1> USE EventLoopAssumption DEF LoopTypeOK, Milliseconds, NotQueued, Zero, NextFireIsEarliest, PassInv
<1>1. ASSUME NEW j \in Jobs, addJob(j) PROVE NextFireIsEarliest' /\ PassInv'
  BY <1>1 DEF addJob, timerVars, EarliestOf, Queued
<1>2. CASE beginJobs
  BY <1>2 DEF beginJobs, jobVars, timerVars, EarliestOf, Queued
<1>3. CASE callJob
  BY <1>3 DEF callJob, timerVars, EarliestOf, Queued
<1>4. CASE endJobs
  BY <1>4 DEF endJobs, timerVars, EarliestOf, Queued
<1>5. ASSUME NEW t \in Timers, addTimer(t) PROVE NextFireIsEarliest' /\ PassInv'
  <2>1. Queued' = Queued \cup {t} /\ t \notin Queued
    BY <1>5 DEF addTimer, Queued
  <2>2. at' = at /\ at # "timers" /\ EarliestOf(Queued)
    BY <1>5 DEF addTimer
  <2>3. EarliestOf(Queued)'
    BY <1>5, <2>1, <2>2, SMTT(40) DEF addTimer, EarliestOf, decreaseNextFiretimeIfLess, Queued
  <2> QED BY <2>2, <2>3
<1>6. CASE skipTimers
  BY <1>6 DEF skipTimers, jobVars, timerVars, EarliestOf, Queued
<1>7. CASE beginTimers
  BY <1>7 DEF beginTimers, jobVars, EarliestOf, Queued
<1>8. ASSUME NEW t \in Timers, passTimer(t) PROVE NextFireIsEarliest' /\ PassInv'
  <2>1. at = "timers" /\ at' = at /\ EarliestOf(Queued \ visit) /\ t \in visit /\ t \in Queued
    BY <1>8 DEF passTimer
  <2>2. Queued' = Queued /\ (Queued \ visit)' = (Queued \ visit) \cup {t} /\ visit' \subseteq Queued'
    BY <1>8, <2>1 DEF passTimer, Queued
  <2>3. EarliestOf(Queued \ visit)'
    BY <1>8, <2>1, <2>2, SMTT(40) DEF passTimer, EarliestOf, decreaseNextFiretimeIfLess, Queued
  <2> QED BY <2>1, <2>2, <2>3
<1>9. ASSUME NEW t \in Timers, NEW again \in BOOLEAN, fireTimer(t, again)
      PROVE NextFireIsEarliest' /\ PassInv'
  <2>1. at = "timers" /\ at' = at /\ EarliestOf(Queued \ visit) /\ t \in visit /\ t \in Queued
    BY <1>9 DEF fireTimer
  <2>2. CASE again
    <3>1. Queued' = Queued /\ (Queued \ visit)' = (Queued \ visit) \cup {t} /\ visit' \subseteq Queued'
      BY <1>9, <2>1, <2>2 DEF fireTimer, Queued
    <3>2. EarliestOf(Queued \ visit)'
      BY <1>9, <2>1, <2>2, <3>1, SMTT(40) DEF fireTimer, EarliestOf, decreaseNextFiretimeIfLess, Queued
    <3> QED BY <2>1, <3>1, <3>2
  <2>3. CASE ~again
    <3>1. Queued' = Queued \ {t} /\ (Queued \ visit)' = Queued \ visit /\ visit' \subseteq Queued'
      BY <1>9, <2>1, <2>3 DEF fireTimer, Queued
    <3>2. EarliestOf(Queued \ visit)'
      BY <1>9, <2>1, <2>3, <3>1 DEF fireTimer, EarliestOf, Queued
    <3> QED BY <2>1, <3>1, <3>2
  <2> QED BY <2>2, <2>3
<1>10. CASE endTimers
  BY <1>10 DEF endTimers, jobVars, EarliestOf, Queued
<1>11. CASE Tick
  <2>1. Queued' = Queued /\ at' = at /\ visit' = visit
    BY <1>11 DEF Tick, Queued, left
  <2>2. ASSUME NEW S \in SUBSET Queued, EarliestOf(S) PROVE
          /\ S = {} <=> next_fire' = Zero
          /\ \A t \in S : next_fire' <= timer_queue'[t]
          /\ S # {} => \E t \in S : next_fire' = timer_queue'[t]
    BY <1>11, <2>2 DEF Tick, EarliestOf, Queued, left
  <2> QED BY <2>1, <2>2, Zenon DEF EarliestOf
<1>12. CASE UNCHANGED loopVars
  BY <1>12 DEF loopVars, EarliestOf, Queued
<1> QED
  BY <1>1, <1>2, <1>3, <1>4, <1>5, <1>6, <1>7, <1>8, <1>9, <1>10, <1>11, <1>12
  DEF LoopNext, process

\* Every step keeps the jobs in order: only the three job actions touch them.
LEMMA LoopJobStep ==
  LoopTypeOK /\ CallsInv /\ JobsInOrder /\ [LoopNext]_loopVars => CallsInv' /\ JobsInOrder'
<1> SUFFICES ASSUME LoopTypeOK, CallsInv, JobsInOrder, [LoopNext]_loopVars
             PROVE  CallsInv' /\ JobsInOrder'
  OBVIOUS
<1> USE DEF LoopTypeOK, CallsInv, JobsInOrder
<1>1. ASSUME NEW j \in Jobs, addJob(j) PROVE CallsInv' /\ JobsInOrder'
  BY <1>1 DEF addJob
<1>2. CASE beginJobs
  BY <1>2 DEF beginJobs, jobVars
<1>3. CASE callJob
  <2>1. /\ at = "jobs" /\ at' = at
        /\ calls \in Nat /\ calls' = calls + 1 /\ calls + 1 \in 1 .. Len(job_queue)
        /\ job_queue' = job_queue /\ added' = added
        /\ ran' = Append(ran, job_queue[calls + 1]) /\ job_queue[calls + 1] \in Jobs
    BY <1>3 DEF callJob
  <2>2. /\ Len(ran') = Len(ran) + 1 /\ ran'[Len(ran) + 1] = job_queue[calls + 1]
        /\ \A i \in 1 .. Len(ran) : ran'[i] = ran[i]
    BY <2>1
  <2>3. job_queue[calls + 1] = added[Len(ran) + 1]
    BY <2>1
  <2>4. \A i \in 1 .. Len(ran') : ran'[i] = added'[i]
    BY <2>1, <2>2, <2>3
  <2>5. \A i \in calls' + 1 .. Len(job_queue') : job_queue'[i] = added'[Len(ran') - calls' + i]
    <3> SUFFICES ASSUME NEW i \in calls' + 1 .. Len(job_queue')
                 PROVE  job_queue'[i] = added'[Len(ran') - calls' + i]
      OBVIOUS
    <3>1. i \in calls + 1 .. Len(job_queue) /\ Len(ran) \in Nat
      BY <2>1
    <3>2. Len(ran') - calls' = Len(ran) - calls
      BY <2>1, <2>2, <3>1
    <3> QED BY <2>1, <3>1, <3>2
  <2>6. Len(added') = Len(ran') + (Len(job_queue') - calls')
    <3>1. Len(ran) \in Nat /\ Len(job_queue) \in Nat /\ Len(added) = Len(ran) + (Len(job_queue) - calls)
      OBVIOUS
    <3>2. Len(added) = (Len(ran) + 1) + (Len(job_queue) - (calls + 1))
      BY <2>1, <3>1
    <3> QED BY <2>1, <2>2, <3>2
  <2> QED BY <2>1, <2>4, <2>5, <2>6, Zenon
<1>4. CASE endJobs
  BY <1>4 DEF endJobs
<1>5. CASE UNCHANGED jobVars /\ (at' = "jobs" <=> at = "jobs")
  BY <1>5 DEF jobVars
<1>6. ASSUME NEW t \in Timers,
             \/ addTimer(t) \/ skipTimers \/ beginTimers \/ passTimer(t)
             \/ (\E again \in BOOLEAN : fireTimer(t, again)) \/ Tick
      PROVE  UNCHANGED jobVars /\ (at' = "jobs" <=> at = "jobs")
  BY <1>6 DEF addTimer, skipTimers, beginTimers, passTimer, fireTimer, Tick
<1>7. skipTimers \/ beginTimers \/ endTimers \/ Tick \/ UNCHANGED loopVars
        => UNCHANGED jobVars /\ (at' = "jobs" <=> at = "jobs")
  BY DEF skipTimers, beginTimers, endTimers, Tick, loopVars, jobVars
<1> QED
  BY <1>1, <1>2, <1>3, <1>4, <1>5, <1>6, <1>7 DEF LoopNext, process

\* The event loop's invariant holds in every reachable state.
THEOREM LoopInvariant == LoopSpec => []LoopInv
<1>1. LoopInv /\ [LoopNext]_loopVars => LoopInv'
  BY LoopTypeStep, LoopTimerStep, LoopJobStep DEF LoopInv
<1> QED
  BY LoopInitInv, <1>1, PTL DEF LoopSpec

\* The fields of EventLoop keep their types.
THEOREM LoopTypeCorrect == LoopSpec => []LoopTypeOK
  BY LoopInvariant, PTL DEF LoopInv

\* Whenever the timer queue's lock is free, _next_timer_fire_time is exactly the
\* earliest fire time in the queue.
THEOREM NextFireCorrect == LoopSpec => []NextFireIsEarliest
  BY LoopInvariant, PTL DEF LoopInv

\* processJobs() calls the jobs in the order addJob() queued them, each once.
THEOREM JobOrderCorrect == LoopSpec => []JobsInOrder
  BY LoopInvariant, PTL DEF LoopInv
================================================================================
