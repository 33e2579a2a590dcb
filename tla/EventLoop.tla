------------------------------ MODULE EventLoop ------------------------------
(***************************************************************************)
(* class EventLoop (include/EventLoop.hpp): a queue of jobs and a queue of *)
(* timers, filled by any thread and run by the one thread that calls       *)
(* process().                                                              *)
(*                                                                         *)
(* Time is relative: a fire time is kept as the milliseconds left until it *)
(* is due, 0 once it is due, and Tick is the passing of a millisecond.     *)
(* Comparing a fire time with now is comparing what is left with 0, so no  *)
(* bound on the clock is needed.  The order of the timers in the deque is  *)
(* abstracted: a pass visits them in any order.                            *)
(***************************************************************************)
EXTENDS Integers, Sequences, Functions

CONSTANTS Jobs,       \* the jobs that are added in a behaviour, each once
          Timers,     \* the timers that may be in the queue
          Repeating,  \* the timers added with repeat = true
          Delay       \* the delay each timer is added with, in milliseconds

ASSUME EventLoopAssumption ==
  /\ Repeating \subseteq Timers
  /\ Delay \in [Timers -> Nat]

VARIABLES
  job_queue,   \* _job_queue, the oldest first
  calls,       \* how many jobs of the queue the running processJobs() has called
  timer_queue, \* per timer: milliseconds left, or NotQueued
  next_fire,   \* _next_timer_fire_time: milliseconds left, or Zero
  at,          \* where the processing thread is inside process()
  visit,       \* the timers the running pass of processTimers() has ahead of it
  due,         \* the timers whose fire_time <= now when that pass began
  added,       \* history: the jobs in the order addJob() queued them
  ran          \* history: the jobs in the order they were called

loopVars == <<job_queue, calls, timer_queue, next_fire, at, visit, due, added, ran>>
jobVars == <<job_queue, calls, added, ran>>
timerVars == <<timer_queue, next_fire, visit, due>>

NotQueued == -1
Zero == -1  \* milliseconds::zero(), the code's mark for "no next timer"

\* Set of the timers in the queue.
Queued == {t \in Timers : timer_queue[t] # NotQueued}

LoopInit ==
  /\ job_queue = <<>>
  /\ calls = 0
  /\ timer_queue = [t \in Timers |-> NotQueued]
  /\ next_fire = Zero
  /\ at = "out"
  /\ visit = {}
  /\ due = {}
  /\ added = <<>>
  /\ ran = <<>>

(***************************************************************************)
(* Jobs.  _job_queue_lock is held while at = "jobs".                       *)
(***************************************************************************)
addJob(j) ==
  /\ at # "jobs"
  /\ j \notin Range(added)
  /\ job_queue' = Append(job_queue, j)
  /\ added' = Append(added, j)
  /\ UNCHANGED <<calls, ran, at, timerVars>>

\* Mutant: a non-empty queue is skipped too.
beginJobsNever ==
  /\ at = "out"
  /\ at' = "mid"
  /\ UNCHANGED <<jobVars, timerVars>>

\* processJobs() takes the lock; it returns at once when nothing is queued.
beginJobs ==
  /\ at = "out"
  /\ at' = IF job_queue = <<>> THEN "mid" ELSE "jobs"
  /\ UNCHANGED <<jobVars, timerVars>>

callJob ==
  /\ at = "jobs"
  /\ calls < Len(job_queue)
  /\ ran' = Append(ran, job_queue[calls + 1])
  /\ calls' = calls + 1
  /\ UNCHANGED <<job_queue, added, at, timerVars>>

\* Mutant: the queue is not cleared.
endJobsKeepsQueue ==
  /\ at = "jobs"
  /\ calls = Len(job_queue)
  /\ calls' = 0
  /\ at' = "mid"
  /\ UNCHANGED <<job_queue, added, ran, timerVars>>

endJobs ==
  /\ at = "jobs"
  /\ calls = Len(job_queue)
  /\ job_queue' = <<>>
  /\ calls' = 0
  /\ at' = "mid"
  /\ UNCHANGED <<added, ran, timerVars>>

(***************************************************************************)
(* Timers.  _timer_queue_lock is held while at = "timers".  next_fire has  *)
(* a lock of its own, so other threads read it at any time.                *)
(***************************************************************************)
\* The value _decreaseNextFiretimeIfLess(fire) leaves in the field.
decreaseNextFiretimeIfLess(next, fire) ==
  IF next = Zero \/ next > fire THEN fire ELSE next

addTimer(t) ==
  /\ at # "timers"
  /\ t \notin Queued
  /\ next_fire' = decreaseNextFiretimeIfLess(next_fire, Delay[t])
  /\ timer_queue' = [timer_queue EXCEPT ![t] = Delay[t]]
  /\ UNCHANGED <<jobVars, at, visit, due>>

\* Mutant: a timer due this very millisecond is skipped.
skipTimersWhenDue ==
  /\ at = "mid"
  /\ Queued = {} \/ next_fire >= 0
  /\ at' = "out"
  /\ UNCHANGED <<jobVars, timerVars>>

\* processTimers() finds nothing due and returns.
skipTimers ==
  /\ at = "mid"
  /\ Queued = {} \/ next_fire > 0
  /\ at' = "out"
  /\ UNCHANGED <<jobVars, timerVars>>

\* Mutant: the next fire time is not reset.
beginTimersKeepsNext ==
  /\ at = "mid"
  /\ Queued # {}
  /\ next_fire <= 0
  /\ visit' = Queued
  /\ due' = {t \in Queued : timer_queue[t] = 0}
  /\ at' = "timers"
  /\ UNCHANGED <<jobVars, timer_queue, next_fire>>

\* processTimers() reads the clock, resets the next fire time, starts the pass.
beginTimers ==
  /\ at = "mid"
  /\ Queued # {}
  /\ next_fire <= 0
  /\ next_fire' = Zero
  /\ visit' = Queued
  /\ due' = {t \in Queued : timer_queue[t] = 0}
  /\ at' = "timers"
  /\ UNCHANGED <<jobVars, timer_queue>>

\* The pass reaches a timer that is not due.
passTimer(t) ==
  /\ at = "timers"
  /\ t \in visit \ due
  /\ next_fire' = decreaseNextFiretimeIfLess(next_fire, timer_queue[t])
  /\ visit' = visit \ {t}
  /\ UNCHANGED <<jobVars, timer_queue, due, at>>

\* The pass fires a timer: again is what the callback leaves in ctx->repeat.
fireTimer(t, again) ==
  /\ at = "timers"
  /\ t \in visit \cap due
  /\ again => t \in Repeating
  /\ IF again
     THEN /\ timer_queue' = [timer_queue EXCEPT ![t] = Delay[t]]
          /\ next_fire' = decreaseNextFiretimeIfLess(next_fire, Delay[t])
     ELSE /\ timer_queue' = [timer_queue EXCEPT ![t] = NotQueued]
          /\ UNCHANGED next_fire
  /\ visit' = visit \ {t}
  /\ UNCHANGED <<jobVars, due, at>>

endTimers ==
  /\ at = "timers"
  /\ visit = {}
  /\ due' = {}
  /\ at' = "out"
  /\ UNCHANGED <<jobVars, timer_queue, next_fire, visit>>

\* A millisecond passes (steady_clock, read through _now()).
left(ms) == IF ms > 0 THEN ms - 1 ELSE ms
Tick ==
  /\ timer_queue' = [t \in Timers |-> left(timer_queue[t])]
  /\ next_fire' = left(next_fire)
  /\ UNCHANGED <<jobVars, at, visit, due>>

process ==
  \/ beginJobs \/ callJob \/ endJobs
  \/ skipTimers \/ beginTimers \/ endTimers
  \/ \E t \in Timers : passTimer(t) \/ \E again \in BOOLEAN : fireTimer(t, again)

LoopNext ==
  \/ process
  \/ \E j \in Jobs : addJob(j)
  \/ \E t \in Timers : addTimer(t)
  \/ Tick

LoopSpec == LoopInit /\ [][LoopNext]_loopVars
FairLoopSpec == LoopSpec /\ WF_loopVars(process) /\ WF_loopVars(Tick)
------------------------------------------------------------------------------
(***************************************************************************)
(* Properties                                                              *)
(***************************************************************************)
Milliseconds == {-1} \cup Nat

\* The fields hold values of their C++ types.
LoopTypeOK ==
  /\ job_queue \in Seq(Jobs)
  /\ calls \in 0 .. Len(job_queue)
  /\ timer_queue \in [Timers -> Milliseconds]
  /\ next_fire \in Milliseconds
  /\ at \in {"out", "jobs", "mid", "timers"}
  /\ visit \subseteq Timers
  /\ due \subseteq Timers
  /\ added \in Seq(Jobs)
  /\ ran \in Seq(Jobs)

\* next_fire is the earliest fire time among the timers of S, Zero when S is empty.
EarliestOf(S) ==
  /\ S = {} <=> next_fire = Zero
  /\ \A t \in S : next_fire <= timer_queue[t]
  /\ S # {} => \E t \in S : next_fire = timer_queue[t]

\* Whenever _timer_queue_lock is free, _next_timer_fire_time is exactly the
\* earliest fire time in the queue, and zero only for an empty queue: a reader
\* that arms a wake-up from it can neither oversleep a timer nor wake for none.
NextFireIsEarliest == at # "timers" => EarliestOf(Queued)

\* Jobs are called in the order addJob() queued them, none twice and none lost,
\* however addJob() calls of other threads fall between two passes.
JobsInOrder ==
  /\ Len(added) = Len(ran) + (Len(job_queue) - calls)
  /\ \A i \in 1 .. Len(ran) : ran[i] = added[i]
  /\ \A i \in calls + 1 .. Len(job_queue) :
       job_queue[i] = added[Len(ran) - calls + i]

\* A timer that is due is eventually fired: erased or timed anew.
DueTimersFire == \A t \in Timers : (timer_queue[t] = 0) ~> (timer_queue[t] # 0)
==============================================================================
