------------------------------- MODULE RateLimit -------------------------------
(***************************************************************************)
(* Rate limiting of one user's publishes (the rlimit part of              *)
(* RPCHandler::_handlePublish(), and isRateLimited() and                   *)
(* incrementLimitCount() of src/Redis.cpp).  The count is a Redis key that *)
(* expires after the interval.  Every publisher is a worker thread, of     *)
(* this or of another server, handling a publish of that user; each of its *)
(* steps is one Redis command, and Redis runs one command at a time.       *)
(***************************************************************************)
EXTENDS Integers, FiniteSets

CONSTANTS Publishers,    \* threads that handle publishes of the user
          LimitMax,      \* max of the limit that getRateLimitForTopic() chose
          LimitInterval  \* its interval

ASSUME RateLimitAssumption ==
  /\ IsFiniteSet(Publishers)
  /\ LimitMax \in Nat
  /\ LimitInterval \in Nat

VARIABLES
  rcount,  \* the value of the key, 0 when it does not exist
  rttl,    \* what is left of its time to live, or NoTTL
  rpc,     \* per publisher: the command it does next
  used     \* history: publishes counted since the key last expired

rateVars == <<rcount, rttl, rpc, used>>

NoTTL == -1

RateInit ==
  /\ rcount = 0 /\ rttl = NoTTL
  /\ rpc = [p \in Publishers |-> "idle"]
  /\ used = 0

goTo(p, at) == rpc' = [rpc EXCEPT ![p] = at]

\* Mutant: a user may publish once more than the limit says.
isRateLimitedAbove(p) ==
  /\ rpc[p] = "idle"
  /\ goTo(p, IF LimitMax > 0 /\ rcount > LimitMax THEN "idle"
             ELSE IF LimitInterval = 0 THEN "allowed" ELSE "get")
  /\ UNCHANGED <<rcount, rttl, used>>

\* isRateLimited(): GET.  A limited user is answered ERR_RATE_LIMIT_EXCEEDED;
\* for the others incrementLimitCount() begins, which skips a zero interval.
isRateLimited(p) ==
  /\ rpc[p] = "idle"
  /\ goTo(p, IF LimitMax > 0 /\ rcount >= LimitMax THEN "idle"
             ELSE IF LimitInterval = 0 THEN "allowed" ELSE "get")
  /\ UNCHANGED <<rcount, rttl, used>>

\* incrementLimitCount(): GET, then INCR of a key that exists or SETEX.
getCount(p) ==
  /\ rpc[p] = "get"
  /\ goTo(p, IF rcount > 0 THEN "incr" ELSE "setex")
  /\ UNCHANGED <<rcount, rttl, used>>

\* INCR keeps the key's time to live; it creates a key that has expired since
\* the GET, without one.
incr(p) ==
  /\ rpc[p] = "incr"
  /\ rcount' = rcount + 1
  /\ used' = used + 1
  /\ goTo(p, "allowed")
  /\ UNCHANGED rttl

\* SETEX counts one publish, whatever other publishers have counted meanwhile.
setex(p) ==
  /\ rpc[p] = "setex"
  /\ rcount' = 1
  /\ rttl' = LimitInterval
  /\ used' = used + 1
  /\ goTo(p, "allowed")

\* A command fails: _handlePublish() catches the exception and gives up.
rateError(p) ==
  /\ rpc[p] \in {"get", "incr", "setex"}
  /\ goTo(p, "idle")
  /\ UNCHANGED <<rcount, rttl, used>>

\* _handlePublish() goes on to cache and publish the message.
allowed(p) ==
  /\ rpc[p] = "allowed"
  /\ goTo(p, "idle")
  /\ UNCHANGED <<rcount, rttl, used>>

\* A unit of time passes in Redis; a key at the end of its time is gone.
rateTick ==
  /\ rttl' = IF rttl > 1 THEN rttl - 1 ELSE NoTTL
  /\ rcount' = IF rttl = 1 THEN 0 ELSE rcount
  /\ used' = IF rttl = 1 THEN 0 ELSE used
  /\ UNCHANGED rpc

rateSteps(p) == isRateLimited(p) \/ getCount(p) \/ incr(p) \/ setex(p) \/ rateError(p)

RateNext == rateTick \/ \E p \in Publishers : rateSteps(p) \/ allowed(p)

\* Time passes; nobody has to publish.
RateSpec == RateInit /\ [][RateNext]_rateVars /\ WF_rateVars(rateTick)
--------------------------------------------------------------------------------
\* The key and the program counters hold values of their types; a key without a
\* value has no time to live, and nothing is counted without an interval.
RateTypeOK ==
  /\ rcount \in Nat /\ used \in Nat
  /\ rttl \in {NoTTL} \cup 1 .. LimitInterval
  /\ rpc \in [Publishers -> {"idle", "get", "incr", "setex", "allowed"}]
  /\ rcount = 0 => rttl = NoTTL
  /\ LimitInterval = 0 => \A p \in Publishers : rpc[p] \in {"idle", "allowed"}

\* The check and the increment are two commands, yet the count passes the maximum
\* by at most one for every other publisher in between.
CountBounded == LimitMax > 0 => rcount <= LimitMax + Cardinality(Publishers) - 1

\* A late SETEX forgets what was counted, so more publishes get through in one
\* life of the key; at most the maximum for each publisher, and the overshoots.
UsedBounded ==
  LET n == Cardinality(Publishers) IN LimitMax > 0 => 2 * used <= n * (2 * LimitMax + n - 1)

\* "how many messages a user/token is allowed to publish within a given time
\* period (interval)": a user at the limit may publish again some time later.
LimitEnds == LimitMax > 0 => (rcount >= LimitMax ~> rcount < LimitMax)
================================================================================
