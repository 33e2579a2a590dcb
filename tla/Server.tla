-------------------------------- MODULE Server --------------------------------
(***************************************************************************)
(* The main thread and the cron thread of src/Server.cpp, from start() to  *)
(* the destructor: the connection to Redis and its recovery, the reload of *)
(* certificate and key, which a signal asks for or which a timer finds to  *)
(* be due, and the end of the process (signals: src/main.cpp).             *)
(*                                                                         *)
(* Each read of a file is a step of its own: the operator replaces the     *)
(* files, one after the other, at any time.  What is delivered to clients  *)
(* is the business of modules Delivery and Worker, and when a timer is due *)
(* that of module EventLoop.  No CA certificate is configured.             *)
(***************************************************************************)
EXTENDS Integers

CONSTANTS
  MaxVersion,   \* the certificates and keys there are; those of a version match
  MaxEvents,    \* bound on the SIGHUPs, the files replaced and the outages of Redis
  MaxErrors     \* the errors OpenSSL's queue holds; the oldest make room for new ones

ASSUME ServerAssumption ==
  MaxVersion \in Nat \ {0} /\ MaxEvents \in Nat /\ MaxErrors \in Nat

VARIABLES
  enable_ssl,   \* enable_ssl with ssl_cert_auto_reload
  thread,       \* where the two threads are
  status,       \* "running", "stopped" by return from main(), or "failed"
  workers,      \* are the worker threads running?
  stopEventhub, reloadEventhub,   \* what the signal handler sets
  owed,         \* history: a SIGHUP since the last load of certificates began
  events,       \* signals, files replaced and outages so far
  file,         \* what the two files hold
  ssl_ctx,      \* the certificate and the key clients are served with; None: no key
  hash,         \* _ssl_cert_md5_hash and _ssl_priv_key_md5_hash
  check,        \* locals of _checkSSLCertUpdated(): on, the new hashes, reload
  errors,       \* the cron thread's OpenSSL error queue: its length
  timers,       \* are the cron timers added?
  subscriber,   \* _redisSubscriber: "null", "silent" (connected), "subscribed", "broken"
  reconnect,    \* local of start()
  up,           \* is Redis reachable?
  timed_out     \* history: a psubscribe() after the first has timed out

sslVars == <<file, ssl_ctx, hash, check, errors>>
redisVars == <<subscriber, reconnect, up, timed_out>>
signalVars == <<stopEventhub, reloadEventhub, owed, events>>
serverVars == <<enable_ssl, thread, status, workers, signalVars, sslVars, timers, redisVars>>

Files == {"cert", "key"}
None == 0            \* no file, or no key
Malformed == -1
Both(v) == [f \in Files |-> v]
NoCheck == [on |-> FALSE, seen |-> Both(None), reload |-> FALSE]

ServerInit ==
  /\ enable_ssl \in BOOLEAN
  /\ thread = [main |-> "listen", cron |-> "none"]
  /\ status = "running" /\ workers = "none"
  /\ stopEventhub = FALSE /\ reloadEventhub = FALSE /\ owed = FALSE
  /\ events = 0
  /\ file = Both(1)
  /\ ssl_ctx = Both(None) /\ hash = Both(None)
  /\ check = NoCheck /\ errors = 0
  /\ timers = FALSE
  /\ subscriber = "null" /\ reconnect = FALSE
  /\ up \in BOOLEAN /\ timed_out = FALSE

At(t, place) == status = "running" /\ thread[t] = place
goTo(t, place) == thread' = [thread EXCEPT ![t] = place]

\* exit(), or an exception nobody catches.
fail == status' = "failed" /\ UNCHANGED <<thread, sslVars>>

(***************************************************************************)
(* The main thread: start().                                               *)
(***************************************************************************)

\* _listenerInit() and, with TLS, that of _initSSL(): exit(1) if one fails.
listen ==
  /\ At("main", "listen")
  /\ \/ goTo("main", IF enable_ssl THEN "loadCert" ELSE "run") /\ UNCHANGED <<status, sslVars>>
     \/ fail
  /\ UNCHANGED <<enable_ssl, workers, signalVars, timers, redisVars>>

\* The worker threads, then the cron thread.
runWorkers ==
  /\ At("main", "run")
  /\ workers' = "running"
  /\ thread' = [main |-> "firstSubscribe", cron |-> "loop"]
  /\ UNCHANGED <<enable_ssl, status, signalVars, sslVars, timers, redisVars>>

\* psubscribe(): a subscriber is made if there is none, and subscribes.
Subscribes == up /\ subscriber # "broken" /\ subscriber' = "subscribed"
Throws == (~up \/ subscriber = "broken") /\ subscriber' \in {subscriber, "broken"}
TimesOut == subscriber # "broken" /\ subscriber' \in {subscriber, "silent"}

\* The first call is outside of the try block; then the timers are added.
firstSubscribe ==
  /\ At("main", "firstSubscribe")
  /\ \/ Subscribes /\ timers' = TRUE /\ goTo("main", "loop") /\ UNCHANGED <<status, sslVars>>
     \/ (Throws \/ TimesOut) /\ fail /\ UNCHANGED timers
  /\ UNCHANGED <<enable_ssl, workers, signalVars, reconnect, up, timed_out>>

\* The head of the loop, and the sleep of five seconds before a new connection.
mainLoop ==
  /\ At("main", "loop")
  /\ goTo("main", IF stopEventhub THEN "join" ELSE IF reconnect THEN "reset" ELSE "consume")
  /\ UNCHANGED <<enable_ssl, status, workers, signalVars, sslVars, timers, redisVars>>

\* Mutant: redis++ is left to restore the connection itself.
resetSubscribersNot == subscriber

\* What is left of the subscriber.
resetSubscribers == "null"

reset ==
  /\ At("main", "reset")
  /\ reconnect' = FALSE
  /\ subscriber' = resetSubscribers
  /\ goTo("main", "psubscribe")
  /\ UNCHANGED <<enable_ssl, status, workers, signalVars, sslVars, timers, up, timed_out>>

\* After a timeout the loop goes on as if it had subscribed.
psubscribeAgain ==
  /\ At("main", "psubscribe")
  /\ \/ Subscribes /\ goTo("main", "consume") /\ UNCHANGED <<reconnect, timed_out>>
     \/ Throws /\ goTo("main", "loop") /\ reconnect' = TRUE /\ UNCHANGED timed_out
     \/ TimesOut /\ goTo("main", "loop") /\ timed_out' = TRUE /\ UNCHANGED reconnect
  /\ UNCHANGED <<enable_ssl, status, workers, signalVars, sslVars, timers, up>>

\* consume(): a message or a timeout, an Error when the connection is broken, and a
\* null pointer when there is no subscriber.
consumeNext ==
  /\ At("main", "consume")
  /\ IF subscriber = "null"
     THEN fail /\ UNCHANGED reconnect
     ELSE /\ goTo("main", "loop")
          /\ reconnect' = (subscriber = "broken")
          /\ UNCHANGED <<status, sslVars>>
  /\ UNCHANGED <<enable_ssl, workers, signalVars, timers, subscriber, up, timed_out>>

\* cronJobs.join(), and the destructor: stop() ends the workers.
join ==
  /\ At("main", "join") /\ thread.cron = "ended"
  /\ workers' = "none" /\ status' = "stopped"
  /\ UNCHANGED <<enable_ssl, thread, signalVars, sslVars, timers, redisVars>>

(***************************************************************************)
(* _loadSSLCertificates(), on the main thread (_initSSL()) or the cron     *)
(* thread.  A file that cannot be used ends the process.                  *)
(***************************************************************************)
\* Mutant: reload() clears the flag when it has loaded the files.
reloadStepsSwapped == [test |-> "loadCert", load |-> "clear", clear |-> "loop"]

\* reload(), when the flag is set: it is cleared, then the files are loaded.
reloadSteps == [test |-> "clear", clear |-> "loadCert", load |-> "loop"]

\* Where a thread goes on that has loaded them.
loaded(t) == IF t = "main" THEN "run" ELSE IF check.on THEN "reload?" ELSE reloadSteps.load

\* SSL_CTX_use_certificate_chain_file() empties the error queue, and drops a key
\* that does not match the new certificate.
loadCert(t) ==
  LET new == file["cert"] IN
  /\ At(t, "loadCert")
  /\ owed' = (t = "main" /\ owed)
  /\ IF ~enable_ssl THEN goTo(t, loaded(t)) /\ UNCHANGED <<status, sslVars>>
     ELSE IF new > 0
     THEN /\ ssl_ctx' = [cert |-> new, key |-> IF ssl_ctx["key"] = new THEN new ELSE None]
          /\ errors' = 0
          /\ goTo(t, "loadKey")
          /\ UNCHANGED <<status, file, hash, check>>
     ELSE fail
  /\ UNCHANGED <<enable_ssl, workers, stopEventhub, reloadEventhub, events, timers, redisVars>>

\* With SSL_CTX_check_private_key().
loadKey(t) ==
  /\ At(t, "loadKey")
  /\ IF file["key"] = ssl_ctx["cert"]
     THEN /\ ssl_ctx' = [ssl_ctx EXCEPT !["key"] = file["key"]]
          /\ goTo(t, "hashCert")
          /\ UNCHANGED <<status, file, hash, check, errors>>
     ELSE fail
  /\ UNCHANGED <<enable_ssl, workers, signalVars, timers, redisVars>>

\* getFileMD5Sum() throws if there is no file: only _checkSSLCertUpdated() catches it.
noFile(t) ==
  IF check.on THEN goTo(t, "reload?") /\ check' = NoCheck
                   /\ UNCHANGED <<status, file, ssl_ctx, hash, errors>>
              ELSE fail

keepHash(t, f, place, next) ==
  /\ At(t, place)
  /\ IF file[f] = None THEN noFile(t)
     ELSE /\ hash' = [hash EXCEPT ![f] = file[f]]
          /\ goTo(t, next)
          /\ check' = IF f = "key" THEN NoCheck ELSE check
          /\ UNCHANGED <<status, file, ssl_ctx, errors>>
  /\ UNCHANGED <<enable_ssl, workers, signalVars, timers, redisVars>>

loadSSLCertificates(t) ==
  \/ loadCert(t) \/ loadKey(t)
  \/ keepHash(t, "cert", "hashCert", "hashKey") \/ keepHash(t, "key", "hashKey", loaded(t))

(***************************************************************************)
(* The cron thread.                                                        *)
(***************************************************************************)

\* Mutant: the cron thread does not look.
cronEndsNever == FALSE
cronEnds == stopEventhub

\* The head of the loop; process() finds the timer of the check due, or not.
cronLoop(due) ==
  /\ At("cron", "loop")
  /\ due => ~cronEnds /\ timers /\ enable_ssl
  /\ goTo("cron", IF cronEnds THEN "ended" ELSE IF due THEN "seeCert" ELSE "reload?")
  /\ check' = [NoCheck EXCEPT !.on = due]
  /\ UNCHANGED <<enable_ssl, status, workers, signalVars, timers, redisVars,
                 file, ssl_ctx, hash, errors>>

\* _checkSSLCertUpdated(): the hashes of both files,
seeFile(f, place, next) ==
  /\ At("cron", place)
  /\ IF file[f] = None THEN noFile("cron")
     ELSE /\ check' = [check EXCEPT !.seen[f] = file[f]]
          /\ goTo("cron", next)
          /\ UNCHANGED <<status, file, ssl_ctx, hash, errors>>
  /\ UNCHANGED <<enable_ssl, workers, signalVars, timers, redisVars>>

\* Mutant: the first error stays in the queue.
popErrorPeeks(n) == n

\* ERR_get_error(), when there are errors: one of them.
popError(n) == n - 1

\* then each changed file is read as PEM; it is fit if there is no error in the queue.
readFile(f, place, next, n) ==
  LET changed == check.seen[f] # hash[f] /\ file[f] # None
      queued == IF errors + n > MaxErrors THEN MaxErrors ELSE errors + n
  IN
  /\ At("cron", place)
  /\ n > 0 <=> changed /\ file[f] = Malformed
  /\ check' = [check EXCEPT !.reload = @ \/ (changed /\ queued = 0)]
  /\ errors' = IF changed /\ queued > 0 THEN popError(queued) ELSE errors
  /\ goTo("cron", next)
  /\ UNCHANGED <<enable_ssl, status, workers, signalVars, timers, redisVars,
                 file, ssl_ctx, hash>>

\* and both are loaded if one was fit.
endCheck ==
  /\ At("cron", "endCheck")
  /\ goTo("cron", IF check.reload THEN "loadCert" ELSE "reload?")
  /\ UNCHANGED <<enable_ssl, status, workers, signalVars, timers, redisVars, sslVars>>

testReload ==
  /\ At("cron", "reload?")
  /\ goTo("cron", IF reloadEventhub THEN reloadSteps.test ELSE "loop")
  /\ check' = NoCheck
  /\ UNCHANGED <<enable_ssl, status, workers, signalVars, timers, redisVars,
                 file, ssl_ctx, hash, errors>>

clearReload ==
  /\ At("cron", "clear")
  /\ reloadEventhub' = FALSE
  /\ goTo("cron", reloadSteps.clear)
  /\ UNCHANGED <<enable_ssl, status, workers, stopEventhub, owed, events, timers, redisVars, sslVars>>

(***************************************************************************)
(* Signals (sighandler()), the operator, and Redis.                        *)
(***************************************************************************)
event == status = "running" /\ events < MaxEvents /\ events' = events + 1

sighandler ==
  /\ \/ /\ status = "running"
        /\ stopEventhub' = TRUE /\ UNCHANGED <<reloadEventhub, owed, events>>
     \/ /\ event
        /\ reloadEventhub' = TRUE /\ owed' = TRUE /\ UNCHANGED stopEventhub
  /\ UNCHANGED <<enable_ssl, thread, status, workers, timers, redisVars, sslVars>>

writeFile(f, new) ==
  /\ event /\ enable_ssl
  /\ new # file[f] /\ file' = [file EXCEPT ![f] = new]
  /\ UNCHANGED <<enable_ssl, thread, status, workers, stopEventhub, reloadEventhub, owed, timers,
                 redisVars, ssl_ctx, hash, check, errors>>

redisGoes ==
  /\ event
  /\ up /\ up' = FALSE
  /\ subscriber' = IF subscriber = "null" THEN "null" ELSE "broken"
  /\ UNCHANGED <<enable_ssl, thread, status, workers, stopEventhub, reloadEventhub, owed, timers,
                 sslVars, reconnect, timed_out>>

redisReturns ==
  /\ status = "running" /\ ~up
  /\ up' = TRUE
  /\ UNCHANGED <<enable_ssl, thread, status, workers, signalVars, timers, sslVars,
                 subscriber, reconnect, timed_out>>

mainThread ==
  \/ listen \/ loadSSLCertificates("main") \/ runWorkers \/ firstSubscribe
  \/ mainLoop \/ reset \/ psubscribeAgain \/ consumeNext \/ join

cronThread ==
  \/ \E due \in BOOLEAN : cronLoop(due)
  \/ seeFile("cert", "seeCert", "seeKey") \/ seeFile("key", "seeKey", "readCert")
  \/ \E n \in 0 .. MaxErrors :
       readFile("cert", "readCert", "readKey", n) \/ readFile("key", "readKey", "endCheck", n)
  \/ endCheck \/ testReload \/ clearReload \/ loadSSLCertificates("cron")

ServerNext ==
  \/ mainThread \/ cronThread
  \/ sighandler \/ redisGoes \/ redisReturns
  \/ \E f \in Files, new \in Malformed .. MaxVersion : writeFile(f, new)

ServerSpec == ServerInit /\ [][ServerNext]_serverVars

\* The threads run, and a repeating timer is due time and again (module EventLoop).
ServerFairness ==
  /\ WF_serverVars(mainThread) /\ WF_serverVars(cronThread)
  /\ SF_serverVars(cronLoop(TRUE))
------------------------------------------------------------------------------
(***************************************************************************)
(* Properties                                                              *)
(***************************************************************************)
Over == stopEventhub \/ status # "running"

\* "we have to trigger a reset and setup subscribers when we lose the server
\* connection": after the connection to Redis was lost the main thread is subscribed
\* again, as soon as Redis stays reachable.  Only a psubscribe() that times out, which
\* the loop takes for one that worked, is an exception.
SubscribesAgain ==
  subscriber = "broken" /\ up ~> subscriber = "subscribed" \/ ~up \/ timed_out \/ Over

\* After every SIGHUP a load of the certificates begins, also when the signal arrives
\* while reload() or a check runs: no signal is swallowed by the flag of an earlier one.
ReloadTakesEffect == owed ~> ~owed \/ Over

\* "Monitor ssl certificate and key for changes on disk and reload if updated": a
\* matching pair that stays on disk is served, whatever was in the files before and
\* whatever errors they left in OpenSSL's queue.  The exception is a pair written
\* between a load and the hashes it keeps: then the hashes are those of files that were
\* never loaded, and no check finds a difference.
NeverLoaded(v) == hash = Both(v) /\ ssl_ctx # Both(v)
PairIsServed ==
  \A v \in 1 .. MaxVersion :
    enable_ssl /\ file = Both(v) ~> file # Both(v) \/ ssl_ctx = Both(v) \/ NeverLoaded(v) \/ Over

\* A process that is told to stop does: the main thread does not stay in the loop, nor
\* wait for a cron thread that goes on.
ServerStops == stopEventhub ~> status # "running"
==============================================================================
