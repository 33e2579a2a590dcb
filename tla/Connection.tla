------------------------------ MODULE Connection ------------------------------
(***************************************************************************)
(* One client: its write buffer, the EPOLLOUT subscription that drains it, *)
(* and the ways it is shut down (src/Connection.cpp), over plain TCP or    *)
(* over TLS (src/SSLConnection.cpp).  Everything here runs on the thread   *)
(* of the client's worker: the main loop's handling of an epoll event, the *)
(* HTTP and websocket handlers read() calls, timers and publish() jobs.    *)
(* Data is counted in units; what is in it does not matter here.           *)
(***************************************************************************)
EXTENDS Integers

CONSTANTS BufferMax,   \* NET_WRITE_BUFFER_MAX
          PacketSize,  \* NET_READ_BUFFER_SIZE, the most one SSL_write() is given
          RetryMax,    \* SSL_MAX_HANDSHAKE_RETRY
          Sizes,       \* lengths of what is written
          MaxWritten   \* bound on the total written, for model checking

ASSUME ConnectionAssumption ==
  /\ BufferMax \in Nat /\ RetryMax \in Nat /\ MaxWritten \in Nat
  /\ PacketSize \in Nat \ {0}
  /\ Sizes \subseteq Nat \ {0}

VARIABLES
  ssl,             \* is it an SSLConnection?
  state,           \* ConnectionState
  write_buffer,    \* length of _write_buffer
  epoll_out,       \* is EPOLLOUT among _epoll_event.events?
  is_shutdown,     \* _is_shutdown
  after_flush,     \* _is_shutdown_after_flush
  listed,          \* is the client in the worker's list, and in its epoll set?
  handshake,       \* calls of SSL_accept() so far, or Done
  handler,         \* what the request handler calls after its write()
  written,         \* total accepted by write()
  delivered        \* total taken by the socket

bufVars == <<ssl, write_buffer, epoll_out, delivered>>
connVars == <<ssl, state, write_buffer, epoll_out, is_shutdown, after_flush, listed,
          handshake, handler, written, delivered>>

Done == -1

ConnInit ==
  /\ ssl \in BOOLEAN
  /\ state = "HTTP"
  /\ write_buffer = 0 /\ written = 0 /\ delivered = 0
  /\ epoll_out = FALSE /\ is_shutdown = FALSE /\ after_flush = FALSE
  /\ listed = TRUE
  /\ handshake = IF ssl THEN 0 ELSE Done
  /\ handler = "none"

(***************************************************************************)
(* flushSendBuffer() with b in the buffer.  The socket takes some of it,   *)
(* all or nothing (EAGAIN), and at least something when epoll reported it  *)
(* writable.  SSL_write() is given at most a packet, which it takes whole  *)
(* or not at all (SSL_ERROR_WANT_WRITE).  A plain connection then looks    *)
(* whether it was to be shut down after the flush; a TLS one does not.     *)
(***************************************************************************)
Taken(b, writable) ==
  IF ssl THEN {0, IF b > PacketSize THEN PacketSize ELSE b}
         ELSE (IF writable THEN 1 ELSE 0) .. b

\* Mutant: EPOLLOUT is never taken back.
flushedWatching(b, k) ==
  /\ write_buffer' = b - k
  /\ delivered' = delivered + k
  /\ \/ k < b /\ epoll_out' = TRUE /\ UNCHANGED is_shutdown
     \/ /\ k = b /\ UNCHANGED epoll_out
        /\ is_shutdown' = IF ~ssl /\ after_flush THEN TRUE ELSE is_shutdown
  /\ UNCHANGED ssl

\* Mutant: EPOLLOUT is not asked for after a partial write.
flushedUnwatched(b, k) ==
  /\ write_buffer' = b - k
  /\ delivered' = delivered + k
  /\ \/ k < b /\ epoll_out' = FALSE /\ UNCHANGED is_shutdown
     \/ /\ k = b /\ epoll_out' = FALSE
        /\ is_shutdown' = IF ~ssl /\ after_flush THEN TRUE ELSE is_shutdown
  /\ UNCHANGED ssl

\* Mutant: a partial write clears the whole buffer.
flushedClears(b, k) ==
  /\ write_buffer' = 0
  /\ delivered' = delivered + k
  /\ \/ k < b /\ epoll_out' = TRUE /\ UNCHANGED is_shutdown
     \/ /\ k = b /\ epoll_out' = FALSE
        /\ is_shutdown' = IF ~ssl /\ after_flush THEN TRUE ELSE is_shutdown
  /\ UNCHANGED ssl

\* Mutant: nobody looks at _is_shutdown_after_flush.
flushedStaysOpen(b, k) ==
  /\ write_buffer' = b - k
  /\ delivered' = delivered + k
  /\ \/ k < b /\ epoll_out' = TRUE /\ UNCHANGED is_shutdown
     \/ /\ k = b /\ epoll_out' = FALSE
        /\ is_shutdown' = IF FALSE THEN TRUE ELSE is_shutdown
  /\ UNCHANGED ssl

flushed(b, k) ==
  /\ write_buffer' = b - k
  /\ delivered' = delivered + k
  /\ \/ k < b /\ epoll_out' = TRUE /\ UNCHANGED is_shutdown
     \/ /\ k = b /\ epoll_out' = FALSE
        /\ is_shutdown' = IF ~ssl /\ after_flush THEN TRUE ELSE is_shutdown
  /\ UNCHANGED ssl

writeError(b) ==
  /\ write_buffer' = b
  /\ is_shutdown' = TRUE
  /\ UNCHANGED <<ssl, delivered, epoll_out>>

flushSendBuffer(b, writable) ==
  \/ \E k \in Taken(b, writable) : flushed(b, k)
  \/ writeError(b)

(***************************************************************************)
(* write(): nothing after a shutdown; a buffer that would overflow is      *)
(* dropped and the client with it.                                         *)
(***************************************************************************)
write(n) ==
  /\ written + n <= MaxWritten
  /\ \/ /\ write_buffer + n > BufferMax
        /\ write_buffer' = 0
        /\ is_shutdown' = TRUE
        /\ UNCHANGED <<ssl, epoll_out, delivered, written>>
     \/ /\ write_buffer + n <= BufferMax
        /\ flushSendBuffer(write_buffer + n, FALSE)
        /\ written' = written + n

\* The main loop, a timer or a job may run for this client.
Free == listed /\ ~is_shutdown /\ handler = "none"
\* An EPOLLIN event is handled: EPOLLOUT, when reported too, comes first.
Readable == Free /\ (ssl => handshake = Done)

shutdown ==
  /\ is_shutdown' = TRUE
  /\ UNCHANGED <<state, bufVars, after_flush, listed, handshake, handler, written>>

(***************************************************************************)
(* The main loop's handling of an epoll event for the client.              *)
(***************************************************************************)
\* EPOLLERR, EPOLLHUP or EPOLLRDHUP: shutdown(), then as below.
hangUp ==
  /\ Free
  /\ is_shutdown' = TRUE
  /\ listed' = FALSE
  /\ UNCHANGED <<state, bufVars, after_flush, handshake, handler, written>>

\* Any event for a client that is shut down.
removeConnection ==
  /\ listed /\ is_shutdown /\ handler = "none"
  /\ listed' = FALSE
  /\ UNCHANGED <<state, bufVars, is_shutdown, after_flush, handshake, handler, written>>

onEpollOut ==
  /\ Free
  /\ epoll_out
  /\ IF write_buffer = 0
     THEN epoll_out' = FALSE /\ UNCHANGED <<ssl, write_buffer, is_shutdown, delivered>>
     ELSE flushSendBuffer(write_buffer, TRUE)
  /\ UNCHANGED <<state, after_flush, listed, handshake, handler, written>>

\* SSLConnection::read() before the handshake is over.  Every SSL_accept() counts
\* as a retry, and one too many shuts the client down even if it succeeds.
sslHandshake ==
  /\ Free
  /\ ssl /\ handshake # Done
  /\ \/ /\ handshake >= RetryMax
        /\ is_shutdown' = TRUE
        /\ handshake' \in {handshake, Done}
     \/ /\ handshake < RetryMax
        /\ handshake' \in {handshake + 1, Done}
        /\ UNCHANGED is_shutdown
     \/ is_shutdown' = TRUE /\ UNCHANGED handshake
  /\ UNCHANGED <<state, bufVars, after_flush, listed, handler, written>>

\* read() fails or finds the end of the stream, a request is too big or cannot
\* be parsed, a CLOSE frame or a disconnect request arrives, or an SSE client
\* sends anything at all.
readShutsDown == Readable /\ shutdown

\* A complete HTTP request: the response is written, and then the connection is
\* closed after it, or becomes a websocket or an event stream.
httpRequest(n, next) ==
  /\ Readable
  /\ state = "HTTP"
  /\ next \in {"shutdownAfterFlush", "WEBSOCKET", "SSE"}
  /\ write(n)
  /\ handler' = next
  /\ UNCHANGED <<state, after_flush, listed, handshake>>

\* A websocket frame that is answered; a frame too big is answered with a CLOSE
\* frame and a shutdown.
websocketFrame(n, next) ==
  /\ Readable
  /\ state = "WEBSOCKET"
  /\ next \in {"none", "shutdown"}
  /\ write(n)
  /\ handler' = next
  /\ UNCHANGED <<state, after_flush, listed, handshake>>

\* setState(), shutdown() and shutdownAfterFlush(), after the handler's write().
setState ==
  /\ handler \in {"WEBSOCKET", "SSE"}
  /\ state' = handler
  /\ handler' = "none"
  /\ UNCHANGED <<bufVars, is_shutdown, after_flush, listed, handshake, written>>

handlerShutdown ==
  /\ handler = "shutdown"
  /\ is_shutdown' = TRUE
  /\ handler' = "none"
  /\ UNCHANGED <<state, bufVars, after_flush, listed, handshake, written>>

shutdownAfterFlush ==
  /\ handler = "shutdownAfterFlush"
  /\ IF write_buffer = 0
     THEN is_shutdown' = TRUE /\ UNCHANGED after_flush
     ELSE after_flush' = TRUE /\ UNCHANGED is_shutdown
  /\ handler' = "none"
  /\ UNCHANGED <<state, bufVars, listed, handshake, written>>

handlerSteps == setState \/ handlerShutdown \/ shutdownAfterFlush

(***************************************************************************)
(* Timers and jobs: a ping or a published message for a client that is not *)
(* shut down, and the handshake timeout.                                   *)
(***************************************************************************)
push(n) ==
  /\ Free
  /\ state \in {"WEBSOCKET", "SSE"}
  /\ write(n)
  /\ UNCHANGED <<state, after_flush, listed, handshake, handler>>

handshakeTimeout ==
  /\ Free
  /\ state = "HTTP"
  /\ shutdown

ConnNext ==
  \/ hangUp \/ removeConnection \/ onEpollOut \/ sslHandshake \/ readShutsDown
  \/ \E n \in Sizes, next \in {"shutdownAfterFlush", "WEBSOCKET", "SSE"} : httpRequest(n, next)
  \/ \E n \in Sizes, next \in {"none", "shutdown"} : websocketFrame(n, next)
  \/ handlerSteps
  \/ \E n \in Sizes : push(n)
  \/ handshakeTimeout

ConnSpec == ConnInit /\ [][ConnNext]_connVars

\* The worker runs on, and the peer keeps reading or goes away: a socket that is
\* watched for EPOLLOUT, or that is shut down, is reported again and again.
ConnFairness == WF_connVars(handlerSteps) /\ WF_connVars(removeConnection) /\ SF_connVars(onEpollOut)
FairConnSpec == ConnSpec /\ ConnFairness
------------------------------------------------------------------------------
\* The fields hold values of their C++ types, and the buffer keeps its limit.
ConnTypeOK ==
  /\ ssl \in BOOLEAN
  /\ state \in {"HTTP", "WEBSOCKET", "SSE"}
  /\ write_buffer \in 0 .. BufferMax
  /\ written \in Nat /\ delivered \in Nat
  /\ epoll_out \in BOOLEAN /\ is_shutdown \in BOOLEAN /\ after_flush \in BOOLEAN
  /\ listed \in BOOLEAN
  /\ handshake \in {Done} \cup 0 .. RetryMax
  /\ handler \in {"none", "shutdownAfterFlush", "shutdown", "WEBSOCKET", "SSE"}

\* EPOLLOUT is watched exactly while data waits: without it buffered data would
\* wait for the next write(), with it and no data the worker would spin.
WatchedWhilePending == ~is_shutdown => (epoll_out <=> write_buffer > 0)

\* What the socket has taken and what waits is all that was ever accepted: a
\* partial write neither drops nor repeats data, until the client is dropped.
NothingLost ==
  /\ ~is_shutdown => written = delivered + write_buffer
  /\ delivered <= written

\* "Shut down the client after all data in our send buffer is succesfully written
\* to the client": once it is written, a client marked so is shut down.
ClosedAfterFlush == after_flush /\ write_buffer = 0 => is_shutdown

\* On a plain connection it is.
PlainClosedAfterFlush == ~ssl => ClosedAfterFlush

\* What waits in the buffer of a plain connection is delivered or given up.
PendingIsFlushed == ~ssl /\ write_buffer > 0 ~> (write_buffer = 0 \/ ~listed)
==============================================================================
