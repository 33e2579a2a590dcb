------------------------------- MODULE MCWorker -------------------------------
(* Worker on a few clients; the timers' delays are the parameters. *)
EXTENDS Worker

CONSTANTS HandshakeTimeout, PingInterval, SampleRate

MCRepeating == {SampleTimer} \cup {PingTimer(c) : c \in Conns}
MCTimers == MCRepeating \cup {HandshakeTimer(c) : c \in Conns}
MCDelay == [t \in MCTimers |->
  CASE t.kind = "handshake" -> HandshakeTimeout
    [] t.kind = "ping" -> PingInterval
    [] t.kind = "sample" -> SampleRate]
==============================================================================
