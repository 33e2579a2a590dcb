------------------------------- MODULE MCServer -------------------------------
(* The server's own threads, and what a worker does for one client: its event loop,
   the connection's buffer and the WebSocket frames.  Each is a model of its own, so a
   behaviour explores one of them beside the others at rest; the product would add no
   behaviour of any. *)
EXTENDS EventLoop, Connection, FramedClient, Server

VARIABLE part

MCDelay == [t \in Timers |-> CASE t = "handshake" -> 2 [] t = "ping" -> 1 [] OTHER -> 2]
Key == <<1, 0, 0, 1>>
Frame(opcode, fin, payload) == [opcode |-> opcode, fin |-> fin, payload |-> payload]
Invalid(bytes) == [frames |-> <<>>, bytes |-> bytes]

\* Fragmented messages with control frames in between, empty frames, a payload
\* longer than the mask, a message only too big as a whole, a 16-bit length, no
\* mask, bytes after a CLOSE, and every kind of frame the parser refuses.
MCClients == {
  Client(<<Frame(1, FALSE, <<1, 0>>), Frame(9, TRUE, <<1>>), Frame(0, FALSE, <<>>),
           Frame(10, TRUE, <<>>), Frame(0, TRUE, <<0, 1, 1>>)>>, Key),
  Client(<<Frame(1, TRUE, <<>>), Frame(1, TRUE, <<1, 1, 0, 0, 1, 0>>)>>, Key),
  Client(<<Frame(1, FALSE, <<1, 1, 1, 0>>), Frame(0, TRUE, <<0, 1, 1, 1>>), Frame(1, TRUE, <<1>>)>>, Key),
  Client(<<Frame(2, TRUE, [i \in 1 .. 126 |-> i % 2])>>, Key),
  Client(<<Frame(1, TRUE, <<>>), Frame(9, TRUE, <<>>), Frame(1, FALSE, <<1>>), Frame(0, TRUE, <<>>)>>, <<>>),
  Client(<<Frame(8, TRUE, <<>>), Frame(1, TRUE, <<1>>)>>, Key),
  Invalid(<<16>>), Invalid(<<3, 128, 1, 0, 0, 1>>), Invalid(<<128>>), Invalid(<<9>>),
  Invalid(<<137, 126>>), Invalid(<<129, 126, 0, 5>>), Invalid(<<129, 255, 0, 0, 0, 0, 0, 0, 0, 5, 1, 1>>)}

Init ==
  /\ LoopInit /\ ConnInit /\ FrameInit /\ ServerInit
  /\ part \in {"loop", "buffer", "frames", "server"}
  /\ part # "buffer" => ~ssl
  /\ part # "frames" => stream = <<16>>
  /\ part # "server" => ~enable_ssl /\ up
Next ==
  /\ UNCHANGED part
  /\ \/ part = "loop" /\ LoopNext /\ UNCHANGED <<connVars, frameVars, serverVars>>
     \/ part = "buffer" /\ ConnNext /\ UNCHANGED <<loopVars, frameVars, serverVars>>
     \/ part = "frames" /\ FrameNext /\ UNCHANGED <<loopVars, connVars, serverVars>>
     \/ part = "server" /\ ServerNext /\ UNCHANGED <<loopVars, connVars, frameVars>>

\* The fairness of each, where it runs.
Fairness ==
  /\ WF_loopVars(part = "loop" /\ process) /\ WF_loopVars(part = "loop" /\ Tick)
  /\ WF_connVars(part = "buffer" /\ handlerSteps) /\ WF_connVars(part = "buffer" /\ removeConnection)
  /\ SF_connVars(part = "buffer" /\ onEpollOut)
  /\ WF_serverVars(part = "server" /\ mainThread) /\ WF_serverVars(part = "server" /\ cronThread)
  /\ SF_serverVars(part = "server" /\ cronLoop(TRUE))

Spec == Init /\ [][Next]_<<loopVars, connVars, frameVars, serverVars, part>> /\ Fairness
================================================================================
