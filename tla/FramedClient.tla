----------------------------- MODULE FramedClient -----------------------------
(***************************************************************************)
(* The other end of Framing: a client that writes RFC 6455 frames, and     *)
(* what the parser makes of them, however the bytes are read.              *)
(***************************************************************************)
EXTENDS Framing, FiniteSets, FiniteSetsExt, SequencesExt

(***************************************************************************)
(* The client (external): RFC 6455 frames, masked with a key.              *)
(***************************************************************************)
LengthBytes(n, masked) ==
  IF n < 126 THEN <<(IF masked THEN 128 ELSE 0) + n>>
  ELSE <<(IF masked THEN 128 ELSE 0) + 126, n \div 256, n % 256>>
FrameBytes(f, key) ==
  <<(IF f.fin THEN 128 ELSE 0) + f.opcode>>
  \o LengthBytes(Len(f.payload), key # <<>>)
  \o key
  \o [i \in 1 .. Len(f.payload) |->
        IF key = <<>> THEN f.payload[i] ELSE xor(f.payload[i], key, i - 1)]
Client(fs, key) ==
  [frames |-> fs, bytes |-> FlattenSeq([i \in 1 .. Len(fs) |-> FrameBytes(fs[i], key)])]

------------------------------------------------------------------------------
\* The frames of which every byte has been parsed.
KeySize == IF frames # <<>> /\ stream[2] >= 128 THEN 4 ELSE 0
EndOf(i) ==
  MapThenSumSet(LAMBDA k : Len(FrameBytes(frames[k], <<>>)) + KeySize, 1 .. i)
FramesParsed == Cardinality({i \in 1 .. Len(frames) : EndOf(i) <= pos - Len(buff)})

\* However the kernel cuts a client's bytes into reads, the handler is called with
\* the client's messages, whole, unmasked and in order, each in the very step that
\* consumes its last byte: the parser implements the receiver of MessageStream.  (A
\* client that sends invalid frames is promised nothing.)
Messages == INSTANCE MessageStream WITH
  taken <- FramesParsed,
  handled <- IF frames = <<>> THEN <<>> ELSE handled
ParserImplementsStream == Messages!StreamSpec
==============================================================================
