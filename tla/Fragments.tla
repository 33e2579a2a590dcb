------------------------------ MODULE Fragments ------------------------------
(***************************************************************************)
(* What websocket::Response::sendData() writes for a message of a given    *)
(* size (src/websocket/Response.cpp): the sizes of its frames and the      *)
(* length each header announces.  The payload itself is copied unchanged.  *)
(***************************************************************************)
EXTENDS Integers, Sequences

WS_MAX_CHUNK_SIZE == 32768
UINT16_MAX == 65535

\* A frame: where in the message its payload begins and ends, its type, its FIN bit.
fragment(from, to, type, fin) ==
  [from |-> from, to |-> to, type |-> type, fin |-> fin]
sizeOf(f) == f.to - f.from

\* Mutant: the last chunk is cut like the others, and what is left is not sent.
sendDataCut(size) ==
  IF size < WS_MAX_CHUNK_SIZE
  THEN <<fragment(0, size, "type", 1)>>
  ELSE LET nChunks == size \div WS_MAX_CHUNK_SIZE
       IN  [i \in 1 .. nChunks |->
              fragment((i - 1) * WS_MAX_CHUNK_SIZE, i * WS_MAX_CHUNK_SIZE,
                       IF i = 1 THEN "type" ELSE "continuation",
                       IF i < nChunks THEN 0 ELSE 1)]

\* The frames of a message.  The last one takes all that is left, which may be
\* nearly two chunks: a message below two chunks goes out in one frame.
sendData(size) ==
  IF size < WS_MAX_CHUNK_SIZE
  THEN <<fragment(0, size, "type", 1)>>
  ELSE LET nChunks == size \div WS_MAX_CHUNK_SIZE
       IN  [i \in 1 .. nChunks |->
              fragment((i - 1) * WS_MAX_CHUNK_SIZE,
                       IF i < nChunks THEN i * WS_MAX_CHUNK_SIZE ELSE size,
                       IF i = 1 THEN "type" ELSE "continuation",
                       IF i < nChunks THEN 0 ELSE 1)]

\* The header of a frame: its length in bytes, and the form of its length field.
\* The last form copies only the two low bytes of a swapped 32-bit number, leaves
\* four bytes uninitialized, and is two bytes short of the eight a reader expects.
sendFragment(size) ==
  IF size < 126 THEN [headerSize |-> 2, field |-> 0]
  ELSE IF size < UINT16_MAX THEN [headerSize |-> 4, field |-> 2]
  ELSE [headerSize |-> 8, field |-> 8]

------------------------------------------------------------------------------
\* A client reads two bytes and the length field.  It finds the payload where it
\* was written, and as long as it was written, when the header is complete.
FrameReadable(size) ==
  LET h == sendFragment(size) IN h.headerSize = 2 + h.field

\* The frames are the message: they follow each other without gap or overlap from
\* its first byte to its last, the first one has its type and the last one ends it.
Whole(size) ==
  LET fs == sendData(size) IN
  /\ Len(fs) > 0
  /\ fs[1].from = 0 /\ fs[Len(fs)].to = size
  /\ \A i \in 1 .. Len(fs) : /\ fs[i].type = IF i = 1 THEN "type" ELSE "continuation"
                             /\ fs[i].fin = IF i < Len(fs) THEN 0 ELSE 1
                             /\ i < Len(fs) => fs[i].to = fs[i + 1].from
                             /\ sizeOf(fs[i]) >= 0

\* A client can read every frame of the message.
Decodable(size) ==
  \A i \in 1 .. Len(sendData(size)) : FrameReadable(sizeOf(sendData(size)[i]))

\* The sizes whose last frame is 65535 bytes, one more than the 16-bit form is used
\* for: one size in every WS_MAX_CHUNK_SIZE.
LastFrameTooLong(size) ==
  size >= UINT16_MAX /\ size % WS_MAX_CHUNK_SIZE = WS_MAX_CHUNK_SIZE - 1
==============================================================================
