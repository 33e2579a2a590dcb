--------------------------- MODULE ConnectionProofs ----------------------------
(***************************************************************************)
(* One client's connection: what Connection writes and when it is shut     *)
(* down, what websocket::Response::sendData() writes for a message of any  *)
(* size, and what the frame parser hands to HandleRequest(), for any bytes *)
(* a client sends and any way they are read.                               *)
(***************************************************************************)
EXTENDS Connection, Framing, TLAPS

\* The inductive invariant; each conjunct needs the types, and the last needs the
\* second: an EPOLLOUT event finds data in the buffer.
ConnectionInv == ConnTypeOK /\ WatchedWhilePending /\ NothingLost /\ PlainClosedAfterFlush

\* The part of the type invariant about the Boolean fields.
Flags ==
  /\ ssl \in BOOLEAN /\ epoll_out \in BOOLEAN /\ is_shutdown \in BOOLEAN
  /\ after_flush \in BOOLEAN /\ listed \in BOOLEAN

\* The initial state satisfies the invariant.
LEMMA ConnectionInitInv == ConnInit => ConnectionInv
<1> SUFFICES ASSUME ConnInit PROVE ConnectionInv
  OBVIOUS
<1> USE ConnectionAssumption DEF ConnInit
<1>1. Flags
  BY Zenon DEF Flags
<1>2. ConnTypeOK
  BY <1>1 DEF ConnTypeOK, Flags, Done
<1>3. WatchedWhilePending /\ NothingLost /\ PlainClosedAfterFlush
  BY DEF WatchedWhilePending, NothingLost, PlainClosedAfterFlush, ClosedAfterFlush
<1> QED BY <1>2, <1>3 DEF ConnectionInv

\* flushSendBuffer() with b in the buffer, all of it written by the client's
\* handlers, leaves the buffer, the totals and EPOLLOUT in agreement.
LEMMA FlushKeepsInv ==
  ASSUME ConnectionInv, ~is_shutdown,
         NEW b \in 1 .. BufferMax, NEW writable \in BOOLEAN, NEW total \in Nat,
         total = delivered + b, flushSendBuffer(b, writable)
  PROVE  /\ write_buffer' \in 0 .. BufferMax /\ delivered' \in Nat /\ ssl' = ssl
         /\ epoll_out' \in BOOLEAN /\ is_shutdown' \in BOOLEAN
         /\ ~is_shutdown' => (epoll_out' <=> write_buffer' > 0)
         /\ ~is_shutdown' => total = delivered' + write_buffer'
         /\ delivered' <= total
         /\ ~ssl /\ after_flush /\ write_buffer' = 0 => is_shutdown'
<1> USE ConnectionAssumption
<1>1. delivered \in Nat /\ ssl \in BOOLEAN /\ epoll_out \in BOOLEAN /\ is_shutdown \in BOOLEAN
  BY DEF ConnectionInv, ConnTypeOK
<1>2. CASE writeError(b)
  <2>1. is_shutdown' = TRUE /\ is_shutdown' \in BOOLEAN /\ epoll_out' \in BOOLEAN
    BY <1>1, <1>2, Zenon DEF writeError
  <2> QED BY <1>1, <1>2, <2>1 DEF writeError
<1>3. ASSUME NEW k \in Taken(b, writable), flushed(b, k), k < b
      PROVE  /\ epoll_out' = TRUE /\ epoll_out' \in BOOLEAN /\ is_shutdown' = is_shutdown
             /\ k \in 0 .. b /\ write_buffer' = b - k /\ delivered' = delivered + k /\ ssl' = ssl
  <2>1. k \in 0 .. b
    BY <1>3 DEF Taken
  <2>2. ~(k = b)
    BY <1>3, <2>1
  <2>3. epoll_out' = TRUE /\ epoll_out' \in BOOLEAN /\ is_shutdown' = is_shutdown
    BY <1>3, <2>2, Zenon DEF flushed
  <2> QED BY <1>3, <2>1, <2>3 DEF flushed
<1>4. ASSUME NEW k \in Taken(b, writable), flushed(b, k), ~(k < b)
      PROVE  /\ epoll_out' = FALSE /\ epoll_out' \in BOOLEAN /\ is_shutdown' \in BOOLEAN
             /\ ~ssl /\ after_flush => is_shutdown'
             /\ write_buffer' = 0 /\ delivered' = delivered + b /\ ssl' = ssl
  <2>0. k = b
    BY <1>4 DEF Taken
  <2>1. write_buffer' = 0 /\ delivered' = delivered + b /\ ssl' = ssl
    BY <1>1, <1>4, <2>0 DEF flushed
  <2>2. epoll_out' = FALSE /\ epoll_out' \in BOOLEAN
    BY <1>4, Zenon DEF flushed
  <2>3. is_shutdown' \in BOOLEAN /\ (~ssl /\ after_flush => is_shutdown')
    BY <1>1, <1>4, Zenon DEF flushed
  <2> QED BY <2>1, <2>2, <2>3
<1> QED
  <2>1. CASE \E k \in Taken(b, writable) : flushed(b, k) /\ k < b
    <3> PICK k \in Taken(b, writable) : flushed(b, k) /\ k < b
      BY <2>1
    <3>1. /\ epoll_out' = TRUE /\ epoll_out' \in BOOLEAN /\ is_shutdown' = is_shutdown
          /\ k \in 0 .. b /\ write_buffer' = b - k /\ delivered' = delivered + k /\ ssl' = ssl
      BY <1>3, Zenon
    <3>2. epoll_out' /\ is_shutdown' \in BOOLEAN
      BY <1>1, <3>1, Zenon
    <3>3. write_buffer' \in 1 .. BufferMax /\ delivered' \in Nat /\ total = delivered' + write_buffer'
      BY <1>1, <3>1
    <3> QED BY <3>1, <3>2, <3>3
  <2>2. CASE \E k \in Taken(b, writable) : flushed(b, k) /\ ~(k < b)
    <3> PICK k \in Taken(b, writable) : flushed(b, k) /\ ~(k < b)
      BY <2>2
    <3>1. /\ epoll_out' = FALSE /\ epoll_out' \in BOOLEAN /\ is_shutdown' \in BOOLEAN
          /\ ~ssl /\ after_flush => is_shutdown'
          /\ write_buffer' = 0 /\ delivered' = delivered + b /\ ssl' = ssl
      BY <1>4, Zenon
    <3>2. ~epoll_out'
      BY <3>1, Zenon
    <3>3. ~(write_buffer' > 0) /\ write_buffer' \in 0 .. BufferMax /\ delivered' \in Nat
          /\ total = delivered' + write_buffer'
      BY <1>1, <3>1
    <3> QED BY <3>1, <3>2, <3>3
  <2> QED BY <1>2, <2>1, <2>2 DEF flushSendBuffer

\* write() keeps them in agreement too, whether the data fits or overflows.
LEMMA WriteKeepsInv ==
  ASSUME ConnectionInv, ~is_shutdown, NEW n \in Sizes, write(n),
         UNCHANGED <<state, after_flush, listed, handshake>>,
         handler' \in {"none", "shutdownAfterFlush", "shutdown", "WEBSOCKET", "SSE"}
  PROVE  ConnectionInv'
<1> USE ConnectionAssumption DEF ConnectionInv, ConnTypeOK, WatchedWhilePending, NothingLost,
        PlainClosedAfterFlush, ClosedAfterFlush
<1>1. CASE write_buffer + n > BufferMax
  <2>1. ~(write_buffer + n <= BufferMax)
    BY <1>1
  <2>2. is_shutdown' = TRUE /\ is_shutdown' \in BOOLEAN
    BY <2>1, Zenon DEF write
  <2>3. write_buffer' = 0 /\ UNCHANGED <<ssl, epoll_out, delivered, written>>
    BY <2>1, Zenon DEF write
  <2> QED BY <2>2, <2>3
<1>2. CASE ~(write_buffer + n > BufferMax)
  <2>1. /\ write_buffer + n \in 1 .. BufferMax /\ written + n \in Nat
        /\ written + n = delivered + (write_buffer + n)
    BY <1>2
  <2>2. flushSendBuffer(write_buffer + n, FALSE) /\ written' = written + n
    BY <1>2, Zenon DEF write
  <2> QED BY <2>1, <2>2, FlushKeepsInv, Zenon
<1> QED BY <1>1, <1>2

\* Every step keeps the invariant.
LEMMA ConnectionStep == ConnectionInv /\ [ConnNext]_connVars => ConnectionInv'
<1> SUFFICES ASSUME ConnectionInv, [ConnNext]_connVars PROVE ConnectionInv'
  OBVIOUS
<1> USE ConnectionAssumption DEF ConnectionInv, ConnTypeOK, WatchedWhilePending, NothingLost,
        PlainClosedAfterFlush, ClosedAfterFlush
<1>1. ASSUME is_shutdown' = TRUE, listed' \in BOOLEAN, after_flush' \in BOOLEAN,
             UNCHANGED <<state, bufVars, written>>,
             handshake' \in {Done} \cup 0 .. RetryMax, handler' \in {handler, "none"}
      PROVE  ConnectionInv'
  <2>1. is_shutdown' \in BOOLEAN
    BY <1>1, Zenon
  <2> QED BY <1>1, <2>1 DEF bufVars
<1>2. CASE hangUp
  <2>1. is_shutdown' = TRUE /\ listed' \in BOOLEAN
    BY <1>2, Zenon DEF hangUp
  <2> QED BY <1>1, <1>2, <2>1 DEF hangUp
<1>3. CASE removeConnection
  <2>1. listed' \in BOOLEAN
    BY <1>3, Zenon DEF removeConnection
  <2> QED BY <1>3, <2>1 DEF removeConnection, bufVars
<1>4. CASE onEpollOut
  <2>1. ~is_shutdown /\ write_buffer \in 1 .. BufferMax /\ written = delivered + write_buffer
    BY <1>4 DEF onEpollOut, Free
  <2>2. /\ flushSendBuffer(write_buffer, TRUE)
        /\ UNCHANGED <<state, after_flush, listed, handshake, handler, written>>
    <3>1. ~(write_buffer = 0)
      BY <2>1
    <3> QED BY <1>4, <3>1, Zenon DEF onEpollOut
  <2> QED BY <2>1, <2>2, FlushKeepsInv, Zenon
<1>5. CASE sslHandshake
  <2>1. handshake' \in {Done} \cup 0 .. RetryMax
    BY <1>5 DEF sslHandshake, Done
  <2>2. CASE is_shutdown' = TRUE
    BY <1>1, <1>5, <2>1, <2>2 DEF sslHandshake
  <2>3. CASE UNCHANGED is_shutdown
    BY <1>5, <2>1, <2>3 DEF sslHandshake, bufVars
  <2> QED BY <1>5, <2>2, <2>3, Zenon DEF sslHandshake
<1>6. CASE readShutsDown \/ handshakeTimeout
  BY <1>1, <1>6, Zenon DEF readShutsDown, handshakeTimeout, shutdown
<1>7. ASSUME NEW n \in Sizes, NEW next \in {"shutdownAfterFlush", "WEBSOCKET", "SSE"}, httpRequest(n, next)
      PROVE ConnectionInv'
  BY <1>7, WriteKeepsInv DEF httpRequest, Readable, Free
<1>8. ASSUME NEW n \in Sizes, NEW next \in {"none", "shutdown"}, websocketFrame(n, next)
      PROVE ConnectionInv'
  BY <1>8, WriteKeepsInv DEF websocketFrame, Readable, Free
<1>9. ASSUME NEW n \in Sizes, push(n) PROVE ConnectionInv'
  BY <1>9, WriteKeepsInv DEF push, Free
<1>10. CASE setState
  BY <1>10 DEF setState, bufVars
<1>11. CASE handlerShutdown
  BY <1>1, <1>11 DEF handlerShutdown
<1>12. CASE shutdownAfterFlush
  <2>1. CASE write_buffer = 0
    BY <1>1, <1>12, <2>1 DEF shutdownAfterFlush
  <2>2. CASE write_buffer # 0
    <3>1. after_flush' \in BOOLEAN
      BY <1>12, <2>2, Zenon DEF shutdownAfterFlush
    <3> QED BY <1>12, <2>2, <3>1 DEF shutdownAfterFlush, bufVars
  <2> QED BY <2>1, <2>2
<1>13. CASE UNCHANGED connVars
  BY <1>13 DEF connVars
<1> QED
  BY <1>2, <1>3, <1>4, <1>5, <1>6, <1>7, <1>8, <1>9, <1>10, <1>11, <1>12, <1>13 DEF ConnNext, handlerSteps

\* The invariant holds in every reachable state of a connection.
THEOREM ConnectionInvariant == ConnSpec => []ConnectionInv
  BY ConnectionInitInv, ConnectionStep, PTL DEF ConnSpec

\* The fields keep their types and the write buffer its limit.
THEOREM ConnectionTypeCorrect == ConnSpec => []ConnTypeOK
  BY ConnectionInvariant, PTL DEF ConnectionInv

\* EPOLLOUT is watched exactly while data waits to be written.
THEOREM WatchedIsExact == ConnSpec => []WatchedWhilePending
  BY ConnectionInvariant, PTL DEF ConnectionInv

\* Partial writes neither drop nor repeat data.
THEOREM NothingIsLost == ConnSpec => []NothingLost
  BY ConnectionInvariant, PTL DEF ConnectionInv

\* A plain connection marked to close after its flush is shut down once it is flushed.
THEOREM PlainCloses == ConnSpec => []PlainClosedAfterFlush
  BY ConnectionInvariant, PTL DEF ConnectionInv

(***************************************************************************)
(* What is sent.                                                           *)
(***************************************************************************)

\* The fields of a fragment.
LEMMA FragmentFields ==
  ASSUME NEW from, NEW to, NEW type, NEW fin
  PROVE  /\ fragment(from, to, type, fin).from = from
         /\ fragment(from, to, type, fin).to = to
         /\ fragment(from, to, type, fin).type = type
         /\ fragment(from, to, type, fin).fin = fin
  BY DEF fragment

\* Of a message of at least one chunk, n whole chunks are counted and less than
\* another one is left.
LEMMA Chunks ==
  ASSUME NEW size \in Nat
  PROVE  LET n == size \div 32768 IN
         /\ n \in Nat
         /\ n * 32768 <= size /\ size < (n + 1) * 32768
         /\ size % 32768 = size - n * 32768
  BY SMT

\* Frame i of the n frames of a message of at least one chunk.
LongFrame(size, n, i) ==
  fragment((i - 1) * 32768,
           IF i < n THEN i * 32768 ELSE size,
           IF i = 1 THEN "type" ELSE "continuation",
           IF i < n THEN 0 ELSE 1)

\* The frames of a message of at least one chunk.
LEMMA LongFrames ==
  ASSUME NEW size \in Nat, size >= 32768
  PROVE  LET n == size \div 32768 IN
         /\ n \in Nat \ {0}
         /\ Len(sendData(size)) = n
         /\ \A i \in 1 .. n : sendData(size)[i] = LongFrame(size, n, i)
<1> DEFINE n == size \div 32768
           g(i) == LongFrame(size, n, i)
<1>1. n \in Nat \ {0}
  BY Chunks
<1>2. sendData(size) = [i \in 1 .. n |-> g(i)]
  BY DEF sendData, WS_MAX_CHUNK_SIZE, LongFrame
<1>3. Len(sendData(size)) = n
  BY <1>1, <1>2
<1>4. \A i \in 1 .. n : sendData(size)[i] = g(i)
  BY <1>2
<1> QED
  BY <1>1, <1>3, <1>4

\* A message of less than a chunk is one frame.
LEMMA ShortFrames ==
  ASSUME NEW size \in Nat, size < 32768
  PROVE  /\ Len(sendData(size)) = 1
         /\ sendData(size)[1] = fragment(0, size, "type", 1)
  BY DEF sendData, WS_MAX_CHUNK_SIZE

\* The frames that sendData() cuts a message into are the whole message, in order,
\* whatever its size.
THEOREM FragmentsAreWhole ==
  ASSUME NEW size \in Nat
  PROVE  Whole(size)
<1>1. CASE size < 32768
  <2> DEFINE fs == sendData(size)
  <2>1. Len(fs) = 1 /\ fs[1] = fragment(0, size, "type", 1)
    BY <1>1, ShortFrames
  <2> HIDE DEF fs
  <2>2. /\ fs[1].from = 0 /\ fs[1].to = size
        /\ fs[1].type = "type" /\ fs[1].fin = 1
    BY <2>1, FragmentFields
  <2>3. \A i \in 1 .. Len(fs) : i = 1
    BY <2>1
  <2>4. Len(fs) > 0 /\ ~(1 < Len(fs)) /\ sizeOf(fs[1]) >= 0
    BY <2>1, <2>2 DEF sizeOf
  <2> QED
    BY <2>1, <2>2, <2>3, <2>4 DEF Whole, fs
<1>2. CASE size >= 32768
  <2> DEFINE n == size \div 32768
             fs == sendData(size)
  <2>1. /\ n \in Nat \ {0}
        /\ Len(fs) = n
        /\ \A i \in 1 .. n : fs[i] = LongFrame(size, n, i)
    BY <1>2, LongFrames
  <2>2. n * 32768 <= size
    BY Chunks
  <2> HIDE DEF n, fs
  <2>3. ASSUME NEW i \in 1 .. n
        PROVE  /\ fs[i].from = (i - 1) * 32768
               /\ fs[i].to = IF i < n THEN i * 32768 ELSE size
               /\ fs[i].type = IF i = 1 THEN "type" ELSE "continuation"
               /\ fs[i].fin = IF i < n THEN 0 ELSE 1
    BY <2>1, FragmentFields DEF LongFrame
  <2>4. fs[1].from = 0 /\ fs[n].to = size
    BY <2>1, <2>3
  <2>5. ASSUME NEW i \in 1 .. n
        PROVE  /\ i < n => fs[i].to = fs[i + 1].from
               /\ sizeOf(fs[i]) >= 0
    <3>1. i < n => i + 1 \in 1 .. n
      BY <2>1
    <3>2. i < n => fs[i].to = fs[i + 1].from
      BY <2>1, <2>3, <3>1
    <3>3. sizeOf(fs[i]) >= 0
      BY <2>1, <2>2, <2>3 DEF sizeOf
    <3> QED
      BY <3>2, <3>3
  <2>6. Len(fs) > 0
    BY <2>1
  <2> QED
    BY <2>1, <2>3, <2>4, <2>5, <2>6 DEF Whole, fs
<1> QED
  BY <1>1, <1>2

\* Every frame of a message can be read, except that a last frame of exactly 65535
\* bytes cannot: the sizes for which sendData() writes one are those of
\* LastFrameTooLong, and no others.
THEOREM UnreadableSizes ==
  ASSUME NEW size \in Nat
  PROVE  Decodable(size) <=> ~LastFrameTooLong(size)
<1>0. \A k \in Nat : FrameReadable(k) <=> k < 65535
  BY DEF FrameReadable, sendFragment, UINT16_MAX
<1>1. CASE size < 32768
  <2>1. ~LastFrameTooLong(size)
    BY <1>1 DEF LastFrameTooLong, UINT16_MAX
  <2> DEFINE fs == sendData(size)
  <2>2. Len(fs) = 1 /\ fs[1] = fragment(0, size, "type", 1)
    BY <1>1, ShortFrames
  <2> HIDE DEF fs
  <2>3. fs[1].from = 0 /\ fs[1].to = size
    BY <2>2, FragmentFields
  <2>4. FrameReadable(sizeOf(fs[1]))
    BY <1>0, <1>1, <2>3 DEF sizeOf
  <2>5. Decodable(size)
    BY <2>2, <2>4 DEF Decodable, fs
  <2> QED
    BY <2>1, <2>5
<1>2. CASE size >= 32768
  <2> DEFINE n == size \div 32768
             fs == sendData(size)
  <2>1. /\ n \in Nat \ {0}
        /\ Len(fs) = n
        /\ \A i \in 1 .. n : fs[i] = LongFrame(size, n, i)
    BY <1>2, LongFrames
  <2>2. /\ n * 32768 <= size /\ size < (n + 1) * 32768
        /\ size % 32768 = size - n * 32768
    BY Chunks
  <2>3. Decodable(size) <=> \A i \in 1 .. n : FrameReadable(sizeOf(fs[i]))
    BY <2>1 DEF Decodable
  <2> HIDE DEF n, fs
  <2>4. ASSUME NEW i \in 1 .. n
        PROVE  sizeOf(fs[i]) = IF i < n THEN 32768 ELSE size - (n - 1) * 32768
    BY <2>1, FragmentFields DEF LongFrame, sizeOf
  <2>5. \A i \in 1 .. n : i < n => FrameReadable(sizeOf(fs[i]))
    BY <1>0, <2>4
  <2>6. FrameReadable(sizeOf(fs[n])) <=> size - (n - 1) * 32768 < 65535
    <3>1. sizeOf(fs[n]) = size - (n - 1) * 32768
      BY <2>1, <2>4
    <3>2. size - (n - 1) * 32768 \in Nat
      BY <2>1, <2>2
    <3> QED
      BY <1>0, <3>1, <3>2
  <2>7. Decodable(size) <=> size - (n - 1) * 32768 < 65535
    BY <2>1, <2>3, <2>5, <2>6
  <2>8. LastFrameTooLong(size) <=> size - (n - 1) * 32768 >= 65535
    BY <2>1, <2>2 DEF LastFrameTooLong, UINT16_MAX, WS_MAX_CHUNK_SIZE
  <2> QED
    BY <2>1, <2>2, <2>7, <2>8
<1> QED
  BY <1>1, <1>2

(***************************************************************************)
(* What is received.                                                       *)
(***************************************************************************)
Bytes == 0 .. 255
States == {"OPCODE", "LENGTH", "EXTENDED", "MASK", "PAYLOAD"}
Parsers == [state : States, fin : BOOLEAN, control : BOOLEAN, fragment : BOOLEAN,
            mask_flag : BOOLEAN, mask : Seq(Bytes), mask_pos : 0 .. 3,
            need : Nat, least : Nat, bytes_remaining : Nat]
DataMessages == [type : {0, 1, 2}, payload : Seq(Nat)]
ControlMessages == [type : {0, 8, 9, 10}, payload : Seq(Nat)]

\* The mask is empty until its bytes come and has four bytes when a masked payload is
\* read, so the parser never reads past it.
MaskOK ==
  /\ p.state = "EXTENDED" => p.mask = <<>>
  /\ p.state = "MASK" => Len(p.mask) + p.need = 4
  /\ p.state = "PAYLOAD" /\ p.mask_flag => Len(p.mask) = 4

\* ws_parser_t and the two payload buffers hold values of their types.
ParserTypeOK ==
  /\ p \in Parsers
  /\ MaskOK
  /\ data \in DataMessages
  /\ control \in ControlMessages

FrameTypeOK ==
  /\ stream \in Seq(Bytes) /\ pos \in Nat /\ buff \in Seq(Bytes)
  /\ ParserTypeOK
  /\ handled \in Seq([type : Nat, payload : Seq(Nat)])
  /\ hung_up \in BOOLEAN
  /\ answer \in Nat

\* The inductive form of OversizeHangsUp: a message under way that is too big has
\* hung the client up already, before the last of its fragments.
FrameInv ==
  /\ FrameTypeOK
  /\ Len(data.payload) > MaxData => hung_up
  /\ OversizeHangsUp

\* The byte at hand, and what is left after it.
LEMMA NextByte ==
  ASSUME buff \in Seq(Bytes), buff # <<>>
  PROVE  Byte \in Bytes /\ Tail(buff) \in Seq(Bytes)
  BY DEF Byte

\* The end of a frame: HandleRequest() is called with a message within the limit, or
\* with one whose client is hung up.
LEMMA EndOfPayload ==
  ASSUME handled \in Seq([type : Nat, payload : Seq(Nat)]), answer \in Nat, hung_up \in BOOLEAN,
         OversizeHangsUp, p.control \in BOOLEAN, p.fin \in BOOLEAN,
         NEW d \in DataMessages,
         NEW c \in ControlMessages,
         NEW down \in BOOLEAN, hung_up => down, Len(d.payload) > MaxData => down,
         endOfPayload(d, c, down)
  PROVE  /\ handled' \in Seq([type : Nat, payload : Seq(Nat)])
         /\ answer' \in Nat /\ hung_up' \in BOOLEAN
         /\ down => hung_up'
         /\ OversizeHangsUp'
<1>1. ASSUME NEW m \in [type : Nat, payload : Seq(Nat)],
             m.type \in {1, 2} /\ Len(m.payload) > MaxData => down,
             HandleRequest(m, down)
      PROVE  /\ handled' \in Seq([type : Nat, payload : Seq(Nat)])
             /\ answer' \in Nat /\ hung_up' \in BOOLEAN
             /\ down => hung_up'
             /\ OversizeHangsUp'
  <2>1. handled' = Append(handled, m) /\ (down => hung_up') /\ hung_up' \in BOOLEAN
    BY <1>1 DEF HandleRequest
  <2>2. /\ handled' \in Seq([type : Nat, payload : Seq(Nat)])
        /\ Len(handled') = Len(handled) + 1 /\ handled'[Len(handled) + 1] = m
        /\ \A i \in 1 .. Len(handled) : handled'[i] = handled[i]
    BY <2>1
  <2>3. answer' \in Nat
    <3>1. Len(m.payload) \in Nat
      OBVIOUS
    <3> QED BY <1>1, <3>1, FramingAssumption DEF HandleRequest
  <2>4. \A i \in 1 .. Len(handled') : i \in 1 .. Len(handled) \/ i = Len(handled) + 1
    BY <2>2
  <2> QED BY <1>1, <2>1, <2>2, <2>3, <2>4 DEF OversizeHangsUp
<1>2. CASE p.control /\ HandleRequest(c, down)
  <2>1. c \in [type : Nat, payload : Seq(Nat)] /\ c.type \notin {1, 2}
    BY DEF ControlMessages
  <2> QED BY <1>1, <1>2, <2>1
<1>3. CASE ~p.control /\ p.fin /\ HandleRequest(d, down)
  <2>1. d \in [type : Nat, payload : Seq(Nat)]
    BY DEF DataMessages
  <2> QED BY <1>1, <1>3, <2>1
<1>4. CASE ~p.control /\ ~p.fin /\ hung_up' = down /\ UNCHANGED <<handled, answer>>
  BY <1>4 DEF OversizeHangsUp
<1> QED BY <1>2, <1>3, <1>4 DEF endOfPayload

\* What a step that hands nothing over has to keep.
LEMMA HeaderStep ==
  ASSUME FrameInv, ParserTypeOK', buff' \in Seq(Bytes), UNCHANGED <<ioVars, outVars>>,
         data' = data \/ Len(data'.payload) = 0
  PROVE  FrameInv'
<1>1. FrameTypeOK'
  BY DEF FrameInv, FrameTypeOK, ioVars, outVars
<1>2. (Len(data.payload) > MaxData => hung_up)'
  BY FramingAssumption DEF FrameInv, outVars
<1>3. OversizeHangsUp'
  BY DEF FrameInv, OversizeHangsUp, outVars
<1> QED BY <1>1, <1>2, <1>3 DEF FrameInv

\* A frame that ends with its header.
LEMMA EmptyStep ==
  ASSUME FrameInv, ParserTypeOK', buff' \in Seq(Bytes), UNCHANGED <<ioVars, data, control>>,
         endOfPayload(data, control, hung_up)
  PROVE  FrameInv'
<1>1. /\ handled' \in Seq([type : Nat, payload : Seq(Nat)])
      /\ answer' \in Nat /\ hung_up' \in BOOLEAN
      /\ hung_up => hung_up'
      /\ OversizeHangsUp'
  BY EndOfPayload, SMTT(40) DEF FrameInv, FrameTypeOK, ParserTypeOK, Parsers
<1> QED BY <1>1 DEF FrameInv, FrameTypeOK, ioVars

\* The fields of the parser's record.
LEMMA ParserFields ==
  ASSUME NEW q \in Parsers
  PROVE  /\ q.state \in States /\ q.fin \in BOOLEAN /\ q.control \in BOOLEAN
         /\ q.mask_flag \in BOOLEAN /\ q.mask \in Seq(Bytes) /\ q.mask_pos \in 0 .. 3
         /\ q.need \in Nat /\ q.least \in Nat /\ q.bytes_remaining \in Nat
  BY Zenon DEF Parsers

\* Every step of the parser keeps the invariant.
LEMMA FrameStep == FrameInv /\ [FrameNext]_frameVars => FrameInv'
<1> SUFFICES ASSUME FrameInv, [FrameNext]_frameVars PROVE FrameInv'
  OBVIOUS
<1>p. p \in Parsers /\ MaskOK
  BY DEF FrameInv, FrameTypeOK, ParserTypeOK
<1>d. data \in DataMessages /\ control \in ControlMessages
  BY DEF FrameInv, FrameTypeOK, ParserTypeOK
<1>r. buff \in Seq(Bytes)
  BY DEF FrameInv, FrameTypeOK
<1>b. ASSUME NEW st, In(st)
      PROVE  /\ Byte \in Bytes /\ Tail(buff) \in Seq(Bytes) /\ p.state = st
             /\ Byte \in Nat /\ Fin \in BOOLEAN /\ Masked \in BOOLEAN
             /\ Opcode \in Nat /\ Length \in Nat
  <2>1. Byte \in Bytes /\ Tail(buff) \in Seq(Bytes) /\ p.state = st
    BY <1>b, <1>r, NextByte DEF In
  <2> QED BY <2>1 DEF Bytes, Fin, Masked, Opcode, Length
<1>e. <<>> \in Seq(Bytes) /\ <<>> \in Seq(Nat) /\ Len(<<>>) = 0
  OBVIOUS
<1>1. ASSUME NEW n \in 1 .. ReadSize, read(n) PROVE FrameInv'
  <2>1. buff' \in Seq(Bytes) /\ pos' \in Nat
    <3>1. pos \in Nat /\ stream \in Seq(Bytes) /\ n \in Nat /\ pos + n <= Len(stream)
      BY <1>1, FramingAssumption DEF read, FrameInv, FrameTypeOK
    <3> QED BY <1>1, <3>1 DEF read
  <2> QED
    BY <1>1, <2>1 DEF read, FrameInv, FrameTypeOK, ParserTypeOK, MaskOK, OversizeHangsUp, outVars
<1>2. CASE badOpcode
  <2>1. /\ In("OPCODE") /\ buff' = <<>> /\ UNCHANGED <<ioVars, data, control, outVars>>
        /\ p' = p \/ p' = [p EXCEPT !.fin = Fin]
    BY <1>2 DEF badOpcode, refuse
  <2>2. p' \in Parsers /\ p'.state = "OPCODE"
    BY <1>b, <1>p, <2>1, Zenon DEF Parsers
  <2>3. ParserTypeOK'
    BY <1>d, <2>1, <2>2, Zenon DEF ParserTypeOK, MaskOK
  <2> QED BY <1>e, <2>1, <2>3, HeaderStep
<1>3. CASE continuationFrame
  <2>1. /\ In("OPCODE") /\ buff' = Tail(buff) /\ UNCHANGED <<ioVars, data, control, outVars>>
        /\ p' = [p EXCEPT !.fin = Fin, !.control = FALSE, !.state = "LENGTH"]
    BY <1>3 DEF continuationFrame, goOn
  <2>2. p' \in Parsers /\ p'.state = "LENGTH"
    BY <1>b, <1>p, <2>1, Zenon DEF Parsers, States
  <2>3. ParserTypeOK'
    BY <1>d, <2>1, <2>2, Zenon DEF ParserTypeOK, MaskOK
  <2> QED BY <1>b, <2>1, <2>3, HeaderStep
<1>4. CASE controlFrame
  <2>1. /\ In("OPCODE") /\ buff' = Tail(buff) /\ UNCHANGED <<ioVars, data, outVars>>
        /\ p' = [p EXCEPT !.fin = Fin, !.control = TRUE, !.state = "LENGTH"]
        /\ control' = [type |-> Opcode, payload |-> <<>>] /\ Opcode \in {8, 9, 10}
    BY <1>4 DEF controlFrame, goOn, BadOpcode, CLOSE, PING, PONG
  <2>2. p' \in Parsers /\ p'.state = "LENGTH"
    BY <1>b, <1>p, <2>1, Zenon DEF Parsers, States
  <2>3. control' \in ControlMessages
    BY <1>e, <2>1 DEF ControlMessages
  <2>4. ParserTypeOK'
    BY <1>d, <2>1, <2>2, <2>3, Zenon DEF ParserTypeOK, MaskOK
  <2> QED BY <1>b, <2>1, <2>4, HeaderStep
<1>5. CASE dataFrame
  <2>1. /\ In("OPCODE") /\ buff' = Tail(buff) /\ UNCHANGED <<ioVars, control, outVars>>
        /\ p' = [p EXCEPT !.fin = Fin, !.control = FALSE, !.fragment = ~Fin, !.state = "LENGTH"]
        /\ data' = [type |-> Opcode, payload |-> <<>>] /\ Opcode \in {1, 2}
    BY <1>5 DEF dataFrame, goOn
  <2>2. p' \in Parsers /\ p'.state = "LENGTH"
    BY <1>b, <1>p, <2>1, Zenon DEF Parsers, States
  <2>3. data' \in DataMessages /\ Len(data'.payload) = 0
    BY <1>e, <2>1 DEF DataMessages
  <2>4. ParserTypeOK'
    BY <1>d, <2>1, <2>2, <2>3, Zenon DEF ParserTypeOK, MaskOK
  <2> QED BY <1>b, <2>1, <2>3, <2>4, HeaderStep
<1>6. CASE shortLength
  <2>1. In("LENGTH") /\ buff' = Tail(buff)
    BY <1>6 DEF shortLength, endsEmpty, goOn
  <2>2. /\ AfterLength(Masked) \in States
        /\ AfterLength(Masked) = "MASK" \/ (AfterLength(Masked) = "PAYLOAD" /\ ~Masked)
        /\ 0 \in 0 .. 3 /\ 4 \in Nat
    BY DEF AfterLength, States
  <2>3. /\ WithLength \in Parsers
        /\ WithLength.mask = <<>> /\ WithLength.need = 4 /\ WithLength.mask_flag = Masked
        /\ WithLength.state = AfterLength(Masked)
    <3>1. Masked \in BOOLEAN /\ Length \in Nat
      BY <1>b, <2>1
    <3>2. WithLength \in Parsers
      BY <1>e, <1>p, <2>2, <3>1, Zenon DEF WithLength, Parsers
    <3>3. WithLength.mask = <<>> /\ WithLength.need = 4 /\ WithLength.mask_flag = Masked
      BY <1>p, Zenon DEF WithLength, Parsers
    <3>4. WithLength.state = AfterLength(Masked)
      BY <1>p, Zenon DEF WithLength, Parsers
    <3> QED BY <3>2, <3>3, <3>4, Zenon
  <2>4. CASE ~Masked /\ Length = 0
    <3>1. /\ p' = [WithLength EXCEPT !.state = "OPCODE"]
          /\ endOfPayload(data, control, hung_up) /\ UNCHANGED <<ioVars, data, control>>
      BY <1>6, <2>4 DEF shortLength, endsEmpty
    <3>2. p' \in Parsers /\ p'.state = "OPCODE"
      BY <2>3, <3>1, Zenon DEF Parsers, States
    <3>3. ParserTypeOK'
      BY <1>d, <3>1, <3>2, Zenon DEF ParserTypeOK, MaskOK
    <3> QED BY <1>b, <2>1, <3>1, <3>3, EmptyStep
  <2>5. CASE ~(~Masked /\ Length = 0)
    <3>1. p' = WithLength /\ UNCHANGED <<ioVars, data, control, outVars>>
      BY <1>6, <2>5 DEF shortLength, goOn
    <3>2. MaskOK'
      BY <1>e, <2>2, <2>3, <3>1 DEF MaskOK
    <3>3. ParserTypeOK'
      BY <1>d, <2>3, <3>1, <3>2, Zenon DEF ParserTypeOK
    <3> QED BY <1>b, <2>1, <3>1, <3>3, HeaderStep
  <2> QED BY <2>4, <2>5
<1>7. CASE longLength
  <2>1. In("LENGTH") /\ 0 \in 0 .. 3 /\ 0 \in Nat
    BY <1>7 DEF longLength
  <2>2. CASE refuse([p EXCEPT !.mask_flag = Masked, !.mask_pos = 0])
    <3>1. /\ p' = [p EXCEPT !.mask_flag = Masked, !.mask_pos = 0]
          /\ buff' = <<>> /\ UNCHANGED <<ioVars, data, control, outVars>>
      BY <2>2, Zenon DEF refuse
    <3>2. p' \in Parsers /\ p'.state = "LENGTH"
      BY <1>b, <1>p, <2>1, <3>1, Zenon DEF Parsers
    <3>3. ParserTypeOK'
      BY <1>d, <3>1, <3>2, Zenon DEF ParserTypeOK, MaskOK
    <3> QED BY <1>e, <3>1, <3>3, HeaderStep
  <2>3. ASSUME NEW width \in Nat, NEW least \in Nat
        PROVE  /\ WithoutLength(width, least) \in Parsers
               /\ WithoutLength(width, least).state = "EXTENDED"
               /\ WithoutLength(width, least).mask = <<>>
    <3>1. Masked \in BOOLEAN
      BY <1>b, <2>1
    <3> QED BY <1>e, <1>p, <2>1, <3>1, Zenon DEF WithoutLength, Parsers, States
  <2>4. CASE ~p.control
    <3>1. /\ \E width, least \in Nat : p' = WithoutLength(width, least)
          /\ buff' = Tail(buff) /\ UNCHANGED <<ioVars, data, control, outVars>>
      <4>1. /\ p' = IF Length = 126 THEN WithoutLength(2, 126) ELSE WithoutLength(8, 65536)
            /\ buff' = Tail(buff) /\ UNCHANGED <<ioVars, data, control, outVars>>
        BY <1>7, <2>4, SMTT(40) DEF longLength, goOn
      <4>2. CASE Length = 126
        BY <4>1, <4>2, SMTT(40)
      <4>3. CASE Length # 126
        BY <4>1, <4>3, SMTT(40)
      <4> QED BY <4>2, <4>3
    <3>2. p' \in Parsers /\ p'.state = "EXTENDED" /\ p'.mask = <<>>
      BY <2>3, <3>1
    <3>3. ParserTypeOK'
      BY <1>d, <3>1, <3>2, Zenon DEF ParserTypeOK, MaskOK
    <3> QED BY <1>b, <2>1, <3>1, <3>3, HeaderStep
  <2> QED BY <1>7, <2>2, <2>4, SMTT(40) DEF longLength
<1>8. CASE extendedLength
  <2>1. In("EXTENDED") /\ p.mask = <<>> /\ p.need \in Nat /\ p.mask_flag \in BOOLEAN
    BY <1>8, <1>b, <1>p, ParserFields DEF extendedLength, MaskOK
  <2> DEFINE remaining == 256 * p.bytes_remaining + Byte
             fewer == p.need - 1
             q == [p EXCEPT !.bytes_remaining = remaining, !.need = fewer]
             last == [q EXCEPT !.need = 4, !.state = AfterLength(p.mask_flag)]
  <2>2. /\ UNCHANGED <<ioVars, data, control, outVars>>
        /\ buff' = Tail(buff) \/ buff' = <<>>
        /\ (p.need > 1 /\ p' = q) \/ (p.need = 1 /\ p' = last)
    BY <1>8 DEF extendedLength, goOn, refuse
  <2>3. remaining \in Nat /\ (p.need >= 1 => fewer \in Nat) /\ 4 \in Nat
    <3>1. Byte \in Nat /\ p.bytes_remaining \in Nat
      BY <1>b, <1>p, <2>1, ParserFields
    <3> QED BY <2>1, <3>1
  <2>4. /\ AfterLength(p.mask_flag) \in States
        /\ \/ AfterLength(p.mask_flag) = "MASK"
           \/ AfterLength(p.mask_flag) = "PAYLOAD" /\ ~p.mask_flag
    BY <2>1 DEF AfterLength, States
  <2> HIDE DEF remaining, fewer
  <2>5. p.need >= 1 => q \in Parsers /\ q.state = "EXTENDED" /\ q.mask = <<>> /\ q.mask_flag = p.mask_flag
    BY <1>b, <1>p, <2>1, <2>3, Zenon DEF Parsers
  <2>6. CASE p.need > 1 /\ p' = q
    <3>1. p' \in Parsers /\ p'.state = "EXTENDED" /\ p'.mask = <<>>
      BY <2>1, <2>5, <2>6
    <3>2. ParserTypeOK'
      BY <1>d, <2>2, <3>1, Zenon DEF ParserTypeOK, MaskOK
    <3> QED BY <1>b, <1>e, <2>1, <2>2, <3>2, HeaderStep, Zenon
  <2>7. CASE p.need = 1 /\ p' = last
    <3>1. q \in Parsers /\ q.mask = <<>> /\ q.mask_flag = p.mask_flag
      BY <2>5, <2>7
    <3> HIDE DEF q
    <3>2. /\ p' \in Parsers /\ p'.state = AfterLength(p.mask_flag)
          /\ p'.need = 4 /\ p'.mask = <<>> /\ p'.mask_flag = p.mask_flag
      BY <2>3, <2>4, <2>7, <3>1, Zenon DEF Parsers
    <3>3. MaskOK'
      BY <1>e, <2>4, <3>2 DEF MaskOK
    <3>4. ParserTypeOK'
      BY <1>d, <2>2, <3>2, <3>3, Zenon DEF ParserTypeOK
    <3> QED BY <1>b, <1>e, <2>1, <2>2, <3>4, HeaderStep, Zenon
  <2> QED BY <2>2, <2>6, <2>7
<1>9. CASE maskByte
  <2>1. In("MASK") /\ buff' = Tail(buff)
    BY <1>9 DEF maskByte, goOn, endsEmpty
  <2>2. Len(p.mask) + p.need = 4 /\ p.mask \in Seq(Bytes) /\ p.need \in Nat
    BY <1>b, <1>p, <2>1, ParserFields DEF MaskOK
  <2> DEFINE longer == Append(p.mask, Byte)
             fewer == p.need - 1
             q == [p EXCEPT !.mask = longer, !.need = fewer]
             last == [q EXCEPT !.state = "PAYLOAD"]
  <2>3. /\ longer \in Seq(Bytes) /\ (p.need >= 1 => fewer \in Nat)
        /\ Len(longer) + fewer = 4 /\ (p.need = 1 => Len(longer) = 4)
    <3>1. Byte \in Bytes
      BY <1>b, <2>1
    <3>2. longer \in Seq(Bytes) /\ Len(longer) = Len(p.mask) + 1 /\ Len(p.mask) \in Nat
      BY <2>2, <3>1
    <3> HIDE DEF longer
    <3> QED BY <2>2, <3>2
  <2>4. /\ \/ p.need > 1 /\ p' = q /\ UNCHANGED <<ioVars, data, control, outVars>>
           \/ p.need = 1 /\ p' = last /\ UNCHANGED <<ioVars, data, control, outVars>>
           \/ /\ p.need = 1 /\ p' = [last EXCEPT !.state = "OPCODE"]
              /\ UNCHANGED <<ioVars, data, control>>
              /\ endOfPayload(data, control, hung_up)
    BY <1>9 DEF maskByte, goOn, endsEmpty
  <2> HIDE DEF longer, fewer
  <2>5. p.need >= 1 => q \in Parsers /\ q.state = "MASK" /\ q.mask = longer /\ q.need = fewer
    BY <1>b, <1>p, <2>1, <2>3, Zenon DEF Parsers
  <2>6. p.need >= 1 => last \in Parsers /\ last.state = "PAYLOAD" /\ last.mask = longer
    BY <2>5, Zenon DEF Parsers, States
  <2>7. CASE p.need > 1 /\ p' = q /\ UNCHANGED <<ioVars, data, control, outVars>>
    <3>1. p' \in Parsers /\ MaskOK'
      BY <2>2, <2>3, <2>5, <2>7 DEF MaskOK
    <3>2. ParserTypeOK'
      BY <1>d, <2>7, <3>1, Zenon DEF ParserTypeOK
    <3> QED BY <1>b, <2>1, <2>7, <3>2, HeaderStep
  <2>8. CASE p.need = 1 /\ p' = last /\ UNCHANGED <<ioVars, data, control, outVars>>
    <3>1. p' \in Parsers /\ MaskOK'
      BY <2>3, <2>6, <2>8 DEF MaskOK
    <3>2. ParserTypeOK'
      BY <1>d, <2>8, <3>1, Zenon DEF ParserTypeOK
    <3> QED BY <1>b, <2>1, <2>8, <3>2, HeaderStep
  <2>9. CASE /\ p.need = 1 /\ p' = [last EXCEPT !.state = "OPCODE"]
             /\ UNCHANGED <<ioVars, data, control>>
             /\ endOfPayload(data, control, hung_up)
    <3>1. last \in Parsers
      BY <2>6, <2>9
    <3>2. p' \in Parsers /\ p'.state = "OPCODE"
      BY <2>9, <3>1, Zenon DEF Parsers, States
    <3>3. ParserTypeOK'
      BY <1>d, <2>9, <3>2, Zenon DEF ParserTypeOK, MaskOK
    <3> QED BY <1>b, <2>1, <2>9, <3>3, EmptyStep
  <2> QED BY <2>4, <2>7, <2>8, <2>9
<1>10. CASE payloadBytes
  <2> DEFINE k == Chunk
             grown(m) == [m EXCEPT !.payload = m.payload \o Unmasked(k)]
             d == IF p.control THEN data ELSE grown(data)
             c == IF p.control THEN grown(control) ELSE control
             down == hung_up \/ TooBig(d)
             rest == p.bytes_remaining - k
             turned == IF p.mask_flag THEN (p.mask_pos + k) % 4 ELSE p.mask_pos
             next == IF k = p.bytes_remaining THEN "OPCODE" ELSE p.state
  <2>1. /\ data' = d /\ control' = c /\ buff' = SubSeq(buff, k + 1, Len(buff))
        /\ UNCHANGED ioVars
        /\ p' = [p EXCEPT !.bytes_remaining = rest, !.mask_pos = turned, !.state = next]
        /\ IF k = p.bytes_remaining
           THEN endOfPayload(d, c, down)
           ELSE hung_up' = down /\ UNCHANGED <<handled, answer>>
    BY <1>10 DEF payloadBytes
  <2>2. /\ p.state = "PAYLOAD" /\ p.mask_flag \in BOOLEAN /\ p.control \in BOOLEAN /\ p.fin \in BOOLEAN
        /\ p.mask \in Seq(Bytes) /\ p.mask_pos \in 0 .. 3 /\ p.bytes_remaining \in Nat
    BY <1>10, <1>p, ParserFields DEF payloadBytes, In
  <2>3. /\ k \in 0 .. Len(buff) /\ rest \in Nat /\ turned \in 0 .. 3 /\ next \in States
        /\ next \in {"OPCODE", "PAYLOAD"}
    <3>1. k \in 0 .. Len(buff) /\ k <= p.bytes_remaining
      BY <1>r, <2>2 DEF Chunk
    <3> HIDE DEF k
    <3> QED BY <1>r, <2>2, <3>1, SMTT(40) DEF States
  <2>4. Unmasked(k) \in Seq(Nat)
    <3>0. \A x \in Bytes : x \in Nat
      BY DEF Bytes
    <3>1. \A i \in 1 .. k : buff[i] \in Bytes
      BY <1>r, <2>3
    <3>2. ASSUME p.mask_flag, NEW i \in 1 .. k PROVE xor(buff[i], p.mask, p.mask_pos + i - 1) \in Nat
      <4>1. Len(p.mask) = 4
        BY <1>p, <2>2, <3>2 DEF MaskOK
      <4>2. (p.mask_pos + i - 1) % 4 \in 0 .. 3
        <5>1. p.mask_pos \in Nat /\ i \in Nat /\ i >= 1
          BY <2>2, <2>3
        <5> HIDE DEF k
        <5> QED BY <5>1
      <4>3. p.mask[1 + ((p.mask_pos + i - 1) % 4)] \in Bytes
        BY <2>2, <4>1, <4>2
      <4> QED BY <3>0, <3>1, <4>3 DEF xor
    <3>3. Unmasked(k) \in [1 .. k -> Nat]
      BY <3>0, <3>1, <3>2 DEF Unmasked
    <3> QED BY <2>3, <3>3
  <2>5. /\ \A m \in DataMessages : grown(m) \in DataMessages
        /\ \A m \in ControlMessages : grown(m) \in ControlMessages
    <3>1. \A s \in Seq(Nat) : s \o Unmasked(k) \in Seq(Nat)
      BY <2>4
    <3> HIDE DEF k
    <3> QED BY <3>1, Zenon DEF DataMessages, ControlMessages
  <2>6. d \in DataMessages /\ c \in ControlMessages
    BY <1>d, <2>5, Zenon
  <2>7. buff' \in Seq(Bytes)
    BY <1>r, <2>1, <2>3
  <2>8. /\ down \in BOOLEAN /\ (hung_up => down)
        /\ Len(d.payload) > MaxData => down
    BY DEF FrameInv, FrameTypeOK, TooBig
  <2> HIDE DEF k, d, c, down, rest, turned, next
  <2>9. /\ p' \in Parsers /\ p'.state = next /\ p'.mask = p.mask /\ p'.mask_flag = p.mask_flag
    BY <1>p, <2>1, <2>3, Zenon DEF Parsers
  <2>10. MaskOK'
    BY <1>p, <2>2, <2>3, <2>9 DEF MaskOK
  <2>11. ParserTypeOK'
    BY <2>1, <2>6, <2>9, <2>10, Zenon DEF ParserTypeOK
  <2>12. /\ handled' \in Seq([type : Nat, payload : Seq(Nat)])
         /\ answer' \in Nat /\ hung_up' \in BOOLEAN
         /\ down => hung_up'
         /\ OversizeHangsUp'
    <3>0. /\ handled \in Seq([type : Nat, payload : Seq(Nat)]) /\ answer \in Nat /\ hung_up \in BOOLEAN
          /\ OversizeHangsUp
      BY DEF FrameInv, FrameTypeOK
    <3>1. CASE k = p.bytes_remaining
      <4>1. endOfPayload(d, c, down)
        BY <2>1, <3>1
      <4> QED BY <2>2, <2>6, <2>8, <3>0, <4>1, EndOfPayload, Zenon
    <3>2. CASE k # p.bytes_remaining
      <4>1. hung_up' = down /\ UNCHANGED <<handled, answer>>
        BY <2>1, <3>2
      <4> QED BY <2>8, <3>0, <4>1 DEF OversizeHangsUp
    <3> QED BY <3>1, <3>2, Zenon
  <2>13. FrameTypeOK'
    BY <2>1, <2>7, <2>11, <2>12 DEF FrameInv, FrameTypeOK, ioVars
  <2> QED BY <2>1, <2>8, <2>12, <2>13 DEF FrameInv
<1>11. CASE UNCHANGED frameVars
  BY <1>11 DEF frameVars, ioVars, outVars, FrameInv, FrameTypeOK, ParserTypeOK, MaskOK, OversizeHangsUp
<1> QED
  BY <1>1, <1>2, <1>3, <1>4, <1>5, <1>6, <1>7, <1>8, <1>9, <1>10, <1>11 DEF FrameNext, execute

\* The parser's invariant holds in every reachable state.
THEOREM FrameInvariant == FrameSpec => []FrameInv
<1>1. FrameInit => FrameInv
  <2> SUFFICES ASSUME FrameInit PROVE FrameInv
    OBVIOUS
  <2>1. stream \in Seq(Bytes) /\ <<>> \in Seq(Bytes) /\ <<>> \in Seq(Nat)
    BY FramingAssumption DEF FrameInit, Bytes
  <2>2. ParserTypeOK
    <3>1. p \in Parsers /\ p.state = "OPCODE"
      BY <2>1 DEF FrameInit, Parsers, States
    <3>2. data \in DataMessages /\ control \in ControlMessages
      BY <2>1 DEF FrameInit, Empty, DataMessages, ControlMessages
    <3> QED BY <3>1, <3>2, Zenon DEF ParserTypeOK, MaskOK
  <2>3. FrameTypeOK
    <3>1. <<>> \in Seq([type : Nat, payload : Seq(Nat)])
      OBVIOUS
    <3> QED BY <2>1, <2>2, <3>1, Zenon DEF FrameInit, FrameTypeOK
  <2> QED BY <2>3, FramingAssumption DEF FrameInit, FrameInv, OversizeHangsUp, Empty
<1> QED BY <1>1, FrameStep, PTL DEF FrameSpec

\* A message above MAX_DATA_FRAME_SIZE never reaches HandleRequest() of a client that
\* goes on, however it is fragmented, interleaved with control frames and read.
THEOREM OversizeIsHungUp == FrameSpec => []OversizeHangsUp
  BY FrameInvariant, PTL DEF FrameInv

\* Whatever the request handler answers, and however long a PING is, the frames that
\* sendData() writes are the whole answer, and a client can read all of them except
\* a last frame of 65535 bytes.
THEOREM AnswersAreReadable == FrameSpec => []AnswerIsReadable
<1>1. FrameInv => AnswerIsReadable
  BY FragmentsAreWhole, UnreadableSizes DEF FrameInv, FrameTypeOK, AnswerIsReadable
<1> QED BY <1>1, FrameInvariant, PTL
================================================================================
