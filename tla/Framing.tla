------------------------------- MODULE Framing -------------------------------
(***************************************************************************)
(* A websocket client's bytes on their way to the request handler and the  *)
(* answer on its way back: Connection::read() and _parseRequest(), the     *)
(* frame parser (src/websocket/ws_parser.cpp) with its callbacks           *)
(* (src/websocket/Parser.cpp), and Handler::HandleRequest()                *)
(* (src/websocket/Handler.cpp).                                            *)
(*                                                                         *)
(* Bytes are numbers.  Payload and mask bytes are 0 or 1, so that adding   *)
(* them modulo 2 is the parser's exclusive or.  An action is one turn of   *)
(* ws_parser_execute()'s loop, and one state of its switch; the states of  *)
(* a field of several bytes are one state and the bytes still to come.     *)
(***************************************************************************)
EXTENDS Fragments

CONSTANTS
  Clients,        \* what clients send: a set of [frames, bytes]
  ReadSize,       \* NET_READ_BUFFER_SIZE
  MaxData,        \* MAX_DATA_FRAME_SIZE
  AnswerSizes     \* lengths of the answers to requests

ASSUME FramingAssumption ==
  /\ ReadSize \in Nat \ {0} /\ MaxData \in Nat
  /\ AnswerSizes \subseteq Nat
  /\ \A c \in Clients : c.bytes \in Seq(0 .. 255)

VARIABLES
  frames,     \* the frames the client means to send, empty if it sends none that is valid
  stream,     \* their bytes
  pos,        \* how many of them the server has read
  buff,       \* what the running parse() has not consumed of them
  p,          \* ws_parser_t; need counts the bytes to come of a field
  data,       \* _data_payload_buf and _data_frame_type
  control,    \* _control_payload_buf and _control_frame_type
  handled,    \* the calls of HandleRequest() with PARSER_OK, as [type, payload]
  hung_up,    \* isShutdown()
  answer      \* the size of the last message given to sendData() and written

ioVars == <<frames, stream, pos>>
outVars == <<handled, hung_up, answer>>
frameVars == <<ioVars, buff, p, data, control, outVars>>

TEXT == 1
CLOSE == 8
PING == 9
PONG == 10
Empty == [type |-> 0, payload |-> <<>>]

FrameInit ==
  /\ \E c \in Clients : frames = c.frames /\ stream = c.bytes
  /\ pos = 0
  /\ buff = <<>>
  /\ p = [state |-> "OPCODE", fin |-> FALSE, control |-> FALSE, fragment |-> FALSE,
          mask_flag |-> FALSE, mask |-> <<>>, mask_pos |-> 0,
          need |-> 0, least |-> 0, bytes_remaining |-> 0]
  /\ data = Empty
  /\ control = Empty
  /\ handled = <<>>
  /\ hung_up = FALSE
  /\ answer = 0

\* Connection::read(): the socket has any number of the bytes to come.
read(n) ==
  /\ buff = <<>>
  /\ ~hung_up
  /\ n <= Len(stream) - pos
  /\ buff' = SubSeq(stream, pos + 1, pos + n)
  /\ pos' = pos + n
  /\ UNCHANGED <<frames, stream, p, data, control, outVars>>

(***************************************************************************)
(* Handler::HandleRequest() for a frame m that is complete; down tells     *)
(* whether the client is shut down by then, so that write() sends nothing. *)
(* The answer to a request is the business of RPCHandler.                  *)
(***************************************************************************)
HandleRequest(m, down) ==
  /\ handled' = Append(handled, m)
  /\ hung_up' = (down \/ m.type = CLOSE)
  /\ answer' \in IF down THEN {answer}
                 ELSE IF m.type = TEXT THEN AnswerSizes
                 ELSE IF m.type = PING THEN {Len(m.payload)}
                 ELSE {answer}

\* end_of_payload.
endOfPayload(d, c, down) ==
  \/ p.control /\ HandleRequest(c, down)
  \/ ~p.control /\ p.fin /\ HandleRequest(d, down)
  \/ ~p.control /\ ~p.fin /\ hung_up' = down /\ UNCHANGED <<handled, answer>>

(***************************************************************************)
(* A frame the parser refuses.  parse() ignores the error code: what is    *)
(* left of this read is dropped, and the next read goes on in state q.     *)
(***************************************************************************)
refuse(q) ==
  /\ p' = q
  /\ buff' = <<>>
  /\ UNCHANGED <<ioVars, data, control, outVars>>

goOn(q) ==
  /\ p' = q
  /\ buff' = Tail(buff)
  /\ UNCHANGED <<ioVars, outVars>>

In(state) == buff # <<>> /\ p.state = state
Byte == Head(buff)

(***************************************************************************)
(* S_OPCODE                                                                *)
(***************************************************************************)
Opcode == Byte % 16
Fin == Byte >= 128
Reserved == (Byte \div 16) % 8 # 0
BadOpcode ==
  \/ Opcode = 0 /\ ~p.fragment
  \/ Opcode >= 8 /\ (Opcode \notin {CLOSE, PING, PONG} \/ ~Fin)
  \/ Opcode \in 3 .. 7

badOpcode ==
  /\ In("OPCODE")
  /\ \/ Reserved /\ refuse(p)
     \/ ~Reserved /\ BadOpcode /\ refuse([p EXCEPT !.fin = Fin])

continuationFrame ==
  /\ In("OPCODE") /\ ~Reserved /\ ~BadOpcode
  /\ Opcode = 0
  /\ goOn([p EXCEPT !.fin = Fin, !.control = FALSE, !.state = "LENGTH"])
  /\ UNCHANGED <<data, control>>

controlFrame ==
  /\ In("OPCODE") /\ ~Reserved /\ ~BadOpcode
  /\ Opcode >= 8
  /\ goOn([p EXCEPT !.fin = Fin, !.control = TRUE, !.state = "LENGTH"])
  /\ control' = [type |-> Opcode, payload |-> <<>>]
  /\ UNCHANGED data

\* The flag fragment outlives the message it was set for: only the next data
\* frame sets it anew.
dataFrame ==
  /\ In("OPCODE") /\ ~Reserved /\ ~BadOpcode
  /\ Opcode \in {1, 2}
  /\ goOn([p EXCEPT !.fin = Fin, !.control = FALSE, !.fragment = ~Fin, !.state = "LENGTH"])
  /\ data' = [type |-> Opcode, payload |-> <<>>]
  /\ UNCHANGED control

(***************************************************************************)
(* S_LENGTH, S_LENGTH_16_*, S_LENGTH_64_*, S_MASK_*                        *)
(***************************************************************************)
Length == Byte % 128
Masked == Byte >= 128
AfterLength(masked) == IF masked THEN "MASK" ELSE "PAYLOAD"
WithLength == [p EXCEPT !.mask_flag = Masked, !.mask_pos = 0, !.mask = <<>>, !.need = 4,
                        !.bytes_remaining = Length, !.state = AfterLength(Masked)]
WithoutLength(width, least) ==
  [p EXCEPT !.mask_flag = Masked, !.mask_pos = 0, !.mask = <<>>, !.need = width,
            !.least = least, !.bytes_remaining = 0, !.state = "EXTENDED"]

\* A frame without payload ends with its header.
endsEmpty(q) ==
  /\ p' = [q EXCEPT !.state = "OPCODE"]
  /\ buff' = Tail(buff)
  /\ endOfPayload(data, control, hung_up)
  /\ UNCHANGED <<ioVars, data, control>>

shortLength ==
  /\ In("LENGTH")
  /\ Length < 126
  /\ IF ~Masked /\ Length = 0
     THEN endsEmpty(WithLength)
     ELSE goOn(WithLength) /\ UNCHANGED <<data, control>>

longLength ==
  /\ In("LENGTH")
  /\ Length >= 126
  /\ \/ p.control /\ refuse([p EXCEPT !.mask_flag = Masked, !.mask_pos = 0])
     \/ /\ ~p.control
        /\ goOn(IF Length = 126 THEN WithoutLength(2, 126) ELSE WithoutLength(8, 65536))
        /\ UNCHANGED <<data, control>>

extendedLength ==
  /\ In("EXTENDED")
  /\ LET remaining == 256 * p.bytes_remaining + Byte
         q == [p EXCEPT !.bytes_remaining = remaining, !.need = @ - 1]
         last == [q EXCEPT !.need = 4, !.state = AfterLength(p.mask_flag)]
     IN  \/ p.need > 1 /\ goOn(q) /\ UNCHANGED <<data, control>>
         \/ p.need = 1 /\ remaining < p.least /\ refuse(last)
         \/ p.need = 1 /\ remaining >= p.least /\ goOn(last) /\ UNCHANGED <<data, control>>

maskByte ==
  /\ In("MASK")
  /\ LET q == [p EXCEPT !.mask = Append(@, Byte), !.need = @ - 1]
         last == [q EXCEPT !.state = "PAYLOAD"]
     IN  \/ p.need > 1 /\ goOn(q) /\ UNCHANGED <<data, control>>
         \/ p.need = 1 /\ p.bytes_remaining = 0 /\ endsEmpty(last)
         \/ p.need = 1 /\ p.bytes_remaining > 0 /\ goOn(last) /\ UNCHANGED <<data, control>>

(***************************************************************************)
(* S_PAYLOAD: as much of the payload as this read holds.                   *)
(***************************************************************************)
Chunk == IF Len(buff) > p.bytes_remaining THEN p.bytes_remaining ELSE Len(buff)
xor(byte, mask, i) == (byte + mask[1 + (i % 4)]) % 2

\* Mutant: every read starts the mask anew.
UnmaskedAnew(k) ==
  [i \in 1 .. k |-> IF p.mask_flag THEN xor(buff[i], p.mask, i - 1) ELSE buff[i]]

Unmasked(k) ==
  [i \in 1 .. k |->
     IF p.mask_flag THEN xor(buff[i], p.mask, p.mask_pos + i - 1) ELSE buff[i]]

\* Mutant: the limit is on what one read brings, not on the message.
TooBigRead(d) == ~p.control /\ Chunk > MaxData

\* appendDataPayload(): too much, and the client is sent a CLOSE frame and shut
\* down; but the parser goes on with this read.
TooBig(d) == ~p.control /\ Len(d.payload) > MaxData

payloadBytes ==
  /\ In("PAYLOAD")
  /\ LET k == Chunk
         grown(m) == [m EXCEPT !.payload = @ \o Unmasked(k)]
         d == IF p.control THEN data ELSE grown(data)
         c == IF p.control THEN grown(control) ELSE control
         down == hung_up \/ TooBig(d)
     IN  /\ data' = d
         /\ control' = c
         /\ buff' = SubSeq(buff, k + 1, Len(buff))
         /\ p' = [p EXCEPT !.bytes_remaining = @ - k,
                           !.mask_pos = IF p.mask_flag THEN (@ + k) % 4 ELSE @,
                           !.state = IF k = p.bytes_remaining THEN "OPCODE" ELSE @]
         /\ IF k = p.bytes_remaining
            THEN endOfPayload(d, c, down)
            ELSE hung_up' = down /\ UNCHANGED <<handled, answer>>
         /\ UNCHANGED ioVars

execute ==
  \/ badOpcode \/ continuationFrame \/ controlFrame \/ dataFrame
  \/ shortLength \/ longLength \/ extendedLength \/ maskByte \/ payloadBytes

FrameNext == (\E n \in 1 .. ReadSize : read(n)) \/ execute
FrameSpec == FrameInit /\ [][FrameNext]_frameVars
------------------------------------------------------------------------------
(***************************************************************************)
(* Properties                                                              *)
(***************************************************************************)
\* A message above the limit never reaches the handler of a client that goes on:
\* the client is hung up by then, even if only its fragments together exceed it.
OversizeHangsUp ==
  \A i \in 1 .. Len(handled) :
    handled[i].type \in {1, 2} /\ Len(handled[i].payload) > MaxData => hung_up

\* What the server sends, a client receives: the frames of an answer are the whole
\* answer, and all can be read unless the last one is 65535 bytes long.
AnswerIsReadable ==
  /\ Whole(answer)
  /\ Decodable(answer) <=> ~LastFrameTooLong(answer)
==============================================================================
