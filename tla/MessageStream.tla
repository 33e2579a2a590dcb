----------------------------- MODULE MessageStream -----------------------------
(***************************************************************************)
(* What the receiving end of a websocket promises: the frames of a client  *)
(* are taken one at a time, a control frame is handled at once, and a      *)
(* message is handled, whole, with its last fragment.  How the bytes of    *)
(* the frames are spread over reads does not show.                         *)
(***************************************************************************)
EXTENDS Integers, Sequences, SequencesExt

VARIABLES
  frames,   \* what the client sends: a sequence of [opcode, fin, payload]
  taken,    \* how many of them were taken
  handled   \* what was handed to the handler: a sequence of [type, payload]

streamVars == <<frames, taken, handled>>

IsControl(f) == f.opcode >= 8
IsFirst(f) == f.opcode \in {1, 2}

\* The message that frame i of fs ends: the payloads of its fragments.
FirstOf(fs, i) ==
  CHOOSE j \in 1 .. i : IsFirst(fs[j]) /\ \A k \in j + 1 .. i : ~IsFirst(fs[k])
Message(fs, i) ==
  LET fragments == SelectSeq(SubSeq(fs, FirstOf(fs, i), i), LAMBDA f : ~IsControl(f))
  IN  [type |-> fs[FirstOf(fs, i)].opcode,
       payload |-> FlattenSeq([k \in 1 .. Len(fragments) |-> fragments[k].payload])]

\* What taking frame i hands over.
Completed(fs, i) ==
  IF IsControl(fs[i]) THEN <<[type |-> fs[i].opcode, payload |-> fs[i].payload]>>
  ELSE IF fs[i].fin THEN <<Message(fs, i)>>
  ELSE <<>>

StreamInit == taken = 0 /\ handled = <<>>

Take ==
  /\ taken < Len(frames)
  /\ taken' = taken + 1
  /\ handled' = handled \o Completed(frames, taken + 1)
  /\ UNCHANGED frames

StreamSpec == StreamInit /\ [][Take]_streamVars
================================================================================
