------------------------------- MODULE Broadcast -------------------------------
(***************************************************************************)
(* What subscribers are promised of live messages: all hear one log, in    *)
(* its order and each entry at most once.  A listener joins somewhere in   *)
(* the log and may miss entries, but never goes back.                      *)
(***************************************************************************)
EXTENDS Naturals, Sequences

CONSTANT Listeners

VARIABLES
  log,      \* the messages, in the order of their publication
  heard,    \* per listener: what it has heard since it joined
  at        \* per listener: the place in the log it has come to

castVars == <<log, heard, at>>

CastInit ==
  /\ log = <<>>
  /\ heard = [c \in Listeners |-> <<>>]
  /\ at \in [Listeners -> {0}]

Publish ==
  /\ Len(log') = Len(log) + 1
  /\ SubSeq(log', 1, Len(log)) = log
  /\ UNCHANGED <<heard, at>>

\* The listeners of one worker hear an entry in one step; a place moves on also
\* for those who are not listening.
Hear(S, M, i) ==
  /\ S \subseteq M
  /\ \A c \in M : at[c] < i
  /\ heard' = [c \in Listeners |-> IF c \in S THEN Append(heard[c], log[i]) ELSE heard[c]]
  /\ at' = [c \in Listeners |-> IF c \in M THEN i ELSE at[c]]
  /\ UNCHANGED log

Join(c) ==
  /\ heard' = [heard EXCEPT ![c] = <<>>]
  /\ UNCHANGED <<log, at>>

CastNext ==
  \/ Publish
  \/ \E S, M \in SUBSET Listeners, i \in 1 .. Len(log) : Hear(S, M, i)
  \/ \E c \in Listeners : Join(c)

CastSpec == CastInit /\ [][CastNext]_castVars
================================================================================
