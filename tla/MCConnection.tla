----------------------------- MODULE MCConnection -----------------------------
(* Instances of Connection for TLC: a buffer of four units, writes that fit it *)
(* and that overflow it, and TLS packets of two units.                         *)
EXTENDS Connection
==============================================================================
