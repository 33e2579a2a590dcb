-------------------------------- MODULE MCCache --------------------------------
(* The event log: what it promises, and what it does not. *)
EXTENDS Cache, TLC

Symmetry == Permutations(Messages) \cup Permutations(TopicNames)
================================================================================
