------------------------------ MODULE MCRateLimit ------------------------------
(* The rate limit on its own, with time that passes. *)
EXTENDS RateLimit
================================================================================
