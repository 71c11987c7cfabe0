---------------------------- MODULE MCRateLimit ----------------------------
(***************************************************************************)
(* A limiter for TLC: two keys, two calls at a time, tokens of three parts.  *)
(***************************************************************************)
EXTENDS RateLimit, TLC

Symmetry == Permutations(Key) \cup Permutations(Caller)
============================================================================
