------------------------------- MODULE MCClaims -------------------------------
(***************************************************************************)
(* Claims on small sets of interchangeable handlers and idempotency keys.  *)
(***************************************************************************)
EXTENDS Claims, TLC

Symmetry == Permutations(Workers) \cup Permutations(Keys)
===============================================================================
