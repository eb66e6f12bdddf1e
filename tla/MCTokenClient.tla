----------------------------- MODULE MCTokenClient -----------------------------
(***************************************************************************)
(* TokenClient with one web and one mobile client.                         *)
(***************************************************************************)
EXTENDS TokenClient, TLC

Symmetry == Permutations(Ids) \cup Permutations(Handlers) \cup Permutations(Slots)
================================================================================
