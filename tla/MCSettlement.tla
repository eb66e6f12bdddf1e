----------------------------- MODULE MCSettlement -----------------------------
(***************************************************************************)
(* Settlement on small sets of interchangeable handlers, idempotency keys  *)
(* and installments.                                                       *)
(***************************************************************************)
EXTENDS Settlement, TLC

Symmetry ==
  Permutations(Workers) \cup Permutations(Keys) \cup Permutations(Installments)
===============================================================================
