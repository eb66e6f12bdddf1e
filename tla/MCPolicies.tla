------------------------------ MODULE MCPolicies ------------------------------
(***************************************************************************)
(* Policies on small sets of interchangeable handlers and products.        *)
(* Beneficiaries, claims and policies share no state but what the handlers *)
(* do: Focus looks at one of the three at a time, and no further once two  *)
(* kinds of crossing have happened.                                        *)
(***************************************************************************)
EXTENDS Policies, TLC

Symmetry == Permutations(Handlers) \cup Permutations(Products)

Focus ==
  /\ cards = {} \/ (policies = <<>> /\ claims = {})
  /\ claims = {} \/ Len(policies) <= 1
  /\ Cardinality(crossed) <= 2
===============================================================================
