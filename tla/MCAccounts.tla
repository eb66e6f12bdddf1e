------------------------------ MODULE MCAccounts ------------------------------
(***************************************************************************)
(* Accounts for interchangeable requests.                                  *)
(***************************************************************************)
EXTENDS Accounts, TLC

Symmetry == Permutations(Requests)
===============================================================================
