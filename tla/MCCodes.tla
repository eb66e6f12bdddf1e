-------------------------------- MODULE MCCodes --------------------------------
(***************************************************************************)
(* Codes for interchangeable requests.                                     *)
(***************************************************************************)
EXTENDS Codes, TLC

Symmetry == Permutations(Requests)
===============================================================================
