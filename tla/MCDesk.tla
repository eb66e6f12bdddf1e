-------------------------------- MODULE MCDesk --------------------------------
(***************************************************************************)
(* The desk with interchangeable users, requests and keys.  The claim and  *)
(* the refunds share no state but the users: Focus follows one of them.    *)
(***************************************************************************)
EXTENDS Desk, TLC

Symmetry ==
  Permutations(Users) \cup Permutations(Requests) \cup Permutations(Keys)

Focus == claim = "submitted" \/ (keys = {} /\ UnderWay = {})
===============================================================================
