---------------------------- MODULE ClaimLifecycle ----------------------------
(***************************************************************************)
(* The claims workflow table of packages/domain: which statuses a          *)
(* transition may start from, where it leads, and which transitions the    *)
(* HTTP surface offers.  The SLA clocks sort a queue and decide nothing.   *)
(***************************************************************************)

ClaimStatuses ==
  {"submitted", "investigation", "assessment", "approved", "rejected",
   "payment", "closed"}

ClaimTransitions ==
  {"start_investigation", "start_assessment", "approve", "reject", "pay",
   "close", "reopen"}

ClaimFrom ==
  [start_investigation |-> {"submitted"},
   start_assessment    |-> {"investigation"},
   approve             |-> {"assessment"},
   reject              |-> {"investigation", "assessment"},
   pay                 |-> {"approved"},
   close               |-> {"payment", "rejected"},
   reopen              |-> {"closed", "rejected"}]

ClaimTo ==
  [start_investigation |-> "investigation",
   start_assessment    |-> "assessment",
   approve             |-> "approved",
   reject              |-> "rejected",
   pay                 |-> "payment",
   close               |-> "closed",
   reopen              |-> "investigation"]

CanTransitionClaim(status, name) == status \in ClaimFrom[name]

\* The transitions a request can name; pay and reopen have no endpoint.
ClaimEndpoints ==
  {"start_investigation", "start_assessment", "approve", "reject", "close"}
===============================================================================
