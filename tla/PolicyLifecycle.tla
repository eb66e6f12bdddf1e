--------------------------- MODULE PolicyLifecycle ---------------------------
(***************************************************************************)
(* The policy lifecycle table of packages/domain: which statuses a         *)
(* transition may start from, where it leads, and which transitions the    *)
(* HTTP surface offers.  Permissions are left to the endpoints that hold   *)
(* them: every transition here is taken by an actor that has the right to. *)
(***************************************************************************)

PolicyStatuses ==
  {"draft", "submitted", "under_review", "approved", "active",
   "suspended", "expired", "cancelled", "renewed"}

PolicyTransitions ==
  {"submit", "start_review", "approve", "reject", "activate",
   "suspend", "reinstate", "expire", "cancel", "renew"}

From ==
  [submit       |-> {"draft"},
   start_review |-> {"submitted"},
   approve      |-> {"under_review"},
   reject       |-> {"submitted", "under_review"},
   activate     |-> {"approved"},
   suspend      |-> {"active"},
   reinstate    |-> {"suspended"},
   expire       |-> {"active", "suspended"},
   cancel       |-> {"draft", "submitted", "under_review", "approved",
                     "active", "suspended"},
   renew        |-> {"active", "expired"}]

To ==
  [submit       |-> "submitted",
   start_review |-> "under_review",
   approve      |-> "approved",
   reject       |-> "cancelled",
   activate     |-> "active",
   suspend      |-> "suspended",
   reinstate    |-> "active",
   expire       |-> "expired",
   cancel       |-> "cancelled",
   renew        |-> "renewed"]

TerminalPolicyStatuses == {"cancelled", "renewed"}

\* Variant: the status is not checked.
CanAlwaysTransition(status, name) == status \in PolicyStatuses

CanTransition(status, name) == status \in From[name]

\* The transitions a request can name on an existing policy; activation is
\* reserved to settlement, and reject, reinstate and expire have no endpoint.
EndpointTransitions == {"start_review", "approve", "suspend", "cancel", "renew"}
==============================================================================
