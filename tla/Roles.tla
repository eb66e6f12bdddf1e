--------------------------------- MODULE Roles ---------------------------------
(***************************************************************************)
(* Who may do what: the permission catalogue and the role bundles of       *)
(* packages/domain, the match of a permission held against one required,   *)
(* and the guard in front of the staff's endpoints.  A permission is a     *)
(* triple <<resource, action, scope>>.                                     *)
(***************************************************************************)

Codes(resource, actions, scope) == {<<resource, a, scope>> : a \in actions}
Own(resource, actions) == Codes(resource, actions, "own")
All(resource, actions) == Codes(resource, actions, "all")
Internal(resource, actions) == Codes(resource, actions, "system")

Wildcard == <<"*", "*", "*">>

InsurancePermissions ==
  Own("policies", {"read", "create", "submit", "cancel", "renew"})
  \cup All("policies", {"read", "review", "approve", "suspend", "cancel"})
  \cup Internal("policies", {"activate", "expire"})
  \cup Own("quotes", {"create", "read"}) \cup All("quotes", {"create"})
  \cup Own("claims", {"create", "read"})
  \cup All("claims", {"read", "investigate", "assess", "approve", "pay",
                      "close", "reopen"})
  \cup Own("payments", {"create", "read"})
  \cup All("payments", {"read", "refund", "reconcile"})

OfficePermissions ==
  Own("members", {"read", "update"}) \cup All("members", {"read"})
  \cup Own("beneficiaries", {"manage"}) \cup Own("vehicles", {"manage"})
  \cup Own("firms", {"manage"})
  \cup All("bar", {"verify"}) \cup Codes("bar", {"stats"}, "read")
  \cup Own("documents", {"read", "upload"}) \cup All("documents", {"read"})
  \cup Codes("admin", {"users", "roles", "products"}, "manage")
  \cup Codes("admin", {"audit"}, "read")
  \cup All("reports", {"read"}) \cup Own("reports", {"read"})

Permissions == InsurancePermissions \cup OfficePermissions

LawyerBundle ==
  Own("policies", {"read", "create", "submit", "cancel", "renew"})
  \cup Own("quotes", {"create", "read"}) \cup Own("claims", {"create", "read"})
  \cup Own("payments", {"create", "read"}) \cup Own("members", {"read", "update"})
  \cup Own("beneficiaries", {"manage"}) \cup Own("vehicles", {"manage"})
  \cup Own("firms", {"manage"}) \cup Own("documents", {"read", "upload"})
  \cup Own("reports", {"read"})

FamilyBundle ==
  Own("policies", {"read"}) \cup Own("claims", {"create", "read"})
  \cup Own("members", {"read"}) \cup Own("documents", {"read"})

AgentBundle ==
  All("policies", {"read"}) \cup Own("policies", {"create"})
  \cup All("quotes", {"create"}) \cup Own("quotes", {"read"})
  \cup All("claims", {"read"}) \cup Own("payments", {"create"})
  \cup All("payments", {"read"}) \cup All("members", {"read"})
  \cup All("documents", {"read"}) \cup Own("reports", {"read"})

OfficerBundle ==
  All("policies", {"read"}) \cup All("claims", {"read", "investigate", "assess"})
  \cup All("documents", {"read"}) \cup All("members", {"read"})
  \cup All("reports", {"read"})

\* Variant: finance may approve as well.
FinanceApprovesBundle ==
  All("policies", {"read"}) \cup All("claims", {"read", "pay", "approve"})
  \cup All("payments", {"read", "refund", "reconcile"})
  \cup All("documents", {"read"}) \cup All("reports", {"read"})

FinanceBundle ==
  All("policies", {"read"}) \cup All("claims", {"read", "pay"})
  \cup All("payments", {"read", "refund", "reconcile"})
  \cup All("documents", {"read"}) \cup All("reports", {"read"})

ManagerBundle ==
  All("policies", {"read", "review", "approve", "suspend", "cancel"})
  \cup All("claims", {"read", "approve", "close", "reopen"})
  \cup All("payments", {"read"}) \cup All("members", {"read"})
  \cup All("documents", {"read"})
  \cup Codes("admin", {"products", "users"}, "manage")
  \cup All("reports", {"read"})

BarBundle ==
  All("bar", {"verify"}) \cup Codes("bar", {"stats"}, "read")
  \cup All("members", {"read"})

Bundle ==
  [lawyer            |-> LawyerBundle,
   family_member     |-> FamilyBundle,
   agent             |-> AgentBundle,
   claims_officer    |-> OfficerBundle,
   finance_officer   |-> FinanceBundle,
   insurance_manager |-> ManagerBundle,
   bar_admin         |-> BarBundle,
   super_admin       |-> {Wildcard}]

RoleNames == DOMAIN Bundle

\* A role that is not in the catalogue grants nothing.
PermissionsForRoles(roles) == UNION {Bundle[r] : r \in roles \cap RoleNames}

\* All widens own; a wildcard, of one resource or of everything, covers it.
HasPermission(held, required) ==
  \/ Wildcard \in held
  \/ required \in held
  \/ <<required[1], "*", "*">> \in held
  \/ required[3] = "own" /\ <<required[1], required[2], "all">> \in held

-------------------------------------------------------------------------------
(* The guard *)

Required ==
  [start_investigation |-> <<"claims", "investigate", "all">>,
   start_assessment    |-> <<"claims", "assess", "all">>,
   approve             |-> <<"claims", "approve", "all">>,
   reject              |-> <<"claims", "approve", "all">>,
   close               |-> <<"claims", "close", "all">>,
   payout              |-> <<"claims", "pay", "all">>,
   refund              |-> <<"payments", "refund", "all">>]

MfaEndpoints == {"payout", "refund"}

\* A principal is what the access token says: the roles and the second factor.
CanActivate(principal, endpoint) ==
  /\ endpoint \in MfaEndpoints => principal.mfa
  /\ HasPermission(PermissionsForRoles(principal.roles), Required[endpoint])
===============================================================================
