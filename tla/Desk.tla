--------------------------------- MODULE Desk ---------------------------------
(***************************************************************************)
(* The staff at work on one claim and one payment: who signed in with      *)
(* which roles and which second factor, what the guard lets them do, and   *)
(* who has approved and who has paid.  Roles are read when a token is      *)
(* issued and stay in it until it is refreshed.  How decisions and payouts *)
(* of one claim interleave is in Claims; here each is one step.            *)
(***************************************************************************)
EXTENDS Roles, ClaimLifecycle, Refunds, FiniteSets

CONSTANTS
  Users,     \* members of staff
  Assigned,  \* roles they may be given
  Amounts,   \* amounts finance asks to be refunded
  MaxRoles   \* bound: roles a user ever has

ASSUME DeskAssumption ==
  /\ Assigned \subseteq RoleNames
  /\ Amounts \subseteq Int
  /\ MaxRoles \in Nat

VARIABLES
  roles,      \* the roles of each user in the database
  enrolled,   \* mfaEnabled
  token,      \* what the access token of each user says, None without one
  claim,      \* the claim's status
  approvers,  \* who has approved it
  payers,     \* who has paid it out
  held,       \* history: roles each user has had
  carried     \* history: money was moved on a token refreshed past a second factor

staff == <<roles, enrolled, held>>
file == <<claim, approvers, payers>>
refunds == <<money, job, crossed>>
vars == <<staff, token, file, carried, refunds>>

\* A second factor was passed, was not asked for, or a refresh dropped it.
Ways == {"challenge", "password", "refresh"}
Tokens == [roles : SUBSET Assigned, mfa : BOOLEAN, way : Ways]

TypeOK ==
  /\ RefundsTypeOK
  /\ roles \in [Users -> SUBSET Assigned]
  /\ held \in [Users -> SUBSET Assigned]
  /\ enrolled \in [Users -> BOOLEAN]
  /\ token \in [Users -> Tokens \cup {None}]
  /\ claim \in ClaimStatuses
  /\ approvers \subseteq Users
  /\ payers \subseteq Users
  /\ carried \in BOOLEAN

Init ==
  /\ RefundsInit
  /\ roles = [u \in Users |-> {}]
  /\ held = [u \in Users |-> {}]
  /\ enrolled \in [Users -> BOOLEAN]
  /\ token = [u \in Users |-> None]
  /\ claim = "submitted"
  /\ approvers = {}
  /\ payers = {}
  /\ carried = FALSE

-------------------------------------------------------------------------------
(* Accounts and tokens *)

\* Nothing in the application assigns staff their roles: the seed does, or
\* somebody at the database.
Assign(u, role) ==
  /\ role \in held[u] \/ Cardinality(held[u]) < MaxRoles
  /\ roles' = [roles EXCEPT ![u] = {role}]
  /\ held' = [held EXCEPT ![u] = @ \cup {role}]
  /\ UNCHANGED <<enrolled, token, file, carried, refunds>>

Enrol(u) ==
  /\ token[u] # None
  /\ enrolled' = [enrolled EXCEPT ![u] = TRUE]
  /\ UNCHANGED <<roles, held, token, file, carried, refunds>>

\* login, and completeMfaLogin where a second factor is on file.  Where none
\* is, none is outstanding, and the token says so.
SignIn(u) ==
  /\ token' = [token EXCEPT ![u] =
                 [roles |-> roles[u], mfa |-> TRUE,
                  way |-> IF enrolled[u] THEN "challenge" ELSE "password"]]
  /\ UNCHANGED <<staff, file, carried, refunds>>

\* Variant: the second factor survives the rotation.
RefreshKeepingMfa(u) ==
  /\ token[u] # None
  /\ token' = [token EXCEPT ![u] =
                 [roles |-> roles[u], mfa |-> token[u].mfa,
                  way |-> IF enrolled[u] THEN "refresh" ELSE "password"]]
  /\ UNCHANGED <<staff, file, carried, refunds>>

\* rotate: the roles anew, and no second factor for whoever has one.
Refresh(u) ==
  /\ token[u] # None
  /\ token' = [token EXCEPT ![u] =
                 [roles |-> roles[u], mfa |-> ~enrolled[u],
                  way |-> IF enrolled[u] THEN "refresh" ELSE "password"]]
  /\ UNCHANGED <<staff, file, carried, refunds>>

-------------------------------------------------------------------------------
(* What they do *)

Permits(u, endpoint) == token[u] # None /\ CanActivate(token[u], endpoint)

Move(u, name) ==
  /\ Permits(u, name)
  /\ CanTransitionClaim(claim, name)
  /\ claim' = ClaimTo[name]
  /\ approvers' = IF name = "approve" THEN approvers \cup {u} ELSE approvers
  /\ UNCHANGED <<staff, token, payers, carried, refunds>>

\* The claim stays approved.
Pay(u) ==
  /\ Permits(u, "payout")
  /\ claim = "approved"
  /\ payers' = payers \cup {u}
  /\ carried' = (carried \/ token[u].way = "refresh")
  /\ UNCHANGED <<staff, token, claim, approvers, refunds>>

Refund(u, r, k, asked) ==
  /\ Permits(u, "refund")
  /\ RefundRead(r, k, asked)
  /\ carried' = (carried \/ token[u].way = "refresh")
  /\ UNCHANGED <<staff, token, file>>

Next ==
  \/ \E u \in Users :
       \/ \E role \in Assigned : Assign(u, role)
       \/ Enrol(u) \/ SignIn(u) \/ Refresh(u)
       \/ \E name \in ClaimEndpoints : Move(u, name)
       \/ Pay(u)
       \/ \E r \in Requests, k \in Keys, asked \in Amounts \cup {None} :
            Refund(u, r, k, asked)
  \/ \E r \in Requests : Proceed(r) /\ UNCHANGED <<staff, token, file, carried>>

Spec == Init /\ [][Next]_vars

-------------------------------------------------------------------------------
(* Properties *)

\* "The person who approves an indemnity must not also be the one who releases
\* the money" (permissions.test.ts:97-99): nobody has done both who has not
\* had two roles, or the one that may do everything.
FourEyes ==
  \A u \in approvers \cap payers :
    "super_admin" \in held[u] \/ \E r, s \in held[u] : r # s

\* Money leaves on a second factor that was passed for this very token, or on
\* a token of a user who had none on file when it was issued; never on one that
\* a refresh has carried over (permissions.guard.ts:29, token.service.ts:160).
StepUp == ~carried

\* Refunds together do not exceed what was collected, unless one was decided on
\* while another was under way (payments.service.ts:496-505).
RefundsWithinPayment == ~crossed => refunded <= Total
===============================================================================
