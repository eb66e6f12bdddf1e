------------------------------ MODULE DeskProofs ------------------------------
(***************************************************************************)
(* What Desk guarantees for any number of users, roles, requests and keys, *)
(* any amounts, and the role bundles as they are.                          *)
(***************************************************************************)
EXTENDS Desk, TLAPS

Releasing == {"finance_officer", "super_admin"}
Approving == {"insurance_manager", "super_admin"}

\* Roles behind a token or a deed are roles its user has had.
Accounted ==
  /\ \A u \in Users : roles[u] \subseteq held[u]
  /\ \A u \in Users : token[u] # None => token[u].roles \subseteq held[u]
  /\ \A u \in approvers : held[u] \cap Approving # {}
  /\ \A u \in payers : held[u] \cap Releasing # {}

\* A token that a refresh left with a second factor outstanding says so.
Honest ==
  /\ ~carried
  /\ \A u \in Users : token[u] # None /\ token[u].mfa => token[u].way # "refresh"

\* While no two refunds have overlapped, the one under way still fits.
Fitting ==
  ~crossed =>
    /\ refunded <= Total
    /\ \A r \in UnderWay : refunded + job[r].amount <= Total
    /\ \A q, r \in UnderWay : q = r

IInv == TypeOK /\ Accounted /\ Honest /\ Fitting

-------------------------------------------------------------------------------
(* Roles and permissions *)

LEMMA InCodes ==
  ASSUME NEW x, NEW y, NEW z, NEW res, NEW acts, NEW scope
  PROVE  <<x, y, z>> \in Codes(res, acts, scope) <=> x = res /\ y \in acts /\ z = scope
  BY DEF Codes

\* The two permissions that have to be in different hands.
Approval == <<"claims", "approve", "all">>
Release == <<"claims", "pay", "all">>

\* What would grant a permission on claims for all.
Grants(q) == {Wildcard, q, <<"claims", "*", "*">>}

LEMMA GrantedBySome ==
  ASSUME NEW R, NEW q \in {Approval, Release},
         HasPermission(PermissionsForRoles(R), q)
  PROVE  \E r \in R \cap RoleNames : Bundle[r] \cap Grants(q) # {}
  <1>1. q[1] = "claims" /\ q[3] = "all"
    BY DEF Approval, Release
  <1>2. PICK g \in Grants(q) : g \in PermissionsForRoles(R)
    BY <1>1 DEF HasPermission, Grants
  <1> QED
    BY <1>2 DEF PermissionsForRoles

LEMMA ApproversAre ==
  ASSUME NEW r \in RoleNames, Bundle[r] \cap Grants(Approval) # {}
  PROVE  r \in Approving
  <1>1. r \in {"lawyer", "family_member", "agent", "claims_officer",
               "finance_officer", "insurance_manager", "bar_admin", "super_admin"}
    BY DEF RoleNames, Bundle
  <1>2. ASSUME r \notin Approving PROVE FALSE
    <2>1. CASE r = "lawyer"
      BY <2>1, InCodes DEF Bundle, LawyerBundle, Own, Grants, Approval, Wildcard
    <2>2. CASE r = "family_member"
      BY <2>2, InCodes DEF Bundle, FamilyBundle, Own, Grants, Approval, Wildcard
    <2>3. CASE r = "agent"
      BY <2>3, InCodes DEF Bundle, AgentBundle, Own, All, Grants, Approval, Wildcard
    <2>4. CASE r = "claims_officer"
      BY <2>4, InCodes DEF Bundle, OfficerBundle, All, Grants, Approval, Wildcard
    <2>5. CASE r = "finance_officer"
      BY <2>5, InCodes DEF Bundle, FinanceBundle, All, Grants, Approval, Wildcard
    <2>6. CASE r = "bar_admin"
      BY <2>6, InCodes DEF Bundle, BarBundle, All, Grants, Approval, Wildcard
    <2> QED
      BY <1>1, <1>2, <2>1, <2>2, <2>3, <2>4, <2>5, <2>6 DEF Approving
  <1> QED
    BY <1>2

LEMMA ReleasersAre ==
  ASSUME NEW r \in RoleNames, Bundle[r] \cap Grants(Release) # {}
  PROVE  r \in Releasing
  <1>1. r \in {"lawyer", "family_member", "agent", "claims_officer",
               "finance_officer", "insurance_manager", "bar_admin", "super_admin"}
    BY DEF RoleNames, Bundle
  <1>2. ASSUME r \notin Releasing PROVE FALSE
    <2>1. CASE r = "lawyer"
      BY <2>1, InCodes DEF Bundle, LawyerBundle, Own, Grants, Release, Wildcard
    <2>2. CASE r = "family_member"
      BY <2>2, InCodes DEF Bundle, FamilyBundle, Own, Grants, Release, Wildcard
    <2>3. CASE r = "agent"
      BY <2>3, InCodes DEF Bundle, AgentBundle, Own, All, Grants, Release, Wildcard
    <2>4. CASE r = "claims_officer"
      BY <2>4, InCodes DEF Bundle, OfficerBundle, All, Grants, Release, Wildcard
    <2>5. CASE r = "insurance_manager"
      BY <2>5, InCodes DEF Bundle, ManagerBundle, All, Grants, Release, Wildcard
    <2>6. CASE r = "bar_admin"
      BY <2>6, InCodes DEF Bundle, BarBundle, All, Grants, Release, Wildcard
    <2> QED
      BY <1>1, <1>2, <2>1, <2>2, <2>3, <2>4, <2>5, <2>6 DEF Releasing
  <1> QED
    BY <1>2

LEMMA MayApprove ==
  ASSUME NEW u \in Users, TypeOK, Accounted, Permits(u, "approve")
  PROVE  held[u] \cap Approving # {}
  <1>1. HasPermission(PermissionsForRoles(token[u].roles), Approval)
    BY DEF Permits, CanActivate, Required, Approval
  <1>2. PICK r \in token[u].roles : r \in RoleNames /\ Bundle[r] \cap Grants(Approval) # {}
    BY <1>1, GrantedBySome
  <1> QED
    BY <1>2, ApproversAre DEF Accounted, Permits

LEMMA MayRelease ==
  ASSUME NEW u \in Users, TypeOK, Accounted, Permits(u, "payout")
  PROVE  held[u] \cap Releasing # {}
  <1>1. HasPermission(PermissionsForRoles(token[u].roles), Release)
    BY DEF Permits, CanActivate, Required, Release
  <1>2. PICK r \in token[u].roles : r \in RoleNames /\ Bundle[r] \cap Grants(Release) # {}
    BY <1>1, GrantedBySome
  <1> QED
    BY <1>2, ReleasersAre DEF Accounted, Permits

\* Money moves on a second factor only.
LEMMA MoneyNeedsMfa ==
  ASSUME NEW u \in Users, NEW endpoint \in MfaEndpoints, Permits(u, endpoint)
  PROVE  token[u] # None /\ token[u].mfa
  BY DEF Permits, CanActivate

-------------------------------------------------------------------------------
(* Types *)

LEMMA Jobs ==
  /\ Idle \in RefundJobs
  /\ \A at \in {"lookup", "create"}, k \in Keys, n \in 1 .. Total :
       [at |-> at, key |-> k, amount |-> n] \in RefundJobs
  /\ \A j \in RefundJobs : j # Idle =>
       /\ j.key \in Keys
       /\ j.amount \in 1 .. Total
       /\ [j EXCEPT !.at = "create"] \in RefundJobs
       /\ [j EXCEPT !.at = "create"].amount = j.amount
  BY DEF RefundJobs, Idle

LEMMA NoIdle == Idle.at = "idle"
  BY DEF Idle

LEMMA SignedIn ==
  ASSUME NEW R \in SUBSET Assigned, NEW m \in BOOLEAN, NEW w \in Ways
  PROVE  [roles |-> R, mfa |-> m, way |-> w] \in Tokens
  BY DEF Tokens

LEMMA AskedIsTyped ==
  ASSUME DeskAssumption, RefundsAssumption, RefundsTypeOK,
         NEW r \in Requests, NEW k \in Keys, NEW asked \in Amounts \cup {None},
         RefundRead(r, k, asked)
  PROVE  \E amount \in 1 .. Total :
           /\ refunded + amount <= Total
           /\ job' = [job EXCEPT ![r] = [at |-> "lookup", key |-> k, amount |-> amount]]
  <1> DEFINE amount == IF asked = None THEN Total - refunded ELSE asked
  <1>1. amount \in Int
    BY DEF DeskAssumption, RefundsAssumption, RefundsTypeOK
  <1>2. amount > 0 /\ refunded + amount <= Total
    BY DEF RefundRead, Fits
  <1>3. job' = [job EXCEPT ![r] = [at |-> "lookup", key |-> k, amount |-> amount]]
    BY DEF RefundRead, Goto
  <1>4. amount \in 1 .. Total
    <2> HIDE DEF amount
    <2> QED BY <1>1, <1>2 DEF RefundsAssumption, RefundsTypeOK
  <1> QED
    BY <1>2, <1>3, <1>4

LEMMA RefundTypes ==
  ASSUME DeskAssumption, RefundsAssumption, RefundsTypeOK, Next
  PROVE  RefundsTypeOK'
  <1>1. CASE UNCHANGED refunds
    BY <1>1 DEF refunds, money, RefundsTypeOK
  <1>2. ASSUME NEW r \in Requests, NEW k \in Keys, NEW asked \in Amounts \cup {None},
               RefundRead(r, k, asked)
        PROVE  RefundsTypeOK'
    <2>1. PICK n \in 1 .. Total :
            job' = [job EXCEPT ![r] = [at |-> "lookup", key |-> k, amount |-> n]]
      BY <1>2, AskedIsTyped
    <2>2. job' \in [Requests -> RefundJobs]
      BY <2>1, Jobs DEF RefundsTypeOK
    <2>3. crossed' \in BOOLEAN
      BY <1>2 DEF RefundRead, RefundsTypeOK
    <2> QED
      BY <1>2, <2>2, <2>3 DEF RefundRead, money, RefundsTypeOK
  <1>3. ASSUME NEW r \in Requests, Proceed(r)
        PROVE  RefundsTypeOK'
    <2>1. CASE Lookup(r)
      <3>1. job[r] \in RefundJobs /\ job[r] # Idle
        BY <2>1, NoIdle DEF Lookup, RefundsTypeOK
      <3>2. (IF job[r].key \in keys THEN Idle ELSE [job[r] EXCEPT !.at = "create"])
              \in RefundJobs
        BY <3>1, Jobs
      <3>3. job' \in [Requests -> RefundJobs]
        BY <2>1, <3>2 DEF Lookup, Goto, RefundsTypeOK
      <3> QED
        BY <2>1, <3>3 DEF Lookup, money, RefundsTypeOK
    <2>2. CASE Create(r)
      <3>1. job[r] \in RefundJobs /\ job[r] # Idle
        BY <2>2, NoIdle DEF Create, RefundsTypeOK
      <3>2. job[r].key \in Keys /\ job[r].amount \in 1 .. Total
        BY <3>1, Jobs
      <3>3. job' \in [Requests -> RefundJobs]
        BY <2>2, Jobs DEF Create, Goto, RefundsTypeOK
      <3>5. crossed' \in BOOLEAN
        BY <2>2 DEF Create, RefundsTypeOK
      <3>4. refunded' \in Nat /\ keys' \subseteq Keys
        BY <2>2, <3>2, RefundsAssumption DEF Create, money, RefundsTypeOK
      <3> QED
        BY <3>3, <3>4, <3>5 DEF RefundsTypeOK
    <2>3. CASE Abandon(r)
      BY <2>3, Jobs DEF Abandon, Goto, money, RefundsTypeOK
    <2> QED
      BY <1>3, <2>1, <2>2, <2>3 DEF Proceed
  <1> QED
    BY <1>1, <1>2, <1>3
    DEF Next, Assign, Enrol, SignIn, Refresh, Move, Pay, Refund

LEMMA TypeStep ==
  ASSUME DeskAssumption, RefundsAssumption, TypeOK, Next
  PROVE  TypeOK'
  <1>1. RefundsTypeOK'
    BY RefundTypes DEF TypeOK
  <1>2. roles' \in [Users -> SUBSET Assigned] /\ held' \in [Users -> SUBSET Assigned]
    BY DEF Next, Assign, Enrol, SignIn, Refresh, Move, Pay, Refund, staff, TypeOK
  <1>3. enrolled' \in [Users -> BOOLEAN]
    BY DEF Next, Assign, Enrol, SignIn, Refresh, Move, Pay, Refund, staff, TypeOK
  <1>4. token' \in [Users -> Tokens \cup {None}]
    <2>1. ASSUME NEW u \in Users, SignIn(u) PROVE token' \in [Users -> Tokens \cup {None}]
      <3>1. [roles |-> roles[u], mfa |-> TRUE,
             way |-> IF enrolled[u] THEN "challenge" ELSE "password"] \in Tokens
        BY SignedIn DEF TypeOK, Ways
      <3> QED
        BY <2>1, <3>1 DEF SignIn, TypeOK
    <2>2. ASSUME NEW u \in Users, Refresh(u) PROVE token' \in [Users -> Tokens \cup {None}]
      <3>1. [roles |-> roles[u], mfa |-> ~enrolled[u],
             way |-> IF enrolled[u] THEN "refresh" ELSE "password"] \in Tokens
        BY SignedIn DEF TypeOK, Ways
      <3> QED
        BY <2>2, <3>1 DEF Refresh, TypeOK
    <2> QED
      BY <2>1, <2>2 DEF Next, Assign, Enrol, Move, Pay, Refund, TypeOK
  <1>5. claim' \in ClaimStatuses
    <2>1. \A n \in ClaimEndpoints : ClaimTo[n] \in ClaimStatuses
      BY DEF ClaimEndpoints, ClaimTo, ClaimStatuses
    <2> QED
      BY <2>1 DEF Next, Assign, Enrol, SignIn, Refresh, Move, Pay, Refund, file, TypeOK
  <1>6. approvers' \subseteq Users /\ payers' \subseteq Users
    BY DEF Next, Assign, Enrol, SignIn, Refresh, Move, Pay, Refund, file, TypeOK
  <1>7. carried' \in BOOLEAN
    BY DEF Next, Assign, Enrol, SignIn, Refresh, Move, Pay, Refund, TypeOK
  <1> QED
    BY <1>1, <1>2, <1>3, <1>4, <1>5, <1>6, <1>7 DEF TypeOK

-------------------------------------------------------------------------------
(* The parts of the invariant *)

LEMMA AccountedStep ==
  ASSUME TypeOK, Accounted, Next
  PROVE  Accounted'
  <1>1. ASSUME NEW u \in Users, NEW role \in Assigned, Assign(u, role)
        PROVE  Accounted'
    <2>1. \A v \in Users : held[v] \subseteq held'[v]
      BY <1>1 DEF Assign, TypeOK
    <2>2. \A v \in Users : roles'[v] \subseteq held'[v]
      BY <1>1, <2>1 DEF Assign, TypeOK, Accounted
    <2>3. UNCHANGED <<token, approvers, payers>>
      BY <1>1 DEF Assign, file
    <2>4. approvers \subseteq Users /\ payers \subseteq Users
      BY DEF TypeOK
    <2> QED
      BY <2>1, <2>2, <2>3, <2>4 DEF Accounted
  <1>2. ASSUME NEW u \in Users, SignIn(u) \/ Refresh(u)
        PROVE  Accounted'
    <2>1. PICK m \in BOOLEAN, w \in Ways :
            token' = [token EXCEPT ![u] = [roles |-> roles[u], mfa |-> m, way |-> w]]
      BY <1>2 DEF SignIn, Refresh, TypeOK, Ways
    <2>2. \A v \in Users : token'[v] = token[v] \/ token'[v].roles = roles[v]
      BY <2>1 DEF TypeOK
    <2>3. UNCHANGED <<roles, held, approvers, payers>>
      BY <1>2 DEF SignIn, Refresh, staff, file
    <2> QED
      BY <2>2, <2>3 DEF Accounted
  <1>3. ASSUME NEW u \in Users, NEW name \in ClaimEndpoints, Move(u, name)
        PROVE  Accounted'
    <2>1. name = "approve" => held[u] \cap Approving # {}
      BY <1>3, MayApprove DEF Move
    <2>2. UNCHANGED <<roles, held, token, payers>>
      BY <1>3 DEF Move, staff
    <2>3. \A v \in approvers' : v \in approvers \/ (v = u /\ name = "approve")
      BY <1>3 DEF Move
    <2> QED
      BY <2>1, <2>2, <2>3 DEF Accounted
  <1>4. ASSUME NEW u \in Users, Pay(u)
        PROVE  Accounted'
    <2>1. held[u] \cap Releasing # {}
      BY <1>4, MayRelease DEF Pay
    <2> QED
      BY <1>4, <2>1 DEF Pay, staff, Accounted
  <1>5. CASE UNCHANGED <<roles, held, token, approvers, payers>>
    BY <1>5 DEF Accounted
  <1> QED
    BY <1>1, <1>2, <1>3, <1>4, <1>5 DEF Next, Enrol, Refund, staff, file

LEMMA HonestStep ==
  ASSUME TypeOK, Honest, Next
  PROVE  Honest'
  <1>1. ASSUME NEW u \in Users, SignIn(u) PROVE Honest'
    <2>1. \A v \in Users : v # u => token'[v] = token[v]
      BY <1>1 DEF SignIn, TypeOK
    <2>2. token'[u].way = IF enrolled[u] THEN "challenge" ELSE "password"
      BY <1>1 DEF SignIn, TypeOK
    <2> QED
      BY <1>1, <2>1, <2>2 DEF SignIn, Honest
  <1>2. ASSUME NEW u \in Users, Refresh(u) PROVE Honest'
    <2>1. \A v \in Users : v # u => token'[v] = token[v]
      BY <1>2 DEF Refresh, TypeOK
    <2>2. /\ token'[u].mfa = ~enrolled[u]
          /\ token'[u].way = IF enrolled[u] THEN "refresh" ELSE "password"
      BY <1>2 DEF Refresh, TypeOK
    <2>3. token'[u].mfa => token'[u].way # "refresh"
      <3>1. CASE enrolled[u]
        BY <2>2, <3>1, Zenon
      <3>2. CASE ~enrolled[u]
        BY <2>2, <3>2
      <3> QED
        BY <3>1, <3>2
    <2>4. ~carried'
      BY <1>2 DEF Refresh, Honest
    <2> QED
      BY <2>1, <2>3, <2>4 DEF Honest
  <1>3. ASSUME NEW u \in Users, Permits(u, "payout") \/ Permits(u, "refund"),
               carried' = (carried \/ token[u].way = "refresh"), UNCHANGED token
        PROVE  Honest'
    <2>1. token[u] # None /\ token[u].mfa
      BY <1>3, MoneyNeedsMfa DEF MfaEndpoints
    <2> QED
      BY <1>3, <2>1 DEF Honest
  <1>4. CASE UNCHANGED <<token, carried>>
    BY <1>4 DEF Honest
  <1> QED
    BY <1>1, <1>2, <1>3, <1>4 DEF Next, Assign, Enrol, Move, Pay, Refund, staff

LEMMA FittingStep ==
  ASSUME DeskAssumption, RefundsAssumption, TypeOK, Fitting, Next
  PROVE  Fitting'
  <1>1. CASE UNCHANGED refunds
    BY <1>1 DEF refunds, money, Fitting, UnderWay
  <1>2. ASSUME NEW r \in Requests, NEW k \in Keys, NEW asked \in Amounts \cup {None},
               RefundRead(r, k, asked), ~crossed'
        PROVE  Fitting'
    <2>1. PICK n \in 1 .. Total :
            /\ refunded + n <= Total
            /\ job' = [job EXCEPT ![r] = [at |-> "lookup", key |-> k, amount |-> n]]
      BY <1>2, AskedIsTyped DEF TypeOK
    <2>2. ~crossed /\ UnderWay = {} /\ refunded' = refunded
      BY <1>2 DEF RefundRead, money
    <2>3. UnderWay' \subseteq {r} /\ job'[r].amount = n
      BY <2>1, <2>2 DEF UnderWay, TypeOK, RefundsTypeOK
    <2>4. refunded <= Total
      BY <2>2 DEF Fitting
    <2> QED
      BY <2>1, <2>2, <2>3, <2>4 DEF Fitting
  <1>3. ASSUME NEW r \in Requests, Proceed(r), ~crossed'
        PROVE  Fitting'
    <2>1. ~crossed /\ r \in UnderWay
      BY <1>3, NoIdle DEF Proceed, Lookup, Create, Abandon, UnderWay
    <2>2. /\ refunded <= Total
          /\ refunded + job[r].amount <= Total
          /\ UnderWay = {r}
      BY <2>1 DEF Fitting
    <2>3. job[r] \in RefundJobs /\ job[r] # Idle
      BY <2>1 DEF UnderWay, TypeOK, RefundsTypeOK
    <2>4. UnderWay' \subseteq {r}
      BY <1>3, <2>2 DEF Proceed, Lookup, Create, Abandon, Goto, UnderWay, TypeOK,
           RefundsTypeOK
    <2>5. CASE Lookup(r) \/ Abandon(r)
      <3>1. refunded' = refunded
        BY <2>5 DEF Lookup, Abandon, money
      <3>2. job'[r] # Idle => job'[r].amount = job[r].amount
        <4>1. job'[r] \in {Idle, [job[r] EXCEPT !.at = "create"]}
          BY <2>5 DEF Lookup, Abandon, Goto, TypeOK, RefundsTypeOK
        <4> QED
          BY <4>1, <2>3, Jobs
      <3> QED
        BY <2>2, <2>4, <3>1, <3>2 DEF Fitting, UnderWay
    <2>6. CASE Create(r)
      <3>1. UnderWay' = {}
        BY <2>4, <2>6 DEF Create, Goto, UnderWay, TypeOK, RefundsTypeOK
      <3>2. refunded' = refunded \/ refunded' = refunded + job[r].amount
        BY <2>6 DEF Create, money
      <3>3. refunded' <= Total
        BY <2>2, <3>2
      <3> QED
        BY <3>1, <3>3 DEF Fitting
    <2> QED
      BY <1>3, <2>5, <2>6 DEF Proceed
  <1>4. ASSUME crossed' PROVE Fitting'
    BY <1>4 DEF Fitting
  <1> QED
    BY <1>1, <1>2, <1>3, <1>4
    DEF Next, Assign, Enrol, SignIn, Refresh, Move, Pay, Refund

-------------------------------------------------------------------------------

LEMMA InitHolds ==
  ASSUME DeskAssumption, RefundsAssumption, Init
  PROVE  IInv
  <1>1. RefundsTypeOK
    BY Jobs DEF Init, RefundsInit, RefundsTypeOK
  <1>2. TypeOK
    BY <1>1 DEF Init, TypeOK, ClaimStatuses
  <1>3. Accounted /\ Honest
    BY DEF Init, Accounted, Honest
  <1>4. UnderWay = {} /\ refunded <= Total
    BY DEF Init, RefundsInit, UnderWay, RefundsAssumption
  <1>5. Fitting
    BY <1>4 DEF Fitting
  <1> QED
    BY <1>2, <1>3, <1>5 DEF IInv

LEMMA Stutters == IInv /\ UNCHANGED vars => IInv'
  BY DEF IInv, TypeOK, RefundsTypeOK, Accounted, Honest, Fitting, UnderWay,
         vars, staff, file, refunds, money

\* The strengthened invariant: whose roles are behind a token or a deed, what
\* a token says of the second factor, and that a refund under way still fits.
THEOREM DeskHolds == Spec => []IInv
  <1>1. IInv /\ [Next]_vars => IInv'
    BY DeskAssumption, RefundsAssumption, TypeStep, AccountedStep, HonestStep,
       FittingStep, Stutters DEF IInv
  <1> QED
    BY <1>1, InitHolds, DeskAssumption, RefundsAssumption, PTL DEF Spec

\* Accounts, tokens, the claim and the refunds keep their types.
THEOREM TypeCorrect == Spec => []TypeOK
  <1>1. IInv => TypeOK
    BY DEF IInv
  <1> QED
    BY <1>1, DeskHolds, PTL

\* Nobody approves an indemnity and releases it who has had one role only,
\* unless it is super_admin (permissions.ts:84-160).
THEOREM FourEyesHolds == Spec => []FourEyes
  <1>1. ASSUME IInv PROVE FourEyes
    <2>1. SUFFICES ASSUME NEW u \in approvers \cap payers
                   PROVE  "super_admin" \in held[u] \/ \E r, s \in held[u] : r # s
      BY DEF FourEyes
    <2>2. held[u] \cap Approving # {} /\ held[u] \cap Releasing # {}
      BY <1>1 DEF IInv, Accounted
    <2> QED
      BY <2>2 DEF Approving, Releasing
  <1> QED
    BY <1>1, DeskHolds, PTL

\* No money moves on a token that a refresh left with a second factor
\* outstanding (permissions.guard.ts:60-66, token.service.ts:160-163).
THEOREM StepUpHolds == Spec => []StepUp
  <1>1. IInv => StepUp
    BY DEF IInv, Honest, StepUp
  <1> QED
    BY <1>1, DeskHolds, PTL

\* Refunds stay within what was collected as long as none is decided on while
\* another is under way (payments.service.ts:496-505).
THEOREM RefundsWithinPaymentHolds == Spec => []RefundsWithinPayment
  <1>1. IInv => RefundsWithinPayment
    BY DEF IInv, Fitting, RefundsWithinPayment
  <1> QED
    BY <1>1, DeskHolds, PTL
===============================================================================
