------------------------------- MODULE Policies -------------------------------
(***************************************************************************)
(* From quotation to renewal: the policies and claims of a tenant as the   *)
(* policies and claims services create and number them, behind the Bar     *)
(* verification of Onboarding.  Numbers are count + 1, read in the         *)
(* transaction that creates the row; unique columns refuse a number that   *)
(* another transaction took meanwhile, and the request fails.              *)
(***************************************************************************)
EXTENDS Onboarding, PolicyLifecycle, Sequences

CONSTANTS
  Quotes,       \* quotations the lawyer may ask for
  Products,     \* products they may be for
  Offered,      \* transitions staff and the lawyer ask for
  MaxPolicies,  \* bound: policies ever created
  MaxClaims,    \* bound: claims ever filed
  None          \* the quotation of a policy that came from none

ASSUME PoliciesAssumption ==
  /\ Offered \subseteq EndpointTransitions \ {"renew"}
  /\ MaxPolicies \in Nat
  /\ MaxClaims \in Nat
  /\ None \notin Quotes

VARIABLES
  quote,     \* status of each quotation
  product,   \* what it is for
  policies,  \* the policies in the order they were created
  claims     \* the numbers of the claims

catalogue == <<quote, product>>
onboarding == <<standing, cards>>
vars == <<onboarding, crossed, refused, catalogue, policies, claims, job>>

QuoteStatuses == {"none", "open", "converted"}

\* renews is the place of the policy it succeeds, 0 for none.  A policy that
\* came from a quotation has the invoice with its number.
Policy == [product : Products, no : Nat \ {0}, status : PolicyStatuses,
           quote : Quotes \cup {None}, renews : Nat]

Jobs ==
  OnboardingJobs
  \cup [at : {"quote", "count"}, quote : Quotes]
  \cup [at : {"subscribe"}, quote : Quotes, no : Nat \ {0}]
  \cup [at : {"status", "renew"}, policy : DOMAIN policies, no : Nat \ {0}]
  \cup [at : {"transition"}, policy : DOMAIN policies, name : Offered]
  \cup [at : {"file"}]
  \cup [at : {"claim"}, no : Nat \ {0}]

TypeOK ==
  /\ OnboardingTypeOK
  /\ quote \in [Quotes -> QuoteStatuses]
  /\ product \in [Quotes -> Products]
  /\ policies \in Seq(Policy)
  /\ claims \subseteq Nat \ {0}
  /\ job \in [Handlers -> Jobs]

Init ==
  /\ OnboardingInit
  /\ quote = [q \in Quotes |-> "none"]
  /\ product \in [Quotes -> Products]
  /\ policies = <<>>
  /\ claims = {}

\* Variant: the number of those there are.
NumberOf(S) == Cardinality(S)

\* The number a transaction gives to what it creates.
NextNumber(S) == Cardinality(S) + 1

-------------------------------------------------------------------------------
(* Quotation and subscription *)

\* createQuote asks for a profile, not for a verified one.
CreateQuote(q) ==
  /\ profile # "none"
  /\ quote[q] = "none"
  /\ quote' = [quote EXCEPT ![q] = "open"]
  /\ UNCHANGED <<onboarding, crossed, refused, product, policies, claims, job>>

\* Variant: a rejected lawyer passes.
AssertNotPending(h, q) ==
  /\ job[h] = Idle
  /\ profile \notin {"none", "pending"}
  /\ Goto(h, [at |-> "quote", quote |-> q])
  /\ UNCHANGED <<onboarding, crossed, refused, catalogue, policies, claims>>

AssertVerified(h, q) ==
  /\ job[h] = Idle
  /\ profile = "verified"
  /\ Goto(h, [at |-> "quote", quote |-> q])
  /\ UNCHANGED <<onboarding, crossed, refused, catalogue, policies, claims>>

\* The price is held for twenty-four hours, which may have passed.
ReadQuote(h) ==
  /\ job[h].at = "quote"
  /\ \E expired \in BOOLEAN :
       IF quote[job[h].quote] = "open" /\ ~expired
       THEN Goto(h, [at |-> "count", quote |-> job[h].quote])
       ELSE Return(h)
  /\ Cross("quote", {"count", "subscribe"})
  /\ UNCHANGED <<onboarding, refused, catalogue, policies, claims>>

Counted == {"subscribe", "status", "renew"}

\* Variant: each product has numbers of its own.
CountOfProduct(h) ==
  /\ job[h].at = "count"
  /\ Len(policies) < MaxPolicies
  /\ Goto(h, [at |-> "subscribe", quote |-> job[h].quote,
              no |-> NextNumber({i \in DOMAIN policies :
                       policies[i].product = product[job[h].quote]})])
  /\ Cross("policy", Counted)
  /\ UNCHANGED <<onboarding, refused, catalogue, policies, claims>>

Count(h) ==
  /\ job[h].at = "count"
  /\ Len(policies) < MaxPolicies
  /\ Goto(h, [at |-> "subscribe", quote |-> job[h].quote,
              no |-> NextNumber(DOMAIN policies)])
  /\ Cross("policy", Counted)
  /\ UNCHANGED <<onboarding, refused, catalogue, policies, claims>>

Application(p, n, q, old) ==
  [product |-> p, no |-> n, status |-> "submitted", quote |-> q, renews |-> old]

NumberTaken(p, n) ==
  \E i \in DOMAIN policies : policies[i].product = p /\ policies[i].no = n
InvoiceTaken(n) ==
  \E i \in DOMAIN policies : policies[i].quote # None /\ policies[i].no = n

QuoteUsed(q) == \E i \in DOMAIN policies : policies[i].quote = q

\* Policy, invoice, installments and the mark on the quotation, or nothing.
Subscribe(h) ==
  LET q == job[h].quote
      n == job[h].no IN
  /\ job[h].at = "subscribe"
  /\ IF NumberTaken(product[q], n) \/ InvoiceTaken(n) \/ QuoteUsed(q)
     THEN /\ refused' = refused \cup
                {IF NumberTaken(product[q], n) \/ InvoiceTaken(n)
                 THEN "policy" ELSE "quote"}
          /\ UNCHANGED <<policies, quote>>
     ELSE /\ policies' = Append(policies, Application(product[q], n, q, 0))
          /\ quote' = [quote EXCEPT ![q] = "converted"]
          /\ UNCHANGED refused
  /\ Return(h)
  /\ UNCHANGED <<onboarding, crossed, product, claims>>

-------------------------------------------------------------------------------
(* Renewal and the other transitions *)

\* Somebody else has read the status of the policy and will write it.
CrossStatus(i) ==
  crossed' = IF \E h \in Handlers : job[h].at \in {"renew", "transition"}
                                    /\ job[h].policy = i
             THEN crossed \cup {"status"} ELSE crossed

RenewCount(h, i) ==
  /\ job[h] = Idle
  /\ Len(policies) < MaxPolicies
  /\ Goto(h, [at |-> "status", policy |-> i, no |-> NextNumber(DOMAIN policies)])
  /\ Cross("policy", Counted)
  /\ UNCHANGED <<onboarding, refused, catalogue, policies, claims>>

\* Variant: a renewed policy is renewed again.
RenewReadAny(h) ==
  /\ job[h].at = "status"
  /\ Goto(h, [job[h] EXCEPT !.at = "renew"])
  /\ CrossStatus(job[h].policy)
  /\ UNCHANGED <<onboarding, refused, catalogue, policies, claims>>

\* The transition reads the old policy after the new one has been written.
RenewRead(h) ==
  /\ job[h].at = "status"
  /\ IF CanTransition(policies[job[h].policy].status, "renew")
     THEN Goto(h, [job[h] EXCEPT !.at = "renew"])
     ELSE Return(h)
  /\ CrossStatus(job[h].policy)
  /\ UNCHANGED <<onboarding, refused, catalogue, policies, claims>>

\* The successor has no quotation and no invoice.
Renew(h) ==
  LET i == job[h].policy
      n == job[h].no
      p == policies[i].product IN
  /\ job[h].at = "renew"
  /\ IF NumberTaken(p, n)
     THEN refused' = refused \cup {"policy"} /\ UNCHANGED policies
     ELSE /\ policies' = Append([policies EXCEPT ![i].status = To["renew"]],
                                Application(p, n, None, i))
          /\ UNCHANGED refused
  /\ Return(h)
  /\ UNCHANGED <<onboarding, crossed, catalogue, claims>>

Request(h, i, name) ==
  /\ job[h] = Idle
  /\ CanTransition(policies[i].status, name)
  /\ Goto(h, [at |-> "transition", policy |-> i, name |-> name])
  /\ CrossStatus(i)
  /\ UNCHANGED <<onboarding, refused, catalogue, policies, claims>>

\* By id, whatever the policy has become since it was read.
Transition(h) ==
  /\ job[h].at = "transition"
  /\ policies' = [policies EXCEPT ![job[h].policy].status = To[job[h].name]]
  /\ Return(h)
  /\ UNCHANGED <<onboarding, crossed, refused, catalogue, claims>>

\* The payment of an invoice (see Settlement) is what activates a policy.
Activate(i) ==
  /\ policies[i].quote # None
  /\ CanTransition(policies[i].status, "activate")
  /\ policies' = [policies EXCEPT ![i].status = To["activate"]]
  /\ UNCHANGED <<onboarding, crossed, refused, catalogue, claims, job>>

-------------------------------------------------------------------------------
(* Filing a claim *)

FileRead(h, i) ==
  /\ job[h] = Idle
  /\ policies[i].status = "active"
  /\ Goto(h, [at |-> "file"])
  /\ UNCHANGED <<onboarding, crossed, refused, catalogue, policies, claims>>

FileCount(h) ==
  /\ job[h].at = "file"
  /\ Cardinality(claims) < MaxClaims
  /\ Goto(h, [at |-> "claim", no |-> NextNumber(claims)])
  /\ Cross("claim", {"claim"})
  /\ UNCHANGED <<onboarding, refused, catalogue, policies, claims>>

FileClaim(h) ==
  /\ job[h].at = "claim"
  /\ IF job[h].no \in claims
     THEN refused' = refused \cup {"claim"} /\ UNCHANGED claims
     ELSE claims' = claims \cup {job[h].no} /\ UNCHANGED refused
  /\ Return(h)
  /\ UNCHANGED <<onboarding, crossed, catalogue, policies>>

-------------------------------------------------------------------------------

\* The server stops, or an error ends the request: the transaction is undone.
Stop(h) ==
  /\ job[h] # Idle
  /\ Return(h)
  /\ UNCHANGED <<onboarding, crossed, refused, catalogue, policies, claims>>

Next ==
  \/ \E h \in Handlers :
       \/ OnboardingStep(h) /\ UNCHANGED <<catalogue, policies, claims>>
       \/ \E q \in Quotes : AssertVerified(h, q)
       \/ ReadQuote(h) \/ Count(h) \/ Subscribe(h)
       \/ RenewRead(h) \/ Renew(h) \/ Transition(h)
       \/ FileCount(h) \/ FileClaim(h)
       \/ \E i \in DOMAIN policies :
            \/ RenewCount(h, i)
            \/ FileRead(h, i)
            \/ \E name \in Offered : Request(h, i, name)
       \/ Stop(h)
  \/ \E n \in cards :
       RemoveBeneficiary(n) /\ UNCHANGED <<catalogue, policies, claims>>
  \/ \E q \in Quotes : CreateQuote(q)
  \/ \E i \in DOMAIN policies : Activate(i)

Spec == Init /\ [][Next]_vars

-------------------------------------------------------------------------------
(* Properties *)

\* Subscribing is gated on the decision of the Bar (policies.service.ts:44-45):
\* whoever has a policy was verified, and still is unless two officers decided
\* at once.
OnlyVerifiedSubscribe ==
  policies # <<>> =>
    /\ "verified" \in rulings
    /\ "decision" \notin crossed => profile = "verified"

\* A request fails on what is taken only if two counted the same thing, or
\* read the quotations, at once, or a beneficiary had been removed
\* (policies.service.ts:47-57, claims.service.ts:74, onboarding.service.ts:230).
RefusalTakesCrossing == refused \subseteq crossed

\* One policy comes of a quotation that was converted, none of any other; and
\* a policy has one successor at most, unless two transitions of one policy
\* were decided at once (policies.service.ts:52, 117, 167-187, 309).
CoveredOnce ==
  /\ \A q \in Quotes :
       Cardinality({i \in DOMAIN policies : policies[i].quote = q})
         = IF quote[q] = "converted" THEN 1 ELSE 0
  /\ "status" \notin crossed =>
       \A i \in DOMAIN policies :
         Cardinality({j \in DOMAIN policies : policies[j].renews = i}) <= 1
===============================================================================
