----------------------------- MODULE PoliciesProofs -----------------------------
(***************************************************************************)
(* What Policies guarantees for any number of handlers, quotations and     *)
(* products, and whatever transitions are offered.                         *)
(***************************************************************************)
EXTENDS Policies, FiniteSetTheorems, SequenceTheorems, TLAPS

-------------------------------------------------------------------------------
(* The inductive invariant *)

\* Only a pending verification is decided, by one officer unless two crossed.
Deciding ==
  /\ profile = verification
  /\ profile = "verified" => "verified" \in rulings
  /\ "decision" \notin crossed =>
       \A g, h \in Handlers :
         job[g].at = "decide" =>
           /\ verification = "pending"
           /\ job[h].at = "decide" => g = h

Verified ==
  /\ "verified" \in rulings
  /\ "decision" \notin crossed => profile = "verified"

\* Where a request is that has passed assertVerified and not yet subscribed.
Admitted == {"quote", "count", "subscribe"}

Gate ==
  /\ \A h \in Handlers : job[h].at \in Admitted => Verified
  /\ policies # <<>> => Verified

\* Numbers in use are at most as many as there are, and the next one is held
\* by one request.
CardsCounted ==
  /\ IsFiniteSet(cards)
  /\ "card" \notin crossed =>
       /\ \A n \in cards : n <= Cardinality(cards)
       /\ \A g, h \in Handlers :
            job[g].at = "card" =>
              /\ job[g].no = Cardinality(cards) + 1
              /\ job[h].at = "card" => g = h

ClaimsCounted ==
  /\ IsFiniteSet(claims)
  /\ "claim" \notin crossed =>
       /\ \A n \in claims : n <= Cardinality(claims)
       /\ \A g, h \in Handlers :
            job[g].at = "claim" =>
              /\ job[g].no = Cardinality(claims) + 1
              /\ job[h].at = "claim" => g = h

PoliciesCounted ==
  "policy" \notin crossed =>
    /\ \A i \in DOMAIN policies : policies[i].no <= Len(policies)
    /\ \A g, h \in Handlers :
         job[g].at \in Counted =>
           /\ job[g].no = Len(policies) + 1
           /\ job[h].at \in Counted => g = h

\* A quotation in use is converted, by one policy; the one that a subscription
\* has read is open until then unless two have read at once.
Converted ==
  /\ \A q \in Quotes : quote[q] = "converted" <=> QuoteUsed(q)
  /\ \A i, j \in DOMAIN policies :
       policies[i].quote # None /\ policies[i].quote = policies[j].quote
         => i = j
  /\ "quote" \notin crossed =>
       \A g, h \in Handlers :
         job[g].at \in {"count", "subscribe"} =>
           /\ quote[job[g].quote] = "open"
           /\ job[h].at \in {"count", "subscribe"} => g = h

\* A policy with a successor is renewed for good, and one that is about to be
\* written is not renewed, unless two transitions of it crossed.
Succession ==
  /\ \A i \in DOMAIN policies : policies[i].renews \in {0} \cup DOMAIN policies
  /\ "status" \notin crossed =>
       /\ \A i \in DOMAIN policies :
            policies[i].renews # 0 =>
              policies[policies[i].renews].status = "renewed"
       /\ \A i, j \in DOMAIN policies :
            policies[i].renews # 0 /\ policies[i].renews = policies[j].renews
              => i = j
       /\ \A g, h \in Handlers :
            job[g].at \in {"renew", "transition"} =>
              /\ policies[job[g].policy].status # "renewed"
              /\ job[h].at \in {"renew", "transition"}
                   /\ job[h].policy = job[g].policy => g = h

IInv ==
  /\ TypeOK
  /\ RefusalTakesCrossing
  /\ Deciding
  /\ Gate
  /\ CardsCounted
  /\ ClaimsCounted
  /\ PoliciesCounted
  /\ Converted
  /\ Succession

-------------------------------------------------------------------------------
(* Data *)

LEMMA PoliciesAreRows ==
  ASSUME TypeOK
  PROVE  /\ Len(policies) \in Nat
         /\ DOMAIN policies = 1 .. Len(policies)
         /\ policies \in [1 .. Len(policies) -> Policy]
         /\ policies # <<>> <=> Len(policies) # 0
         /\ \A i \in DOMAIN policies :
              /\ policies[i] \in Policy
              /\ policies[i].product \in Products
              /\ policies[i].no \in Nat \ {0}
              /\ policies[i].status \in PolicyStatuses
              /\ policies[i].quote \in Quotes \cup {None}
              /\ policies[i].renews \in Nat
  <1>1. policies \in Seq(Policy)
    BY DEF TypeOK
  <1>2. /\ Len(policies) \in Nat
        /\ DOMAIN policies = 1 .. Len(policies)
        /\ policies \in [1 .. Len(policies) -> Policy]
    BY <1>1, LenProperties, ElementOfSeq
  <1>3. policies # <<>> <=> Len(policies) # 0
    BY <1>1, EmptySeq
  <1>4. \A i \in DOMAIN policies : policies[i] \in Policy
    BY <1>2
  <1> QED
    BY <1>2, <1>3, <1>4 DEF Policy

\* The policies with another status for one of them.
WithStatus(i, s) == [policies EXCEPT ![i].status = s]

LEMMA Restated ==
  ASSUME TypeOK, NEW i \in DOMAIN policies, NEW s \in PolicyStatuses
  PROVE  /\ WithStatus(i, s) \in Seq(Policy)
         /\ Len(WithStatus(i, s)) = Len(policies)
         /\ DOMAIN WithStatus(i, s) = DOMAIN policies
         /\ WithStatus(i, s)[i].status = s
         /\ \A j \in DOMAIN policies :
              /\ WithStatus(i, s)[j].no = policies[j].no
              /\ WithStatus(i, s)[j].quote = policies[j].quote
              /\ WithStatus(i, s)[j].renews = policies[j].renews
              /\ j # i => WithStatus(i, s)[j].status = policies[j].status
  <1> DEFINE rows == WithStatus(i, s)
  <1>1. /\ policies[i] \in Policy
        /\ [policies[i] EXCEPT !.status = s] \in Policy
    BY PoliciesAreRows DEF Policy
  <1>2. rows = [policies EXCEPT ![i] = [policies[i] EXCEPT !.status = s]]
    BY Zenon DEF WithStatus
  <1> HIDE DEF rows
  <1>3. /\ rows \in [1 .. Len(policies) -> Policy]
        /\ DOMAIN rows = DOMAIN policies
        /\ rows[i] = [policies[i] EXCEPT !.status = s]
        /\ \A j \in DOMAIN policies : j # i => rows[j] = policies[j]
    BY <1>1, <1>2, PoliciesAreRows
  <1>4. rows \in Seq(Policy) /\ Len(rows) = Len(policies)
    BY <1>3, PoliciesAreRows, SeqDef, LenProperties
  <1>5. /\ rows[i].no = policies[i].no
        /\ rows[i].quote = policies[i].quote
        /\ rows[i].renews = policies[i].renews
        /\ rows[i].status = s
    BY <1>1, <1>3 DEF Policy
  <1> QED
    BY <1>3, <1>4, <1>5 DEF rows

\* Adding a policy.
LEMMA Added ==
  ASSUME NEW rows \in Seq(Policy), NEW p \in Products, NEW n \in Nat \ {0},
         NEW q \in Quotes \cup {None}, NEW old \in Nat,
         policies' = Append(rows, Application(p, n, q, old))
  PROVE  /\ policies' \in Seq(Policy)
         /\ policies' # <<>>
         /\ Len(rows) \in Nat
         /\ DOMAIN rows = 1 .. Len(rows)
         /\ Len(policies') = Len(rows) + 1
         /\ DOMAIN policies' = 1 .. Len(rows) + 1
         /\ \A i \in 1 .. Len(rows) : policies'[i] = rows[i]
         /\ policies'[Len(rows) + 1] = Application(p, n, q, old)
  <1>1. Application(p, n, q, old) \in Policy
    BY DEF Application, Policy, PolicyStatuses
  <1>2. /\ policies' \in Seq(Policy)
        /\ Len(policies') = Len(rows) + 1
        /\ \A i \in 1 .. Len(rows) : policies'[i] = rows[i]
        /\ policies'[Len(rows) + 1] = Application(p, n, q, old)
    BY <1>1, AppendProperties
  <1> QED
    BY <1>2, LenProperties, EmptySeq

LEMMA JobFields ==
  ASSUME TypeOK, NEW h \in Handlers
  PROVE  /\ job[h] \in Jobs
         /\ job[h].at \in {"idle", "register", "decide", "card", "quote",
                           "count", "subscribe", "status", "renew",
                           "transition", "file", "claim"}
         /\ job[h].at = "decide" => job[h].ruling \in Rulings
         /\ job[h].at \in {"card", "subscribe", "status", "renew", "claim"} =>
              job[h].no \in Nat \ {0}
         /\ job[h].at \in Admitted => job[h].quote \in Quotes
         /\ job[h].at \in {"status", "renew", "transition"} =>
              job[h].policy \in DOMAIN policies
         /\ job[h].at = "transition" => job[h].name \in Offered
  <1>1. job[h] \in Jobs
    BY DEF TypeOK
  <1> QED
    BY <1>1 DEF Jobs, OnboardingJobs, Idle, Admitted

LEMMA JobKinds ==
  /\ Idle \in Jobs
  /\ [at |-> "register"] \in Jobs
  /\ [at |-> "file"] \in Jobs
  /\ \A r \in Rulings : [at |-> "decide", ruling |-> r] \in Jobs
  /\ \A n \in Nat \ {0} :
       [at |-> "card", no |-> n] \in Jobs /\ [at |-> "claim", no |-> n] \in Jobs
  /\ \A q \in Quotes :
       /\ [at |-> "quote", quote |-> q] \in Jobs
       /\ [at |-> "count", quote |-> q] \in Jobs
       /\ \A n \in Nat \ {0} : [at |-> "subscribe", quote |-> q, no |-> n] \in Jobs
  /\ \A i \in DOMAIN policies :
       /\ \A n \in Nat \ {0} :
            /\ [at |-> "status", policy |-> i, no |-> n] \in Jobs
            /\ [at |-> "renew", policy |-> i, no |-> n] \in Jobs
       /\ \A name \in Offered :
            [at |-> "transition", policy |-> i, name |-> name] \in Jobs
  BY DEF Jobs, OnboardingJobs, Idle

\* Moving a handler to another point, while no policy goes away.
LEMMA Moved ==
  ASSUME TypeOK, NEW h \in Handlers, NEW j \in Jobs, Goto(h, j),
         DOMAIN policies \subseteq DOMAIN policies'
  PROVE  /\ job' \in [Handlers -> Jobs']
         /\ job'[h] = j
         /\ \A g \in Handlers \ {h} : job'[g] = job[g]
  <1>1. Jobs \subseteq Jobs'
    BY DEF Jobs
  <1> QED
    BY <1>1 DEF TypeOK, Goto

\* Nobody is at a point that Busy asks about, if nothing was marked.
LEMMA Crossed ==
  ASSUME NEW kind, NEW points, Cross(kind, points)
  PROVE  /\ crossed \subseteq crossed'
         /\ kind \notin crossed' =>
              \A h \in Handlers : job[h].at \notin points
         /\ \A k \in crossed' : k \in crossed \/ k = kind
  BY DEF Cross, Busy

\* The statuses a transition leads to and the one nothing leads from.
LEMMA Lifecycle ==
  /\ \A name \in PolicyTransitions : To[name] \in PolicyStatuses
  /\ To["renew"] = "renewed"
  /\ \A name \in PolicyTransitions, s \in PolicyStatuses :
       CanTransition(s, name) => s # "renewed"
  /\ To["activate"] # "renewed"
  BY DEF To, From, CanTransition, PolicyTransitions, PolicyStatuses

-------------------------------------------------------------------------------
(* Parts that a step does not disturb *)

\* Nobody gets to one of these points, or moves there.
Keeps(points) ==
  \A h \in Handlers : job'[h].at \in points => job'[h] = job[h]

LEMMA StaysDeciding ==
  ASSUME Deciding, UNCHANGED standing, crossed \subseteq crossed',
         Keeps({"decide"})
  PROVE  Deciding'
  BY DEF Deciding, Keeps, standing

LEMMA StaysCards ==
  ASSUME CardsCounted, cards' = cards, crossed \subseteq crossed',
         Keeps({"card"})
  PROVE  CardsCounted'
  BY DEF CardsCounted, Keeps

LEMMA StaysClaims ==
  ASSUME ClaimsCounted, claims' = claims, crossed \subseteq crossed',
         Keeps({"claim"})
  PROVE  ClaimsCounted'
  BY DEF ClaimsCounted, Keeps

LEMMA StaysGate ==
  ASSUME Gate, Verified => Verified', Keeps(Admitted), policies' = policies
  PROVE  Gate'
  BY DEF Gate, Keeps

LEMMA StaysVerified ==
  ASSUME UNCHANGED standing, crossed \subseteq crossed'
  PROVE  Verified => Verified'
  BY DEF Verified, standing

LEMMA StaysCounted ==
  ASSUME PoliciesCounted, policies' = policies, crossed \subseteq crossed',
         Keeps(Counted)
  PROVE  PoliciesCounted'
  BY DEF PoliciesCounted, Keeps

LEMMA StaysConverted ==
  ASSUME Converted, policies' = policies, quote' = quote,
         crossed \subseteq crossed', Keeps({"count", "subscribe"})
  PROVE  Converted'
  BY DEF Converted, QuoteUsed, Keeps

LEMMA StaysSuccession ==
  ASSUME Succession, policies' = policies, crossed \subseteq crossed',
         Keeps({"renew", "transition"})
  PROVE  Succession'
  BY DEF Succession, Keeps

\* What a step leaves of the invariant that only moves handlers, and none to a
\* point where it holds something it has read.
LEMMA Quiet ==
  ASSUME IInv, UNCHANGED <<onboarding, refused, catalogue, policies, claims>>,
         crossed \subseteq crossed', crossed' \subseteq {"decision", "status"} \cup Kinds,
         job' \in [Handlers -> Jobs'],
         Keeps({"decide", "card", "claim", "renew", "transition"}
                 \cup Admitted \cup Counted)
  PROVE  IInv'
  <1>1. /\ UNCHANGED standing
        /\ cards' = cards
        /\ quote' = quote
        /\ product' = product
    BY DEF onboarding, catalogue
  <1>2. TypeOK'
    BY <1>1 DEF IInv, TypeOK, OnboardingTypeOK, standing
  <1>3. RefusalTakesCrossing'
    BY DEF IInv, RefusalTakesCrossing
  <1>4. Deciding'
    BY <1>1, StaysDeciding DEF IInv, Keeps
  <1>5. Gate'
    BY <1>1, StaysGate, StaysVerified DEF IInv, Keeps
  <1>6. CardsCounted' /\ ClaimsCounted'
    BY <1>1, StaysCards, StaysClaims DEF IInv, Keeps
  <1>7. PoliciesCounted'
    BY StaysCounted DEF IInv, Keeps
  <1>8. Converted'
    BY <1>1, StaysConverted DEF IInv, Keeps, Admitted
  <1>9. Succession'
    BY StaysSuccession DEF IInv, Keeps
  <1> QED
    BY <1>2, <1>3, <1>4, <1>5, <1>6, <1>7, <1>8, <1>9 DEF IInv

-------------------------------------------------------------------------------
(* Registration and the decision of the Bar *)

LEMMA StopStep ==
  ASSUME IInv, NEW h \in Handlers, Stop(h)
  PROVE  IInv'
  <1>1. Goto(h, Idle) /\ crossed' = crossed /\ policies' = policies
    BY DEF Stop, Return
  <1>2. /\ job' \in [Handlers -> Jobs']
        /\ job'[h] = Idle
        /\ \A g \in Handlers \ {h} : job'[g] = job[g]
    BY <1>1, Moved, JobKinds DEF IInv
  <1>3. Keeps({"decide", "card", "claim", "renew", "transition"}
                \cup Admitted \cup Counted)
    BY <1>2 DEF Keeps, Idle, Admitted, Counted
  <1>4. crossed \subseteq {"decision", "status"} \cup Kinds
    BY DEF IInv, TypeOK, OnboardingTypeOK
  <1>5. UNCHANGED <<onboarding, refused, catalogue, policies, claims>>
    BY DEF Stop
  <1> QED
    BY <1>1, <1>2, <1>3, <1>4, <1>5, Quiet

LEMMA RegisterReadStep ==
  ASSUME IInv, NEW h \in Handlers, RegisterRead(h),
         UNCHANGED <<catalogue, policies, claims>>
  PROVE  IInv'
  <1>1. /\ Goto(h, [at |-> "register"])
        /\ UNCHANGED <<onboarding, crossed, refused>>
    BY DEF RegisterRead, onboarding
  <1>2. /\ job' \in [Handlers -> Jobs']
        /\ job'[h] = [at |-> "register"]
        /\ \A g \in Handlers \ {h} : job'[g] = job[g]
    BY <1>1, Moved, JobKinds DEF IInv
  <1>3. Keeps({"decide", "card", "claim", "renew", "transition"}
                \cup Admitted \cup Counted)
    BY <1>2 DEF Keeps, Admitted, Counted
  <1>4. crossed \subseteq {"decision", "status"} \cup Kinds
    BY DEF IInv, TypeOK, OnboardingTypeOK
  <1> QED
    BY <1>1, <1>2, <1>3, <1>4, Quiet

LEMMA RegisterStep ==
  ASSUME IInv, NEW h \in Handlers, Register(h),
         UNCHANGED <<catalogue, policies, claims>>
  PROVE  IInv'
  <1>1. /\ Goto(h, Idle)
        /\ UNCHANGED <<rulings, cards, crossed, refused, quote, product, policies, claims>>
        /\ profile = "none" => profile' = "pending" /\ verification' = "pending"
        /\ profile # "none" => profile' = profile /\ verification' = verification
    BY DEF Register, Return, catalogue
  <1>2. /\ job' \in [Handlers -> Jobs']
        /\ job'[h] = Idle
        /\ \A g \in Handlers \ {h} : job'[g] = job[g]
    BY <1>1, Moved, JobKinds DEF IInv
  <1>3. Keeps({"decide", "card", "claim", "renew", "transition"}
                \cup Admitted \cup Counted)
    BY <1>2 DEF Keeps, Idle, Admitted, Counted
  <1>4. TypeOK'
    BY <1>1, <1>2 DEF IInv, TypeOK, OnboardingTypeOK, Statuses
  <1>5. RefusalTakesCrossing'
    BY <1>1 DEF IInv, RefusalTakesCrossing
  <1>6. Deciding'
    BY <1>1, <1>3 DEF IInv, Deciding, Keeps
  <1>7. Gate'
    <2>1. Verified => Verified'
      BY <1>1 DEF Verified
    <2> QED
      BY <1>1, <1>3, <2>1, StaysGate DEF IInv, Keeps
  <1>8. CardsCounted' /\ ClaimsCounted'
    BY <1>1, <1>3, StaysCards, StaysClaims DEF IInv, Keeps
  <1>9. PoliciesCounted'
    BY <1>1, <1>3, StaysCounted DEF IInv, Keeps
  <1>10. Converted'
    BY <1>1, <1>3, StaysConverted DEF IInv, Keeps, Admitted
  <1>11. Succession'
    BY <1>1, <1>3, StaysSuccession DEF IInv, Keeps
  <1> QED
    BY <1>4, <1>5, <1>6, <1>7, <1>8, <1>9, <1>10, <1>11 DEF IInv

LEMMA DecideReadStep ==
  ASSUME IInv, NEW h \in Handlers, NEW r \in Rulings, DecideRead(h, r),
         UNCHANGED <<catalogue, policies, claims>>
  PROVE  IInv'
  <1> DEFINE j == [at |-> "decide", ruling |-> r]
  <1>1. /\ Goto(h, j)
        /\ Cross("decision", {"decide"})
        /\ verification = "pending"
        /\ UNCHANGED <<standing, cards, refused, quote, product, policies, claims>>
    BY DEF DecideRead, catalogue
  <1>2. /\ job' \in [Handlers -> Jobs']
        /\ job'[h] = j
        /\ \A g \in Handlers \ {h} : job'[g] = job[g]
    BY <1>1, Moved, JobKinds DEF IInv
  <1>3. /\ crossed \subseteq crossed'
        /\ "decision" \notin crossed' => \A g \in Handlers : job[g].at # "decide"
        /\ \A k \in crossed' : k \in crossed \/ k = "decision"
    BY <1>1, Crossed
  <1>4. Keeps({"card", "claim", "renew", "transition"} \cup Admitted \cup Counted)
    BY <1>2 DEF Keeps, Admitted, Counted
  <1>5. TypeOK'
    BY <1>1, <1>2, <1>3 DEF IInv, TypeOK, OnboardingTypeOK, standing
  <1>6. RefusalTakesCrossing'
    BY <1>1, <1>3 DEF IInv, RefusalTakesCrossing
  <1>7. Deciding'
    BY <1>1, <1>2, <1>3 DEF IInv, Deciding, standing
  <1>8. Gate'
    BY <1>1, <1>3, <1>4, StaysGate, StaysVerified DEF IInv, Keeps
  <1>9. CardsCounted' /\ ClaimsCounted'
    BY <1>1, <1>3, <1>4, StaysCards, StaysClaims DEF IInv, Keeps
  <1>10. PoliciesCounted'
    BY <1>1, <1>3, <1>4, StaysCounted DEF IInv, Keeps
  <1>11. Converted'
    BY <1>1, <1>3, <1>4, StaysConverted DEF IInv, Keeps, Admitted
  <1>12. Succession'
    BY <1>1, <1>3, <1>4, StaysSuccession DEF IInv, Keeps
  <1> QED
    BY <1>5, <1>6, <1>7, <1>8, <1>9, <1>10, <1>11, <1>12 DEF IInv

LEMMA DecideStep ==
  ASSUME IInv, NEW h \in Handlers, Decide(h),
         UNCHANGED <<catalogue, policies, claims>>
  PROVE  IInv'
  <1> DEFINE r == job[h].ruling
  <1>1. /\ Goto(h, Idle)
        /\ job[h].at = "decide"
        /\ verification' = r /\ profile' = r /\ rulings' = rulings \cup {r}
        /\ UNCHANGED <<cards, crossed, refused, quote, product, policies, claims>>
    BY DEF Decide, Return, catalogue
  <1>2. /\ job' \in [Handlers -> Jobs']
        /\ job'[h] = Idle
        /\ \A g \in Handlers \ {h} : job'[g] = job[g]
        /\ r \in Rulings
    BY <1>1, Moved, JobKinds, JobFields DEF IInv
  <1>3. Keeps({"decide", "card", "claim", "renew", "transition"}
                \cup Admitted \cup Counted)
    BY <1>2 DEF Keeps, Idle, Admitted, Counted
  <1>4. TypeOK'
    BY <1>1, <1>2 DEF IInv, TypeOK, OnboardingTypeOK, Statuses
  <1>5. RefusalTakesCrossing'
    BY <1>1 DEF IInv, RefusalTakesCrossing
  <1>6. Deciding'
    BY <1>1, <1>2 DEF IInv, Deciding, Idle
  <1>7. Gate'
    <2>1. Verified => Verified'
      <3>1. "decision" \notin crossed => profile = "pending"
        BY <1>1 DEF IInv, Deciding
      <3> QED
        BY <1>1, <3>1 DEF Verified
    <2> QED
      BY <1>1, <1>3, <2>1, StaysGate DEF IInv, Keeps
  <1>8. CardsCounted' /\ ClaimsCounted'
    BY <1>1, <1>3, StaysCards, StaysClaims DEF IInv, Keeps
  <1>9. PoliciesCounted'
    BY <1>1, <1>3, StaysCounted DEF IInv, Keeps
  <1>10. Converted'
    BY <1>1, <1>3, StaysConverted DEF IInv, Keeps, Admitted
  <1>11. Succession'
    BY <1>1, <1>3, StaysSuccession DEF IInv, Keeps
  <1> QED
    BY <1>4, <1>5, <1>6, <1>7, <1>8, <1>9, <1>10, <1>11 DEF IInv

-------------------------------------------------------------------------------
(* Beneficiaries *)

LEMMA CountCardsStep ==
  ASSUME IInv, NEW h \in Handlers, CountCards(h),
         UNCHANGED <<catalogue, policies, claims>>
  PROVE  IInv'
  <1> DEFINE j == [at |-> "card", no |-> Cardinality(cards) + 1]
  <1>1. /\ Goto(h, j)
        /\ Cross("card", {"card"})
        /\ UNCHANGED <<standing, cards, refused, quote, product, policies, claims>>
    BY DEF CountCards, catalogue
  <1>2. Cardinality(cards) + 1 \in Nat \ {0}
    BY FS_CardinalityType DEF IInv, CardsCounted
  <1>3. /\ job' \in [Handlers -> Jobs']
        /\ job'[h] = j
        /\ \A g \in Handlers \ {h} : job'[g] = job[g]
    BY <1>1, <1>2, Moved, JobKinds DEF IInv
  <1>4. /\ crossed \subseteq crossed'
        /\ "card" \notin crossed' => \A g \in Handlers : job[g].at # "card"
        /\ \A k \in crossed' : k \in crossed \/ k = "card"
    BY <1>1, Crossed
  <1>5. Keeps({"decide", "claim", "renew", "transition"} \cup Admitted \cup Counted)
    BY <1>3 DEF Keeps, Admitted, Counted
  <1>6. TypeOK'
    BY <1>1, <1>3, <1>4 DEF IInv, TypeOK, OnboardingTypeOK, standing, Kinds
  <1>7. RefusalTakesCrossing'
    BY <1>1, <1>4 DEF IInv, RefusalTakesCrossing
  <1>8. Deciding'
    BY <1>1, <1>4, <1>5, StaysDeciding DEF IInv, Keeps
  <1>9. Gate'
    BY <1>1, <1>4, <1>5, StaysGate, StaysVerified DEF IInv, Keeps
  <1>10. CardsCounted'
    BY <1>1, <1>3, <1>4 DEF IInv, CardsCounted
  <1>11. ClaimsCounted'
    BY <1>1, <1>4, <1>5, StaysClaims DEF IInv, Keeps
  <1>12. PoliciesCounted'
    BY <1>1, <1>4, <1>5, StaysCounted DEF IInv, Keeps
  <1>13. Converted'
    BY <1>1, <1>4, <1>5, StaysConverted DEF IInv, Keeps, Admitted
  <1>14. Succession'
    BY <1>1, <1>4, <1>5, StaysSuccession DEF IInv, Keeps
  <1> QED
    BY <1>6, <1>7, <1>8, <1>9, <1>10, <1>11, <1>12, <1>13, <1>14 DEF IInv

LEMMA AddBeneficiaryStep ==
  ASSUME IInv, NEW h \in Handlers, AddBeneficiary(h),
         UNCHANGED <<catalogue, policies, claims>>
  PROVE  IInv'
  <1> DEFINE n == job[h].no
  <1>1. /\ Goto(h, Idle)
        /\ job[h].at = "card"
        /\ UNCHANGED <<standing, crossed, quote, product, policies, claims>>
        /\ n \in cards => refused' = refused \cup {"card"} /\ cards' = cards
        /\ n \notin cards => refused' = refused /\ cards' = cards \cup {n}
    BY DEF AddBeneficiary, Return, catalogue
  <1>2. /\ job' \in [Handlers -> Jobs']
        /\ job'[h] = Idle
        /\ \A g \in Handlers \ {h} : job'[g] = job[g]
        /\ n \in Nat \ {0}
    BY <1>1, Moved, JobKinds, JobFields DEF IInv
  <1>3. Keeps({"decide", "card", "claim", "renew", "transition"}
                \cup Admitted \cup Counted)
    BY <1>2 DEF Keeps, Idle, Admitted, Counted
  <1>4. TypeOK'
    BY <1>1, <1>2 DEF IInv, TypeOK, OnboardingTypeOK, standing, Kinds
  <1>5. /\ IsFiniteSet(cards)
        /\ Cardinality(cards) \in Nat
        /\ n \notin cards => /\ IsFiniteSet(cards')
                             /\ Cardinality(cards') = Cardinality(cards) + 1
    <2>1. IsFiniteSet(cards)
      BY DEF IInv, CardsCounted
    <2>2. n \notin cards => cards' = cards \cup {n}
      BY <1>1
    <2> HIDE DEF n
    <2> QED
      BY <2>1, <2>2, FS_CardinalityType, FS_AddElement
  <1>6. RefusalTakesCrossing'
    <2>1. n \in cards => "card" \in crossed
      BY <1>1, <1>2, <1>5 DEF IInv, CardsCounted
    <2> QED
      BY <1>1, <2>1 DEF IInv, RefusalTakesCrossing
  <1>7. Deciding'
    BY <1>1, <1>3, StaysDeciding DEF IInv, Keeps
  <1>8. Gate'
    BY <1>1, <1>3, StaysGate, StaysVerified DEF IInv, Keeps
  <1>9. CardsCounted'
    <2>1. CASE n \in cards
      BY <1>1, <1>3, <2>1, StaysCards DEF IInv, Keeps
    <2>2. CASE n \notin cards
      <3>1. IsFiniteSet(cards')
        BY <1>5, <2>2
      <3>2. ASSUME "card" \notin crossed'
            PROVE  /\ \A m \in cards' : m <= Cardinality(cards')
                   /\ \A g \in Handlers : job'[g].at # "card"
        <4>1. \A m \in cards : m \in Nat /\ m <= Cardinality(cards)
          BY <1>1, <3>2 DEF IInv, TypeOK, OnboardingTypeOK, CardsCounted
        <4>2. n = Cardinality(cards) + 1
          BY <1>1, <3>2 DEF IInv, CardsCounted
        <4>3. \A g \in Handlers : job'[g].at # "card"
          BY <1>1, <1>2, <3>2 DEF IInv, CardsCounted, Idle
        <4> QED
          BY <1>1, <1>5, <2>2, <4>1, <4>2, <4>3
      <3> QED
        BY <3>1, <3>2 DEF CardsCounted
    <2> QED
      BY <2>1, <2>2
  <1>10. ClaimsCounted'
    BY <1>1, <1>3, StaysClaims DEF IInv, Keeps
  <1>11. PoliciesCounted'
    BY <1>1, <1>3, StaysCounted DEF IInv, Keeps
  <1>12. Converted'
    BY <1>1, <1>3, StaysConverted DEF IInv, Keeps, Admitted
  <1>13. Succession'
    BY <1>1, <1>3, StaysSuccession DEF IInv, Keeps
  <1> QED
    BY <1>4, <1>6, <1>7, <1>8, <1>9, <1>10, <1>11, <1>12, <1>13 DEF IInv

LEMMA RemoveBeneficiaryStep ==
  ASSUME IInv, NEW n \in cards, RemoveBeneficiary(n),
         UNCHANGED <<catalogue, policies, claims>>
  PROVE  IInv'
  <1>1. /\ cards' = cards \ {n}
        /\ crossed' = crossed \cup {"card"}
        /\ UNCHANGED <<standing, job, refused, quote, product, policies, claims>>
    BY DEF RemoveBeneficiary, catalogue
  <1>2. Keeps({"decide", "claim", "renew", "transition"} \cup Admitted \cup Counted)
    BY <1>1 DEF Keeps
  <1>3. Jobs' = Jobs
    BY <1>1 DEF Jobs
  <1>4. TypeOK'
    BY <1>1, <1>3 DEF IInv, TypeOK, OnboardingTypeOK, standing, Kinds
  <1>5. RefusalTakesCrossing'
    BY <1>1 DEF IInv, RefusalTakesCrossing
  <1>6. Deciding'
    BY <1>1, <1>2, StaysDeciding DEF IInv, Keeps
  <1>7. Gate'
    BY <1>1, <1>2, StaysGate, StaysVerified DEF IInv, Keeps
  <1>8. CardsCounted'
    BY <1>1, FS_RemoveElement DEF IInv, CardsCounted
  <1>9. ClaimsCounted'
    BY <1>1, <1>2, StaysClaims DEF IInv, Keeps
  <1>10. PoliciesCounted'
    BY <1>1, <1>2, StaysCounted DEF IInv, Keeps
  <1>11. Converted'
    BY <1>1, <1>2, StaysConverted DEF IInv, Keeps, Admitted
  <1>12. Succession'
    BY <1>1, <1>2, StaysSuccession DEF IInv, Keeps
  <1> QED
    BY <1>4, <1>5, <1>6, <1>7, <1>8, <1>9, <1>10, <1>11, <1>12 DEF IInv

-------------------------------------------------------------------------------
(* Quotation and subscription *)

LEMMA CreateQuoteStep ==
  ASSUME IInv, NEW q \in Quotes, CreateQuote(q)
  PROVE  IInv'
  <1>1. /\ quote[q] = "none"
        /\ quote' = [quote EXCEPT ![q] = "open"]
        /\ UNCHANGED <<standing, cards, crossed, refused, product, policies, claims, job>>
    BY DEF CreateQuote, onboarding
  <1>2. Keeps({"decide", "card", "claim", "renew", "transition"}
                \cup Admitted \cup Counted)
    BY <1>1 DEF Keeps
  <1>3. /\ quote \in [Quotes -> QuoteStatuses]
        /\ quote' \in [Quotes -> QuoteStatuses]
        /\ quote'[q] = "open"
        /\ \A r \in Quotes \ {q} : quote'[r] = quote[r]
    BY <1>1 DEF IInv, TypeOK, QuoteStatuses
  <1>4. Jobs' = Jobs
    BY <1>1 DEF Jobs
  <1>5. TypeOK'
    BY <1>1, <1>3, <1>4 DEF IInv, TypeOK, OnboardingTypeOK, standing
  <1>6. RefusalTakesCrossing'
    BY <1>1 DEF IInv, RefusalTakesCrossing
  <1>7. Deciding'
    BY <1>1, <1>2, StaysDeciding DEF IInv, Keeps
  <1>8. Gate'
    BY <1>1, <1>2, StaysGate, StaysVerified DEF IInv, Keeps
  <1>9. CardsCounted' /\ ClaimsCounted'
    BY <1>1, <1>2, StaysCards, StaysClaims DEF IInv, Keeps
  <1>10. PoliciesCounted'
    BY <1>1, <1>2, StaysCounted DEF IInv, Keeps
  <1>11. Converted'
    <2>1. \A r \in Quotes : quote'[r] = "converted" <=> quote[r] = "converted"
      BY <1>1, <1>3
    <2>2. \A r \in Quotes : quote[r] = "open" => quote'[r] = "open"
      BY <1>1, <1>3
    <2>3. \A g \in Handlers :
            job[g].at \in {"count", "subscribe"} => job[g].quote \in Quotes
      BY JobFields DEF IInv, Admitted
    <2> QED
      BY <1>1, <2>1, <2>2, <2>3 DEF IInv, Converted, QuoteUsed
  <1>12. Succession'
    BY <1>1, <1>2, StaysSuccession DEF IInv, Keeps
  <1> QED
    BY <1>5, <1>6, <1>7, <1>8, <1>9, <1>10, <1>11, <1>12 DEF IInv

LEMMA AssertVerifiedStep ==
  ASSUME IInv, NEW h \in Handlers, NEW q \in Quotes, AssertVerified(h, q)
  PROVE  IInv'
  <1> DEFINE j == [at |-> "quote", quote |-> q]
  <1>1. /\ Goto(h, j)
        /\ profile = "verified"
        /\ UNCHANGED <<standing, cards, crossed, refused, quote, product, policies, claims>>
    BY DEF AssertVerified, onboarding, catalogue
  <1>2. /\ job' \in [Handlers -> Jobs']
        /\ job'[h] = j
        /\ \A g \in Handlers \ {h} : job'[g] = job[g]
    BY <1>1, Moved, JobKinds DEF IInv
  <1>3. Keeps({"decide", "card", "claim", "renew", "transition", "count"} \cup Counted)
    BY <1>2 DEF Keeps, Counted
  <1>4. TypeOK'
    BY <1>1, <1>2 DEF IInv, TypeOK, OnboardingTypeOK, standing
  <1>5. RefusalTakesCrossing'
    BY <1>1 DEF IInv, RefusalTakesCrossing
  <1>6. Deciding'
    BY <1>1, <1>3, StaysDeciding DEF IInv, Keeps
  <1>7. Gate'
    <2>1. Verified'
      BY <1>1 DEF IInv, Deciding, Verified, standing
    <2> QED
      BY <2>1 DEF Gate
  <1>8. CardsCounted' /\ ClaimsCounted'
    BY <1>1, <1>3, StaysCards, StaysClaims DEF IInv, Keeps
  <1>9. PoliciesCounted'
    BY <1>1, <1>3, StaysCounted DEF IInv, Keeps
  <1>10. Converted'
    BY <1>1, <1>3, StaysConverted DEF IInv, Keeps, Counted
  <1>11. Succession'
    BY <1>1, <1>3, StaysSuccession DEF IInv, Keeps
  <1> QED
    BY <1>4, <1>5, <1>6, <1>7, <1>8, <1>9, <1>10, <1>11 DEF IInv

LEMMA ReadQuoteStep ==
  ASSUME IInv, NEW h \in Handlers, ReadQuote(h)
  PROVE  IInv'
  <1> DEFINE j == [at |-> "count", quote |-> job[h].quote]
  <1>1. /\ job[h].at = "quote"
        /\ \/ quote[job[h].quote] = "open" /\ Goto(h, j)
           \/ Goto(h, Idle)
        /\ Cross("quote", {"count", "subscribe"})
        /\ UNCHANGED <<standing, cards, refused, quote, product, policies, claims>>
    BY DEF ReadQuote, Return, onboarding, catalogue
  <1>2. job[h].quote \in Quotes
    BY <1>1, JobFields DEF IInv, Admitted
  <1>3. /\ job' \in [Handlers -> Jobs']
        /\ \/ quote[job[h].quote] = "open" /\ job'[h] = j
           \/ job'[h] = Idle
        /\ \A g \in Handlers \ {h} : job'[g] = job[g]
    <2>1. CASE Goto(h, Idle)
      BY <1>1, <2>1, Moved, JobKinds DEF IInv
    <2>2. CASE quote[job[h].quote] = "open" /\ Goto(h, j)
      BY <1>1, <1>2, <2>2, Moved, JobKinds DEF IInv
    <2> QED
      BY <1>1, <2>1, <2>2
  <1>4. /\ crossed \subseteq crossed'
        /\ "quote" \notin crossed' =>
             \A g \in Handlers : job[g].at \notin {"count", "subscribe"}
        /\ \A k \in crossed' : k \in crossed \/ k = "quote"
    BY <1>1, Crossed
  <1>5. Keeps({"decide", "card", "claim", "renew", "transition"} \cup Counted)
    BY <1>3 DEF Keeps, Idle, Counted
  <1>6. TypeOK'
    BY <1>1, <1>3, <1>4 DEF IInv, TypeOK, OnboardingTypeOK, standing, Kinds
  <1>7. RefusalTakesCrossing'
    BY <1>1, <1>4 DEF IInv, RefusalTakesCrossing
  <1>8. Deciding'
    BY <1>1, <1>4, <1>5, StaysDeciding DEF IInv, Keeps
  <1>9. Gate'
    <2>1. Verified'
      BY <1>1, <1>4, StaysVerified DEF IInv, Gate, Admitted
    <2> QED
      BY <2>1 DEF Gate
  <1>10. CardsCounted' /\ ClaimsCounted'
    BY <1>1, <1>4, <1>5, StaysCards, StaysClaims DEF IInv, Keeps
  <1>11. PoliciesCounted'
    BY <1>1, <1>4, <1>5, StaysCounted DEF IInv, Keeps
  <1>12. Converted'
    <2>1. ASSUME "quote" \notin crossed', NEW g \in Handlers,
                 job'[g].at \in {"count", "subscribe"}
          PROVE  g = h /\ quote[job'[g].quote] = "open"
      BY <1>3, <1>4, <2>1 DEF Idle
    <2> QED
      BY <1>1, <2>1 DEF IInv, Converted, QuoteUsed
  <1>13. Succession'
    BY <1>1, <1>4, <1>5, StaysSuccession DEF IInv, Keeps
  <1> QED
    BY <1>6, <1>7, <1>8, <1>9, <1>10, <1>11, <1>12, <1>13 DEF IInv

\* The number a transaction draws.
LEMMA NextPolicy ==
  ASSUME TypeOK
  PROVE  /\ NextNumber(DOMAIN policies) = Len(policies) + 1
         /\ NextNumber(DOMAIN policies) \in Nat \ {0}
  <1>1. DOMAIN policies = 1 .. Len(policies) /\ Len(policies) \in Nat
    BY PoliciesAreRows
  <1>2. Cardinality(1 .. Len(policies)) = Len(policies)
    <2> DEFINE n == Len(policies)
    <2>1. n \in Nat
      BY <1>1
    <2> HIDE DEF n
    <2>2. Cardinality(1 .. n) = IF 1 > n THEN 0 ELSE n - 1 + 1
      BY <2>1, FS_Interval
    <2>3. Cardinality(1 .. n) = n
      BY <2>1, <2>2
    <2> QED
      BY <2>3 DEF n
  <1> QED
    BY <1>1, <1>2 DEF NextNumber

LEMMA CountStep ==
  ASSUME IInv, NEW h \in Handlers, Count(h)
  PROVE  IInv'
  <1> DEFINE n == NextNumber(DOMAIN policies)
             j == [at |-> "subscribe", quote |-> job[h].quote, no |-> n]
  <1>1. /\ job[h].at = "count"
        /\ Goto(h, j)
        /\ Cross("policy", Counted)
        /\ UNCHANGED <<standing, cards, refused, quote, product, policies, claims>>
    BY DEF Count, onboarding, catalogue
  <1>2. job[h].quote \in Quotes /\ n = Len(policies) + 1 /\ n \in Nat \ {0}
    BY <1>1, JobFields, NextPolicy DEF IInv, Admitted
  <1> HIDE DEF n
  <1>3. /\ job' \in [Handlers -> Jobs']
        /\ job'[h] = j
        /\ \A g \in Handlers \ {h} : job'[g] = job[g]
    BY <1>1, <1>2, Moved, JobKinds DEF IInv
  <1>4. /\ crossed \subseteq crossed'
        /\ "policy" \notin crossed' => \A g \in Handlers : job[g].at \notin Counted
        /\ \A k \in crossed' : k \in crossed \/ k = "policy"
    BY <1>1, Crossed
  <1>5. Keeps({"decide", "card", "claim", "renew", "transition"})
    BY <1>3 DEF Keeps
  <1>6. TypeOK'
    BY <1>1, <1>3, <1>4 DEF IInv, TypeOK, OnboardingTypeOK, standing, Kinds
  <1>7. RefusalTakesCrossing'
    BY <1>1, <1>4 DEF IInv, RefusalTakesCrossing
  <1>8. Deciding'
    BY <1>1, <1>4, <1>5, StaysDeciding DEF IInv, Keeps
  <1>9. Gate'
    <2>1. Verified'
      BY <1>1, <1>4, StaysVerified DEF IInv, Gate, Admitted
    <2> QED
      BY <2>1 DEF Gate
  <1>10. CardsCounted' /\ ClaimsCounted'
    BY <1>1, <1>4, <1>5, StaysCards, StaysClaims DEF IInv, Keeps
  <1>11. PoliciesCounted'
    <2>1. ASSUME "policy" \notin crossed', NEW g \in Handlers, job'[g].at \in Counted
          PROVE  g = h /\ job'[g].no = Len(policies) + 1
      BY <1>2, <1>3, <1>4, <2>1
    <2> QED
      BY <1>1, <1>4, <2>1 DEF IInv, PoliciesCounted
  <1>12. Converted'
    <2>1. \A g \in Handlers :
            job'[g].at \in {"count", "subscribe"} =>
              /\ job[g].at \in {"count", "subscribe"}
              /\ job'[g].quote = job[g].quote
      BY <1>1, <1>3
    <2> QED
      BY <1>1, <1>4, <2>1 DEF IInv, Converted, QuoteUsed
  <1>13. Succession'
    BY <1>1, <1>4, <1>5, StaysSuccession DEF IInv, Keeps
  <1> QED
    BY <1>6, <1>7, <1>8, <1>9, <1>10, <1>11, <1>12, <1>13 DEF IInv

\* What is taken was taken while another request had counted or read the same.
LEMMA SubscribeRefused ==
  ASSUME IInv, NEW h \in Handlers, job[h].at = "subscribe"
  PROVE  /\ (\E i \in DOMAIN policies : policies[i].no = job[h].no) => "policy" \in crossed
         /\ QuoteUsed(job[h].quote) => "quote" \in crossed
  <1>1. ASSUME NEW i \in DOMAIN policies, policies[i].no = job[h].no,
               "policy" \notin crossed
        PROVE  FALSE
    <2>1. policies[i].no <= Len(policies) /\ job[h].no = Len(policies) + 1
      BY <1>1 DEF IInv, PoliciesCounted, Counted
    <2>2. Len(policies) \in Nat
      BY PoliciesAreRows DEF IInv
    <2> QED
      BY <1>1, <2>1, <2>2
  <1>2. ASSUME QuoteUsed(job[h].quote), "quote" \notin crossed
        PROVE  FALSE
    <2>1. job[h].quote \in Quotes
      BY JobFields DEF IInv, Admitted
    <2> QED
      BY <1>2, <2>1 DEF IInv, Converted
  <1> QED
    BY <1>1, <1>2

LEMMA SubscribeStep ==
  ASSUME IInv, NEW h \in Handlers, Subscribe(h)
  PROVE  IInv'
  <1> DEFINE q == job[h].quote
             n == job[h].no
             taken == NumberTaken(product[q], n) \/ InvoiceTaken(n) \/ QuoteUsed(q)
  <1>1. /\ job[h].at = "subscribe"
        /\ Goto(h, Idle)
        /\ UNCHANGED <<standing, cards, crossed, product, claims>>
        /\ taken =>
             /\ refused' = refused \cup
                  {IF NumberTaken(product[q], n) \/ InvoiceTaken(n)
                   THEN "policy" ELSE "quote"}
             /\ policies' = policies /\ quote' = quote
        /\ ~taken =>
             /\ policies' = Append(policies, Application(product[q], n, q, 0))
             /\ quote' = [quote EXCEPT ![q] = "converted"]
             /\ refused' = refused
    BY DEF Subscribe, Return, onboarding
  <1>2. q \in Quotes /\ n \in Nat \ {0} /\ product[q] \in Products
    BY <1>1, JobFields DEF IInv, TypeOK, Admitted
  <1>3. Verified /\ Verified'
    BY <1>1, StaysVerified DEF IInv, Gate, Admitted
  <1>4. CASE taken
    <2>1. UNCHANGED <<policies, quote>>
      BY <1>1, <1>4
    <2>2. refused' \subseteq crossed /\ refused' \subseteq Kinds
      <3>1. NumberTaken(product[q], n) \/ InvoiceTaken(n) => "policy" \in crossed
        BY <1>1, SubscribeRefused DEF NumberTaken, InvoiceTaken
      <3>2. ~(NumberTaken(product[q], n) \/ InvoiceTaken(n)) => "quote" \in crossed
        BY <1>1, <1>4, SubscribeRefused
      <3>3. refused \subseteq crossed /\ refused \subseteq Kinds
        BY DEF IInv, RefusalTakesCrossing, TypeOK, OnboardingTypeOK
      <3> QED
        BY <1>1, <1>4, <3>1, <3>2, <3>3 DEF Kinds
    <2>3. /\ job' \in [Handlers -> Jobs']
          /\ job'[h] = Idle
          /\ \A g \in Handlers \ {h} : job'[g] = job[g]
      BY <1>1, <2>1, Moved, JobKinds DEF IInv
    <2>4. Keeps({"decide", "card", "claim", "renew", "transition"}
                  \cup Admitted \cup Counted)
      BY <2>3 DEF Keeps, Idle, Admitted, Counted
    <2>5. TypeOK'
      BY <1>1, <2>1, <2>2, <2>3 DEF IInv, TypeOK, OnboardingTypeOK, standing
    <2>6. RefusalTakesCrossing'
      BY <1>1, <2>2 DEF RefusalTakesCrossing
    <2>7. Deciding'
      BY <1>1, <2>4, StaysDeciding DEF IInv, Keeps
    <2>8. Gate'
      BY <1>3 DEF Gate
    <2>9. CardsCounted' /\ ClaimsCounted'
      BY <1>1, <2>4, StaysCards, StaysClaims DEF IInv, Keeps
    <2>10. PoliciesCounted'
      BY <1>1, <2>1, <2>4, StaysCounted DEF IInv, Keeps
    <2>11. Converted'
      BY <1>1, <2>1, <2>4, StaysConverted DEF IInv, Keeps, Admitted
    <2>12. Succession'
      BY <1>1, <2>1, <2>4, StaysSuccession DEF IInv, Keeps
    <2> QED
      BY <2>5, <2>6, <2>7, <2>8, <2>9, <2>10, <2>11, <2>12 DEF IInv
  <1>5. CASE ~taken
    <2> DEFINE app == Application(product[q], n, q, 0)
               last == Len(policies) + 1
    <2>1. /\ policies' = Append(policies, app)
          /\ quote' = [quote EXCEPT ![q] = "converted"]
          /\ refused' = refused
          /\ ~QuoteUsed(q)
      BY <1>1, <1>5
    <2>2. /\ app.no = n /\ app.quote = q /\ app.renews = 0
      BY DEF Application
    <2>3. /\ policies' \in Seq(Policy)
          /\ Len(policies) \in Nat
          /\ DOMAIN policies = 1 .. Len(policies)
          /\ Len(policies') = last
          /\ DOMAIN policies' = 1 .. last
          /\ \A i \in DOMAIN policies : policies'[i] = policies[i]
          /\ policies'[last] = app
      <3>1. policies \in Seq(Policy) /\ 0 \in Nat
        BY DEF IInv, TypeOK
      <3> QED
        BY <1>2, <2>1, <3>1, Added
    <2> HIDE DEF app
    <2>4. /\ last \notin DOMAIN policies
          /\ DOMAIN policies' = DOMAIN policies \cup {last}
      BY <2>3
    <2> HIDE DEF last, taken
    <2>5. /\ job' \in [Handlers -> Jobs']
          /\ job'[h] = Idle
          /\ \A g \in Handlers \ {h} : job'[g] = job[g]
      BY <1>1, <2>4, Moved, JobKinds DEF IInv
    <2>6. Keeps({"decide", "card", "claim", "renew", "transition"}
                  \cup Admitted \cup Counted)
      BY <2>5 DEF Keeps, Idle, Admitted, Counted
    <2>7. /\ quote' \in [Quotes -> QuoteStatuses]
          /\ quote'[q] = "converted"
          /\ \A r \in Quotes \ {q} : quote'[r] = quote[r]
      BY <1>2, <2>1 DEF IInv, TypeOK, QuoteStatuses
    <2>8. TypeOK'
      BY <1>1, <2>1, <2>3, <2>5, <2>7 DEF IInv, TypeOK, OnboardingTypeOK, standing
    <2>9. RefusalTakesCrossing'
      BY <1>1, <2>1 DEF IInv, RefusalTakesCrossing
    <2>10. Deciding'
      BY <1>1, <2>6, StaysDeciding DEF IInv, Keeps
    <2>11. Gate'
      BY <1>3 DEF Gate
    <2>12. CardsCounted' /\ ClaimsCounted'
      BY <1>1, <2>6, StaysCards, StaysClaims DEF IInv, Keeps
    <2>13. PoliciesCounted'
      <3> SUFFICES ASSUME "policy" \notin crossed
                   PROVE  /\ \A i \in DOMAIN policies' :
                               policies'[i].no <= Len(policies')
                          /\ \A g \in Handlers : job'[g].at \notin Counted
        BY <1>1 DEF PoliciesCounted
      <3>1. \A i \in DOMAIN policies :
              policies[i].no \in Nat /\ policies[i].no <= Len(policies)
        BY PoliciesAreRows DEF IInv, PoliciesCounted
      <3>2. n = Len(policies) + 1
        BY <1>1 DEF IInv, PoliciesCounted, Counted
      <3>3. \A i \in DOMAIN policies' : policies'[i].no <= Len(policies')
        <4>1. \A i \in DOMAIN policies : policies'[i].no <= Len(policies')
          BY <2>3, <3>1 DEF last
        <4>2. policies'[last].no <= Len(policies')
          BY <2>2, <2>3, <3>2 DEF last
        <4> QED
          BY <2>4, <4>1, <4>2
      <3>4. \A g \in Handlers : job'[g].at \notin Counted
        BY <1>1, <2>5 DEF IInv, PoliciesCounted, Counted, Idle
      <3> QED
        BY <3>3, <3>4
    <2>14. Converted'
      <3>1. \A r \in Quotes : QuoteUsed(r)' <=> QuoteUsed(r) \/ r = q
        BY <2>2, <2>3, <2>4 DEF QuoteUsed
      <3>2. \A r \in Quotes : quote'[r] = "converted" <=> QuoteUsed(r)'
        BY <2>7, <3>1 DEF IInv, Converted
      <3>3. ASSUME NEW i \in DOMAIN policies', NEW j \in DOMAIN policies',
                   policies'[i].quote # None,
                   policies'[i].quote = policies'[j].quote
            PROVE  i = j
        BY <2>1, <2>2, <2>3, <2>4, <3>3 DEF IInv, Converted, QuoteUsed
      <3>4. "quote" \notin crossed =>
              \A g \in Handlers : job'[g].at \notin {"count", "subscribe"}
        BY <1>1, <2>5 DEF IInv, Converted, Idle
      <3> QED
        BY <1>1, <3>2, <3>3, <3>4 DEF Converted
    <2>15. Succession'
      <3>1. \A i \in DOMAIN policies' :
              /\ policies'[i].renews \in {0} \cup DOMAIN policies
              /\ policies'[i].renews # 0 =>
                   /\ i \in DOMAIN policies
                   /\ policies'[i] = policies[i]
                   /\ policies'[policies'[i].renews] = policies[policies[i].renews]
        BY <2>2, <2>3, <2>4 DEF IInv, Succession
      <3>2. \A g \in Handlers :
              job'[g].at \in {"renew", "transition"} =>
                /\ job'[g] = job[g]
                /\ job[g].policy \in DOMAIN policies
        BY <2>6, JobFields DEF IInv, Keeps
      <3>3. "status" \notin crossed =>
              /\ \A i \in DOMAIN policies' :
                   policies'[i].renews # 0 =>
                     policies'[policies'[i].renews].status = "renewed"
              /\ \A i, j \in DOMAIN policies' :
                   policies'[i].renews # 0
                     /\ policies'[i].renews = policies'[j].renews => i = j
        BY <3>1 DEF IInv, Succession
      <3>4. "status" \notin crossed =>
              \A g, k \in Handlers :
                job'[g].at \in {"renew", "transition"} =>
                  /\ policies'[job'[g].policy].status # "renewed"
                  /\ job'[k].at \in {"renew", "transition"}
                       /\ job'[k].policy = job'[g].policy => g = k
        BY <2>3, <3>2 DEF IInv, Succession
      <3> QED
        BY <1>1, <2>4, <3>1, <3>3, <3>4 DEF Succession
    <2> QED
      BY <2>8, <2>9, <2>10, <2>11, <2>12, <2>13, <2>14, <2>15 DEF IInv
  <1> QED
    BY <1>4, <1>5

-------------------------------------------------------------------------------
(* Renewal and the other transitions *)

LEMMA CrossedStatus ==
  ASSUME NEW i, CrossStatus(i)
  PROVE  /\ crossed \subseteq crossed'
         /\ "status" \notin crossed' =>
              \A g \in Handlers :
                job[g].at \in {"renew", "transition"} => job[g].policy # i
         /\ \A k \in crossed' : k \in crossed \/ k = "status"
  BY DEF CrossStatus

LEMMA OfferedNames ==
  ASSUME PoliciesAssumption, NEW name \in Offered
  PROVE  /\ name \in PolicyTransitions
         /\ To[name] \in PolicyStatuses \ {"renewed"}
  <1>1. name \in {"start_review", "approve", "suspend", "cancel"}
    BY DEF PoliciesAssumption, EndpointTransitions
  <1> QED
    BY <1>1 DEF To, PolicyTransitions, PolicyStatuses

LEMMA RenewCountStep ==
  ASSUME IInv, NEW h \in Handlers, NEW i \in DOMAIN policies, RenewCount(h, i)
  PROVE  IInv'
  <1> DEFINE n == NextNumber(DOMAIN policies)
             j == [at |-> "status", policy |-> i, no |-> n]
  <1>1. /\ Goto(h, j)
        /\ Cross("policy", Counted)
        /\ UNCHANGED <<standing, cards, refused, quote, product, policies, claims>>
    BY DEF RenewCount, onboarding, catalogue
  <1>2. n = Len(policies) + 1 /\ n \in Nat \ {0}
    BY NextPolicy DEF IInv
  <1> HIDE DEF n
  <1>3. /\ job' \in [Handlers -> Jobs']
        /\ job'[h] = j
        /\ \A g \in Handlers \ {h} : job'[g] = job[g]
    BY <1>1, <1>2, Moved, JobKinds DEF IInv
  <1>4. /\ crossed \subseteq crossed'
        /\ "policy" \notin crossed' => \A g \in Handlers : job[g].at \notin Counted
        /\ \A k \in crossed' : k \in crossed \/ k = "policy"
    BY <1>1, Crossed
  <1>5. Keeps({"decide", "card", "claim", "renew", "transition"} \cup Admitted)
    BY <1>3 DEF Keeps, Admitted
  <1>6. TypeOK'
    BY <1>1, <1>3, <1>4 DEF IInv, TypeOK, OnboardingTypeOK, standing, Kinds
  <1>7. RefusalTakesCrossing'
    BY <1>1, <1>4 DEF IInv, RefusalTakesCrossing
  <1>8. Deciding'
    BY <1>1, <1>4, <1>5, StaysDeciding DEF IInv, Keeps
  <1>9. Gate'
    BY <1>1, <1>4, <1>5, StaysGate, StaysVerified DEF IInv, Keeps
  <1>10. CardsCounted' /\ ClaimsCounted'
    BY <1>1, <1>4, <1>5, StaysCards, StaysClaims DEF IInv, Keeps
  <1>11. PoliciesCounted'
    <2>1. ASSUME "policy" \notin crossed', NEW g \in Handlers, job'[g].at \in Counted
          PROVE  g = h /\ job'[g].no = Len(policies) + 1
      BY <1>2, <1>3, <1>4, <2>1
    <2> QED
      BY <1>1, <1>4, <2>1 DEF IInv, PoliciesCounted
  <1>12. Converted'
    BY <1>1, <1>4, <1>5, StaysConverted DEF IInv, Keeps, Admitted
  <1>13. Succession'
    BY <1>1, <1>4, <1>5, StaysSuccession DEF IInv, Keeps
  <1> QED
    BY <1>6, <1>7, <1>8, <1>9, <1>10, <1>11, <1>12, <1>13 DEF IInv

LEMMA RenewReadStep ==
  ASSUME IInv, NEW h \in Handlers, RenewRead(h)
  PROVE  IInv'
  <1> DEFINE i == job[h].policy
             j == [job[h] EXCEPT !.at = "renew"]
  <1>1. /\ job[h].at = "status"
        /\ \/ CanTransition(policies[i].status, "renew") /\ Goto(h, j)
           \/ Goto(h, Idle)
        /\ CrossStatus(i)
        /\ UNCHANGED <<standing, cards, refused, quote, product, policies, claims>>
    BY DEF RenewRead, Return, onboarding, catalogue
  <1>2. /\ i \in DOMAIN policies
        /\ j = [at |-> "renew", policy |-> i, no |-> job[h].no]
        /\ j \in Jobs
    <2>1. i \in DOMAIN policies /\ job[h].no \in Nat \ {0}
      BY <1>1, JobFields DEF IInv
    <2>2. job[h] \in [at : {"status", "renew"}, policy : DOMAIN policies, no : Nat \ {0}]
      BY <1>1, JobFields DEF IInv, Jobs, OnboardingJobs, Idle
    <2>3. j = [at |-> "renew", policy |-> i, no |-> job[h].no]
      BY <2>2
    <2> QED
      BY <2>1, <2>3, JobKinds
  <1> HIDE DEF j
  <1>3. /\ job' \in [Handlers -> Jobs']
        /\ \/ CanTransition(policies[i].status, "renew") /\ job'[h] = j
           \/ job'[h] = Idle
        /\ \A g \in Handlers \ {h} : job'[g] = job[g]
    <2>1. CASE Goto(h, Idle)
      BY <1>1, <2>1, Moved, JobKinds DEF IInv
    <2>2. CASE CanTransition(policies[i].status, "renew") /\ Goto(h, j)
      BY <1>1, <1>2, <2>2, Moved, JobKinds DEF IInv
    <2> QED
      BY <1>1, <2>1, <2>2
  <1>4. /\ crossed \subseteq crossed'
        /\ "status" \notin crossed' =>
             \A g \in Handlers :
               job[g].at \in {"renew", "transition"} => job[g].policy # i
        /\ \A k \in crossed' : k \in crossed \/ k = "status"
    BY <1>1, CrossedStatus
  <1>5. Keeps({"decide", "card", "claim", "transition"} \cup Admitted)
    BY <1>2, <1>3 DEF Keeps, Idle, Admitted
  <1>6. TypeOK'
    BY <1>1, <1>3, <1>4 DEF IInv, TypeOK, OnboardingTypeOK, standing
  <1>7. RefusalTakesCrossing'
    BY <1>1, <1>4 DEF IInv, RefusalTakesCrossing
  <1>8. Deciding'
    BY <1>1, <1>4, <1>5, StaysDeciding DEF IInv, Keeps
  <1>9. Gate'
    BY <1>1, <1>4, <1>5, StaysGate, StaysVerified DEF IInv, Keeps
  <1>10. CardsCounted' /\ ClaimsCounted'
    BY <1>1, <1>4, <1>5, StaysCards, StaysClaims DEF IInv, Keeps
  <1>11. PoliciesCounted'
    <2>1. \A g \in Handlers :
            job'[g].at \in Counted =>
              job[g].at \in Counted /\ job'[g].no = job[g].no
      BY <1>1, <1>2, <1>3 DEF Counted, Idle
    <2> QED
      BY <1>1, <1>4, <2>1 DEF IInv, PoliciesCounted
  <1>12. Converted'
    BY <1>1, <1>4, <1>5, StaysConverted DEF IInv, Keeps, Admitted
  <1>13. Succession'
    <2>1. job'[h].at \in {"renew", "transition"} =>
            policies[i].status # "renewed" /\ job'[h].policy = i
      <3>1. CanTransition(policies[i].status, "renew") =>
              policies[i].status # "renewed"
        BY <1>2, PoliciesAreRows, Lifecycle DEF IInv, PolicyTransitions
      <3> QED
        BY <1>2, <1>3, <3>1 DEF Idle
    <2>2. ASSUME "status" \notin crossed', NEW g \in Handlers, NEW k \in Handlers,
                 job'[g].at \in {"renew", "transition"}
          PROVE  /\ policies[job'[g].policy].status # "renewed"
                 /\ job'[k].at \in {"renew", "transition"}
                      /\ job'[k].policy = job'[g].policy => g = k
      BY <1>3, <1>4, <2>1, <2>2 DEF IInv, Succession
    <2> QED
      BY <1>1, <1>4, <2>2 DEF IInv, Succession
  <1> QED
    BY <1>6, <1>7, <1>8, <1>9, <1>10, <1>11, <1>12, <1>13 DEF IInv

LEMMA RequestStep ==
  ASSUME IInv, PoliciesAssumption, NEW h \in Handlers, NEW i \in DOMAIN policies,
         NEW name \in Offered, Request(h, i, name)
  PROVE  IInv'
  <1> DEFINE j == [at |-> "transition", policy |-> i, name |-> name]
  <1>1. /\ Goto(h, j)
        /\ CanTransition(policies[i].status, name)
        /\ CrossStatus(i)
        /\ UNCHANGED <<standing, cards, refused, quote, product, policies, claims>>
    BY DEF Request, onboarding, catalogue
  <1>2. /\ job' \in [Handlers -> Jobs']
        /\ job'[h] = j
        /\ \A g \in Handlers \ {h} : job'[g] = job[g]
    BY <1>1, Moved, JobKinds DEF IInv
  <1>3. /\ crossed \subseteq crossed'
        /\ "status" \notin crossed' =>
             \A g \in Handlers :
               job[g].at \in {"renew", "transition"} => job[g].policy # i
        /\ \A k \in crossed' : k \in crossed \/ k = "status"
    BY <1>1, CrossedStatus
  <1>4. Keeps({"decide", "card", "claim"} \cup Admitted \cup Counted)
    BY <1>2 DEF Keeps, Admitted, Counted
  <1>5. TypeOK'
    BY <1>1, <1>2, <1>3 DEF IInv, TypeOK, OnboardingTypeOK, standing
  <1>6. RefusalTakesCrossing'
    BY <1>1, <1>3 DEF IInv, RefusalTakesCrossing
  <1>7. Deciding'
    BY <1>1, <1>3, <1>4, StaysDeciding DEF IInv, Keeps
  <1>8. Gate'
    BY <1>1, <1>3, <1>4, StaysGate, StaysVerified DEF IInv, Keeps
  <1>9. CardsCounted' /\ ClaimsCounted'
    BY <1>1, <1>3, <1>4, StaysCards, StaysClaims DEF IInv, Keeps
  <1>10. PoliciesCounted'
    BY <1>1, <1>3, <1>4, StaysCounted DEF IInv, Keeps
  <1>11. Converted'
    BY <1>1, <1>3, <1>4, StaysConverted DEF IInv, Keeps, Admitted
  <1>12. Succession'
    <2>1. policies[i].status # "renewed"
      BY <1>1, PoliciesAreRows, Lifecycle, OfferedNames DEF IInv
    <2>2. ASSUME "status" \notin crossed', NEW g \in Handlers, NEW k \in Handlers,
                 job'[g].at \in {"renew", "transition"}
          PROVE  /\ policies[job'[g].policy].status # "renewed"
                 /\ job'[k].at \in {"renew", "transition"}
                      /\ job'[k].policy = job'[g].policy => g = k
      BY <1>2, <1>3, <2>1, <2>2 DEF IInv, Succession
    <2> QED
      BY <1>1, <1>3, <2>2 DEF IInv, Succession
  <1> QED
    BY <1>5, <1>6, <1>7, <1>8, <1>9, <1>10, <1>11, <1>12 DEF IInv

\* Writing the status of a policy, other than as renewed.
LEMMA StatusWritten ==
  ASSUME IInv, NEW i \in DOMAIN policies, NEW s \in PolicyStatuses \ {"renewed"},
         policies' = WithStatus(i, s),
         "status" \notin crossed => policies[i].status # "renewed",
         UNCHANGED <<crossed, quote>>,
         Keeps({"renew", "transition", "count"} \cup Counted)
  PROVE  /\ policies' \in Seq(Policy)
         /\ DOMAIN policies' = DOMAIN policies
         /\ policies # <<>>
         /\ PoliciesCounted'
         /\ Converted'
         /\ Succession'
  <1>1. /\ policies' \in Seq(Policy)
        /\ Len(policies') = Len(policies)
        /\ DOMAIN policies' = DOMAIN policies
        /\ policies'[i].status = s
        /\ \A j \in DOMAIN policies :
             /\ policies'[j].no = policies[j].no
             /\ policies'[j].quote = policies[j].quote
             /\ policies'[j].renews = policies[j].renews
             /\ j # i => policies'[j].status = policies[j].status
    <2>1. TypeOK /\ s \in PolicyStatuses
      BY DEF IInv
    <2> QED
      BY <2>1, Restated
  <1>2. policies # <<>>
    BY PoliciesAreRows DEF IInv
  <1>3. PoliciesCounted'
    BY <1>1 DEF IInv, PoliciesCounted, Keeps
  <1>4. Converted'
    BY <1>1 DEF IInv, Converted, QuoteUsed, Keeps, Counted
  <1>5. Succession'
    <2>1. \A j \in DOMAIN policies :
            policies[j].renews \in {0} \cup DOMAIN policies
      BY DEF IInv, Succession
    <2>2. ASSUME "status" \notin crossed, NEW j \in DOMAIN policies,
                 policies'[j].renews # 0
          PROVE  policies'[policies'[j].renews].status = "renewed"
      BY <1>1, <2>1, <2>2 DEF IInv, Succession
    <2>3. ASSUME "status" \notin crossed, NEW g \in Handlers,
                 job'[g].at \in {"renew", "transition"}
          PROVE  /\ job'[g] = job[g]
                 /\ policies'[job'[g].policy].status # "renewed"
      <3>1. job'[g] = job[g] /\ job[g].policy \in DOMAIN policies
        BY <2>3, JobFields DEF IInv, Keeps
      <3>2. policies[job[g].policy].status # "renewed"
        BY <2>3, <3>1 DEF IInv, Succession
      <3> QED
        BY <1>1, <3>1, <3>2
    <2> QED
      BY <1>1, <2>1, <2>2, <2>3 DEF IInv, Succession
  <1> QED
    BY <1>1, <1>2, <1>3, <1>4, <1>5

LEMMA TransitionStep ==
  ASSUME IInv, PoliciesAssumption, NEW h \in Handlers, Transition(h)
  PROVE  IInv'
  <1> DEFINE i == job[h].policy
             s == To[job[h].name]
  <1>1. /\ job[h].at = "transition"
        /\ Goto(h, Idle)
        /\ policies' = WithStatus(i, s)
        /\ UNCHANGED <<standing, cards, crossed, refused, quote, product, claims>>
    BY DEF Transition, Return, onboarding, catalogue, WithStatus
  <1>2. i \in DOMAIN policies /\ s \in PolicyStatuses \ {"renewed"}
    BY <1>1, JobFields, OfferedNames DEF IInv
  <1>3. "status" \notin crossed => policies[i].status # "renewed"
    BY <1>1 DEF IInv, Succession
  <1> HIDE DEF s
  <1>4. DOMAIN policies' = DOMAIN policies
    BY <1>1 DEF WithStatus
  <1>5. /\ job' \in [Handlers -> Jobs']
        /\ job'[h] = Idle
        /\ \A g \in Handlers \ {h} : job'[g] = job[g]
    BY <1>1, <1>4, Moved, JobKinds DEF IInv
  <1>6. Keeps({"decide", "card", "claim", "renew", "transition"}
                \cup Admitted \cup Counted)
    BY <1>5 DEF Keeps, Idle, Admitted, Counted
  <1>7. /\ policies' \in Seq(Policy)
        /\ policies # <<>>
        /\ PoliciesCounted'
        /\ Converted'
        /\ Succession'
    BY <1>1, <1>2, <1>3, <1>6, StatusWritten DEF Keeps, Admitted
  <1>8. TypeOK'
    BY <1>1, <1>5, <1>7 DEF IInv, TypeOK, OnboardingTypeOK, standing
  <1>9. RefusalTakesCrossing'
    BY <1>1 DEF IInv, RefusalTakesCrossing
  <1>10. Deciding'
    BY <1>1, <1>6, StaysDeciding DEF IInv, Keeps
  <1>11. Gate'
    BY <1>1, <1>7, StaysVerified DEF IInv, Gate
  <1>12. CardsCounted' /\ ClaimsCounted'
    BY <1>1, <1>6, StaysCards, StaysClaims DEF IInv, Keeps
  <1> QED
    BY <1>7, <1>8, <1>9, <1>10, <1>11, <1>12 DEF IInv

LEMMA ActivateStep ==
  ASSUME IInv, NEW i \in DOMAIN policies, Activate(i)
  PROVE  IInv'
  <1> DEFINE s == To["activate"]
  <1>1. /\ CanTransition(policies[i].status, "activate")
        /\ policies' = WithStatus(i, s)
        /\ UNCHANGED <<standing, cards, crossed, refused, quote, product, claims, job>>
    BY DEF Activate, onboarding, catalogue, WithStatus
  <1>2. s \in PolicyStatuses \ {"renewed"}
    BY Lifecycle DEF PolicyTransitions
  <1>3. policies[i].status # "renewed"
    BY <1>1, PoliciesAreRows, Lifecycle DEF IInv, PolicyTransitions
  <1> HIDE DEF s
  <1>4. Keeps({"decide", "card", "claim", "renew", "transition"}
                \cup Admitted \cup Counted)
    BY <1>1 DEF Keeps
  <1>5. /\ policies' \in Seq(Policy)
        /\ DOMAIN policies' = DOMAIN policies
        /\ policies # <<>>
        /\ PoliciesCounted'
        /\ Converted'
        /\ Succession'
    BY <1>1, <1>2, <1>3, <1>4, StatusWritten DEF Keeps, Admitted
  <1>6. Jobs' = Jobs
    BY <1>5 DEF Jobs
  <1>7. TypeOK'
    BY <1>1, <1>5, <1>6 DEF IInv, TypeOK, OnboardingTypeOK, standing
  <1>8. RefusalTakesCrossing'
    BY <1>1 DEF IInv, RefusalTakesCrossing
  <1>9. Deciding'
    BY <1>1, <1>4, StaysDeciding DEF IInv, Keeps
  <1>10. Gate'
    BY <1>1, <1>5, StaysVerified DEF IInv, Gate
  <1>11. CardsCounted' /\ ClaimsCounted'
    BY <1>1, <1>4, StaysCards, StaysClaims DEF IInv, Keeps
  <1> QED
    BY <1>5, <1>7, <1>8, <1>9, <1>10, <1>11 DEF IInv

LEMMA NumberHeld ==
  ASSUME IInv, NEW h \in Handlers, job[h].at \in Counted,
         NEW i \in DOMAIN policies, policies[i].no = job[h].no
  PROVE  "policy" \in crossed
  <1> SUFFICES ASSUME "policy" \notin crossed
               PROVE  FALSE
    OBVIOUS
  <1>1. policies[i].no <= Len(policies) /\ job[h].no = Len(policies) + 1
    BY DEF IInv, PoliciesCounted
  <1>2. Len(policies) \in Nat
    BY PoliciesAreRows DEF IInv
  <1> QED
    BY <1>1, <1>2

LEMMA RenewStep ==
  ASSUME IInv, PoliciesAssumption, NEW h \in Handlers, Renew(h)
  PROVE  IInv'
  <1> DEFINE i == job[h].policy
             n == job[h].no
             p == policies[i].product
             rows == WithStatus(i, "renewed")
             app == Application(p, n, None, i)
  <1>1. /\ job[h].at = "renew"
        /\ Goto(h, Idle)
        /\ UNCHANGED <<standing, cards, crossed, quote, product, claims>>
        /\ NumberTaken(p, n) =>
             refused' = refused \cup {"policy"} /\ policies' = policies
        /\ ~NumberTaken(p, n) =>
             refused' = refused /\ policies' = Append(rows, app)
    BY Lifecycle DEF Renew, Return, onboarding, catalogue, WithStatus
  <1>2. /\ i \in DOMAIN policies /\ i \in Nat
        /\ n \in Nat \ {0}
        /\ p \in Products
        /\ policies # <<>>
    BY <1>1, JobFields, PoliciesAreRows DEF IInv
  <1> HIDE DEF p
  <1>3. Verified /\ Verified'
    BY <1>1, <1>2, StaysVerified DEF IInv, Gate
  <1>4. CASE NumberTaken(p, n)
    <2>1. policies' = policies /\ "policy" \in crossed
      BY <1>1, <1>4, NumberHeld DEF NumberTaken, Counted
    <2>2. /\ job' \in [Handlers -> Jobs']
          /\ job'[h] = Idle
          /\ \A g \in Handlers \ {h} : job'[g] = job[g]
      BY <1>1, <2>1, Moved, JobKinds DEF IInv
    <2>3. Keeps({"decide", "card", "claim", "renew", "transition"}
                  \cup Admitted \cup Counted)
      BY <2>2 DEF Keeps, Idle, Admitted, Counted
    <2>4. TypeOK'
      BY <1>1, <1>4, <2>1, <2>2 DEF IInv, TypeOK, OnboardingTypeOK, standing, Kinds
    <2>5. RefusalTakesCrossing'
      BY <1>1, <1>4, <2>1 DEF IInv, RefusalTakesCrossing
    <2>6. Deciding'
      BY <1>1, <2>3, StaysDeciding DEF IInv, Keeps
    <2>7. Gate'
      BY <1>3 DEF Gate
    <2>8. CardsCounted' /\ ClaimsCounted'
      BY <1>1, <2>3, StaysCards, StaysClaims DEF IInv, Keeps
    <2>9. PoliciesCounted'
      BY <1>1, <2>1, <2>3, StaysCounted DEF IInv, Keeps
    <2>10. Converted'
      BY <1>1, <2>1, <2>3, StaysConverted DEF IInv, Keeps, Admitted
    <2>11. Succession'
      BY <1>1, <2>1, <2>3, StaysSuccession DEF IInv, Keeps
    <2> QED
      BY <2>4, <2>5, <2>6, <2>7, <2>8, <2>9, <2>10, <2>11 DEF IInv
  <1>5. CASE ~NumberTaken(p, n)
    <2> DEFINE last == Len(policies) + 1
    <2>1. policies' = Append(rows, app) /\ refused' = refused
      BY <1>1, <1>5
    <2>2. app.no = n /\ app.quote = None /\ app.renews = i /\ app.status = "submitted"
      BY DEF Application
    <2>3. /\ rows \in Seq(Policy)
          /\ Len(rows) = Len(policies)
          /\ DOMAIN rows = DOMAIN policies
          /\ rows[i].status = "renewed"
          /\ \A j \in DOMAIN policies :
               /\ rows[j].no = policies[j].no
               /\ rows[j].quote = policies[j].quote
               /\ rows[j].renews = policies[j].renews
               /\ j # i => rows[j].status = policies[j].status
      BY <1>2, Restated DEF IInv, PolicyStatuses
    <2> HIDE DEF rows
    <2>4. /\ policies' \in Seq(Policy)
          /\ policies' # <<>>
          /\ Len(policies) \in Nat
          /\ DOMAIN policies = 1 .. Len(policies)
          /\ Len(policies') = last
          /\ DOMAIN policies' = 1 .. last
          /\ \A j \in DOMAIN policies : policies'[j] = rows[j]
          /\ policies'[last] = app
      BY <1>2, <2>1, <2>3, Added DEF IInv, TypeOK
    <2> HIDE DEF app
    <2>5. /\ last \notin DOMAIN policies
          /\ DOMAIN policies' = DOMAIN policies \cup {last}
      BY <2>4
    <2> HIDE DEF last
    <2>6. /\ job' \in [Handlers -> Jobs']
          /\ job'[h] = Idle
          /\ \A g \in Handlers \ {h} : job'[g] = job[g]
      BY <1>1, <2>5, Moved, JobKinds DEF IInv
    <2>7. Keeps({"decide", "card", "claim", "renew", "transition"}
                  \cup Admitted \cup Counted)
      BY <2>6 DEF Keeps, Idle, Admitted, Counted
    <2>8. TypeOK'
      BY <1>1, <2>1, <2>4, <2>6 DEF IInv, TypeOK, OnboardingTypeOK, standing
    <2>9. RefusalTakesCrossing'
      BY <1>1, <2>1 DEF IInv, RefusalTakesCrossing
    <2>10. Deciding'
      BY <1>1, <2>7, StaysDeciding DEF IInv, Keeps
    <2>11. Gate'
      BY <1>3 DEF Gate
    <2>12. CardsCounted' /\ ClaimsCounted'
      BY <1>1, <2>7, StaysCards, StaysClaims DEF IInv, Keeps
    <2>13. PoliciesCounted'
      <3> SUFFICES ASSUME "policy" \notin crossed
                   PROVE  /\ \A j \in DOMAIN policies' :
                               policies'[j].no <= Len(policies')
                          /\ \A g \in Handlers : job'[g].at \notin Counted
        BY <1>1 DEF PoliciesCounted
      <3>1. \A j \in DOMAIN policies :
              policies[j].no \in Nat /\ policies[j].no <= Len(policies)
        BY PoliciesAreRows DEF IInv, PoliciesCounted
      <3>2. n = Len(policies) + 1
        BY <1>1 DEF IInv, PoliciesCounted, Counted
      <3>3. \A j \in DOMAIN policies' : policies'[j].no <= Len(policies')
        <4>1. \A j \in DOMAIN policies : policies'[j].no <= Len(policies')
          BY <2>3, <2>4, <3>1 DEF last
        <4>2. policies'[last].no <= Len(policies')
          BY <2>2, <2>4, <3>2 DEF last
        <4> QED
          BY <2>5, <4>1, <4>2
      <3>4. \A g \in Handlers : job'[g].at \notin Counted
        BY <1>1, <2>6 DEF IInv, PoliciesCounted, Counted, Idle
      <3> QED
        BY <3>3, <3>4
    <2>14. Converted'
      <3>1. ASSUME NEW r \in Quotes
            PROVE  QuoteUsed(r)' <=> QuoteUsed(r)
        <4>1. \A j \in DOMAIN policies : policies'[j].quote = policies[j].quote
          BY <2>3, <2>4
        <4>2. policies'[last].quote # r
          BY <2>2, <2>4, PoliciesAssumption
        <4> QED
          BY <2>5, <4>1, <4>2 DEF QuoteUsed
      <3>2. ASSUME NEW j \in DOMAIN policies', NEW k \in DOMAIN policies',
                   policies'[j].quote # None,
                   policies'[j].quote = policies'[k].quote
            PROVE  j = k
        <4>1. j \in DOMAIN policies /\ k \in DOMAIN policies
          BY <2>2, <2>4, <2>5, <3>2
        <4>2. /\ policies'[j].quote = policies[j].quote
              /\ policies'[k].quote = policies[k].quote
          BY <2>3, <2>4, <4>1
        <4> QED
          BY <3>2, <4>1, <4>2 DEF IInv, Converted
      <3> QED
        BY <1>1, <2>7, <3>1, <3>2 DEF IInv, Converted, Keeps, Counted, Admitted
    <2>15. Succession'
      <3>1. /\ \A j \in DOMAIN policies :
                 /\ policies'[j].renews = policies[j].renews
                 /\ policies[j].renews \in {0} \cup DOMAIN policies
                 /\ j # i => policies'[j].status = policies[j].status
            /\ policies'[i].status = "renewed"
            /\ policies'[last].renews = i
        BY <1>2, <2>2, <2>3, <2>4 DEF IInv, Succession
      <3>2. \A j \in DOMAIN policies' :
              policies'[j].renews \in {0} \cup DOMAIN policies'
        BY <1>2, <2>5, <3>1
      <3> SUFFICES ASSUME "status" \notin crossed
                   PROVE  /\ \A j \in DOMAIN policies' :
                               policies'[j].renews # 0 =>
                                 policies'[policies'[j].renews].status = "renewed"
                          /\ \A j, k \in DOMAIN policies' :
                               policies'[j].renews # 0
                                 /\ policies'[j].renews = policies'[k].renews
                                 => j = k
                          /\ \A g, k \in Handlers :
                               job'[g].at \in {"renew", "transition"} =>
                                 /\ policies'[job'[g].policy].status # "renewed"
                                 /\ job'[k].at \in {"renew", "transition"}
                                      /\ job'[k].policy = job'[g].policy => g = k
        BY <1>1, <3>2 DEF Succession
      <3>3. policies[i].status # "renewed"
        BY <1>1 DEF IInv, Succession
      <3>4. \A j \in DOMAIN policies :
              policies[j].renews # 0 =>
                /\ policies[j].renews \in DOMAIN policies
                /\ policies[policies[j].renews].status = "renewed"
                /\ policies[j].renews # i
        BY <3>1, <3>3 DEF IInv, Succession
      <3>5. \A j \in DOMAIN policies' :
              policies'[j].renews # 0 =>
                policies'[policies'[j].renews].status = "renewed"
        BY <1>2, <2>5, <3>1, <3>4
      <3>6. \A j, k \in DOMAIN policies' :
              policies'[j].renews # 0
                /\ policies'[j].renews = policies'[k].renews => j = k
        <4>1. \A j, k \in DOMAIN policies :
                policies[j].renews # 0 /\ policies[j].renews = policies[k].renews
                  => j = k
          BY DEF IInv, Succession
        <4> QED
          BY <2>5, <3>1, <3>4, <4>1
      <3>7. ASSUME NEW g \in Handlers, job'[g].at \in {"renew", "transition"}
            PROVE  /\ job'[g] = job[g]
                   /\ policies'[job'[g].policy].status # "renewed"
        <4>1. job'[g] = job[g] /\ g # h /\ job[g].policy \in DOMAIN policies
          BY <2>6, <3>7, JobFields DEF IInv, Idle
        <4>2. job[g].policy # i /\ policies[job[g].policy].status # "renewed"
          BY <1>1, <3>7, <4>1 DEF IInv, Succession
        <4> QED
          BY <3>1, <4>1, <4>2
      <3>8. \A g, k \in Handlers :
              (/\ job[g].at \in {"renew", "transition"}
               /\ job[k].at \in {"renew", "transition"}
               /\ job[k].policy = job[g].policy) => g = k
        BY DEF IInv, Succession
      <3> QED
        BY <3>5, <3>6, <3>7, <3>8
    <2> QED
      BY <2>8, <2>9, <2>10, <2>11, <2>12, <2>13, <2>14, <2>15 DEF IInv
  <1> QED
    BY <1>4, <1>5

-------------------------------------------------------------------------------
(* Filing a claim *)

LEMMA FileReadStep ==
  ASSUME IInv, NEW h \in Handlers, NEW i \in DOMAIN policies, FileRead(h, i)
  PROVE  IInv'
  <1>1. /\ Goto(h, [at |-> "file"])
        /\ UNCHANGED <<onboarding, crossed, refused, catalogue, policies, claims>>
    BY DEF FileRead
  <1>2. /\ job' \in [Handlers -> Jobs']
        /\ job'[h] = [at |-> "file"]
        /\ \A g \in Handlers \ {h} : job'[g] = job[g]
    BY <1>1, Moved, JobKinds DEF IInv
  <1>3. Keeps({"decide", "card", "claim", "renew", "transition"}
                \cup Admitted \cup Counted)
    BY <1>2 DEF Keeps, Admitted, Counted
  <1>4. crossed \subseteq {"decision", "status"} \cup Kinds
    BY DEF IInv, TypeOK, OnboardingTypeOK
  <1> QED
    BY <1>1, <1>2, <1>3, <1>4, Quiet

LEMMA FileCountStep ==
  ASSUME IInv, NEW h \in Handlers, FileCount(h)
  PROVE  IInv'
  <1> DEFINE n == NextNumber(claims)
             j == [at |-> "claim", no |-> n]
  <1>1. /\ Goto(h, j)
        /\ Cross("claim", {"claim"})
        /\ UNCHANGED <<standing, cards, refused, quote, product, policies, claims>>
    BY DEF FileCount, onboarding, catalogue
  <1>2. n = Cardinality(claims) + 1 /\ n \in Nat \ {0}
    BY FS_CardinalityType DEF IInv, ClaimsCounted, NextNumber
  <1> HIDE DEF n
  <1>3. /\ job' \in [Handlers -> Jobs']
        /\ job'[h] = j
        /\ \A g \in Handlers \ {h} : job'[g] = job[g]
    BY <1>1, <1>2, Moved, JobKinds DEF IInv
  <1>4. /\ crossed \subseteq crossed'
        /\ "claim" \notin crossed' => \A g \in Handlers : job[g].at # "claim"
        /\ \A k \in crossed' : k \in crossed \/ k = "claim"
    BY <1>1, Crossed
  <1>5. Keeps({"decide", "card", "renew", "transition"} \cup Admitted \cup Counted)
    BY <1>3 DEF Keeps, Admitted, Counted
  <1>6. TypeOK'
    BY <1>1, <1>3, <1>4 DEF IInv, TypeOK, OnboardingTypeOK, standing, Kinds
  <1>7. RefusalTakesCrossing'
    BY <1>1, <1>4 DEF IInv, RefusalTakesCrossing
  <1>8. Deciding'
    BY <1>1, <1>4, <1>5, StaysDeciding DEF IInv, Keeps
  <1>9. Gate'
    BY <1>1, <1>4, <1>5, StaysGate, StaysVerified DEF IInv, Keeps
  <1>10. CardsCounted'
    BY <1>1, <1>4, <1>5, StaysCards DEF IInv, Keeps
  <1>11. ClaimsCounted'
    BY <1>1, <1>2, <1>3, <1>4 DEF IInv, ClaimsCounted
  <1>12. PoliciesCounted'
    BY <1>1, <1>4, <1>5, StaysCounted DEF IInv, Keeps
  <1>13. Converted'
    BY <1>1, <1>4, <1>5, StaysConverted DEF IInv, Keeps, Admitted
  <1>14. Succession'
    BY <1>1, <1>4, <1>5, StaysSuccession DEF IInv, Keeps
  <1> QED
    BY <1>6, <1>7, <1>8, <1>9, <1>10, <1>11, <1>12, <1>13, <1>14 DEF IInv

LEMMA FileClaimStep ==
  ASSUME IInv, NEW h \in Handlers, FileClaim(h)
  PROVE  IInv'
  <1> DEFINE n == job[h].no
  <1>1. /\ Goto(h, Idle)
        /\ job[h].at = "claim"
        /\ UNCHANGED <<standing, cards, crossed, quote, product, policies>>
        /\ n \in claims => refused' = refused \cup {"claim"} /\ claims' = claims
        /\ n \notin claims => refused' = refused /\ claims' = claims \cup {n}
    BY DEF FileClaim, Return, onboarding, catalogue
  <1>2. /\ job' \in [Handlers -> Jobs']
        /\ job'[h] = Idle
        /\ \A g \in Handlers \ {h} : job'[g] = job[g]
        /\ n \in Nat \ {0}
    BY <1>1, Moved, JobKinds, JobFields DEF IInv
  <1>3. Keeps({"decide", "card", "claim", "renew", "transition"}
                \cup Admitted \cup Counted)
    BY <1>2 DEF Keeps, Idle, Admitted, Counted
  <1>4. TypeOK'
    BY <1>1, <1>2 DEF IInv, TypeOK, OnboardingTypeOK, standing, Kinds
  <1>5. /\ IsFiniteSet(claims)
        /\ Cardinality(claims) \in Nat
        /\ n \notin claims => /\ IsFiniteSet(claims')
                              /\ Cardinality(claims') = Cardinality(claims) + 1
    <2>1. IsFiniteSet(claims)
      BY DEF IInv, ClaimsCounted
    <2>2. n \notin claims => claims' = claims \cup {n}
      BY <1>1
    <2> HIDE DEF n
    <2> QED
      BY <2>1, <2>2, FS_CardinalityType, FS_AddElement
  <1>6. RefusalTakesCrossing'
    <2>1. n \in claims => "claim" \in crossed
      BY <1>1, <1>2, <1>5 DEF IInv, ClaimsCounted
    <2> QED
      BY <1>1, <2>1 DEF IInv, RefusalTakesCrossing
  <1>7. Deciding'
    BY <1>1, <1>3, StaysDeciding DEF IInv, Keeps
  <1>8. Gate'
    BY <1>1, <1>3, StaysGate, StaysVerified DEF IInv, Keeps
  <1>9. CardsCounted'
    BY <1>1, <1>3, StaysCards DEF IInv, Keeps
  <1>10. ClaimsCounted'
    <2>1. CASE n \in claims
      BY <1>1, <1>3, <2>1, StaysClaims DEF IInv, Keeps
    <2>2. CASE n \notin claims
      <3>1. IsFiniteSet(claims')
        BY <1>5, <2>2
      <3>2. ASSUME "claim" \notin crossed'
            PROVE  /\ \A m \in claims' : m <= Cardinality(claims')
                   /\ \A g \in Handlers : job'[g].at # "claim"
        <4>1. \A m \in claims : m \in Nat /\ m <= Cardinality(claims)
          BY <1>1, <3>2 DEF IInv, TypeOK, ClaimsCounted
        <4>2. n = Cardinality(claims) + 1
          BY <1>1, <3>2 DEF IInv, ClaimsCounted
        <4>3. \A g \in Handlers : job'[g].at # "claim"
          BY <1>1, <1>2, <3>2 DEF IInv, ClaimsCounted, Idle
        <4> QED
          BY <1>1, <1>5, <2>2, <4>1, <4>2, <4>3
      <3> QED
        BY <3>1, <3>2 DEF ClaimsCounted
    <2> QED
      BY <2>1, <2>2
  <1>11. PoliciesCounted'
    BY <1>1, <1>3, StaysCounted DEF IInv, Keeps
  <1>12. Converted'
    BY <1>1, <1>3, StaysConverted DEF IInv, Keeps, Admitted
  <1>13. Succession'
    BY <1>1, <1>3, StaysSuccession DEF IInv, Keeps
  <1> QED
    BY <1>4, <1>6, <1>7, <1>8, <1>9, <1>10, <1>11, <1>12, <1>13 DEF IInv

-------------------------------------------------------------------------------
(* The theorems *)

LEMMA Initially ==
  ASSUME Init
  PROVE  IInv
  <1> USE DEF Init, OnboardingInit
  <1>1. /\ policies = <<>>
        /\ DOMAIN policies = {}
        /\ policies \in Seq(Policy)
        /\ Len(policies) = 0
    BY EmptySeq
  <1>2. TypeOK
    BY <1>1 DEF TypeOK, OnboardingTypeOK, Statuses, QuoteStatuses, Jobs,
                OnboardingJobs
  <1>3. RefusalTakesCrossing /\ Deciding
    BY DEF RefusalTakesCrossing, Deciding, Idle
  <1>4. Gate
    BY DEF Gate, Admitted, Idle
  <1>5. CardsCounted /\ ClaimsCounted
    BY FS_EmptySet DEF CardsCounted, ClaimsCounted, Idle
  <1>6. PoliciesCounted /\ Succession
    BY <1>1 DEF PoliciesCounted, Succession, Counted, Idle
  <1>7. Converted
    BY <1>1 DEF Converted, QuoteUsed, Idle
  <1> QED
    BY <1>2, <1>3, <1>4, <1>5, <1>6, <1>7 DEF IInv

LEMMA Steps ==
  ASSUME IInv, PoliciesAssumption, [Next]_vars
  PROVE  IInv'
  <1>1. CASE UNCHANGED vars
    <2>1. /\ UNCHANGED <<onboarding, refused, catalogue, policies, claims>>
          /\ crossed' = crossed /\ job' = job
      BY <1>1 DEF vars
    <2>2. Jobs' = Jobs
      BY <2>1 DEF Jobs
    <2>3. job' \in [Handlers -> Jobs'] /\ crossed \subseteq {"decision", "status"} \cup Kinds
      BY <2>1, <2>2 DEF IInv, TypeOK, OnboardingTypeOK
    <2>4. Keeps({"decide", "card", "claim", "renew", "transition"}
                  \cup Admitted \cup Counted)
      BY <2>1 DEF Keeps
    <2> QED
      BY <2>1, <2>3, <2>4, Quiet
  <1>2. ASSUME NEW h \in Handlers, OnboardingStep(h),
               UNCHANGED <<catalogue, policies, claims>>
        PROVE  IInv'
    BY <1>2, RegisterReadStep, RegisterStep, DecideReadStep, DecideStep,
       CountCardsStep, AddBeneficiaryStep DEF OnboardingStep
  <1>3. ASSUME NEW h \in Handlers,
               \/ \E q \in Quotes : AssertVerified(h, q)
               \/ ReadQuote(h) \/ Count(h) \/ Subscribe(h)
        PROVE  IInv'
    BY <1>3, AssertVerifiedStep, ReadQuoteStep, CountStep, SubscribeStep
  <1>4. ASSUME NEW h \in Handlers,
               \/ RenewRead(h) \/ Renew(h) \/ Transition(h)
               \/ FileCount(h) \/ FileClaim(h) \/ Stop(h)
        PROVE  IInv'
    BY <1>4, RenewReadStep, RenewStep, TransitionStep, FileCountStep,
       FileClaimStep, StopStep
  <1>5. ASSUME NEW h \in Handlers, NEW i \in DOMAIN policies,
               \/ RenewCount(h, i)
               \/ FileRead(h, i)
               \/ \E name \in Offered : Request(h, i, name)
        PROVE  IInv'
    BY <1>5, RenewCountStep, FileReadStep, RequestStep
  <1>6. CASE \/ \E n \in cards :
                  RemoveBeneficiary(n) /\ UNCHANGED <<catalogue, policies, claims>>
             \/ \E q \in Quotes : CreateQuote(q)
             \/ \E i \in DOMAIN policies : Activate(i)
    BY <1>6, RemoveBeneficiaryStep, CreateQuoteStep, ActivateStep
  <1> QED
    BY <1>1, <1>2, <1>3, <1>4, <1>5, <1>6 DEF Next

LEMMA Invariance == Spec => []IInv
  <1>1. Init => IInv
    BY Initially
  <1>2. IInv /\ [Next]_vars => IInv'
    BY Steps, PoliciesAssumption
  <1> QED
    BY <1>1, <1>2, PTL DEF Spec

\* Variables keep to their types, whatever is asked for at once.
THEOREM TypeCorrect == Spec => []TypeOK
  <1>1. IInv => TypeOK
    BY DEF IInv
  <1> QED
    BY <1>1, Invariance, PTL

\* Nobody subscribes whom the Bar has not verified (policies.service.ts:44-45),
\* for any number of requests, quotations and officers.
THEOREM CoverIsForTheVerified == Spec => []OnlyVerifiedSubscribe
  <1>1. IInv => OnlyVerifiedSubscribe
    BY DEF IInv, Gate, Verified, OnlyVerifiedSubscribe
  <1> QED
    BY <1>1, Invariance, PTL

\* Counting rows draws numbers that are free, except where two count at once or
\* a beneficiary has been removed (policies.service.ts:57, claims.service.ts:74,
\* onboarding.service.ts:230).
THEOREM NumbersAreFree == Spec => []RefusalTakesCrossing
  <1>1. IInv => RefusalTakesCrossing
    BY DEF IInv
  <1> QED
    BY <1>1, Invariance, PTL

\* A quotation is converted into one policy, and a policy into one successor
\* as long as no two transitions of it cross (policies.service.ts:117, 309).
THEOREM NoCoverTwice == Spec => []CoveredOnce
  <1>1. ASSUME IInv
        PROVE  CoveredOnce
    <2>1. ASSUME NEW S \in SUBSET DOMAIN policies, \A i, j \in S : i = j
          PROVE  Cardinality(S) = IF S = {} THEN 0 ELSE 1
      <3>1. CASE S = {}
        BY <3>1, FS_EmptySet
      <3>2. CASE S # {}
        <4>1. PICK i \in S : TRUE
          BY <3>2
        <4>2. S = {i}
          BY <2>1, <4>1
        <4> QED
          BY <3>2, <4>2, FS_Singleton
      <3> QED
        BY <3>1, <3>2
    <2>2. ASSUME NEW q \in Quotes
          PROVE  Cardinality({i \in DOMAIN policies : policies[i].quote = q})
                   = IF quote[q] = "converted" THEN 1 ELSE 0
      <3> DEFINE S == {i \in DOMAIN policies : policies[i].quote = q}
      <3>1. /\ S \in SUBSET DOMAIN policies
            /\ \A i, j \in S : i = j
        BY <1>1, PoliciesAssumption DEF IInv, Converted, PoliciesAssumption
      <3>2. S # {} <=> quote[q] = "converted"
        BY <1>1 DEF IInv, Converted, QuoteUsed
      <3>3. Cardinality(S) = IF S = {} THEN 0 ELSE 1
        BY <2>1, <3>1
      <3> QED
        BY <3>2, <3>3
    <2>3. ASSUME "status" \notin crossed, NEW i \in DOMAIN policies
          PROVE  Cardinality({j \in DOMAIN policies : policies[j].renews = i}) <= 1
      <3> DEFINE S == {j \in DOMAIN policies : policies[j].renews = i}
      <3>1. i # 0
        BY <1>1, PoliciesAreRows DEF IInv
      <3>2. /\ S \in SUBSET DOMAIN policies
            /\ \A j, k \in S : j = k
        BY <1>1, <2>3, <3>1 DEF IInv, Succession
      <3>3. Cardinality(S) = IF S = {} THEN 0 ELSE 1
        BY <2>1, <3>2
      <3> HIDE DEF S
      <3>4. Cardinality(S) <= 1
        BY <3>3
      <3> QED
        BY <3>4 DEF S
    <2> QED
      BY <2>2, <2>3 DEF CoveredOnce
  <1> QED
    BY <1>1, Invariance, PTL
===============================================================================
