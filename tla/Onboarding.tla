------------------------------ MODULE Onboarding ------------------------------
(***************************************************************************)
(* One lawyer before cover: registration, the decision of the Bar, and the *)
(* beneficiaries with their cards.  Handlers decide on what they have read *)
(* and write later; unique columns refuse what collides.                   *)
(***************************************************************************)
EXTENDS Integers, FiniteSets

CONSTANTS
  Handlers,  \* requests that may be served at once
  MaxCards   \* bound: beneficiaries held at one time

ASSUME OnboardingAssumption == MaxCards \in Nat

VARIABLES
  profile,       \* verificationStatus on the profile, "none" before it exists
  verification,  \* status of the BarVerification row
  cards,         \* ordinals on the cards of the beneficiaries there are
  job,           \* what each handler is doing and what it has read
  rulings,       \* history: the decisions that were recorded
  crossed,       \* history: what was counted or decided by two at once
  refused        \* history: what turned out to be taken

standing == <<profile, verification, rulings>>

Rulings == {"verified", "rejected"}
Statuses == {"none", "pending"} \cup Rulings
\* What a unique column may turn out to hold already.
Kinds == {"card", "quote", "policy", "claim"}

Idle == [at |-> "idle"]
OnboardingJobs ==
  {Idle}
  \cup [at : {"register"}]
  \cup [at : {"decide"}, ruling : Rulings]
  \cup [at : {"card"}, no : Nat \ {0}]

OnboardingTypeOK ==
  /\ profile \in Statuses
  /\ verification \in Statuses
  /\ cards \subseteq Nat \ {0}
  /\ rulings \subseteq Rulings
  /\ crossed \subseteq {"decision", "status"} \cup Kinds
  /\ refused \subseteq Kinds

OnboardingInit ==
  /\ profile = "none"
  /\ verification = "none"
  /\ cards = {}
  /\ job = [h \in Handlers |-> Idle]
  /\ rulings = {}
  /\ crossed = {}
  /\ refused = {}

Goto(h, step) == job' = [job EXCEPT ![h] = step]
Return(h) == Goto(h, Idle)

\* Somebody is at one of these points already.
Busy(points) == \E h \in Handlers : job[h].at \in points
Cross(kind, points) ==
  crossed' = IF Busy(points) THEN crossed \cup {kind} ELSE crossed

-------------------------------------------------------------------------------
(* Registration *)

RegisterRead(h) ==
  /\ job[h] = Idle
  /\ profile = "none"
  /\ Goto(h, [at |-> "register"])
  /\ UNCHANGED <<standing, cards, crossed, refused>>

\* One transaction: user, profile and verification.  The Bar number is unique.
Register(h) ==
  /\ job[h].at = "register"
  /\ IF profile = "none"
     THEN profile' = "pending" /\ verification' = "pending"
     ELSE UNCHANGED <<profile, verification>>
  /\ Return(h)
  /\ UNCHANGED <<rulings, cards, crossed, refused>>

-------------------------------------------------------------------------------
(* decideVerification *)

DecideRead(h, ruling) ==
  /\ job[h] = Idle
  /\ verification = "pending"
  /\ Goto(h, [at |-> "decide", ruling |-> ruling])
  /\ Cross("decision", {"decide"})
  /\ UNCHANGED <<standing, cards, refused>>

\* One transaction, which the update of the verification row comes first in:
\* of two officers the second waits, and then overwrites both rows.
Decide(h) ==
  /\ job[h].at = "decide"
  /\ verification' = job[h].ruling
  /\ profile' = job[h].ruling
  /\ rulings' = rulings \cup {job[h].ruling}
  /\ Return(h)
  /\ UNCHANGED <<cards, crossed, refused>>

-------------------------------------------------------------------------------
(* Beneficiaries *)

CountCards(h) ==
  /\ job[h] = Idle
  /\ profile # "none"
  /\ Cardinality(cards) < MaxCards
  /\ Goto(h, [at |-> "card", no |-> Cardinality(cards) + 1])
  /\ Cross("card", {"card"})
  /\ UNCHANGED <<standing, cards, refused>>

AddBeneficiary(h) ==
  /\ job[h].at = "card"
  /\ IF job[h].no \in cards
     THEN refused' = refused \cup {"card"} /\ UNCHANGED cards
     ELSE cards' = cards \cup {job[h].no} /\ UNCHANGED refused
  /\ Return(h)
  /\ UNCHANGED <<standing, crossed>>

\* Nothing ever writes a row that ties a beneficiary to a policy, so none is
\* kept.  From here on the count says nothing of the ordinals in use.
RemoveBeneficiary(n) ==
  /\ n \in cards
  /\ cards' = cards \ {n}
  /\ crossed' = crossed \cup {"card"}
  /\ UNCHANGED <<standing, job, refused>>

OnboardingStep(h) ==
  \/ RegisterRead(h) \/ Register(h)
  \/ \E ruling \in Rulings : DecideRead(h, ruling)
  \/ Decide(h)
  \/ CountCards(h) \/ AddBeneficiary(h)
===============================================================================
