-------------------------------- MODULE Claims --------------------------------
(***************************************************************************)
(* One claim from filing to payout: transition of the claims service,      *)
(* payClaim of the payments service, and handleWebhook as it treats the    *)
(* payout rows.  Handlers run at once against Postgres at READ COMMITTED:  *)
(* they decide on what they have read and write by id, so a transition or  *)
(* a payout may commit on a claim that has moved on.                       *)
(***************************************************************************)
EXTENDS ClaimLifecycle, Integers, FiniteSets

CONSTANTS
  Workers,    \* request handlers that may run at once
  Keys,       \* idempotency keys; each names at most one payout row
  Outcomes,   \* what a provider may answer to payout
  MaxAmount,  \* bound: the largest amount a request names
  None        \* an amount that is not there

ASSUME ClaimsAssumption ==
  /\ Outcomes \subseteq {"pending", "failed", "succeeded"}
  /\ MaxAmount \in Nat
  /\ None \notin Int

VARIABLES
  claim,     \* the claim's status
  claimed,   \* the amount claimed, None when the claimant named none
  approved,  \* approvedXaf on the claim row
  trail,     \* the claim events written so far
  row,       \* status of the payout row of each key, "none" before it exists
  amount,    \* what that row is for
  money,     \* the provider's record of the disbursement
  ledger,    \* claim_paid entries written for each row
  job        \* what each handler is doing and what it has read

file == <<claim, claimed, approved, trail>>
payout == <<row, amount, money, ledger>>
vars == <<claim, claimed, approved, trail, row, amount, money, ledger, job>>

Amounts == 0 .. MaxAmount
RowStatuses == {"none", "initiated", "pending", "succeeded", "failed"}
MoneyStatuses == {"none", "open", "paid", "declined"}
Events == [to : ClaimStatuses, amount : Amounts \cup {None}]

Idle == [at |-> "idle"]
Jobs ==
  {Idle}
  \cup [at : {"transition"}, name : ClaimEndpoints, amount : Amounts \cup {None}]
  \cup [at : {"create"}, key : Keys, amount : Amounts]
  \cup [at : {"payout", "verify", "settle", "reject"}, key : Keys]
  \cup [at : {"record"}, key : Keys, result : Outcomes]

\* The claim has just been filed.
Init ==
  /\ claim = "submitted"
  /\ claimed \in Amounts \cup {None}
  /\ approved = None
  /\ trail = {}
  /\ row = [k \in Keys |-> "none"]
  /\ amount = [k \in Keys |-> None]
  /\ money = [k \in Keys |-> "none"]
  /\ ledger = [k \in Keys |-> 0]
  /\ job = [w \in Workers |-> Idle]

Goto(w, next) == job' = [job EXCEPT ![w] = next]
Return(w) == Goto(w, Idle)

-------------------------------------------------------------------------------
(* The claims workflow *)

\* Variant: the amount is not compared with the claim.
AnyAmount(a) == a \in Amounts \cup {None}

\* The handler refuses more than was claimed; so does the table, which also
\* catches a claim of nothing.
Permitted(a) == a # None /\ claimed # None => a <= claimed

\* Variant: an amount is not required.
AmountOptional(a) == a \in Amounts \cup {None}

\* An approval needs an amount.
HasAmount(a) == a # None /\ a > 0

\* A request names an amount, or the row's own is carried over; it is refused
\* where the table, the amount claimed or a missing amount forbid it.
Decide(w, name, asked) ==
  LET a == IF asked = None THEN approved ELSE asked IN
  /\ job[w] = Idle
  /\ Permitted(a)
  /\ CanTransitionClaim(claim, name)
  /\ name = "approve" => HasAmount(a)
  /\ Goto(w, [at |-> "transition", name |-> name, amount |-> a])
  /\ UNCHANGED <<file, payout>>

\* What an event says: the status and, for an approval, the amount.
Event(j) == [to |-> ClaimTo[j.name],
             amount |-> IF j.name = "approve" THEN j.amount ELSE None]

\* Variant: the event is only written when an amount comes with it.
CommitUnreported(w) ==
  /\ job[w].at = "transition"
  /\ claim' = ClaimTo[job[w].name]
  /\ approved' = IF job[w].amount = None THEN approved ELSE job[w].amount
  /\ trail' = IF job[w].amount = None THEN trail
              ELSE trail \cup {Event(job[w])}
  /\ Return(w)
  /\ UNCHANGED <<claimed, payout>>

\* One transaction: the row, by id, and the event that reports it.
Commit(w) ==
  /\ job[w].at = "transition"
  /\ claim' = ClaimTo[job[w].name]
  /\ approved' = IF job[w].amount = None THEN approved ELSE job[w].amount
  /\ trail' = trail \cup {Event(job[w])}
  /\ Return(w)
  /\ UNCHANGED <<claimed, payout>>

-------------------------------------------------------------------------------
(* payClaim *)

\* Variant: any claim with an amount on it is paid.
PayStartAnyStatus(w, k) ==
  /\ job[w] = Idle
  /\ HasAmount(approved)
  /\ row[k] = "none"
  /\ Goto(w, [at |-> "create", key |-> k, amount |-> approved])
  /\ UNCHANGED <<file, payout>>

\* Only an approved claim is paid, and a known key is answered from its row.
PayStart(w, k) ==
  /\ job[w] = Idle
  /\ claim = "approved"
  /\ HasAmount(approved)
  /\ row[k] = "none"
  /\ Goto(w, [at |-> "create", key |-> k, amount |-> approved])
  /\ UNCHANGED <<file, payout>>

NewRow(k, a) ==
  /\ row' = [row EXCEPT ![k] = "initiated"]
  /\ amount' = [amount EXCEPT ![k] = a]

\* Variant: the key is stored without a unique constraint.
PayCreateNotUnique(w) ==
  /\ job[w].at = "create"
  /\ NewRow(job[w].key, job[w].amount)
  /\ Goto(w, [at |-> "payout", key |-> job[w].key])
  /\ UNCHANGED <<file, money, ledger>>

\* The unique key lets one create through and turns the others into errors.
PayCreate(w) ==
  /\ job[w].at = "create"
  /\ LET k == job[w].key IN
     \/ /\ row[k] = "none"
        /\ NewRow(k, job[w].amount)
        /\ Goto(w, [at |-> "payout", key |-> k])
     \/ /\ row[k] # "none"
        /\ Return(w)
        /\ UNCHANGED <<row, amount>>
  /\ UNCHANGED <<file, money, ledger>>

MoneyAfter(result) ==
  CASE result = "pending"   -> "open"
    [] result = "failed"    -> "declined"
    [] result = "succeeded" -> "paid"

\* The call answers, or throws with the request accepted or not; nothing
\* catches the exception and the row stays initiated.
Payout(w) ==
  /\ job[w].at = "payout"
  /\ LET k == job[w].key IN
     \/ \E result \in Outcomes :
          /\ money' = [money EXCEPT ![k] = MoneyAfter(result)]
          /\ Goto(w, [at |-> "record", key |-> k, result |-> result])
     \/ \E m \in {"none", "open"} :
          /\ money' = [money EXCEPT ![k] = m]
          /\ Return(w)
  /\ UNCHANGED <<file, row, amount, ledger>>

\* One transaction: the row takes the answer, whatever it says by now, and a
\* payout that succeeded at once is booked.  The claim keeps its status.
Record(w) ==
  /\ job[w].at = "record"
  /\ row' = [row EXCEPT ![job[w].key] = job[w].result]
  /\ ledger' = [ledger EXCEPT ![job[w].key] =
                  IF job[w].result = "succeeded" THEN @ + 1 ELSE @]
  /\ Return(w)
  /\ UNCHANGED <<file, amount, money>>

-------------------------------------------------------------------------------
(* The provider, and handleWebhook on a payout row *)

ProviderDecides(k) ==
  /\ money[k] = "open"
  /\ \E m \in {"paid", "declined"} : money' = [money EXCEPT ![k] = m]
  /\ UNCHANGED <<file, row, amount, ledger, job>>

\* Callbacks come at any time, in any order and any number of times, rightly
\* or wrongly; a row that reads succeeded is left alone.
Callback(w, k) ==
  /\ job[w] = Idle
  /\ money[k] # "none"
  /\ row[k] \notin {"none", "succeeded"}
  /\ \E at \in {"verify", "reject"} : Goto(w, [at |-> at, key |-> k])
  /\ UNCHANGED <<file, payout>>

\* What verify() may say of a disbursement.  It need not find one that was
\* made: MTN's asks the collection endpoint, which knows none.
VerifyResults(m) ==
  CASE m = "paid"     -> {"succeeded", "pending"}
    [] m = "declined" -> {"failed", "pending"}
    [] OTHER          -> {"pending"}

\* Variant: the callback is believed.
VerifyNothing(w) ==
  /\ job[w].at = "verify"
  /\ Goto(w, [at |-> "settle", key |-> job[w].key])
  /\ UNCHANGED <<file, payout>>

\* An answer of anything but success, or none, leaves the row as it is.
Verify(w) ==
  /\ job[w].at = "verify"
  /\ \E status \in VerifyResults(money[job[w].key]) :
       IF status = "succeeded"
       THEN Goto(w, [at |-> "settle", key |-> job[w].key])
       ELSE Return(w)
  /\ UNCHANGED <<file, payout>>

\* settle() leaves a row that pays no installment right after its status: no
\* entry is written.
Settle(w) ==
  /\ job[w].at = "settle"
  /\ row' = [row EXCEPT ![job[w].key] = "succeeded"]
  /\ Return(w)
  /\ UNCHANGED <<file, amount, money, ledger>>

Reject(w) ==
  /\ job[w].at = "reject"
  /\ row' = [row EXCEPT ![job[w].key] = "failed"]
  /\ Return(w)
  /\ UNCHANGED <<file, amount, money, ledger>>

\* The process serving the request dies.
Crash(w) ==
  /\ job[w] # Idle
  /\ Return(w)
  /\ UNCHANGED <<file, payout>>

-------------------------------------------------------------------------------
Next ==
  \/ \E k \in Keys : ProviderDecides(k)
  \/ \E w \in Workers :
       \/ \E name \in ClaimEndpoints, asked \in Amounts \cup {None} :
            Decide(w, name, asked)
       \/ \E k \in Keys : PayStart(w, k) \/ Callback(w, k)
       \/ Commit(w) \/ PayCreate(w) \/ Payout(w) \/ Record(w)
       \/ Verify(w) \/ Settle(w) \/ Reject(w) \/ Crash(w)

Spec == Init /\ [][Next]_vars

-------------------------------------------------------------------------------
(* What holds however the handlers interleave *)

\* Every variable has its type.
TypeOK ==
  /\ claim \in ClaimStatuses
  /\ claimed \in Amounts \cup {None}
  /\ approved \in Amounts \cup {None}
  /\ trail \subseteq Events
  /\ row \in [Keys -> RowStatuses]
  /\ amount \in [Keys -> Amounts \cup {None}]
  /\ money \in [Keys -> MoneyStatuses]
  /\ ledger \in [Keys -> Nat]
  /\ job \in [Workers -> Jobs]

\* The evidence trail (claims service, rule 1) accounts for every franc sent:
\* a payout's amount is one that an event reports as approved, even where the
\* claim has been decided again since.
PaidAsApproved ==
  \A k \in Keys : money[k] # "none" =>
    \E e \in trail : e.to = "approved" /\ e.amount = amount[k]

\* No claimant receives more than was claimed, in any payout.
PaidWithinClaim ==
  \A k \in Keys : money[k] # "none" /\ claimed # None => amount[k] <= claimed

\* A payout is on record before it is attempted, and its key is good for one
\* call of the provider, however many handlers are given it at once.
OneCallPerKey ==
  /\ \A k \in Keys : money[k] # "none" => row[k] # "none"
  /\ \A w \in Workers : job[w].at = "payout" =>
       /\ money[job[w].key] = "none"
       /\ \A v \in Workers \ {w} :
            job[v].at \in {"payout", "record"} => job[v].key # job[w].key

\* The ledger books a payout once at most, and neither the ledger nor the row
\* ever shows a payout that the provider has not made.
BookedIsPaid ==
  \A k \in Keys :
    /\ ledger[k] <= 1
    /\ ledger[k] = 1 \/ row[k] = "succeeded" => money[k] = "paid"

\* "A status that changed without an event would be a hole in the evidence":
\* the status the claim has is one that an event reports.
StatusIsReported ==
  claim # "submitted" => \E e \in trail : e.to = claim
===============================================================================
