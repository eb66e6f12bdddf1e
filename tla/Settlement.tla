------------------------------ MODULE Settlement ------------------------------
(***************************************************************************)
(* Collecting the premium of one policy: payInstallment, handleWebhook and *)
(* settle of the payments service, with the staff transitions that move    *)
(* the same policy meanwhile.  Any number of request handlers run at once  *)
(* against Postgres at READ COMMITTED: a read sees what is committed when  *)
(* it runs, a write goes through whatever was read before, and a row that  *)
(* a transaction has written stays locked until it commits.                *)
(*                                                                         *)
(* A settlement that activates the policy holds its locks over one more    *)
(* read, so it takes two steps (Write, Activate); any other transaction    *)
(* reads, then writes and commits in one step.                             *)
(***************************************************************************)
EXTENDS PolicyLifecycle, Naturals

CONSTANTS
  Workers,       \* request handlers that may run at once
  Keys,          \* idempotency keys; each names at most one payment row
  Installments,  \* the installments of the policy's invoice
  Outcomes,      \* what a provider may answer to initiate
  Offered,       \* the staff transitions requested
  MaxEntries,    \* bound: callbacks stop once a payment has this many entries
  None           \* the installment of a payment that does not exist

ASSUME SettlementAssumption ==
  /\ Outcomes \subseteq {"pending", "failed", "succeeded"}
  /\ Offered \subseteq EndpointTransitions
  /\ MaxEntries \in Nat
  /\ None \notin Installments

VARIABLES
  payment,   \* status of the payment row of each key, "none" before it exists
  target,    \* the installment that row pays
  charge,    \* what the provider holds: the truth verify() asks for
  paid,      \* the installments whose status is paid
  invoice,   \* the invoice's status
  policy,    \* the policy's status
  covered,   \* effectiveFrom is stamped: cover has begun
  event,     \* the status change the last policy event reports
  ledger,    \* premium_collected entries written for each payment
  job        \* what each handler is doing and what it has read

record == <<payment, target, paid, invoice, policy, covered, event, ledger>>
vars == <<payment, target, charge, paid, invoice, policy, covered, event,
          ledger, job>>

PaymentStatuses == {"none", "initiated", "pending", "succeeded", "failed"}
ChargeStatuses == {"none", "open", "taken", "declined", "short"}
InvoiceStatuses == {"open", "partial", "paid"}

Idle == [at |-> "idle"]
PayJobs == [at : {"create"}, key : Keys, inst : Installments]
           \cup [at : {"initiate"}, key : Keys]
           \cup [at : {"record"}, key : Keys, result : Outcomes \cup {"throw"}]
HookJobs == [at : {"verify", "reject"}, key : Keys]
\* settle() runs for a callback, or inside payInstallment (sync).
SettleJobs ==
  [at : {"guard", "context"}, key : Keys, sync : BOOLEAN]
  \cup [at : {"write"}, key : Keys, sync : BOOLEAN,
        siblings : SUBSET Installments, seen : PolicyStatuses]
  \cup [at : {"activate"}, key : Keys, sync : BOOLEAN,
        siblings : SUBSET Installments, from : PolicyStatuses]
StaffJobs == [at : {"decide"}, name : Offered, from : PolicyStatuses]
Jobs == {Idle} \cup PayJobs \cup HookJobs \cup SettleJobs \cup StaffJobs

\* subscribe() has just submitted the application and raised the invoice.
Init ==
  /\ payment = [k \in Keys |-> "none"]
  /\ target = [k \in Keys |-> None]
  /\ charge = [k \in Keys |-> "none"]
  /\ paid = {}
  /\ invoice = "open"
  /\ policy = "submitted"
  /\ covered = FALSE
  /\ event = [from |-> "draft", to |-> "submitted"]
  /\ ledger = [k \in Keys |-> 0]
  /\ job = [w \in Workers |-> Idle]

Goto(w, next) == job' = [job EXCEPT ![w] = next]
Return(w) == Goto(w, Idle)

\* An exception in settle() reaches the catch of payInstallment, or becomes
\* the error response to the callback.
Throw(w) ==
  Goto(w, IF job[w].sync
          THEN [at |-> "record", key |-> job[w].key, result |-> "throw"]
          ELSE Idle)

\* The rows an activating settlement has written and not yet committed.
Activating(w) == job[w].at = "activate"
InvoiceFree == \A w \in Workers : ~Activating(w)
PaymentFree(k) == \A w \in Workers : Activating(w) => job[w].key # k

-------------------------------------------------------------------------------
(* payInstallment *)

\* A known key is answered from its row and a paid installment is refused;
\* otherwise the handler goes on with what it has just read.
PayStart(w, k, i) ==
  /\ job[w] = Idle
  /\ payment[k] = "none"
  /\ i \notin paid
  /\ Goto(w, [at |-> "create", key |-> k, inst |-> i])
  /\ UNCHANGED <<record, charge>>

\* Variant: the row is created without naming its installment.
NewRowNoTarget(k, i) ==
  /\ payment' = [payment EXCEPT ![k] = "initiated"]
  /\ UNCHANGED target

NewRow(k, i) ==
  /\ payment' = [payment EXCEPT ![k] = "initiated"]
  /\ target' = [target EXCEPT ![k] = i]

\* Variant: the key is stored without a unique constraint.
PayCreateNotUnique(w) ==
  /\ job[w].at = "create"
  /\ NewRow(job[w].key, job[w].inst)
  /\ Goto(w, [at |-> "initiate", key |-> job[w].key])
  /\ UNCHANGED <<charge, paid, invoice, policy, covered, event, ledger>>

\* The unique key lets one create through and turns the others into errors.
PayCreate(w) ==
  /\ job[w].at = "create"
  /\ LET k == job[w].key IN
     \/ /\ payment[k] = "none"
        /\ NewRow(k, job[w].inst)
        /\ Goto(w, [at |-> "initiate", key |-> k])
     \/ /\ payment[k] # "none"
        /\ Return(w)
        /\ UNCHANGED <<payment, target>>
  /\ UNCHANGED <<charge, paid, invoice, policy, covered, event, ledger>>

\* The provider's side of each answer: a call that throws may have been
\* accepted, its answer lost.
ChargesAfter(result) ==
  CASE result = "pending"   -> {"open"}
    [] result = "failed"    -> {"declined"}
    [] result = "succeeded" -> {"taken"}
    [] result = "throw"     -> {"none", "open"}

Initiate(w) ==
  /\ job[w].at = "initiate"
  /\ \E result \in Outcomes \cup {"throw"} :
       \E c \in ChargesAfter(result) :
         /\ charge' = [charge EXCEPT ![job[w].key] = c]
         /\ Goto(w, [at |-> "record", key |-> job[w].key, result |-> result])
  /\ UNCHANGED record

\* The row takes the provider's answer whatever it says by now; an answer of
\* "succeeded" goes on to settle().
RecordResult(w) ==
  /\ job[w].at = "record"
  /\ LET k == job[w].key
         result == job[w].result
     IN /\ result # "throw"
        /\ PaymentFree(k)
        /\ payment' = [payment EXCEPT ![k] = result]
        /\ IF result = "succeeded"
           THEN Goto(w, [at |-> "guard", key |-> k, sync |-> TRUE])
           ELSE Return(w)
  /\ UNCHANGED <<target, charge, paid, invoice, policy, covered, event, ledger>>

\* The catch: whatever was thrown, the row becomes failed.
RecordThrow(w) ==
  /\ job[w].at = "record"
  /\ job[w].result = "throw"
  /\ PaymentFree(job[w].key)
  /\ payment' = [payment EXCEPT ![job[w].key] = "failed"]
  /\ Return(w)
  /\ UNCHANGED <<target, charge, paid, invoice, policy, covered, event, ledger>>

-------------------------------------------------------------------------------
(* The provider *)

\* An open charge is confirmed by the payer, refused, or taken for another
\* amount.
ProviderDecides(k) ==
  /\ charge[k] = "open"
  /\ \E c \in {"taken", "declined", "short"} : charge' = [charge EXCEPT ![k] = c]
  /\ UNCHANGED <<record, job>>

\* The statuses a callback may claim once it has been parsed; one of "pending"
\* is acknowledged and no more.
Claimed == {"succeeded", "failed"}

CallbackTo(claim) == IF claim = "succeeded" THEN "verify" ELSE "reject"

\* Variant: settled payments are not filtered out.
CallbackAlways(w, k, claim) ==
  /\ job[w] = Idle
  /\ charge[k] # "none"
  /\ payment[k] # "none"
  /\ ledger[k] < MaxEntries
  /\ Goto(w, [at |-> CallbackTo(claim), key |-> k])
  /\ UNCHANGED <<record, charge>>

\* Variant: a payment that has failed is taken as final too.
CallbackNotFailed(w, k, claim) ==
  /\ job[w] = Idle
  /\ charge[k] # "none"
  /\ payment[k] \notin {"none", "succeeded", "failed"}
  /\ ledger[k] < MaxEntries
  /\ Goto(w, [at |-> CallbackTo(claim), key |-> k])
  /\ UNCHANGED <<record, charge>>

\* Once it knows the payment the provider may call back at any time, in any
\* order and any number of times, rightly or wrongly.  A settled payment is
\* acknowledged and left alone.
Callback(w, k, claim) ==
  /\ job[w] = Idle
  /\ charge[k] # "none"
  /\ payment[k] \notin {"none", "succeeded"}
  /\ ledger[k] < MaxEntries
  /\ Goto(w, [at |-> CallbackTo(claim), key |-> k])
  /\ UNCHANGED <<record, charge>>

-------------------------------------------------------------------------------
(* handleWebhook *)

\* A failed callback, or an amount that is not the one expected.
Reject(w) ==
  /\ job[w].at = "reject"
  /\ PaymentFree(job[w].key)
  /\ payment' = [payment EXCEPT ![job[w].key] = "failed"]
  /\ Return(w)
  /\ UNCHANGED <<target, charge, paid, invoice, policy, covered, event, ledger>>

\* What verify() makes of the provider's record.
VerifyResult(c) ==
  [status |-> CASE c \in {"taken", "short"} -> "succeeded"
                [] c = "declined" -> "failed"
                [] OTHER -> "pending",
   fits |-> c # "short"]

\* Variant: the amount is not compared.
VerifyAnyAmount(w) ==
  /\ job[w].at = "verify"
  /\ LET k == job[w].key IN
       Goto(w, IF VerifyResult(charge[k]).status = "succeeded"
               THEN [at |-> "guard", key |-> k, sync |-> FALSE]
               ELSE Idle)
  /\ UNCHANGED <<record, charge>>

\* Variant: the callback is believed.
VerifyNothing(w) ==
  /\ job[w].at = "verify"
  /\ Goto(w, [at |-> "guard", key |-> job[w].key, sync |-> FALSE])
  /\ UNCHANGED <<record, charge>>

Verify(w) ==
  /\ job[w].at = "verify"
  /\ LET k == job[w].key
         verified == VerifyResult(charge[k]) IN
       Goto(w, IF verified.status # "succeeded" THEN Idle
               ELSE IF verified.fits THEN [at |-> "guard", key |-> k, sync |-> FALSE]
               ELSE [at |-> "reject", key |-> k])
  /\ UNCHANGED <<record, charge>>

-------------------------------------------------------------------------------
(* settle: one transaction, from the first read to the commit *)

\* The re-entrancy guard, on a plain read of the payment row.
Guard(w) ==
  /\ job[w].at = "guard"
  /\ Goto(w, IF payment[job[w].key] = "succeeded"
             THEN Idle
             ELSE [at |-> "context", key |-> job[w].key, sync |-> job[w].sync])
  /\ UNCHANGED <<record, charge>>

\* The rest of the same include: the invoice's installments and the policy.
Context(w) ==
  /\ job[w].at = "context"
  /\ Goto(w, [at |-> "write", key |-> job[w].key, sync |-> job[w].sync,
              siblings |-> paid, seen |-> policy])
  /\ UNCHANGED <<record, charge>>

\* Variant: off by one.
InvoiceForAllButOne(settled) ==
  IF \E i \in Installments : settled \cup {i} = Installments
  THEN "paid" ELSE "partial"

InvoiceFor(settled) == IF settled = Installments THEN "paid" ELSE "partial"

\* Variant: the ledger entry is missing.
BookNoEntry(k, siblings) ==
  /\ payment' = [payment EXCEPT ![k] = "succeeded"]
  /\ paid' = paid \cup {target[k]}
  /\ invoice' = InvoiceFor(siblings \cup {target[k]})
  /\ UNCHANGED ledger

\* Variant: the installment is not marked.
BookNoInstallment(k, siblings) ==
  /\ payment' = [payment EXCEPT ![k] = "succeeded"]
  /\ ledger' = [ledger EXCEPT ![k] = @ + 1]
  /\ invoice' = InvoiceFor(siblings \cup {target[k]})
  /\ UNCHANGED paid

\* Variant: the payment keeps its status.
BookNoStatus(k, siblings) ==
  /\ paid' = paid \cup {target[k]}
  /\ ledger' = [ledger EXCEPT ![k] = @ + 1]
  /\ invoice' = InvoiceFor(siblings \cup {target[k]})
  /\ UNCHANGED payment

\* Payment, installment, ledger entry and invoice, computed from the
\* installments as they were read.
Book(k, siblings) ==
  /\ payment' = [payment EXCEPT ![k] = "succeeded"]
  /\ paid' = paid \cup {target[k]}
  /\ ledger' = [ledger EXCEPT ![k] = @ + 1]
  /\ invoice' = InvoiceFor(siblings \cup {target[k]})

\* A policy that was read neither approved nor submitted is left as it is.
WriteOnly(w) ==
  /\ job[w].at = "write"
  /\ job[w].seen \notin {"approved", "submitted"}
  /\ InvoiceFree
  /\ Book(job[w].key, job[w].siblings)
  /\ Return(w)
  /\ UNCHANGED <<target, charge, policy, covered, event>>

\* Otherwise, with its rows written, the settlement reads the policy again:
\* to approve it first if it was submitted, then to activate it.
StartsCover(seen, status) ==
  IF seen = "submitted"
  THEN CanTransition(status, "approve")
  ELSE CanTransition(status, "activate")

WriteAndActivate(w) ==
  /\ job[w].at = "write"
  /\ job[w].seen \in {"approved", "submitted"}
  /\ InvoiceFree
  /\ IF StartsCover(job[w].seen, policy)
     THEN Goto(w, [at |-> "activate", key |-> job[w].key, sync |-> job[w].sync,
                   siblings |-> job[w].siblings, from |-> policy])
     ELSE Throw(w)
  /\ UNCHANGED <<record, charge>>

Activate(w) ==
  /\ job[w].at = "activate"
  /\ Book(job[w].key, job[w].siblings)
  /\ policy' = To["activate"]
  /\ covered' = TRUE
  /\ event' = [from |-> job[w].from, to |-> To["activate"]]
  /\ Return(w)
  /\ UNCHANGED <<target, charge>>

\* The interactive transaction exceeds its time limit and is rolled back.
Timeout(w) ==
  /\ job[w].at \in {"guard", "context", "write", "activate"}
  /\ Throw(w)
  /\ UNCHANGED <<record, charge>>

-------------------------------------------------------------------------------
(* Staff transitions, and crashes *)

Decide(w, name) ==
  /\ job[w] = Idle
  /\ CanTransition(policy, name)
  /\ Goto(w, [at |-> "decide", name |-> name, from |-> policy])
  /\ UNCHANGED <<record, charge>>

\* Variant: the event quotes the row after the update.
DecideCommitLate(w) ==
  /\ job[w].at = "decide"
  /\ policy' = To[job[w].name]
  /\ event' = [from |-> policy', to |-> To[job[w].name]]
  /\ Return(w)
  /\ UNCHANGED <<payment, target, charge, paid, invoice, covered, ledger>>

DecideCommit(w) ==
  /\ job[w].at = "decide"
  /\ policy' = To[job[w].name]
  /\ event' = [from |-> job[w].from, to |-> To[job[w].name]]
  /\ Return(w)
  /\ UNCHANGED <<payment, target, charge, paid, invoice, covered, ledger>>

\* The process serving the request dies: nothing uncommitted survives, and
\* nobody takes the request up again.
Crash(w) ==
  /\ job[w] # Idle
  /\ Return(w)
  /\ UNCHANGED <<record, charge>>

-------------------------------------------------------------------------------
Settle(w) == Guard(w) \/ Context(w) \/ WriteOnly(w) \/ WriteAndActivate(w)
             \/ Activate(w)

\* The next statement of the handler itself.
Continue(w) ==
  \/ PayCreate(w) \/ Initiate(w) \/ RecordResult(w) \/ RecordThrow(w)
  \/ Verify(w) \/ Reject(w) \/ Settle(w) \/ DecideCommit(w)

Next ==
  \/ \E k \in Keys : ProviderDecides(k)
  \/ \E w \in Workers :
       \/ \E k \in Keys :
            \/ \E i \in Installments : PayStart(w, k, i)
            \/ \E claim \in Claimed : Callback(w, k, claim)
       \/ \E name \in Offered : Decide(w, name)
       \/ Continue(w)
       \/ Timeout(w)
       \/ Crash(w)

Spec == Init /\ [][Next]_vars

\* A handler that has not crashed goes on; the provider decides, and calls
\* back again until a taken charge is settled; and a step that keeps being
\* reached is not cut short by a crash or a timeout every single time.
About(w, k) == "key" \in DOMAIN job[w] /\ job[w].key = k

Fairness ==
  /\ \A k \in Keys : WF_vars(ProviderDecides(k))
  /\ \A w \in Workers : WF_vars(Continue(w))
  /\ \A w \in Workers, k \in Keys :
       /\ SF_vars(Callback(w, k, "succeeded"))
       /\ SF_vars(About(w, k) /\ Verify(w))
       /\ SF_vars(About(w, k) /\ Guard(w))
       /\ SF_vars(About(w, k) /\ Context(w))
       /\ SF_vars(About(w, k) /\ WriteOnly(w))
       /\ SF_vars(About(w, k) /\ WriteAndActivate(w))
       /\ SF_vars(About(w, k) /\ Activate(w))

FairSpec == Spec /\ Fairness

-------------------------------------------------------------------------------
(* What holds however the handlers interleave *)

\* Every variable has its type, and a recorded payment names an installment.
TypeOK ==
  /\ payment \in [Keys -> PaymentStatuses]
  /\ target \in [Keys -> Installments \cup {None}]
  /\ charge \in [Keys -> ChargeStatuses]
  /\ paid \subseteq Installments
  /\ invoice \in InvoiceStatuses
  /\ policy \in PolicyStatuses
  /\ covered \in BOOLEAN
  /\ event \in [from : PolicyStatuses, to : PolicyStatuses]
  /\ ledger \in [Keys -> Nat]
  /\ job \in [Workers -> Jobs]

Booked(k) == ledger[k] > 0

\* Invariant 2 of the payments service, "settlement is verified, never
\* assumed": nothing reaches the ledger that the provider has not collected
\* in full, whatever its callbacks claim.
BookedIsTaken == \A k \in Keys : Booked(k) => charge[k] = "taken"

\* Invariant 1, "a payment is recorded before it is attempted", and the
\* promise of the idempotency key: a charge always has its row, and the
\* handler about to call the provider is the only one that ever does for
\* its key.
OneRecordedAttempt ==
  /\ \A k \in Keys : charge[k] # "none" => payment[k] # "none"
  /\ \A w \in Workers : job[w].at = "initiate" =>
       /\ charge[job[w].key] = "none"
       /\ \A v \in Workers \ {w} :
            job[v].at \in {"initiate", "record"} => job[v].key # job[w].key

\* Invariant 3, "cover and money commit together", read backwards: an
\* installment is paid, and cover has begun, only on money in the ledger.
PaidIsBooked ==
  /\ \A i \in paid : \E k \in Keys : Booked(k) /\ target[k] = i
  /\ covered => paid # {}

\* No part of a settlement is ever seen without the rest: a payment that
\* reads succeeded is in the ledger and its installment is paid.
SucceededIsApplied ==
  \A k \in Keys : payment[k] = "succeeded" => Booked(k) /\ target[k] \in paid

\* An invoice never reads paid while it still has an unpaid installment, even
\* though its status is computed from installments read before the locks.
PaidInvoiceIsPaid == invoice = "paid" => paid = Installments

\* The promise of the whole: see MoneyAndCover.
Promise == INSTANCE MoneyAndCover WITH
  Payments <- Keys,
  collected <- {k \in Keys : charge[k] = "taken"},
  booked <- {<<k, target[k]>> : k \in {j \in Keys : Booked(j)}},
  settled <- paid

\* Settlement implements MoneyAndCover: money is booked, its installment paid
\* and cover begun in one indivisible step, and only for money collected.
ImplementsPromise == Promise!Spec

-------------------------------------------------------------------------------
(* What the code's comments promise and only serial handlers keep *)

\* One ledger entry per payment, however often its callback is delivered
\* (the re-entrancy guard of settle: "the second is a no-op").
BookedOnce == \A k \in Keys : ledger[k] <= 1

\* The invoice status "follows from the installments, so it can never
\* disagree with them".
InvoiceFollows ==
  /\ invoice = "open" <=> paid = {}
  /\ invoice = "paid" <=> paid = Installments

\* A settled payment stays settled: a late answer or a late callback does not
\* take it back.
SettledStays ==
  [][\A k \in Keys : payment[k] = "succeeded" => payment'[k] = "succeeded"]_vars

\* The policy events form a chain: each reports the status the policy really
\* had before the change.
EventsChain == [][event' # event => event'.from = policy]_vars

\* "Statuses from which no transition leads anywhere."
TerminalIsFinal ==
  [][(policy \in TerminalPolicyStatuses) => policy' = policy]_vars

\* Once the provider has taken the money and the application has been picked
\* up, redelivered callbacks settle the payment in the end.
TakenIsSettled ==
  \A k \in Keys :
    charge[k] = "taken" /\ policy # "submitted" ~> payment[k] = "succeeded"

-------------------------------------------------------------------------------
(* What the code's comments promise and the code does not keep *)

\* Never "a paid customer with no cover": an approved policy with a paid
\* installment is covered.
PaidIsCovered == policy = "approved" /\ paid # {} => covered
===============================================================================
