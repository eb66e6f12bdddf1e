-------------------------------- MODULE Refunds --------------------------------
(***************************************************************************)
(* Refunds of one settled payment.  What was refunded before is read with  *)
(* the payment; the idempotency key is looked up afterwards; the new row   *)
(* is written last, in a transaction that only its unique key can refuse.  *)
(***************************************************************************)
EXTENDS Integers

CONSTANTS
  Requests,  \* requests that may be served at once
  Keys,      \* idempotency keys
  Total,     \* what the payment collected, in francs
  None       \* nobody, no amount

ASSUME RefundsAssumption ==
  /\ Total \in Nat \ {0}
  /\ None \notin Int

VARIABLES
  refunded,  \* the amounts of the refund rows, which stay pending, added up
  keys,      \* the keys they were written under
  job,       \* what each request is doing
  crossed    \* history: refunds were decided on while another was under way

money == <<refunded, keys>>

Idle == [at |-> "idle"]
RefundJobs ==
  {Idle} \cup [at : {"lookup", "create"}, key : Keys, amount : 1 .. Total]

RefundsTypeOK ==
  /\ refunded \in Nat
  /\ keys \subseteq Keys
  /\ job \in [Requests -> RefundJobs]
  /\ crossed \in BOOLEAN

RefundsInit ==
  /\ refunded = 0
  /\ keys = {}
  /\ job = [r \in Requests |-> Idle]
  /\ crossed = FALSE

Goto(r, step) == job' = [job EXCEPT ![r] = step]
UnderWay == {r \in Requests : job[r] # Idle}

\* Variant: the amount is compared with the payment alone.
FitsAlone(amount) == amount > 0 /\ amount <= Total

Fits(amount) == amount > 0 /\ refunded + amount <= Total

\* No amount asked for is all that is left.
RefundRead(r, k, asked) ==
  LET amount == IF asked = None THEN Total - refunded ELSE asked IN
  /\ job[r] = Idle
  /\ Fits(amount)
  /\ Goto(r, [at |-> "lookup", key |-> k, amount |-> amount])
  /\ crossed' = (crossed \/ UnderWay # {})
  /\ UNCHANGED money

\* A key that is known answers with its refund.
Lookup(r) ==
  /\ job[r].at = "lookup"
  /\ Goto(r, IF job[r].key \in keys THEN Idle ELSE [job[r] EXCEPT !.at = "create"])
  /\ UNCHANGED <<money, crossed>>

\* The row and its ledger entry, or an error if the key has been used since.
\* No provider is told, and the row stays pending.
Create(r) ==
  /\ job[r].at = "create"
  /\ IF job[r].key \in keys
     THEN UNCHANGED money
     ELSE /\ refunded' = refunded + job[r].amount
          /\ keys' = keys \cup {job[r].key}
  /\ Goto(r, Idle)
  /\ UNCHANGED crossed

\* The server stops.
Abandon(r) ==
  /\ job[r] # Idle
  /\ Goto(r, Idle)
  /\ UNCHANGED <<money, crossed>>

Proceed(r) == Lookup(r) \/ Create(r) \/ Abandon(r)
===============================================================================
