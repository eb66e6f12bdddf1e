--------------------------- MODULE SettlementProofs ---------------------------
(***************************************************************************)
(* What Settlement guarantees for any number of handlers, idempotency keys *)
(* and installments.                                                       *)
(***************************************************************************)
EXTENDS Settlement, TLAPS

-------------------------------------------------------------------------------
(* The inductive invariant *)

\* A row names its installment, a charge has its row, and the ledger holds
\* only collected money.
Rows ==
  \A k \in Keys :
    /\ payment[k] # "none" => target[k] \in Installments
    /\ charge[k] # "none" => payment[k] # "none"
    /\ Booked(k) => charge[k] = "taken"

\* What a handler knows of its payment at each point, and still knows after
\* any number of steps of the others.
Knows(j) ==
  /\ j.at \in {"initiate", "record", "verify", "reject"} =>
       payment[j.key] # "none"
  /\ j.at = "record" /\ j.result = "succeeded" => charge[j.key] = "taken"
  /\ j.at \in {"guard", "context", "write", "activate"} =>
       payment[j.key] # "none" /\ charge[j.key] = "taken"
  /\ j.at \in {"write", "activate"} => j.siblings \subseteq paid

\* The handler about to call the provider has its key to itself.
Alone(w) ==
  job[w].at = "initiate" =>
    /\ charge[job[w].key] = "none"
    /\ \A v \in Workers \ {w} :
         job[v].at \in {"initiate", "record"} => job[v].key # job[w].key

IInv ==
  /\ TypeOK
  /\ Rows
  /\ \A w \in Workers : Knows(job[w]) /\ Alone(w)
  /\ PaidIsBooked
  /\ PaidInvoiceIsPaid

-------------------------------------------------------------------------------
(* Jobs: what their kinds contain *)

LEMMA JobFields ==
  ASSUME NEW j \in Jobs
  PROVE  /\ j.at \in {"idle", "create", "initiate", "record", "verify", "reject",
                      "guard", "context", "write", "activate", "decide"}
         /\ j.at \notin {"idle", "decide"} => j.key \in Keys
         /\ j.at = "create" => j.inst \in Installments
         /\ j.at = "record" => j.result \in Outcomes \cup {"throw"}
         /\ j.at \in {"guard", "context", "write", "activate"} =>
              j.sync \in BOOLEAN
         /\ j.at \in {"write", "activate"} => j.siblings \subseteq Installments
         /\ j.at = "activate" => j.from \in PolicyStatuses
         /\ j.at = "decide" => j.name \in Offered /\ j.from \in PolicyStatuses
  BY DEF Jobs, Idle, PayJobs, HookJobs, SettleJobs, StaffJobs

LEMMA JobKinds ==
  /\ Idle \in Jobs
  /\ \A k \in Keys :
       /\ \A i \in Installments : [at |-> "create", key |-> k, inst |-> i] \in Jobs
       /\ [at |-> "initiate", key |-> k] \in Jobs
       /\ \A r \in Outcomes \cup {"throw"} :
            [at |-> "record", key |-> k, result |-> r] \in Jobs
       /\ [at |-> "verify", key |-> k] \in Jobs
       /\ [at |-> "reject", key |-> k] \in Jobs
       /\ \A s \in BOOLEAN :
            /\ [at |-> "guard", key |-> k, sync |-> s] \in Jobs
            /\ [at |-> "context", key |-> k, sync |-> s] \in Jobs
            /\ \A S \in SUBSET Installments, p \in PolicyStatuses :
                 /\ [at |-> "write", key |-> k, sync |-> s,
                     siblings |-> S, seen |-> p] \in Jobs
                 /\ [at |-> "activate", key |-> k, sync |-> s,
                     siblings |-> S, from |-> p] \in Jobs
  /\ \A n \in Offered, p \in PolicyStatuses :
       [at |-> "decide", name |-> n, from |-> p] \in Jobs
  BY DEF Jobs, Idle, PayJobs, HookJobs, SettleJobs, StaffJobs

LEMMA EndpointTargets == \A n \in Offered : To[n] \in PolicyStatuses
  BY SettlementAssumption DEF EndpointTransitions, To, PolicyStatuses

-------------------------------------------------------------------------------
(* Preservation *)

\* A step that moves one handler to a job whose knowledge holds, and at most
\* changes the status of rows that exist.
LEMMA Moves ==
  ASSUME IInv,
         NEW w \in Workers, NEW j \in Jobs, Goto(w, j),
         Knows(j), j.at # "initiate",
         j.at = "record" => charge[j.key] # "none",
         payment' \in [Keys -> PaymentStatuses],
         \A k \in Keys : payment'[k] = "none" <=> payment[k] = "none",
         UNCHANGED <<target, charge, paid, invoice, policy, covered, event, ledger>>
  PROVE  IInv'
  <1> USE DEF Goto
  <1>1. TypeOK'
    BY DEF IInv, TypeOK
  <1>2. job' \in [Workers -> Jobs] /\ job'[w] = j
        /\ \A v \in Workers \ {w} : job'[v] = job[v]
    BY DEF IInv, TypeOK
  <1>3. Rows'
    BY DEF IInv, Rows, Booked
  <1>4. ASSUME NEW v \in Workers PROVE Knows(job[v])'
    <2>1. Knows(job'[v])
      BY <1>2 DEF IInv
    <2>2. job'[v] \in Jobs
      BY <1>2
    <2> QED
      BY <2>1, <2>2, JobFields DEF Knows
  <1>5. ASSUME NEW v \in Workers PROVE Alone(v)'
    BY <1>2 DEF IInv, Alone
  <1>6. PaidIsBooked' /\ PaidInvoiceIsPaid'
    BY DEF IInv, PaidIsBooked, PaidInvoiceIsPaid, Booked
  <1> QED
    BY <1>1, <1>3, <1>4, <1>5, <1>6 DEF IInv

\* A step of the same kind that leaves the rows alone.
LEMMA Reads ==
  ASSUME IInv, NEW w \in Workers, NEW j \in Jobs, Goto(w, j),
         Knows(j), j.at # "initiate",
         j.at = "record" => charge[j.key] # "none",
         UNCHANGED <<record, charge>>
  PROVE  IInv'
  <1>1. payment' \in [Keys -> PaymentStatuses]
    BY DEF IInv, TypeOK, record
  <1> QED
    BY <1>1, Moves DEF record

\* A handler that is in the middle of a settlement knows these facts.
LEMMA Settling ==
  ASSUME IInv, NEW w \in Workers,
         job[w].at \in {"guard", "context", "write", "activate"}
  PROVE  /\ job[w].key \in Keys
         /\ job[w].sync \in BOOLEAN
         /\ payment[job[w].key] # "none"
         /\ charge[job[w].key] = "taken"
         /\ target[job[w].key] \in Installments
         /\ job[w].at \in {"write", "activate"} =>
              job[w].siblings \subseteq paid
  <1>1. job[w] \in Jobs
    BY DEF IInv, TypeOK
  <1>2. job[w].key \in Keys /\ job[w].sync \in BOOLEAN
    BY <1>1, JobFields
  <1> QED
    BY <1>2 DEF IInv, Rows, Knows

LEMMA Throws ==
  ASSUME IInv, NEW w \in Workers,
         job[w].at \in {"guard", "context", "write", "activate"},
         Throw(w), UNCHANGED <<record, charge>>
  PROVE  IInv'
  <1> DEFINE k == job[w].key
  <1> DEFINE caught == [at |-> "record", key |-> k, result |-> "throw"]
  <1>1. k \in Keys /\ payment[k] # "none" /\ charge[k] = "taken"
    BY Settling
  <1>2. CASE job[w].sync
    <2>1. Goto(w, caught)
      BY <1>2 DEF Throw
    <2>2. caught \in Jobs
      BY <1>1, JobKinds
    <2>3. Knows(caught)
      BY <1>1 DEF Knows
    <2> QED
      BY <1>1, <2>1, <2>2, <2>3, Reads
  <1>3. CASE ~job[w].sync
    <2>1. Goto(w, Idle)
      BY <1>3 DEF Throw
    <2> QED
      BY <2>1, JobKinds, Reads DEF Knows, Idle
  <1> QED
    BY <1>2, <1>3

\* Booking the payment a handler is settling keeps the invariant, whether or
\* not it starts cover.
LEMMA Books ==
  ASSUME IInv, NEW w \in Workers, job[w].at \in {"write", "activate"},
         Book(job[w].key, job[w].siblings), Return(w),
         UNCHANGED <<target, charge>>,
         policy' \in PolicyStatuses, covered' \in BOOLEAN,
         event' \in [from : PolicyStatuses, to : PolicyStatuses]
  PROVE  IInv'
  <1> DEFINE k == job[w].key
  <1>1. /\ k \in Keys /\ payment[k] # "none" /\ charge[k] = "taken"
        /\ target[k] \in Installments /\ job[w].siblings \subseteq paid
    BY Settling
  <1>2. /\ job' \in [Workers -> Jobs] /\ job'[w] = Idle
        /\ \A v \in Workers \ {w} : job'[v] = job[v]
    BY JobKinds DEF IInv, TypeOK, Return, Goto
  <1>3. /\ payment' = [payment EXCEPT ![k] = "succeeded"]
        /\ paid' = paid \cup {target[k]}
        /\ ledger' = [ledger EXCEPT ![k] = @ + 1]
        /\ invoice' = InvoiceFor(job[w].siblings \cup {target[k]})
    BY DEF Book
  <1>4. TypeOK'
    BY <1>1, <1>2, <1>3
    DEF IInv, TypeOK, PaymentStatuses, InvoiceStatuses, InvoiceFor
  <1>5. ledger'[k] > 0 /\ \A l \in Keys : ledger[l] > 0 => ledger'[l] > 0
    BY <1>1, <1>3 DEF IInv, TypeOK, Booked
  <1>6. \A l \in Keys : Booked(l)' => Booked(l) \/ l = k
    BY <1>1, <1>3 DEF IInv, TypeOK, Booked
  <1>7. \A l \in Keys : payment'[l] = "none" <=> payment[l] = "none"
    BY <1>1, <1>3 DEF IInv, TypeOK
  <1>8. Rows'
    BY <1>1, <1>6, <1>7 DEF IInv, Rows
  <1>9. ASSUME NEW v \in Workers PROVE Knows(job[v])'
    <2>1. job'[v] \in Jobs
      BY <1>2
    <2>2. Knows(job'[v])
      BY <1>2 DEF IInv, Knows, Idle
    <2> QED
      BY <1>3, <1>7, <2>1, <2>2, JobFields DEF Knows
  <1>10. ASSUME NEW v \in Workers PROVE Alone(v)'
    BY <1>2 DEF IInv, Alone, Idle
  <1>11. PaidIsBooked'
    <2>1. ASSUME NEW i \in paid'
          PROVE  \E l \in Keys : ledger'[l] > 0 /\ target'[l] = i
      BY <1>1, <1>3, <1>5 DEF IInv, PaidIsBooked, Booked
    <2>2. paid' # {}
      BY <1>3
    <2> QED
      BY <2>1, <2>2 DEF PaidIsBooked, Booked
  <1>12. PaidInvoiceIsPaid'
    BY <1>1, <1>3, <1>4 DEF IInv, TypeOK, PaidInvoiceIsPaid, InvoiceFor
  <1> QED
    BY <1>4, <1>8, <1>9, <1>10, <1>11, <1>12 DEF IInv

-------------------------------------------------------------------------------
(* The invariant is inductive *)

LEMMA InitIInv == Init => IInv
  <1> SUFFICES ASSUME Init PROVE IInv
    OBVIOUS
  <1>1. \A w \in Workers : job[w] = Idle
    BY DEF Init
  <1>2. TypeOK
    BY JobKinds DEF Init, TypeOK, PaymentStatuses, ChargeStatuses,
                    InvoiceStatuses, PolicyStatuses
  <1>3. Rows /\ PaidIsBooked /\ PaidInvoiceIsPaid
    BY DEF Init, Rows, Booked, PaidIsBooked, PaidInvoiceIsPaid
  <1> QED
    BY <1>1, <1>2, <1>3 DEF IInv, Knows, Alone, Idle

LEMMA PayCreateStep ==
  ASSUME IInv, NEW w \in Workers, PayCreate(w)
  PROVE  IInv'
  <1> DEFINE k == job[w].key
  <1>1. k \in Keys /\ job[w].inst \in Installments
    BY JobFields DEF IInv, TypeOK, PayCreate
  <1>2. CASE payment[k] = "none" /\ NewRow(k, job[w].inst)
             /\ Goto(w, [at |-> "initiate", key |-> k])
    <2>1. /\ job' \in [Workers -> Jobs]
          /\ job'[w] = [at |-> "initiate", key |-> k]
          /\ \A v \in Workers \ {w} : job'[v] = job[v]
      BY <1>1, <1>2, JobKinds DEF IInv, TypeOK, Goto
    <2>2. /\ payment' = [payment EXCEPT ![k] = "initiated"]
          /\ target' = [target EXCEPT ![k] = job[w].inst]
          /\ UNCHANGED <<charge, paid, invoice, policy, covered, event, ledger>>
      BY <1>2 DEF NewRow, PayCreate
    <2>3. charge[k] = "none" /\ ~Booked(k)
      BY <1>1, <1>2 DEF IInv, Rows
    <2>4. TypeOK'
      BY <1>1, <2>1, <2>2 DEF IInv, TypeOK, PaymentStatuses
    <2>5. Rows'
      BY <1>1, <2>2 DEF IInv, TypeOK, Rows, Booked
    <2>6. \A l \in Keys : payment[l] # "none" => l # k /\ payment'[l] # "none"
      BY <1>2, <2>2 DEF IInv, TypeOK
    <2>7. ASSUME NEW v \in Workers PROVE Knows(job[v])'
      <3>1. job'[v] \in Jobs
        BY <2>1
      <3>2. CASE v = w
        BY <1>1, <2>1, <2>2, <3>2 DEF IInv, TypeOK, Knows
      <3>3. CASE v # w
        BY <2>1, <2>2, <2>6, <3>1, <3>3, JobFields DEF IInv, Knows
      <3> QED
        BY <3>2, <3>3
    <2>8. \A v \in Workers : job[v].at \in {"initiate", "record"} => job[v].key # k
      BY <1>2 DEF IInv, Knows
    <2>9. ASSUME NEW v \in Workers PROVE Alone(v)'
      BY <2>1, <2>2, <2>3, <2>8 DEF IInv, Alone
    <2>10. PaidIsBooked'
      <3>1. \A l \in Keys : Booked(l) => target'[l] = target[l]
        BY <1>1, <2>2, <2>3 DEF IInv, TypeOK
      <3> QED
        BY <2>2, <3>1 DEF IInv, PaidIsBooked, Booked
    <2>11. PaidInvoiceIsPaid'
      BY <2>2 DEF IInv, PaidInvoiceIsPaid
    <2> QED
      BY <2>4, <2>5, <2>7, <2>9, <2>10, <2>11 DEF IInv
  <1>3. CASE payment[k] # "none" /\ Return(w) /\ UNCHANGED <<payment, target>>
    <2>1. Goto(w, Idle) /\ UNCHANGED <<record, charge>>
      BY <1>3 DEF Return, PayCreate, record
    <2> QED
      BY <2>1, JobKinds, Reads DEF Knows, Idle
  <1> QED
    BY <1>2, <1>3 DEF PayCreate

LEMMA InitiateStep ==
  ASSUME IInv, NEW w \in Workers, Initiate(w)
  PROVE  IInv'
  <1> DEFINE k == job[w].key
  <1>1. /\ k \in Keys /\ payment[k] # "none" /\ charge[k] = "none"
        /\ \A v \in Workers \ {w} :
             job[v].at \in {"initiate", "record"} => job[v].key # k
    BY JobFields DEF IInv, TypeOK, Initiate, Knows, Alone
  <1>2. PICK result \in Outcomes \cup {"throw"} : \E c \in ChargesAfter(result) :
          /\ charge' = [charge EXCEPT ![k] = c]
          /\ Goto(w, [at |-> "record", key |-> k, result |-> result])
    BY DEF Initiate
  <1>c. PICK c \in ChargesAfter(result) :
          /\ charge' = [charge EXCEPT ![k] = c]
          /\ Goto(w, [at |-> "record", key |-> k, result |-> result])
    BY <1>2
  <1>3. UNCHANGED <<payment, target, paid, invoice, policy, covered, event, ledger>>
    BY DEF Initiate, record
  <1>4. c \in ChargeStatuses /\ (result = "succeeded" => c = "taken")
    BY <1>c, SettlementAssumption DEF ChargesAfter, ChargeStatuses
  <1>5. /\ job' \in [Workers -> Jobs]
        /\ job'[w] = [at |-> "record", key |-> k, result |-> result]
        /\ \A v \in Workers \ {w} : job'[v] = job[v]
    BY <1>1, <1>c, JobKinds DEF IInv, TypeOK, Goto
  <1>6. TypeOK'
    BY <1>c, <1>3, <1>4, <1>5 DEF IInv, TypeOK
  <1>7. ~Booked(k) /\ \A l \in Keys \ {k} : charge'[l] = charge[l]
    BY <1>1, <1>2 DEF IInv, TypeOK, Rows
  <1>8. Rows'
    BY <1>1, <1>3, <1>7 DEF IInv, Rows, Booked
  <1>9. ASSUME NEW v \in Workers PROVE Knows(job[v])'
    <2>1. job'[v] \in Jobs
      BY <1>5
    <2>2. CASE v = w
      BY <1>1, <1>c, <1>3, <1>4, <1>5, <2>2 DEF IInv, TypeOK, Knows
    <2>3. CASE v # w
      <3>1. job[v].at \in {"guard", "context", "write", "activate"}
              \/ (job[v].at = "record" /\ job[v].result = "succeeded")
            => job[v].key # k
        BY <1>1, <2>3 DEF IInv, Knows
      <3>2. job'[v] = job[v]
        BY <1>5, <2>3
      <3> QED
        BY <1>3, <1>7, <2>1, <3>1, <3>2, JobFields DEF IInv, Knows
    <2> QED
      BY <2>2, <2>3
  <1>10. ASSUME NEW v \in Workers PROVE Alone(v)'
    <2>1. CASE v = w
      BY <1>5, <2>1 DEF Alone
    <2>2. CASE v # w
      <3>1. job'[v] = job[v] /\ (job[v].at = "initiate" => job[v].key \in Keys \ {k})
        BY <1>1, <1>5, <2>2, JobFields DEF IInv, TypeOK
      <3> QED
        BY <1>1, <1>5, <1>7, <2>2, <3>1 DEF IInv, Alone
    <2> QED
      BY <2>1, <2>2
  <1>11. PaidIsBooked' /\ PaidInvoiceIsPaid'
    BY <1>3 DEF IInv, PaidIsBooked, PaidInvoiceIsPaid, Booked
  <1> QED
    BY <1>6, <1>8, <1>9, <1>10, <1>11 DEF IInv

LEMMA ProviderStep ==
  ASSUME IInv, NEW k \in Keys, ProviderDecides(k)
  PROVE  IInv'
  <1>1. PICK c \in {"taken", "declined", "short"} :
          charge' = [charge EXCEPT ![k] = c]
    BY DEF ProviderDecides
  <1>2. charge[k] = "open" /\ UNCHANGED <<payment, target, paid, invoice, policy,
                                          covered, event, ledger, job>>
    BY DEF ProviderDecides, record
  <1>3. /\ ~Booked(k) /\ payment[k] # "none" /\ charge'[k] # "none"
        /\ \A l \in Keys \ {k} : charge'[l] = charge[l]
    BY <1>1, <1>2 DEF IInv, TypeOK, Rows
  <1>4. TypeOK'
    BY <1>1, <1>2 DEF IInv, TypeOK, ChargeStatuses
  <1>5. Rows'
    BY <1>2, <1>3 DEF IInv, Rows, Booked
  <1>6. ASSUME NEW w \in Workers PROVE Knows(job[w])'
    <2>1. job[w] \in Jobs
      BY DEF IInv, TypeOK
    <2> QED
      BY <1>2, <1>3, <2>1, JobFields DEF IInv, Knows
  <1>7. ASSUME NEW w \in Workers PROVE Alone(w)'
    <2>1. job[w] \in Jobs
      BY DEF IInv, TypeOK
    <2> QED
      BY <1>2, <1>3, <2>1, JobFields DEF IInv, Alone
  <1>8. PaidIsBooked' /\ PaidInvoiceIsPaid'
    BY <1>2 DEF IInv, PaidIsBooked, PaidInvoiceIsPaid, Booked
  <1> QED
    BY <1>4, <1>5, <1>6, <1>7, <1>8 DEF IInv

\* An update of the status of a row that exists, then on to the next job.
LEMMA StatusStep ==
  ASSUME IInv, NEW w \in Workers, NEW j \in Jobs, Goto(w, j),
         NEW k \in Keys, payment[k] # "none",
         NEW s \in PaymentStatuses \ {"none"},
         payment' = [payment EXCEPT ![k] = s],
         Knows(j), j.at \notin {"initiate", "record"},
         UNCHANGED <<target, charge, paid, invoice, policy, covered, event, ledger>>
  PROVE  IInv'
  <1>1. /\ payment' \in [Keys -> PaymentStatuses]
        /\ \A l \in Keys : payment'[l] = "none" <=> payment[l] = "none"
    BY DEF IInv, TypeOK
  <1> QED
    BY <1>1, Moves

LEMMA HandlerStep ==
  ASSUME IInv, NEW w \in Workers,
         RecordResult(w) \/ RecordThrow(w) \/ Verify(w) \/ Reject(w)
  PROVE  IInv'
  <1> DEFINE k == job[w].key
  <1>1. job[w] \in Jobs /\ k \in Keys /\ payment[k] # "none"
    BY JobFields DEF IInv, TypeOK, Knows, RecordResult, RecordThrow, Verify, Reject
  <1>2. Idle \in Jobs /\ Knows(Idle) /\ Idle.at = "idle"
    BY JobKinds DEF Knows, Idle
  <1>3. CASE RecordResult(w)
    <2> DEFINE settling == [at |-> "guard", key |-> k, sync |-> TRUE]
    <2>1. /\ job[w].at = "record"
          /\ job[w].result \in PaymentStatuses \ {"none"}
          /\ payment' = [payment EXCEPT ![k] = job[w].result]
          /\ UNCHANGED <<target, charge, paid, invoice, policy, covered, event, ledger>>
      BY <1>1, <1>3, JobFields, SettlementAssumption DEF RecordResult, PaymentStatuses
    <2>2. CASE job[w].result = "succeeded" /\ Goto(w, settling)
      <3>1. settling \in Jobs
        BY <1>1, JobKinds
      <3>2. Knows(settling)
        BY <1>1, <2>1, <2>2 DEF IInv, Knows
      <3> QED
        BY <1>1, <2>1, <2>2, <3>1, <3>2, StatusStep
    <2>3. CASE Goto(w, Idle)
      BY <1>1, <1>2, <2>1, <2>3, StatusStep
    <2> QED
      BY <1>3, <2>2, <2>3 DEF RecordResult, Return
  <1>4. CASE RecordThrow(w) \/ Reject(w)
    <2>1. /\ payment' = [payment EXCEPT ![k] = "failed"]
          /\ Goto(w, Idle)
          /\ UNCHANGED <<target, charge, paid, invoice, policy, covered, event, ledger>>
      BY <1>4 DEF RecordThrow, Reject, Return
    <2>2. "failed" \in PaymentStatuses \ {"none"}
      BY DEF PaymentStatuses
    <2> QED
      BY <1>1, <1>2, <2>1, <2>2, StatusStep
  <1>5. CASE Verify(w)
    <2> DEFINE settling == [at |-> "guard", key |-> k, sync |-> FALSE]
    <2> DEFINE rejecting == [at |-> "reject", key |-> k]
    <2>1. UNCHANGED <<record, charge>>
      BY <1>5 DEF Verify
    <2>2. CASE charge[k] = "taken" /\ Goto(w, settling)
      BY <1>1, <2>1, <2>2, JobKinds, Reads DEF Knows
    <2>3. CASE Goto(w, rejecting)
      BY <1>1, <2>1, <2>3, JobKinds, Reads DEF Knows
    <2>4. CASE Goto(w, Idle)
      BY <1>2, <2>1, <2>4, Reads
    <2> QED
      BY <1>5, <2>2, <2>3, <2>4 DEF Verify, VerifyResult
  <1> QED
    BY <1>3, <1>4, <1>5

LEMMA SettleStep ==
  ASSUME IInv, NEW w \in Workers, Settle(w)
  PROVE  IInv'
  <1> DEFINE j == job[w]
  <1>1. j.at \in {"guard", "context", "write", "activate"}
    BY DEF Settle, Guard, Context, WriteOnly, WriteAndActivate, Activate
  <1>2. /\ j.key \in Keys /\ j.sync \in BOOLEAN
        /\ payment[j.key] # "none" /\ charge[j.key] = "taken"
        /\ j.at \in {"write", "activate"} =>
             j.siblings \subseteq paid /\ j.siblings \subseteq Installments
    BY <1>1, Settling DEF IInv, TypeOK
  <1>3. policy \in PolicyStatuses /\ paid \subseteq Installments
    BY DEF IInv, TypeOK
  <1>4. CASE Guard(w)
    <2> DEFINE next == [at |-> "context", key |-> j.key, sync |-> j.sync]
    <2>1. UNCHANGED <<record, charge>> /\ (Goto(w, Idle) \/ Goto(w, next))
      BY <1>4 DEF Guard
    <2>2. next \in Jobs /\ Knows(next)
      BY <1>2, JobKinds DEF Knows
    <2> QED
      BY <2>1, <2>2, JobKinds, Reads DEF Knows, Idle
  <1>5. CASE Context(w)
    <2> DEFINE next == [at |-> "write", key |-> j.key, sync |-> j.sync,
                        siblings |-> paid, seen |-> policy]
    <2>1. next \in Jobs /\ Knows(next)
      BY <1>2, <1>3, JobKinds DEF Knows
    <2> QED
      BY <1>5, <2>1, Reads DEF Context
  <1>6. CASE WriteOnly(w)
    BY <1>6, Books DEF WriteOnly, IInv, TypeOK
  <1>7. CASE WriteAndActivate(w)
    <2> DEFINE next == [at |-> "activate", key |-> j.key, sync |-> j.sync,
                        siblings |-> j.siblings, from |-> policy]
    <2>1. CASE Goto(w, next)
      <3>1. next \in Jobs /\ Knows(next)
        BY <1>2, <1>3, <1>7, JobKinds DEF Knows, WriteAndActivate
      <3> QED
        BY <1>7, <2>1, <3>1, Reads DEF WriteAndActivate
    <2>2. CASE Throw(w)
      BY <1>1, <1>7, <2>2, Throws DEF WriteAndActivate
    <2> QED
      BY <1>7, <2>1, <2>2 DEF WriteAndActivate
  <1>8. CASE Activate(w)
    <2>1. j.from \in PolicyStatuses
      BY <1>8, JobFields DEF IInv, TypeOK, Activate
    <2> QED
      BY <1>8, <2>1, Books DEF Activate, To, PolicyStatuses
  <1> QED
    BY <1>4, <1>5, <1>6, <1>7, <1>8 DEF Settle

LEMMA NextIInv == IInv /\ [Next]_vars => IInv'
  <1> SUFFICES ASSUME IInv, [Next]_vars PROVE IInv'
    OBVIOUS
  <1>1. /\ policy \in PolicyStatuses /\ Idle \in Jobs /\ Knows(Idle)
        /\ Idle.at = "idle" /\ \A w \in Workers : job[w] \in Jobs
    BY JobKinds DEF IInv, TypeOK, Knows, Idle
  <1>2. ASSUME NEW k \in Keys, ProviderDecides(k) PROVE IInv'
    BY <1>2, ProviderStep
  <1>3. ASSUME NEW w \in Workers, NEW k \in Keys, NEW i \in Installments,
               PayStart(w, k, i)
        PROVE  IInv'
    <2> DEFINE next == [at |-> "create", key |-> k, inst |-> i]
    <2>1. next \in Jobs /\ Knows(next)
      BY JobKinds DEF Knows
    <2> QED
      BY <1>3, <2>1, Reads DEF PayStart
  <1>4. ASSUME NEW w \in Workers, NEW k \in Keys, NEW claim, Callback(w, k, claim)
        PROVE  IInv'
    <2> DEFINE next == [at |-> CallbackTo(claim), key |-> k]
    <2>1. next \in Jobs /\ Knows(next) /\ next.at \in {"verify", "reject"}
      BY <1>4, JobKinds DEF Knows, Callback, CallbackTo
    <2> QED
      BY <1>4, <2>1, Reads DEF Callback
  <1>5. ASSUME NEW w \in Workers, NEW name \in Offered, Decide(w, name)
        PROVE  IInv'
    <2> DEFINE next == [at |-> "decide", name |-> name, from |-> policy]
    <2>1. next \in Jobs /\ Knows(next)
      BY <1>1, JobKinds DEF Knows
    <2> QED
      BY <1>5, <2>1, Reads DEF Decide
  <1>6. ASSUME NEW w \in Workers, DecideCommit(w) PROVE IInv'
    <2>1. /\ UNCHANGED <<payment, target, charge, paid, invoice, covered, ledger>>
          /\ Goto(w, Idle) /\ job[w].at = "decide"
          /\ policy' = To[job[w].name]
          /\ event' = [from |-> job[w].from, to |-> To[job[w].name]]
      BY <1>6 DEF DecideCommit, Return
    <2>2. To[job[w].name] \in PolicyStatuses /\ job[w].from \in PolicyStatuses
      BY <1>1, <2>1, JobFields, EndpointTargets
    <2>3. TypeOK'
      BY <1>1, <2>1, <2>2 DEF IInv, TypeOK, Goto
    <2>4. \A v \in Workers : job'[v] = job[v] \/ job'[v] = Idle
      BY <2>1 DEF IInv, TypeOK, Goto
    <2>5. Rows' /\ PaidIsBooked' /\ PaidInvoiceIsPaid'
      BY <2>1 DEF IInv, Rows, PaidIsBooked, PaidInvoiceIsPaid, Booked
    <2>6. \A v \in Workers : Knows(job[v])'
      BY <1>1, <2>1, <2>4 DEF IInv, Knows
    <2>7. \A v \in Workers : Alone(v)'
      BY <1>1, <2>1, <2>4 DEF IInv, Alone
    <2> QED
      BY <2>3, <2>5, <2>6, <2>7 DEF IInv
  <1>7. ASSUME NEW w \in Workers, Continue(w) PROVE IInv'
    BY <1>6, <1>7, PayCreateStep, InitiateStep, HandlerStep, SettleStep DEF Continue
  <1>8. ASSUME NEW w \in Workers, Timeout(w) PROVE IInv'
    BY <1>8, Throws DEF Timeout
  <1>9. ASSUME NEW w \in Workers, Crash(w) PROVE IInv'
    BY <1>1, <1>9, Reads DEF Crash, Return
  <1>10. CASE UNCHANGED vars
    <2>1. Rows' /\ TypeOK' /\ PaidIsBooked' /\ PaidInvoiceIsPaid'
      BY <1>10 DEF vars, IInv, Rows, TypeOK, PaidIsBooked, PaidInvoiceIsPaid, Booked
    <2>2. ASSUME NEW w \in Workers PROVE Knows(job[w])' /\ Alone(w)'
      BY <1>10 DEF vars, IInv, Knows, Alone
    <2> QED
      BY <2>1, <2>2 DEF IInv
  <1> QED
    BY <1>2, <1>3, <1>4, <1>5, <1>7, <1>8, <1>9, <1>10 DEF Next

LEMMA Invariance == Spec => []IInv
  BY InitIInv, NextIInv, PTL DEF Spec

-------------------------------------------------------------------------------
(* The theorems *)

\* Every variable keeps its type, in every interleaving of any number of
\* handlers: in particular the lifecycle table never leads the policy, nor the
\* event trail, out of the known statuses.
THEOREM TypeCorrect == Spec => []TypeOK
  BY Invariance, PTL DEF IInv

\* Invariant 2 of the payments service: only money that the provider has taken
\* in full reaches the ledger.
THEOREM SettlementIsVerified == Spec => []BookedIsTaken
  <1>1. IInv => BookedIsTaken
    BY DEF IInv, Rows, BookedIsTaken
  <1> QED
    BY <1>1, Invariance, PTL

\* Invariant 1: no charge without its row, and one call to the provider for
\* each idempotency key.
THEOREM AttemptIsRecorded == Spec => []OneRecordedAttempt
  <1>1. IInv => OneRecordedAttempt
    BY DEF IInv, Rows, Alone, OneRecordedAttempt
  <1> QED
    BY <1>1, Invariance, PTL

\* Invariant 3: installments are paid, and cover begins, only on booked money.
THEOREM CoverIsPaidFor == Spec => []PaidIsBooked
  BY Invariance, PTL DEF IInv

\* An invoice that reads paid has no unpaid installment left.
THEOREM PaidInvoice == Spec => []PaidInvoiceIsPaid
  BY Invariance, PTL DEF IInv

\* With providers that never answer "succeeded" at once, as none of the three
\* does, a payment that reads succeeded has been applied in full.
THEOREM SettlementIsWhole ==
  ASSUME "succeeded" \notin Outcomes
  PROVE  Spec => []SucceededIsApplied
  <1>1. Init => SucceededIsApplied
    BY DEF Init, SucceededIsApplied
  <1>2. IInv /\ SucceededIsApplied /\ [Next]_vars => SucceededIsApplied'
    <2> SUFFICES ASSUME IInv, SucceededIsApplied, [Next]_vars
                 PROVE  SucceededIsApplied'
      OBVIOUS
    <2> USE DEF SucceededIsApplied, Booked
    <2>1. ASSUME NEW w \in Workers, RecordResult(w) \/ RecordThrow(w) \/ Reject(w)
          PROVE  SucceededIsApplied'
      <3>1. job[w] \in Jobs /\ job[w].key \in Keys
        BY <2>1, JobFields DEF IInv, TypeOK, RecordResult, RecordThrow, Reject
      <3>2. \E s : s # "succeeded" /\ payment' = [payment EXCEPT ![job[w].key] = s]
        BY <2>1, <3>1, JobFields DEF RecordResult, RecordThrow, Reject
      <3> QED
        BY <2>1, <3>1, <3>2 DEF IInv, TypeOK, RecordResult, RecordThrow, Reject
    <2>2. ASSUME NEW w \in Workers, WriteOnly(w) \/ Activate(w)
          PROVE  SucceededIsApplied'
      <3>1. job[w].key \in Keys /\ target[job[w].key] \in Installments
        BY <2>2, Settling DEF WriteOnly, Activate
      <3> QED
        BY <2>2, <3>1 DEF IInv, TypeOK, WriteOnly, Activate, Book
    <2>3. ASSUME NEW w \in Workers, PayCreate(w) PROVE SucceededIsApplied'
      <3>1. job[w].key \in Keys
        BY <2>3, JobFields DEF IInv, TypeOK, PayCreate
      <3> QED
        BY <2>3, <3>1 DEF IInv, TypeOK, PayCreate, NewRow
    <2>4. CASE UNCHANGED record
      BY <2>4 DEF record
    <2> QED
      BY <2>1, <2>2, <2>3, <2>4
      DEF Next, Continue, Settle, PayStart, Initiate, ProviderDecides, Callback,
          Verify, Guard, Context, WriteAndActivate, Timeout, Decide, DecideCommit,
          Crash, vars, record
  <1> QED
    BY <1>1, <1>2, Invariance, PTL DEF Spec

\* Settlement implements MoneyAndCover: whatever the handlers interleave, what
\* shows outside is money collected, and booked in one step with its installment
\* and with the beginning of cover.
THEOREM Refinement == Spec => ImplementsPromise
  <1>1. Init => Promise!Init
    BY DEF Init, Promise!Init, Booked
  <1>2. IInv /\ [Next]_vars => [Promise!Next]_(Promise!vars)
    <2> SUFFICES ASSUME IInv, [Next]_vars, ~ UNCHANGED Promise!vars
                 PROVE  Promise!Next
      OBVIOUS
    <2> DEFINE collected == {k \in Keys : charge[k] = "taken"}
    <2> DEFINE booked == {<<k, target[k]>> : k \in {l \in Keys : Booked(l)}}
    <2>1. ASSUME NEW k \in Keys, NEW c,
                 charge' = [charge EXCEPT ![k] = c], charge[k] # "taken",
                 UNCHANGED <<target, ledger, paid, covered>>
          PROVE  Promise!Next
      <3>1. collected' = collected \/ collected' = collected \cup {k}
        BY <2>1 DEF IInv, TypeOK
      <3>2. UNCHANGED booked
        BY <2>1 DEF Booked
      <3> QED
        BY <2>1, <3>1, <3>2 DEF Promise!Next, Promise!Collect, Promise!vars
    <2>2. ASSUME NEW w \in Workers, WriteOnly(w) \/ Activate(w)
          PROVE  Promise!Next
      <3> DEFINE k == job[w].key
      <3>1. /\ k \in Keys /\ target[k] \in Installments /\ charge[k] = "taken"
            /\ Book(k, job[w].siblings) /\ UNCHANGED <<target, charge>>
            /\ covered' \in {covered, TRUE}
        BY <2>2, Settling DEF WriteOnly, Activate
      <3>2. \A l \in Keys : ledger'[l] > 0 <=> ledger[l] > 0 \/ l = k
        BY <3>1 DEF IInv, TypeOK, Book
      <3>3. booked' = booked \cup {<<k, target[k]>>}
        BY <3>1, <3>2 DEF Booked
      <3>4. k \in collected /\ UNCHANGED collected
        BY <3>1
      <3>5. \A i \in Installments : <<k, i>> \in booked => i = target[k]
        OBVIOUS
      <3>6. paid' = paid \cup {target[k]}
        BY <3>1 DEF Book
      <3>7. ASSUME NEW p \in Keys, NEW i \in Installments,
                   p = k, i = target[k]
            PROVE  Promise!Book(p, i)
        BY <3>1, <3>3, <3>4, <3>5, <3>6, <3>7 DEF Promise!Book
      <3> QED
        BY <3>1, <3>7 DEF Promise!Next
    <2>3. ASSUME NEW w \in Workers, PayCreate(w) PROVE FALSE
      <3> DEFINE k == job[w].key
      <3>1. UNCHANGED <<charge, ledger, paid, covered>>
        BY <2>3 DEF PayCreate
      <3>2. \A l \in Keys : Booked(l) => target'[l] = target[l]
        BY <2>3 DEF IInv, TypeOK, Rows, PayCreate, NewRow
      <3>3. UNCHANGED booked
        BY <3>1, <3>2 DEF Booked
      <3> QED
        BY <3>1, <3>3 DEF Promise!vars
    <2>4. ASSUME UNCHANGED <<target, charge, paid, covered, ledger>> PROVE FALSE
      BY <2>4 DEF Promise!vars, Booked
    <2>5. ASSUME NEW k \in Keys, ProviderDecides(k) PROVE Promise!Next
      BY <2>1, <2>5 DEF ProviderDecides, record
    <2>6. ASSUME NEW w \in Workers, Initiate(w) PROVE Promise!Next
      <3>1. job[w].key \in Keys /\ charge[job[w].key] = "none"
        BY <2>6, JobFields DEF IInv, TypeOK, Initiate, Alone
      <3> QED
        BY <2>1, <2>6, <3>1 DEF Initiate, record
    <2> QED
      BY <2>2, <2>3, <2>4, <2>5, <2>6
      DEF Next, Continue, Settle, PayStart, Callback, RecordResult, RecordThrow,
          Verify, Reject, Guard, Context, WriteAndActivate, Timeout, Decide,
          DecideCommit, Crash, vars, record
  <1> QED
    BY <1>1, <1>2, Invariance, PTL DEF Spec, ImplementsPromise, Promise!Spec
-------------------------------------------------------------------------------
(* Handlers that do not overlap *)

Serial == \A v, w \in Workers : v = w

\* What a handler knows that no other is there to disturb: a payment it is
\* still to settle or to record is not in the ledger, and what it has read of
\* the installments and of the policy still holds.
KnowsAlone(j) ==
  /\ j.at = "initiate" => payment[j.key] = "initiated"
  /\ j.at = "record" => ~Booked(j.key)
  /\ j.at \in {"verify", "reject", "context", "write", "activate"} =>
       payment[j.key] # "succeeded"
  /\ j.at \in {"guard", "context", "write", "activate"} /\ j.sync =>
       ~Booked(j.key)
  /\ j.at \in {"write", "activate"} => j.siblings = paid
  /\ j.at \in {"decide", "activate"} =>
       j.from = policy /\ policy \notin TerminalPolicyStatuses

\* No settlement runs inside payInstallment, and the row whose answer is to be
\* recorded is not settled.
KnowsLate(j) ==
  /\ j.at \in {"guard", "context", "write", "activate"} => ~j.sync
  /\ j.at = "record" => j.result # "succeeded" /\ payment[j.key] # "succeeded"

KnowsSerially(j) == KnowsAlone(j) /\ ("succeeded" \notin Outcomes => KnowsLate(j))

BookedSucceeded ==
  \A k \in Keys : Booked(k) => ledger[k] = 1 /\ payment[k] = "succeeded"

SInv ==
  /\ BookedSucceeded
  /\ Installments # {} => InvoiceFollows
  /\ \A w \in Workers : KnowsSerially(job[w])

LEMMA IdleKnowsSerially == KnowsSerially(Idle) /\ KnowsSerially(Idle)'
  BY DEF KnowsSerially, KnowsAlone, KnowsLate, Idle

\* The only handler goes on to a job whose knowledge holds.
LEMMA SerialReads ==
  ASSUME Serial, SInv, NEW w \in Workers, NEW j, job \in [Workers -> Jobs],
         Goto(w, j), KnowsSerially(j), UNCHANGED record
  PROVE  SInv'
  <1>1. \A v \in Workers : job'[v] = j
    BY DEF Serial, Goto
  <1>2. KnowsSerially(j)'
    BY DEF KnowsSerially, KnowsAlone, KnowsLate, Booked, record
  <1>3. \A v \in Workers : KnowsSerially(job[v])'
    BY <1>1, <1>2 DEF KnowsSerially, KnowsAlone, KnowsLate, Booked
  <1>4. BookedSucceeded' /\ (Installments # {} => InvoiceFollows')
    BY DEF SInv, BookedSucceeded, InvoiceFollows, Booked, record
  <1> QED
    BY <1>3, <1>4 DEF SInv

\* The only handler changes the status of a payment that is not in the ledger.
LEMMA SerialStatus ==
  ASSUME Serial, SInv, NEW w \in Workers, NEW j, job \in [Workers -> Jobs],
         Goto(w, j), KnowsSerially(j)',
         NEW k \in Keys, ~Booked(k), NEW s,
         payment \in [Keys -> PaymentStatuses],
         payment' = [payment EXCEPT ![k] = s],
         UNCHANGED <<paid, invoice, ledger>>
  PROVE  SInv'
  <1>1. \A v \in Workers : job'[v] = j
    BY DEF Serial, Goto
  <1>2. \A v \in Workers : KnowsSerially(job[v])'
    BY <1>1 DEF KnowsSerially, KnowsAlone, KnowsLate, Booked
  <1>3. BookedSucceeded' /\ (Installments # {} => InvoiceFollows')
    BY DEF SInv, BookedSucceeded, InvoiceFollows, Booked
  <1> QED
    BY <1>2, <1>3 DEF SInv

LEMMA SerialThrows ==
  ASSUME Serial, IInv, SInv, NEW w \in Workers,
         job[w].at \in {"guard", "context", "write", "activate"},
         Throw(w), UNCHANGED record
  PROVE  SInv'
  <1> DEFINE caught == [at |-> "record", key |-> job[w].key, result |-> "throw"]
  <1>1. job \in [Workers -> Jobs] /\ job[w].sync \in BOOLEAN
    BY Settling DEF IInv, TypeOK
  <1>2. CASE job[w].sync
    <2>1. KnowsSerially(caught)
      BY <1>2 DEF SInv, KnowsSerially, KnowsAlone, KnowsLate
    <2> QED
      BY <1>1, <1>2, <2>1, SerialReads DEF Throw
  <1>3. CASE ~job[w].sync
    BY <1>1, <1>3, SerialReads, IdleKnowsSerially DEF Throw
  <1> QED
    BY <1>2, <1>3

\* Booking the payment a handler is alone to settle.
LEMMA SerialBooks ==
  ASSUME Serial, IInv, SInv, NEW w \in Workers,
         job[w].at \in {"write", "activate"},
         Book(job[w].key, job[w].siblings), Return(w)
  PROVE  SInv'
  <1> DEFINE k == job[w].key
  <1>1. k \in Keys /\ target[k] \in Installments
    BY Settling
  <1>2. payment[k] # "succeeded" /\ job[w].siblings = paid
    BY DEF SInv, KnowsSerially, KnowsAlone
  <1>3. ledger[k] = 0
    BY <1>1, <1>2 DEF SInv, BookedSucceeded, Booked, IInv, TypeOK
  <1>4. \A v \in Workers : job'[v] = Idle
    BY DEF Serial, Return, Goto, IInv, TypeOK
  <1>5. \A v \in Workers : KnowsSerially(job[v])'
    BY <1>4 DEF KnowsSerially, KnowsAlone, KnowsLate, Idle
  <1>6. BookedSucceeded'
    <2>1. ASSUME NEW l \in Keys, Booked(l)'
          PROVE  ledger'[l] = 1 /\ payment'[l] = "succeeded"
      <3>1. CASE l = k
        BY <1>1, <1>3, <3>1 DEF Book, IInv, TypeOK
      <3>2. CASE l # k
        BY <1>1, <2>1, <3>2 DEF Book, IInv, TypeOK, SInv, BookedSucceeded, Booked
      <3> QED
        BY <3>1, <3>2
    <2> QED
      BY <2>1 DEF BookedSucceeded
  <1>7. InvoiceFollows'
    BY <1>1, <1>2 DEF Book, InvoiceFor, InvoiceFollows
  <1> QED
    BY <1>5, <1>6, <1>7 DEF SInv

LEMMA InitSInv == Init => SInv
  <1> SUFFICES ASSUME Init PROVE SInv
    OBVIOUS
  <1>1. BookedSucceeded /\ (Installments # {} => InvoiceFollows)
    BY DEF Init, BookedSucceeded, Booked, InvoiceFollows
  <1> QED
    BY <1>1, IdleKnowsSerially DEF Init, SInv

LEMMA SerialPay ==
  ASSUME Serial, IInv, SInv, NEW w \in Workers,
         PayCreate(w) \/ Initiate(w) \/ RecordResult(w) \/ RecordThrow(w)
  PROVE  SInv'
  <1>0. PICK k \in Keys : k = job[w].key
    BY JobFields
    DEF IInv, TypeOK, PayCreate, Initiate, RecordResult, RecordThrow
  <1>1. /\ k \in Keys /\ job \in [Workers -> Jobs]
        /\ payment \in [Keys -> PaymentStatuses]
    BY DEF IInv, TypeOK
  <1>2. payment[k] # "succeeded" => ~Booked(k)
    BY <1>1 DEF SInv, BookedSucceeded
  <1>3. CASE PayCreate(w)
    <2> DEFINE next == [at |-> "initiate", key |-> k]
    <2>1. CASE payment[k] = "none" /\ NewRow(k, job[w].inst) /\ Goto(w, next)
      <3>1. payment' = [payment EXCEPT ![k] = "initiated"]
            /\ UNCHANGED <<paid, invoice, ledger>>
        BY <1>3, <2>1 DEF NewRow, PayCreate
      <3>2. KnowsSerially(next)'
        BY <1>1, <3>1 DEF KnowsSerially, KnowsAlone, KnowsLate
      <3> QED
        BY <1>1, <1>2, <2>1, <3>1, <3>2, SerialStatus
    <2>2. CASE Return(w) /\ UNCHANGED <<payment, target>>
      BY <1>1, <1>3, <2>2, SerialReads, IdleKnowsSerially
      DEF PayCreate, Return, record
    <2> QED
      BY <1>0, <1>3, <2>1, <2>2 DEF PayCreate
  <1>4. CASE Initiate(w)
    <2>1. PICK result \in Outcomes \cup {"throw"} :
            Goto(w, [at |-> "record", key |-> k, result |-> result])
      BY <1>0, <1>4 DEF Initiate
    <2>2. payment[k] = "initiated"
      BY <1>0, <1>4 DEF SInv, KnowsSerially, KnowsAlone, Initiate
    <2>3. KnowsSerially([at |-> "record", key |-> k, result |-> result])
      BY <1>2, <2>2 DEF KnowsSerially, KnowsAlone, KnowsLate
    <2> QED
      BY <1>1, <1>4, <2>1, <2>3, SerialReads DEF Initiate
  <1>5. CASE RecordResult(w)
    <2> DEFINE next == [at |-> "guard", key |-> k, sync |-> TRUE]
    <2>1. /\ ~Booked(k) /\ UNCHANGED <<paid, invoice, ledger>>
          /\ payment' = [payment EXCEPT ![k] = job[w].result]
      BY <1>0, <1>5 DEF SInv, KnowsSerially, KnowsAlone, RecordResult
    <2>2. CASE job[w].result = "succeeded" /\ Goto(w, next)
      <3>1. "succeeded" \in Outcomes
        BY <1>5, <2>2 DEF SInv, KnowsSerially, KnowsLate, RecordResult
      <3>2. KnowsSerially(next)'
        BY <2>1, <3>1 DEF KnowsSerially, KnowsAlone, Booked
      <3> QED
        BY <1>1, <2>1, <2>2, <3>2, SerialStatus
    <2>3. CASE Goto(w, Idle)
      BY <1>1, <2>1, <2>3, SerialStatus, IdleKnowsSerially
    <2> QED
      BY <1>0, <1>5, <2>2, <2>3 DEF RecordResult, Return
  <1>6. CASE RecordThrow(w)
    <2>1. /\ ~Booked(k) /\ UNCHANGED <<paid, invoice, ledger>>
          /\ payment' = [payment EXCEPT ![k] = "failed"]
          /\ Goto(w, Idle)
      BY <1>0, <1>6 DEF SInv, KnowsSerially, KnowsAlone, RecordThrow, Return
    <2> QED
      BY <1>1, <2>1, SerialStatus, IdleKnowsSerially
  <1> QED
    BY <1>3, <1>4, <1>5, <1>6

LEMMA SerialHook ==
  ASSUME Serial, IInv, SInv, NEW w \in Workers, Verify(w) \/ Reject(w)
  PROVE  SInv'
  <1> DEFINE k == job[w].key
  <1>1. /\ k \in Keys /\ job \in [Workers -> Jobs]
        /\ payment \in [Keys -> PaymentStatuses]
    BY JobFields DEF IInv, TypeOK, Verify, Reject
  <1>2. payment[k] # "succeeded" /\ ~Booked(k)
    BY <1>1 DEF SInv, BookedSucceeded, KnowsSerially, KnowsAlone, Verify, Reject
  <1>3. CASE Verify(w)
    <2>1. \/ Goto(w, Idle)
          \/ Goto(w, [at |-> "guard", key |-> k, sync |-> FALSE])
          \/ Goto(w, [at |-> "reject", key |-> k])
      BY <1>3 DEF Verify
    <2>2. /\ KnowsSerially([at |-> "guard", key |-> k, sync |-> FALSE])
          /\ KnowsSerially([at |-> "reject", key |-> k])
      BY <1>2 DEF KnowsSerially, KnowsAlone, KnowsLate
    <2> QED
      BY <1>1, <1>3, <2>1, <2>2, SerialReads, IdleKnowsSerially DEF Verify
  <1>4. CASE Reject(w)
    <2>1. /\ UNCHANGED <<paid, invoice, ledger>>
          /\ payment' = [payment EXCEPT ![k] = "failed"]
          /\ Goto(w, Idle)
      BY <1>4 DEF Reject, Return
    <2> QED
      BY <1>1, <1>2, <2>1, SerialStatus, IdleKnowsSerially
  <1> QED
    BY <1>3, <1>4

\* Neither a settlement nor a request starts from a terminal status.
LEMMA NothingFromTerminal ==
  /\ \A n \in Offered : CanTransition(policy, n) => policy \notin TerminalPolicyStatuses
  /\ \A s : StartsCover(s, policy) => policy \notin TerminalPolicyStatuses
  BY SettlementAssumption
  DEF CanTransition, StartsCover, From, EndpointTransitions, TerminalPolicyStatuses

LEMMA SerialSettle ==
  ASSUME Serial, IInv, SInv, NEW w \in Workers, Settle(w)
  PROVE  SInv'
  <1> DEFINE j == job[w]
  <1>1. /\ j.at \in {"guard", "context", "write", "activate"}
        /\ job \in [Workers -> Jobs] /\ KnowsSerially(j)
    BY DEF SInv, IInv, TypeOK, Settle, Guard, Context, WriteOnly,
           WriteAndActivate, Activate
  <1>2. j.key \in Keys
    BY <1>1, Settling
  <1>3. CASE Guard(w)
    <2> DEFINE next == [at |-> "context", key |-> j.key, sync |-> j.sync]
    <2>1. Goto(w, Idle) \/ (payment[j.key] # "succeeded" /\ Goto(w, next))
      BY <1>3 DEF Guard
    <2>2. payment[j.key] # "succeeded" => KnowsSerially(next)
      BY <1>1, <1>3 DEF KnowsSerially, KnowsAlone, KnowsLate, Guard
    <2> QED
      BY <1>1, <1>3, <2>1, <2>2, SerialReads, IdleKnowsSerially DEF Guard
  <1>4. CASE Context(w)
    <2> DEFINE next == [at |-> "write", key |-> j.key, sync |-> j.sync,
                        siblings |-> paid, seen |-> policy]
    <2>1. KnowsSerially(next)
      BY <1>1, <1>4 DEF KnowsSerially, KnowsAlone, KnowsLate, Context
    <2> QED
      BY <1>1, <1>4, <2>1, SerialReads DEF Context
  <1>5. CASE WriteOnly(w) \/ Activate(w)
    BY <1>5, SerialBooks DEF WriteOnly, Activate
  <1>6. CASE WriteAndActivate(w)
    <2> DEFINE next == [at |-> "activate", key |-> j.key, sync |-> j.sync,
                        siblings |-> j.siblings, from |-> policy]
    <2>1. CASE StartsCover(j.seen, policy) /\ Goto(w, next)
      <3>1. policy \notin TerminalPolicyStatuses
        BY <2>1, NothingFromTerminal
      <3>2. KnowsSerially(next)
        BY <1>1, <1>6, <3>1 DEF KnowsSerially, KnowsAlone, KnowsLate, WriteAndActivate
      <3> QED
        BY <1>1, <1>6, <2>1, <3>2, SerialReads DEF WriteAndActivate
    <2>2. CASE Throw(w)
      BY <1>1, <1>6, <2>2, SerialThrows DEF WriteAndActivate
    <2> QED
      BY <1>6, <2>1, <2>2 DEF WriteAndActivate
  <1> QED
    BY <1>3, <1>4, <1>5, <1>6 DEF Settle

LEMMA NextSInv == Serial /\ IInv /\ SInv /\ [Next]_vars => SInv'
  <1> SUFFICES ASSUME Serial, IInv, SInv, [Next]_vars PROVE SInv'
    OBVIOUS
  <1>1. job \in [Workers -> Jobs]
    BY DEF IInv, TypeOK
  <1>2. CASE UNCHANGED <<record, job>>
    BY <1>2 DEF record, SInv, BookedSucceeded, InvoiceFollows, KnowsSerially,
                KnowsAlone, KnowsLate, Booked
  <1>3. ASSUME NEW w \in Workers, NEW k \in Keys, NEW i \in Installments,
               PayStart(w, k, i)
        PROVE  SInv'
    <2>1. KnowsSerially([at |-> "create", key |-> k, inst |-> i])
      BY DEF KnowsSerially, KnowsAlone, KnowsLate
    <2> QED
      BY <1>1, <1>3, <2>1, SerialReads DEF PayStart
  <1>4. ASSUME NEW w \in Workers, NEW k \in Keys, NEW claim, Callback(w, k, claim)
        PROVE  SInv'
    <2> DEFINE next == [at |-> CallbackTo(claim), key |-> k]
    <2>1. payment[k] # "succeeded" /\ next.at \in {"verify", "reject"}
      BY <1>4 DEF Callback, CallbackTo
    <2>2. KnowsSerially(next)
      BY <2>1 DEF KnowsSerially, KnowsAlone, KnowsLate
    <2> QED
      BY <1>1, <1>4, <2>2, SerialReads DEF Callback
  <1>5. ASSUME NEW w \in Workers, NEW name \in Offered, Decide(w, name)
        PROVE  SInv'
    <2>1. policy \notin TerminalPolicyStatuses
      BY <1>5, NothingFromTerminal DEF Decide
    <2>2. KnowsSerially([at |-> "decide", name |-> name, from |-> policy])
      BY <2>1 DEF KnowsSerially, KnowsAlone, KnowsLate
    <2> QED
      BY <1>1, <1>5, <2>2, SerialReads DEF Decide
  <1>6. ASSUME NEW w \in Workers, DecideCommit(w) PROVE SInv'
    <2>1. \A v \in Workers : job'[v] = Idle
      BY <1>1, <1>6 DEF Serial, DecideCommit, Return, Goto
    <2>2. \A v \in Workers : KnowsSerially(job[v])'
      BY <2>1 DEF KnowsSerially, KnowsAlone, KnowsLate, Idle
    <2> QED
      BY <1>6, <2>2 DEF DecideCommit, SInv, BookedSucceeded, InvoiceFollows, Booked
  <1>7. ASSUME NEW w \in Workers, Timeout(w) PROVE SInv'
    BY <1>7, SerialThrows DEF Timeout
  <1>8. ASSUME NEW w \in Workers, Crash(w) PROVE SInv'
    BY <1>1, <1>8, SerialReads, IdleKnowsSerially DEF Crash, Return
  <1>9. ASSUME NEW k \in Keys, ProviderDecides(k) PROVE SInv'
    BY <1>2, <1>9 DEF ProviderDecides
  <1>10. CASE UNCHANGED vars
    BY <1>2, <1>10 DEF vars, record
  <1> QED
    BY <1>3, <1>4, <1>5, <1>6, <1>7, <1>8, <1>9, <1>10, SerialPay, SerialHook,
       SerialSettle DEF Next, Continue

LEMMA SerialInvariance == ASSUME Serial PROVE Spec => []SInv
  <1>1. IInv /\ SInv /\ [Next]_vars => SInv'
    BY NextSInv
  <1> QED
    BY <1>1, InitSInv, Invariance, PTL DEF Spec

\* "The second is a no-op" (payments.service.ts:219-221): with handlers that do
\* not overlap, a payment has at most one entry in the ledger, however often
\* its callback is delivered and whatever the provider answers.
THEOREM SerialBookedOnce == ASSUME Serial PROVE Spec => []BookedOnce
  <1>1. IInv /\ SInv => BookedOnce
    BY DEF IInv, TypeOK, SInv, BookedSucceeded, Booked, BookedOnce
  <1> QED
    BY <1>1, Invariance, SerialInvariance, PTL

\* The invoice of a policy that has installments never disagrees with them
\* (payments.service.ts:245-252) when handlers do not overlap.
THEOREM SerialInvoiceFollows ==
  ASSUME Serial, Installments # {}
  PROVE  Spec => []InvoiceFollows
  <1>1. SInv => InvoiceFollows
    BY DEF SInv
  <1> QED
    BY <1>1, SerialInvariance, PTL

\* With providers that never answer "succeeded" at once, a settled payment is
\* never taken back by a late answer or a late callback of a handler that runs
\* alone.
THEOREM SerialSettledStays ==
  ASSUME Serial, "succeeded" \notin Outcomes
  PROVE  Spec => SettledStays
  <1>1. IInv /\ SInv /\ [Next]_vars =>
          [\A k \in Keys : payment[k] = "succeeded" => payment'[k] = "succeeded"]_vars
    <2> SUFFICES ASSUME IInv, SInv, [Next]_vars, NEW k \in Keys,
                        payment[k] = "succeeded"
                 PROVE  payment'[k] = "succeeded"
      OBVIOUS
    <2>1. payment \in [Keys -> PaymentStatuses]
      BY DEF IInv, TypeOK
    <2>2. ASSUME NEW w \in Workers, RecordResult(w) \/ RecordThrow(w) \/ Reject(w)
          PROVE  payment'[k] = "succeeded"
      <3>1. k # job[w].key
        BY <2>2 DEF SInv, KnowsSerially, KnowsAlone, KnowsLate, RecordResult,
                    RecordThrow, Reject
      <3> QED
        BY <2>1, <2>2, <3>1 DEF RecordResult, RecordThrow, Reject
    <2>3. ASSUME NEW w \in Workers, PayCreate(w) \/ WriteOnly(w) \/ Activate(w)
          PROVE  payment'[k] = "succeeded"
      BY <2>1, <2>3 DEF PayCreate, NewRow, WriteOnly, Activate, Book
    <2> QED
      BY <2>2, <2>3
      DEF Next, Continue, Settle, PayStart, Initiate, ProviderDecides, Callback,
          Verify, Guard, Context, WriteAndActivate, Timeout, Decide, DecideCommit,
          Crash, vars, record
  <1> QED
    BY <1>1, Invariance, SerialInvariance, PTL DEF Spec, SettledStays

\* The policy events of handlers that do not overlap form a chain, and none
\* leads out of a terminal status: nothing moves a cancelled or a renewed
\* policy any more, not even a settlement under way.
LEMMA SerialMoves ==
  ASSUME SInv, [Next]_vars, policy' # policy \/ event' # event
  PROVE  event'.from = policy /\ policy \notin TerminalPolicyStatuses
  <1>1. PICK w \in Workers : Activate(w) \/ DecideCommit(w)
    BY DEF Next, Continue, Settle, PayStart, PayCreate, Initiate, RecordResult,
           RecordThrow, ProviderDecides, Callback, Verify, Reject, Guard, Context,
           WriteOnly, WriteAndActivate, Timeout, Decide, Crash, vars, record
  <1>2. event'.from = job[w].from
    BY <1>1 DEF Activate, DecideCommit
  <1> QED
    BY <1>1, <1>2 DEF SInv, KnowsSerially, KnowsAlone, Activate, DecideCommit

\* Each policy event reports the status the policy really had before it.
THEOREM SerialEventsChain == ASSUME Serial PROVE Spec => EventsChain
  <1>1. SInv /\ [Next]_vars => [event' # event => event'.from = policy]_vars
    BY SerialMoves
  <1> QED
    BY <1>1, SerialInvariance, PTL DEF Spec, EventsChain

\* "Statuses from which no transition leads anywhere" (policy-state-machine.ts:116).
THEOREM SerialTerminalIsFinal == ASSUME Serial PROVE Spec => TerminalIsFinal
  <1>1. SInv /\ [Next]_vars =>
          [(policy \in TerminalPolicyStatuses) => policy' = policy]_vars
    BY SerialMoves
  <1> QED
    BY <1>1, SerialInvariance, PTL DEF Spec, TerminalIsFinal
===============================================================================
