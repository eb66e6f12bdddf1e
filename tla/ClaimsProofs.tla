----------------------------- MODULE ClaimsProofs -----------------------------
(***************************************************************************)
(* What Claims guarantees for any number of handlers and idempotency keys  *)
(* and any bound on the amounts.                                           *)
(***************************************************************************)
EXTENDS Claims, TLAPS

-------------------------------------------------------------------------------
(* The inductive invariant *)

\* An amount that an event reports as approved, within what was claimed.
Awarded(a) ==
  /\ a \in Amounts
  /\ claimed # None => a <= claimed
  /\ \E e \in trail : e.to = "approved" /\ e.amount = a

\* The claim row: an approved claim carries an awarded amount, and any amount
\* on it stays within the claim.
ClaimHolds ==
  /\ claim = "approved" => Awarded(approved)
  /\ Permitted(approved)

\* A row is for an awarded amount, money has its row, and the ledger holds
\* one entry at most; ledger and row show only money paid.
Rows ==
  \A k \in Keys :
    /\ row[k] # "none" => Awarded(amount[k])
    /\ money[k] # "none" => row[k] # "none"
    /\ ledger[k] \in {0, 1}
    /\ ledger[k] = 1 \/ row[k] = "succeeded" => money[k] = "paid"

\* What a handler knows at each point, and still knows after any number of
\* steps of the others.
Knows(j) ==
  /\ j.at = "transition" =>
       Permitted(j.amount) /\ (j.name = "approve" => HasAmount(j.amount))
  /\ j.at = "create" => Awarded(j.amount)
  /\ j.at \in {"payout", "record", "verify", "settle", "reject"} =>
       row[j.key] # "none"
  /\ j.at \in {"payout", "record"} => ledger[j.key] = 0
  /\ j.at = "record" /\ j.result = "succeeded" => money[j.key] = "paid"
  /\ j.at = "settle" => money[j.key] = "paid"

\* The handler of a payout has its key to itself until it has recorded the
\* answer.
Alone(w) ==
  job[w].at \in {"payout", "record"} =>
    /\ job[w].at = "payout" => money[job[w].key] = "none"
    /\ \A v \in Workers \ {w} :
         job[v].at \in {"payout", "record"} => job[v].key # job[w].key

IInv ==
  /\ TypeOK
  /\ ClaimHolds
  /\ StatusIsReported
  /\ Rows
  /\ \A w \in Workers : Knows(job[w]) /\ Alone(w)

-------------------------------------------------------------------------------
(* Jobs: what their kinds contain *)

LEMMA JobFields ==
  ASSUME NEW j \in Jobs
  PROVE  /\ j.at \in {"idle", "transition", "create", "payout", "record",
                      "verify", "settle", "reject"}
         /\ j.at \notin {"idle", "transition"} => j.key \in Keys
         /\ j.at = "transition" => /\ j.name \in ClaimEndpoints
                                   /\ j.amount \in Amounts \cup {None}
         /\ j.at = "create" => j.amount \in Amounts
         /\ j.at = "record" => j.result \in Outcomes
  BY DEF Jobs, Idle

LEMMA JobKinds ==
  /\ Idle \in Jobs
  /\ \A n \in ClaimEndpoints, a \in Amounts \cup {None} :
       [at |-> "transition", name |-> n, amount |-> a] \in Jobs
  /\ \A k \in Keys :
       /\ \A a \in Amounts : [at |-> "create", key |-> k, amount |-> a] \in Jobs
       /\ \A at \in {"payout", "verify", "settle", "reject"} :
            [at |-> at, key |-> k] \in Jobs
       /\ \A r \in Outcomes : [at |-> "record", key |-> k, result |-> r] \in Jobs
  BY DEF Jobs, Idle

LEMMA EndpointTargets ==
  \A n \in ClaimEndpoints :
    ClaimTo[n] \in ClaimStatuses /\ (ClaimTo[n] = "approved" => n = "approve")
  BY DEF ClaimEndpoints, ClaimTo, ClaimStatuses

\* An award stands: events are only added, and the amount claimed is fixed.
LEMMA AwardsStand ==
  ASSUME NEW a, Awarded(a), trail \subseteq trail', claimed' = claimed
  PROVE  Awarded(a)'
  BY DEF Awarded, Amounts

-------------------------------------------------------------------------------
(* Preservation *)

\* A step that moves one handler to a job whose knowledge holds, and at most
\* changes the status of rows that exist.
LEMMA Moves ==
  ASSUME IInv,
         NEW w \in Workers, NEW j \in Jobs, Goto(w, j),
         Knows(j), j.at \notin {"payout", "record"},
         row' \in [Keys -> RowStatuses],
         \A k \in Keys : /\ row'[k] = "none" <=> row[k] = "none"
                         /\ row'[k] = "succeeded" => money[k] = "paid",
         UNCHANGED <<file, amount, money, ledger>>
  PROVE  IInv'
  <1> USE DEF Goto, file
  <1>1. /\ job' \in [Workers -> Jobs] /\ job'[w] = j
        /\ \A v \in Workers \ {w} : job'[v] = job[v]
    BY DEF IInv, TypeOK
  <1>2. TypeOK'
    BY <1>1 DEF IInv, TypeOK
  <1>3. ClaimHolds' /\ StatusIsReported'
    BY DEF IInv, ClaimHolds, StatusIsReported, Awarded, Permitted
  <1>4. Rows'
    BY DEF IInv, Rows, Awarded
  <1>5. ASSUME NEW v \in Workers PROVE Knows(job[v])'
    <2>1. Knows(job'[v]) /\ job'[v] \in Jobs
      BY <1>1 DEF IInv
    <2> QED
      BY <2>1, JobFields DEF Knows, Permitted, Awarded
  <1>6. ASSUME NEW v \in Workers PROVE Alone(v)'
    BY <1>1 DEF IInv, Alone
  <1> QED
    BY <1>2, <1>3, <1>4, <1>5, <1>6 DEF IInv

\* A step of the same kind that leaves the rows alone.
LEMMA Reads ==
  ASSUME IInv, NEW w \in Workers, NEW j \in Jobs, Goto(w, j),
         Knows(j), j.at \notin {"payout", "record"},
         UNCHANGED <<file, payout>>
  PROVE  IInv'
  <1>1. row' \in [Keys -> RowStatuses]
    BY DEF IInv, TypeOK, payout
  <1>2. \A k \in Keys : row'[k] = "succeeded" => money[k] = "paid"
    BY DEF IInv, Rows, payout
  <1> QED
    BY <1>1, <1>2, Moves DEF payout

LEMMA DecideStep ==
  ASSUME IInv, NEW w \in Workers, NEW name \in ClaimEndpoints,
         NEW asked \in Amounts \cup {None}, Decide(w, name, asked)
  PROVE  IInv'
  <1> DEFINE a == IF asked = None THEN approved ELSE asked
  <1> DEFINE j == [at |-> "transition", name |-> name, amount |-> a]
  <1>1. a \in Amounts \cup {None}
    BY DEF IInv, TypeOK
  <1>2. j \in Jobs
    BY <1>1, JobKinds
  <1>3. /\ Permitted(a) /\ (name = "approve" => HasAmount(a)) /\ Goto(w, j)
        /\ UNCHANGED <<file, payout>>
    BY DEF Decide
  <1>4. Knows(j)
    BY <1>3 DEF Knows
  <1> QED
    BY <1>2, <1>3, <1>4, Reads

\* The event a transition writes reports the status, and an approval's amount
\* is awarded with it.
LEMMA CommitStep ==
  ASSUME IInv, NEW w \in Workers, Commit(w)
  PROVE  IInv'
  <1> DEFINE j == job[w]
  <1>1. /\ j \in Jobs /\ j.at = "transition" /\ j.name \in ClaimEndpoints
        /\ j.amount \in Amounts \cup {None}
    BY JobFields DEF IInv, TypeOK, Commit
  <1>2. Permitted(j.amount) /\ (j.name = "approve" => HasAmount(j.amount))
    BY <1>1 DEF IInv, Knows
  <1>3. /\ claim' = ClaimTo[j.name]
        /\ approved' = IF j.amount = None THEN approved ELSE j.amount
        /\ trail' = trail \cup {Event(j)}
        /\ UNCHANGED <<claimed, row, amount, money, ledger>>
    BY DEF Commit, payout
  <1>4. /\ job' \in [Workers -> Jobs] /\ job'[w] = Idle
        /\ \A v \in Workers \ {w} : job'[v] = job[v]
    BY JobKinds DEF IInv, TypeOK, Commit, Return, Goto
  <1>5. Event(j) \in Events /\ Event(j).to = ClaimTo[j.name]
    BY <1>1, EndpointTargets DEF Event, Events
  <1>6. TypeOK'
    BY <1>1, <1>3, <1>4, <1>5, EndpointTargets DEF IInv, TypeOK
  <1>7. StatusIsReported'
    BY <1>3, <1>5 DEF StatusIsReported
  <1>8. ClaimHolds'
    <2>1. Permitted(approved)'
      BY <1>2, <1>3 DEF IInv, ClaimHolds, Permitted
    <2>2. ASSUME claim' = "approved" PROVE Awarded(approved)'
      <3>1. j.name = "approve"
        BY <1>1, <1>3, <2>2, EndpointTargets
      <3>2. j.amount \in Amounts /\ approved' = j.amount
        BY <1>1, <1>2, <1>3, <3>1 DEF HasAmount
      <3>3. Event(j).to = "approved" /\ Event(j).amount = approved'
        BY <1>3, <1>5, <2>2, <3>1, <3>2 DEF Event
      <3>4. claimed' # None => approved' <= claimed'
        BY <1>2, <1>3, <2>1, <3>1, <3>2 DEF Permitted, HasAmount
      <3>5. approved' \in Amounts'
        BY <3>2 DEF Amounts
      <3> QED
        BY <1>3, <3>3, <3>4, <3>5 DEF Awarded
    <2> QED
      BY <2>1, <2>2 DEF ClaimHolds
  <1>9. \A a : Awarded(a) => Awarded(a)'
    BY <1>3, AwardsStand
  <1>10. Rows'
    BY <1>3, <1>9 DEF IInv, Rows
  <1>11. ASSUME NEW v \in Workers PROVE Knows(job[v])'
    <2>1. Knows(job'[v]) /\ job'[v] \in Jobs
      BY <1>4 DEF IInv, Knows, Idle
    <2> QED
      BY <1>3, <1>9, <2>1, JobFields DEF Knows, Permitted
  <1>12. ASSUME NEW v \in Workers PROVE Alone(v)'
    BY <1>3, <1>4 DEF IInv, Alone, Idle
  <1> QED
    BY <1>6, <1>7, <1>8, <1>10, <1>11, <1>12 DEF IInv

LEMMA PayStartStep ==
  ASSUME IInv, NEW w \in Workers, NEW k \in Keys, PayStart(w, k)
  PROVE  IInv'
  <1> DEFINE j == [at |-> "create", key |-> k, amount |-> approved]
  <1>1. Awarded(approved)
    BY DEF IInv, ClaimHolds, PayStart
  <1>2. j \in Jobs
    BY <1>1, JobKinds DEF Awarded
  <1>3. Knows(j)
    BY <1>1 DEF Knows
  <1> QED
    BY <1>2, <1>3, Reads DEF PayStart

LEMMA PayCreateStep ==
  ASSUME IInv, NEW w \in Workers, PayCreate(w)
  PROVE  IInv'
  <1> DEFINE k == job[w].key
  <1> DEFINE j == [at |-> "payout", key |-> k]
  <1>1. k \in Keys /\ job[w].amount \in Amounts /\ Awarded(job[w].amount)
    BY JobFields DEF IInv, TypeOK, PayCreate, Knows
  <1>2. CASE row[k] = "none" /\ NewRow(k, job[w].amount) /\ Goto(w, j)
    <2>1. /\ job' \in [Workers -> Jobs] /\ job'[w] = j
          /\ \A v \in Workers \ {w} : job'[v] = job[v]
      BY <1>1, <1>2, JobKinds DEF IInv, TypeOK, Goto
    <2>2. /\ row' = [row EXCEPT ![k] = "initiated"]
          /\ amount' = [amount EXCEPT ![k] = job[w].amount]
          /\ UNCHANGED <<claim, claimed, approved, trail, money, ledger>>
      BY <1>2 DEF NewRow, PayCreate, file
    <2>3. TypeOK'
      BY <1>1, <2>1, <2>2 DEF IInv, TypeOK, RowStatuses
    <2>4. ClaimHolds' /\ StatusIsReported'
      BY <2>2 DEF IInv, ClaimHolds, StatusIsReported, Awarded, Permitted
    <2>5. \A a : Awarded(a) => Awarded(a)'
      BY <2>2, AwardsStand
    <2>6. Rows'
      BY <1>1, <2>2, <2>5 DEF IInv, TypeOK, Rows
    <2>7. money[k] = "none" /\ ledger[k] = 0
      BY <1>1, <1>2 DEF IInv, Rows
    <2>8. \A l \in Keys : row[l] # "none" => row'[l] # "none"
      BY <1>1, <2>2 DEF IInv, TypeOK
    <2>9. ASSUME NEW v \in Workers PROVE Knows(job[v])'
      <3>1. job'[v] \in Jobs /\ (v # w => Knows(job'[v]))
        BY <2>1 DEF IInv
      <3>2. CASE v = w
        <4>1. row'[k] # "none" /\ ledger'[k] = 0
          BY <1>1, <2>2, <2>7 DEF IInv, TypeOK
        <4> QED
          BY <2>1, <3>2, <4>1 DEF Knows
      <3>3. CASE v # w
        BY <2>2, <2>5, <2>8, <3>1, <3>3, JobFields DEF Knows, Permitted
      <3> QED
        BY <3>2, <3>3
    <2>10. \A v \in Workers : job[v].at \in {"payout", "record"} => job[v].key # k
      BY <1>2 DEF IInv, Knows
    <2>11. ASSUME NEW v \in Workers PROVE Alone(v)'
      BY <2>1, <2>2, <2>7, <2>10 DEF IInv, Alone
    <2> QED
      BY <2>3, <2>4, <2>6, <2>9, <2>11 DEF IInv
  <1>3. CASE Return(w) /\ UNCHANGED <<row, amount>>
    BY <1>3, JobKinds, Reads DEF PayCreate, Return, Knows, Idle, payout
  <1> QED
    BY <1>2, <1>3 DEF PayCreate

\* The provider is called on a key that no other handler pays.
LEMMA PayoutStep ==
  ASSUME IInv, NEW w \in Workers, Payout(w)
  PROVE  IInv'
  <1> DEFINE k == job[w].key
  <1>1. /\ k \in Keys /\ money[k] = "none" /\ row[k] # "none" /\ ledger[k] = 0
        /\ job[w].at = "payout"
        /\ \A v \in Workers \ {w} :
             job[v].at \in {"payout", "record"} => job[v].key # k
    BY JobFields DEF IInv, TypeOK, Payout, Knows, Alone
  <1> DEFINE Called(j, m) ==
        /\ money' = [money EXCEPT ![k] = m] /\ Goto(w, j)
        /\ \/ j = Idle
           \/ j.at = "record" /\ j.key = k /\ (j.result = "succeeded" => m = "paid")
  <1>2. PICK j \in Jobs, m \in MoneyStatuses : Called(j, m)
    <2>1. ASSUME NEW result \in Outcomes,
                 money' = [money EXCEPT ![k] = MoneyAfter(result)],
                 Goto(w, [at |-> "record", key |-> k, result |-> result])
          PROVE  \E j \in Jobs, m \in MoneyStatuses : Called(j, m)
      <3> DEFINE j == [at |-> "record", key |-> k, result |-> result]
      <3>1. MoneyAfter(result) \in MoneyStatuses
            /\ (result = "succeeded" => MoneyAfter(result) = "paid")
        BY ClaimsAssumption DEF MoneyAfter, MoneyStatuses
      <3>2. j \in Jobs
        BY <1>1, JobKinds
      <3>3. Called(j, MoneyAfter(result))
        BY <2>1, <3>1
      <3> QED
        BY <3>1, <3>2, <3>3
    <2>2. ASSUME NEW m \in {"none", "open"},
                 money' = [money EXCEPT ![k] = m], Return(w)
          PROVE  \E j \in Jobs, l \in MoneyStatuses : Called(j, l)
      <3>1. Called(Idle, m) /\ Idle \in Jobs /\ m \in MoneyStatuses
        BY <2>2, JobKinds DEF Return, MoneyStatuses
      <3> QED
        BY <3>1
    <2> QED
      BY <2>1, <2>2 DEF Payout
  <1>3. /\ job' \in [Workers -> Jobs] /\ job'[w] = j
        /\ \A v \in Workers \ {w} : job'[v] = job[v]
    BY <1>2 DEF IInv, TypeOK, Goto
  <1>4. UNCHANGED <<claim, claimed, approved, trail, row, amount, ledger>>
    BY DEF Payout, file
  <1>5. money' \in [Keys -> MoneyStatuses] /\ money'[k] = m
        /\ \A l \in Keys \ {k} : money'[l] = money[l]
    BY <1>1, <1>2 DEF IInv, TypeOK
  <1>6. TypeOK'
    BY <1>3, <1>4, <1>5 DEF IInv, TypeOK
  <1>7. ClaimHolds' /\ StatusIsReported'
    BY <1>4 DEF IInv, ClaimHolds, StatusIsReported, Awarded, Permitted
  <1>8. Rows'
    BY <1>1, <1>4, <1>5 DEF IInv, Rows, Awarded
  <1>9. ASSUME NEW v \in Workers PROVE Knows(job[v])'
    <2>1. job'[v] \in Jobs
      BY <1>3
    <2>2. CASE v = w
      BY <1>1, <1>2, <1>3, <1>4, <1>5, <2>2 DEF Knows, Idle
    <2>3. CASE v # w
      <3>1. Knows(job'[v]) /\ (job'[v].at = "record" => job'[v].key # k)
        BY <1>1, <1>3, <2>3 DEF IInv
      <3> QED
        BY <1>1, <1>4, <1>5, <2>1, <3>1, JobFields DEF Knows, Permitted, Awarded
    <2> QED
      BY <2>2, <2>3
  <1>10. ASSUME NEW v \in Workers PROVE Alone(v)'
    <2>1. job'[v] \in Jobs
      BY <1>3
    <2> QED
      BY <1>1, <1>2, <1>3, <1>5, <2>1, JobFields DEF IInv, Alone, Idle
  <1> QED
    BY <1>6, <1>7, <1>8, <1>9, <1>10 DEF IInv

\* A handler that has recorded its payout books it once and is done.
LEMMA RecordStep ==
  ASSUME IInv, NEW w \in Workers, Record(w)
  PROVE  IInv'
  <1> DEFINE k == job[w].key
  <1>1. /\ k \in Keys /\ job[w].result \in Outcomes /\ job[w].at = "record"
        /\ row[k] # "none" /\ ledger[k] = 0
        /\ job[w].result = "succeeded" => money[k] = "paid"
        /\ \A v \in Workers \ {w} :
             job[v].at \in {"payout", "record"} => job[v].key # k
    BY JobFields DEF IInv, TypeOK, Record, Knows, Alone
  <1>2. /\ row' = [row EXCEPT ![k] = job[w].result]
        /\ ledger' = [ledger EXCEPT ![k] =
                         IF job[w].result = "succeeded" THEN @ + 1 ELSE @]
        /\ UNCHANGED <<claim, claimed, approved, trail, amount, money>>
    BY DEF Record, file
  <1>3. /\ job' \in [Workers -> Jobs] /\ job'[w] = Idle
        /\ \A v \in Workers \ {w} : job'[v] = job[v]
    BY JobKinds DEF IInv, TypeOK, Record, Return, Goto
  <1>4. /\ ledger' \in [Keys -> Nat]
        /\ ledger'[k] = IF job[w].result = "succeeded" THEN 1 ELSE 0
        /\ \A l \in Keys \ {k} : ledger'[l] = ledger[l]
    BY <1>1, <1>2 DEF IInv, TypeOK
  <1>5. /\ row' \in [Keys -> RowStatuses] /\ row'[k] # "none"
        /\ \A l \in Keys \ {k} : row'[l] = row[l]
    BY <1>1, <1>2, ClaimsAssumption DEF IInv, TypeOK, RowStatuses
  <1>6. TypeOK'
    BY <1>2, <1>3, <1>4, <1>5 DEF IInv, TypeOK
  <1>7. ClaimHolds' /\ StatusIsReported'
    BY <1>2 DEF IInv, ClaimHolds, StatusIsReported, Awarded, Permitted
  <1>8. Rows'
    BY <1>1, <1>2, <1>4, <1>5 DEF IInv, Rows, Awarded
  <1>9. ASSUME NEW v \in Workers PROVE Knows(job[v])'
    <2>1. job'[v] \in Jobs
      BY <1>3
    <2>2. CASE v = w
      BY <1>3, <2>2 DEF Knows, Idle
    <2>3. CASE v # w
      <3>1. Knows(job'[v]) /\ (job'[v].at \in {"payout", "record"} => job'[v].key # k)
        BY <1>1, <1>3, <2>3 DEF IInv
      <3> QED
        BY <1>2, <1>4, <1>5, <2>1, <3>1, JobFields DEF Knows, Permitted, Awarded
    <2> QED
      BY <2>2, <2>3
  <1>10. ASSUME NEW v \in Workers PROVE Alone(v)'
    BY <1>2, <1>3 DEF IInv, Alone, Idle
  <1> QED
    BY <1>6, <1>7, <1>8, <1>9, <1>10 DEF IInv

LEMMA ProviderStep ==
  ASSUME IInv, NEW k \in Keys, ProviderDecides(k)
  PROVE  IInv'
  <1>1. PICK m \in {"paid", "declined"} : money' = [money EXCEPT ![k] = m]
    BY DEF ProviderDecides
  <1>2. /\ money[k] = "open" /\ money' \in [Keys -> MoneyStatuses]
        /\ \A l \in Keys : money'[l] = IF l = k THEN m ELSE money[l]
    BY <1>1 DEF ProviderDecides, IInv, TypeOK, MoneyStatuses
  <1>3. UNCHANGED <<claim, claimed, approved, trail, row, amount, ledger, job>>
    BY DEF ProviderDecides, file
  <1>4. TypeOK'
    BY <1>2, <1>3 DEF IInv, TypeOK
  <1>5. ClaimHolds' /\ StatusIsReported'
    BY <1>3 DEF IInv, ClaimHolds, StatusIsReported, Awarded, Permitted
  <1>6. Rows'
    BY <1>2, <1>3 DEF IInv, Rows, Awarded
  <1>7. ASSUME NEW w \in Workers PROVE Knows(job[w])' /\ Alone(w)'
    <2>1. job[w] \in Jobs
      BY DEF IInv, TypeOK
    <2> QED
      BY <1>2, <1>3, <2>1, JobFields DEF IInv, Knows, Alone, Permitted, Awarded
  <1> QED
    BY <1>4, <1>5, <1>6, <1>7 DEF IInv

\* Callbacks change the status of a row that exists, and nothing else.
LEMMA HookStep ==
  ASSUME IInv, NEW w \in Workers, Verify(w) \/ Settle(w) \/ Reject(w)
  PROVE  IInv'
  <1> DEFINE k == job[w].key
  <1>1. k \in Keys /\ row[k] # "none"
    BY JobFields DEF IInv, TypeOK, Knows, Verify, Settle, Reject
  <1>2. Idle \in Jobs /\ Knows(Idle) /\ Idle.at = "idle"
    BY JobKinds DEF Knows, Idle
  <1>3. CASE Verify(w)
    <2> DEFINE j == [at |-> "settle", key |-> k]
    <2>1. CASE money[k] = "paid" /\ Goto(w, j)
      <3>1. j \in Jobs /\ Knows(j)
        BY <1>1, <2>1, JobKinds DEF Knows
      <3> QED
        BY <1>3, <2>1, <3>1, Reads DEF Verify
    <2>2. CASE Return(w)
      BY <1>2, <1>3, <2>2, Reads DEF Verify, Return
    <2> QED
      BY <1>3, <2>1, <2>2 DEF Verify, VerifyResults
  <1>4. ASSUME NEW s \in RowStatuses \ {"none"}, row' = [row EXCEPT ![k] = s],
               s = "succeeded" => money[k] = "paid",
               Return(w), UNCHANGED <<file, amount, money, ledger>>
        PROVE  IInv'
    <2>1. /\ row' \in [Keys -> RowStatuses]
          /\ \A l \in Keys : row'[l] = IF l = k THEN s ELSE row[l]
      BY <1>1, <1>4 DEF IInv, TypeOK
    <2>2. \A l \in Keys : /\ row'[l] = "none" <=> row[l] = "none"
                          /\ row'[l] = "succeeded" => money[l] = "paid"
      BY <1>1, <1>4, <2>1 DEF IInv, Rows
    <2> QED
      BY <1>2, <1>4, <2>1, <2>2, Moves DEF Return
  <1>5. Settle(w) => money[k] = "paid"
    BY DEF IInv, Knows, Settle
  <1> QED
    BY <1>3, <1>4, <1>5 DEF Settle, Reject, RowStatuses

-------------------------------------------------------------------------------
(* The invariant is inductive *)

LEMMA InitIInv == Init => IInv
  <1> SUFFICES ASSUME Init PROVE IInv
    OBVIOUS
  <1>1. \A w \in Workers : job[w] = Idle
    BY DEF Init
  <1>2. TypeOK
    BY JobKinds DEF Init, TypeOK, ClaimStatuses, RowStatuses, MoneyStatuses, Events
  <1>3. ClaimHolds /\ StatusIsReported /\ Rows
    BY DEF Init, ClaimHolds, StatusIsReported, Rows, Permitted
  <1> QED
    BY <1>1, <1>2, <1>3 DEF IInv, Knows, Alone, Idle

LEMMA NextIInv == IInv /\ [Next]_vars => IInv'
  <1> SUFFICES ASSUME IInv, [Next]_vars PROVE IInv'
    OBVIOUS
  <1>1. ASSUME NEW w \in Workers, NEW k \in Keys, Callback(w, k) PROVE IInv'
    <2>1. PICK at \in {"verify", "reject"} : Goto(w, [at |-> at, key |-> k])
      BY <1>1 DEF Callback
    <2> DEFINE j == [at |-> at, key |-> k]
    <2>2. j \in Jobs /\ Knows(j)
      BY <1>1, JobKinds DEF Knows, Callback
    <2> QED
      BY <1>1, <2>1, <2>2, Reads DEF Callback
  <1>2. ASSUME NEW w \in Workers, Crash(w) PROVE IInv'
    BY <1>2, JobKinds, Reads DEF Crash, Return, Knows, Idle
  <1>3. CASE UNCHANGED vars
    <2>1. TypeOK' /\ ClaimHolds' /\ StatusIsReported' /\ Rows'
      BY <1>3 DEF vars, IInv, TypeOK, ClaimHolds, StatusIsReported, Rows,
                  Awarded, Permitted
    <2>2. ASSUME NEW w \in Workers PROVE Knows(job[w])' /\ Alone(w)'
      BY <1>3 DEF vars, IInv, Knows, Alone, Awarded, Permitted
    <2> QED
      BY <2>1, <2>2 DEF IInv
  <1> QED
    BY <1>1, <1>2, <1>3, DecideStep, CommitStep, PayStartStep, PayCreateStep,
       PayoutStep, RecordStep, ProviderStep, HookStep
    DEF Next

LEMMA Invariance == Spec => []IInv
  BY InitIInv, NextIInv, PTL DEF Spec

-------------------------------------------------------------------------------
(* The theorems *)

\* Every variable keeps its type.
THEOREM TypeCorrect == Spec => []TypeOK
  BY Invariance, PTL DEF IInv

\* Whatever the handlers interleave, money leaves only in an amount that the
\* evidence trail reports as approved.
THEOREM OnlyApprovedAmountsArePaid == Spec => []PaidAsApproved
  <1>1. IInv => PaidAsApproved
    BY DEF IInv, Rows, Awarded, PaidAsApproved
  <1> QED
    BY <1>1, Invariance, PTL

\* No payout exceeds the amount claimed.
THEOREM NoPayoutAboveTheClaim == Spec => []PaidWithinClaim
  <1>1. IInv => PaidWithinClaim
    BY DEF IInv, Rows, Awarded, PaidWithinClaim
  <1> QED
    BY <1>1, Invariance, PTL

\* A payout has its row before the provider is called, and each idempotency
\* key calls the provider once at most.
THEOREM EachKeyCallsOnce == Spec => []OneCallPerKey
  <1>1. IInv => OneCallPerKey
    BY DEF IInv, Rows, Alone, OneCallPerKey
  <1> QED
    BY <1>1, Invariance, PTL

\* The ledger holds one claim_paid entry at most for a payout, and only for
\* money that has left; nor does a row show a payout that was not made.
THEOREM LedgerIsTrue == Spec => []BookedIsPaid
  <1>1. IInv => BookedIsPaid
    BY DEF IInv, Rows, BookedIsPaid
  <1> QED
    BY <1>1, Invariance, PTL

\* Every status a claim takes is reported by an event of the evidence trail.
THEOREM TrailHasNoHole == Spec => []StatusIsReported
  BY Invariance, PTL DEF IInv
===============================================================================
