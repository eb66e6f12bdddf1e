----------------------------- MODULE MoneyAndCover -----------------------------
(***************************************************************************)
(* What collecting a premium promises, with no handlers, locks, callbacks  *)
(* or statuses: money is collected; collected money is booked, and in the  *)
(* same step the installment it was collected for is settled; and cover    *)
(* begins only in such a step.  Settlement implements this specification.  *)
(***************************************************************************)
CONSTANTS Payments, Installments

VARIABLES
  collected,  \* the payments whose money the provider has taken in full
  booked,     \* <<payment, installment>> pairs in the ledger
  settled,    \* the installments that are paid
  covered     \* cover has begun

vars == <<collected, booked, settled, covered>>

Init ==
  /\ collected = {}
  /\ booked = {}
  /\ settled = {}
  /\ covered = FALSE

Collect(p) ==
  /\ collected' = collected \cup {p}
  /\ UNCHANGED <<booked, settled, covered>>

Book(p, i) ==
  /\ p \in collected
  /\ \A j \in Installments : <<p, j>> \in booked => j = i
  /\ booked' = booked \cup {<<p, i>>}
  /\ settled' = settled \cup {i}
  /\ covered' \in {covered, TRUE}
  /\ UNCHANGED collected

Next ==
  \/ \E p \in Payments : Collect(p)
  \/ \E p \in Payments, i \in Installments : Book(p, i)

Spec == Init /\ [][Next]_vars
================================================================================
