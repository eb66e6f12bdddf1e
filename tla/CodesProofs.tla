------------------------------ MODULE CodesProofs ------------------------------
(***************************************************************************)
(* What Codes guarantees for any number of requests and codes and whatever *)
(* the attempt cap.                                                        *)
(***************************************************************************)
EXTENDS Codes, FiniteSetTheorems, SequenceTheorems, TLAPS

-------------------------------------------------------------------------------
(* The inductive invariant *)

\* As long as no two issuing transactions have overlapped, the one under way
\* has seen every live code of its purpose.
Superseding ==
  ~crossed =>
    /\ \A q, r \in Requests :
         call[q].at = "issue" /\ call[r].at = "issue" => q = r
    /\ \A r \in Requests :
         call[r].at = "issue" => Unconsumed(call[r].for) \subseteq call[r].old
    /\ \A p \in Purposes : \A c, d \in Unconsumed(p) : c = d

\* A code not looked at by two at once is redeemed by one, who finds it unused.
Redeeming ==
  \A c \in DOMAIN codes :
    ~codes[c].shared =>
      /\ codes[c].uses <= 1
      /\ codes[c].uses > 0 => ~codes[c].live
      /\ \A q \in Handling("redeem", c) : codes[c].uses = 0
      /\ \A q, r \in Handling("redeem", c) : q = r

IInv == TypeOK /\ AttemptsBounded /\ Superseding /\ Redeeming

-------------------------------------------------------------------------------
(* Data *)

LEMMA CodesAreRows ==
  ASSUME TypeOK
  PROVE  /\ Len(codes) \in Nat
         /\ DOMAIN codes = 1 .. Len(codes)
         /\ codes \in [1 .. Len(codes) -> Code]
         /\ \A c \in DOMAIN codes : codes[c] \in Code
  BY DEF TypeOK

\* Changing one row.
LEMMA OneRow ==
  ASSUME TypeOK, NEW c \in DOMAIN codes, NEW row \in Code,
         codes' = [codes EXCEPT ![c] = row]
  PROVE  /\ codes' \in Seq(Code)
         /\ DOMAIN codes' = DOMAIN codes
         /\ codes'[c] = row
         /\ \A d \in DOMAIN codes : d # c => codes'[d] = codes[d]
  <1>1. codes' \in [1 .. Len(codes) -> Code]
    BY CodesAreRows
  <1>2. codes' \in Seq(Code)
    BY <1>1, CodesAreRows, SeqDef
  <1> QED
    BY <1>2, CodesAreRows

\* Retiring some and adding one.
LEMMA Grown ==
  ASSUME TypeOK, NEW old, NEW p \in Purposes,
         codes' = Append(Retired(old), Fresh(p))
  PROVE  /\ codes' \in Seq(Code)
         /\ DOMAIN codes' = DOMAIN codes \cup {Len(codes) + 1}
         /\ Len(codes) + 1 \notin DOMAIN codes
         /\ codes'[Len(codes) + 1] = Fresh(p)
         /\ \A c \in DOMAIN codes :
              codes'[c] = [codes[c] EXCEPT !.live = codes[c].live /\ c \notin old]
  <1>1. Fresh(p) \in Code
    BY DEF Fresh, Code
  <1>2. \A c \in DOMAIN codes :
          [codes[c] EXCEPT !.live = codes[c].live /\ c \notin old] \in Code
    BY CodesAreRows, Zenon DEF Code
  <1>3. Retired(old) \in [1 .. Len(codes) -> Code]
    BY <1>2, CodesAreRows DEF Retired
  <1>4. Retired(old) \in Seq(Code) /\ Len(Retired(old)) = Len(codes)
    BY <1>3, CodesAreRows, SeqDef, LenProperties
  <1>5. /\ codes' \in Seq(Code)
        /\ Len(codes') = Len(codes) + 1
        /\ \A c \in 1 .. Len(codes) : codes'[c] = Retired(old)[c]
        /\ codes'[Len(codes) + 1] = Fresh(p)
    BY <1>1, <1>4, AppendProperties
  <1> QED
    BY <1>5, CodesAreRows DEF Retired

LEMMA CallFields ==
  ASSUME TypeOK, NEW r \in Requests
  PROVE  /\ call[r] \in Calls
         /\ call[r].at \in {"out", "issue", "miss", "exhaust", "redeem", "passed"}
         /\ call[r].at = "issue" =>
              call[r].for \in Purposes /\ call[r].old \subseteq DOMAIN codes
         /\ call[r].at \in {"miss", "exhaust", "redeem", "passed"} =>
              call[r].code \in DOMAIN codes
         /\ call[r].at \in {"redeem", "passed"} => call[r].for \in Purposes
  <1>1. call[r] \in Calls
    BY DEF TypeOK
  <1> QED
    BY <1>1 DEF Calls, Out

LEMMA CallKinds ==
  /\ Out \in Calls
  /\ \A p \in Purposes :
       /\ \A old \in SUBSET DOMAIN codes :
            [at |-> "issue", for |-> p, old |-> old] \in Calls
       /\ \A c \in DOMAIN codes :
            /\ [at |-> "redeem", code |-> c, for |-> p] \in Calls
            /\ [at |-> "passed", code |-> c, for |-> p] \in Calls
  /\ \A c \in DOMAIN codes :
       /\ [at |-> "miss", code |-> c] \in Calls
       /\ [at |-> "exhaust", code |-> c] \in Calls
  BY DEF Calls, Out

\* Moving a request to another point, while the codes only get more.
LEMMA Moved ==
  ASSUME TypeOK, NEW r \in Requests, NEW j \in Calls, Goto(r, j),
         DOMAIN codes \subseteq DOMAIN codes'
  PROVE  /\ call' \in [Requests -> Calls']
         /\ call'[r] = j
         /\ \A q \in Requests \ {r} : call'[q] = call[q]
  <1>1. Calls \subseteq Calls'
    BY DEF Calls
  <1> QED
    BY <1>1 DEF TypeOK, Goto

LEMMA HandlingIsFinite ==
  ASSUME CodesAssumption, NEW S \in SUBSET Requests
  PROVE  /\ IsFiniteSet(S)
         /\ Cardinality(S) \in Nat
         /\ Cardinality(Requests) \in Nat
         /\ Cardinality(S) <= Cardinality(Requests)
  BY FS_Subset, FS_CardinalityType DEF CodesAssumption

-------------------------------------------------------------------------------
(* Steps that keep the rows *)

\* What tells a code from another is unchanged, and no code comes back to life.
RowsKept ==
  /\ codes' \in Seq(Code)
  /\ DOMAIN codes' = DOMAIN codes
  /\ \A c \in DOMAIN codes :
       /\ codes'[c].for = codes[c].for
       /\ codes'[c].misses = codes[c].misses
       /\ codes'[c].uses = codes[c].uses
       /\ codes'[c].shared = codes[c].shared
       /\ codes'[c].live => codes[c].live

\* No request takes up a code.
CallsKept ==
  /\ call' \in [Requests -> Calls']
  /\ \A q \in Requests :
       call'[q] = call[q] \/ call'[q].at \in {"out", "passed"}

LEMMA Quiet ==
  ASSUME CodesAssumption, IInv, RowsKept, CallsKept,
         verified' \in BOOLEAN, crossed' = crossed
  PROVE  IInv'
  <1>1. TypeOK'
    BY DEF IInv, TypeOK, RowsKept, CallsKept
  <1>2. \A step \in {"miss", "redeem"}, c \in DOMAIN codes :
          Handling(step, c)' \subseteq Handling(step, c)
    BY DEF Handling, CallsKept
  <1>3. AttemptsBounded'
    <2> SUFFICES ASSUME NEW c \in DOMAIN codes
                 PROVE  codes'[c].misses + Cardinality(Handling("miss", c)')
                          < MaxAttempts + Cardinality(Requests)
      BY DEF AttemptsBounded, RowsKept
    <2>1. /\ Handling("miss", c) \in SUBSET Requests
          /\ Handling("miss", c)' \in SUBSET Handling("miss", c)
      BY <1>2 DEF Handling
    <2>2. /\ Cardinality(Handling("miss", c)') \in Nat
          /\ Cardinality(Handling("miss", c)) \in Nat
          /\ Cardinality(Handling("miss", c)') <= Cardinality(Handling("miss", c))
      BY <2>1, HandlingIsFinite, FS_Subset, FS_CardinalityType
    <2>3. codes[c].misses \in Nat /\ codes'[c].misses = codes[c].misses
      BY CodesAreRows DEF IInv, Code, RowsKept
    <2>4. codes[c].misses + Cardinality(Handling("miss", c))
            < MaxAttempts + Cardinality(Requests)
      BY DEF IInv, AttemptsBounded
    <2> QED
      BY <2>2, <2>3, <2>4, HandlingIsFinite DEF CodesAssumption
  <1>4. Superseding'
    <2>1. \A p \in Purposes : Unconsumed(p)' \subseteq Unconsumed(p)
      BY DEF Unconsumed, RowsKept
    <2>2. \A q \in Requests : call'[q].at = "issue" => call'[q] = call[q]
      BY DEF CallsKept
    <2>3. \A q \in Requests : call[q].at = "issue" => call[q].for \in Purposes
      BY CallFields DEF IInv
    <2> QED
      BY <2>1, <2>2, <2>3 DEF IInv, Superseding
  <1>5. Redeeming'
    <2> SUFFICES ASSUME NEW c \in DOMAIN codes, ~codes'[c].shared
                 PROVE  /\ codes'[c].uses <= 1
                        /\ codes'[c].uses > 0 => ~codes'[c].live
                        /\ \A q \in Handling("redeem", c)' : codes'[c].uses = 0
                        /\ \A q, r \in Handling("redeem", c)' : q = r
      BY DEF Redeeming, RowsKept
    <2>1. /\ codes'[c].uses = codes[c].uses
          /\ codes'[c].shared = codes[c].shared
          /\ codes'[c].live => codes[c].live
      BY DEF RowsKept
    <2>2. Handling("redeem", c)' \subseteq Handling("redeem", c)
      BY <1>2
    <2> QED
      BY <2>1, <2>2 DEF IInv, Redeeming
  <1> QED
    BY <1>1, <1>3, <1>4, <1>5 DEF IInv

LEMMA StopHolds ==
  ASSUME CodesAssumption, IInv, NEW r \in Requests,
         VerifyContact(r) \/ Stop(r)
  PROVE  IInv'
  <1>1. RowsKept
    BY DEF RowsKept, IInv, TypeOK, VerifyContact, Stop
  <1>2. Goto(r, Out) /\ UNCHANGED codes
    BY DEF VerifyContact, Stop
  <1>3. CallsKept
    BY <1>2, Moved, CallKinds DEF CallsKept, IInv, Out
  <1>4. verified' \in BOOLEAN
    BY Zenon DEF VerifyContact, Stop, IInv, TypeOK
  <1>5. crossed' = crossed
    BY DEF VerifyContact, Stop
  <1> QED
    BY <1>1, <1>3, <1>4, <1>5, Quiet

LEMMA ResetHolds ==
  ASSUME CodesAssumption, IInv, NEW r \in Requests, ResetPassword(r)
  PROVE  IInv'
  <1>1. PICK c \in DOMAIN codes : c = call[r].code
    BY CallFields DEF ResetPassword, IInv
  <1>2. codes[c] \in Code /\ [codes[c] EXCEPT !.resets = codes[c].resets + 1] \in Code
    BY CodesAreRows DEF IInv, Code
  <1>3. codes' = [codes EXCEPT ![c] =
                    [codes[c] EXCEPT !.resets = codes[c].resets + 1]]
    BY <1>1 DEF ResetPassword
  <1>4. RowsKept
    BY <1>2, <1>3, OneRow DEF RowsKept, IInv, Code
  <1>5. CallsKept
    BY <1>4, Moved, CallKinds DEF ResetPassword, CallsKept, RowsKept, IInv, Out
  <1> QED
    BY <1>4, <1>5, Quiet DEF ResetPassword, IInv, TypeOK

LEMMA ExhaustHolds ==
  ASSUME CodesAssumption, IInv, NEW r \in Requests, Exhaust(r)
  PROVE  IInv'
  <1>1. call[r].code \in DOMAIN codes
    BY CallFields DEF Exhaust, IInv
  <1>2. [codes[call[r].code] EXCEPT !.live = FALSE] \in Code
    BY <1>1, CodesAreRows DEF IInv, Code
  <1>3. codes' = [codes EXCEPT ![call[r].code] =
                    [codes[call[r].code] EXCEPT !.live = FALSE]]
    BY DEF Exhaust
  <1>4. RowsKept
    BY <1>1, <1>2, <1>3, OneRow, CodesAreRows DEF RowsKept, IInv, Code
  <1>5. CallsKept
    BY <1>4, Moved, CallKinds DEF Exhaust, CallsKept, RowsKept, IInv, Out
  <1> QED
    BY <1>4, <1>5, Quiet DEF Exhaust, IInv, TypeOK

LEMMA LapseHolds ==
  ASSUME CodesAssumption, IInv, NEW c \in DOMAIN codes, Lapse(c)
  PROVE  IInv'
  <1>1. [codes[c] EXCEPT !.lapsed = TRUE] \in Code
    BY CodesAreRows DEF IInv, Code
  <1>2. codes' = [codes EXCEPT ![c] = [codes[c] EXCEPT !.lapsed = TRUE]]
    BY DEF Lapse
  <1>3. RowsKept
    BY <1>1, <1>2, OneRow, CodesAreRows DEF RowsKept, IInv, Code
  <1>4. CallsKept
    BY <1>3 DEF Lapse, CallsKept, RowsKept, IInv, TypeOK, Calls
  <1> QED
    BY <1>3, <1>4, Quiet DEF Lapse, IInv, TypeOK

-------------------------------------------------------------------------------
(* Issuing *)

LEMMA IssueStartHolds ==
  ASSUME CodesAssumption, IInv, NEW r \in Requests, RequestReset(r)
  PROVE  IInv'
  <1> DEFINE p == "password_reset"
             j == [at |-> "issue", for |-> p, old |-> Unconsumed(p)]
  <1>1. p \in Purposes /\ j \in Calls
    BY CallKinds DEF Purposes, Unconsumed
  <1>2. /\ Goto(r, j)
        /\ UNCHANGED <<codes, verified>>
        /\ crossed' = (crossed \/ \E q \in Requests : call[q].at = "issue")
    BY DEF RequestReset, IssueStart
  <1> HIDE DEF j
  <1>3. /\ call' \in [Requests -> Calls']
        /\ call'[r] = j
        /\ \A q \in Requests \ {r} : call'[q] = call[q]
    BY <1>1, <1>2, Moved DEF IInv
  <1>4. j.at = "issue" /\ j.for = p /\ j.old = Unconsumed(p)
    BY DEF j
  <1>5. TypeOK'
    BY <1>2, <1>3, Zenon DEF IInv, TypeOK
  <1>6. \A step \in {"miss", "redeem"}, c \in DOMAIN codes :
          Handling(step, c)' \subseteq Handling(step, c)
    BY <1>3, <1>4 DEF Handling
  <1>7. AttemptsBounded'
    <2>1. ASSUME NEW c \in DOMAIN codes
          PROVE  Handling("miss", c)' = Handling("miss", c)
      BY <1>2, <1>3, <1>4 DEF Handling, RequestReset, IssueStart, Out
    <2> QED
      BY <1>2, <2>1 DEF IInv, AttemptsBounded
  <1>8. Superseding'
    <2>1. ~crossed' => ~crossed /\ \A q \in Requests : call[q].at # "issue"
      BY <1>2
    <2>2. \A q \in Purposes : Unconsumed(q)' = Unconsumed(q)
      BY <1>2 DEF Unconsumed
    <2> QED
      BY <1>1, <1>3, <1>4, <2>1, <2>2 DEF IInv, Superseding
  <1>9. Redeeming'
    BY <1>2, <1>6 DEF IInv, Redeeming
  <1> QED
    BY <1>5, <1>7, <1>8, <1>9 DEF IInv

LEMMA IssueCommitHolds ==
  ASSUME CodesAssumption, IInv, NEW r \in Requests, IssueCommit(r)
  PROVE  IInv'
  <1>1. PICK p \in Purposes, old \in SUBSET DOMAIN codes, n \in {Len(codes) + 1} :
          p = call[r].for /\ old = call[r].old
    BY CallFields DEF IssueCommit, IInv
  <1>2. /\ codes' \in Seq(Code)
        /\ DOMAIN codes' = DOMAIN codes \cup {n}
        /\ n \notin DOMAIN codes
        /\ codes'[n] = Fresh(p)
        /\ \A c \in DOMAIN codes :
             codes'[c] = [codes[c] EXCEPT !.live = codes[c].live /\ c \notin old]
    BY <1>1, Grown DEF IssueCommit, IInv
  <1>3. \A c \in DOMAIN codes :
          /\ codes'[c].for = codes[c].for
          /\ codes'[c].misses = codes[c].misses
          /\ codes'[c].uses = codes[c].uses
          /\ codes'[c].shared = codes[c].shared
          /\ codes'[c].live => codes[c].live /\ c \notin old
    <2> SUFFICES ASSUME NEW c \in DOMAIN codes
                 PROVE  /\ codes'[c].for = codes[c].for
                        /\ codes'[c].misses = codes[c].misses
                        /\ codes'[c].uses = codes[c].uses
                        /\ codes'[c].shared = codes[c].shared
                        /\ codes'[c].live => codes[c].live /\ c \notin old
      OBVIOUS
    <2>1. codes[c] \in Code
      BY CodesAreRows DEF IInv
    <2>2. codes'[c] = [codes[c] EXCEPT !.live = codes[c].live /\ c \notin old]
      BY <1>2
    <2> QED
      BY <2>1, <2>2 DEF Code
  <1>4. /\ call' \in [Requests -> Calls']
        /\ call'[r] = Out
        /\ \A q \in Requests \ {r} : call'[q] = call[q]
    BY <1>2, Moved, CallKinds DEF IssueCommit, IInv
  <1>5. TypeOK'
    BY <1>2, <1>4, Zenon DEF IssueCommit, IInv, TypeOK
  <1>6. \A step \in {"miss", "redeem"}, c \in DOMAIN codes' :
          Handling(step, c)' = Handling(step, c)
    BY <1>4 DEF Handling, Out, IssueCommit
  <1>7. \A step \in {"miss", "redeem"} : Handling(step, n) = {}
    BY <1>2, CallFields DEF Handling, IInv
  <1>8. AttemptsBounded'
    <2>1. ASSUME NEW c \in DOMAIN codes
          PROVE  codes'[c].misses + Cardinality(Handling("miss", c)')
                   < MaxAttempts + Cardinality(Requests)
      BY <1>2, <1>3, <1>6 DEF IInv, AttemptsBounded
    <2>2. codes'[n].misses + Cardinality(Handling("miss", n)')
            < MaxAttempts + Cardinality(Requests)
      <3>1. Cardinality(Handling("miss", n)') = 0
        BY <1>2, <1>6, <1>7, FS_EmptySet
      <3>2. Cardinality(Requests) \in Nat
        BY FS_CardinalityType DEF CodesAssumption
      <3> QED
        BY <1>2, <3>1, <3>2 DEF Fresh, CodesAssumption
    <2> QED
      BY <1>2, <2>1, <2>2 DEF AttemptsBounded
  <1>9. Superseding'
    <2> SUFFICES ASSUME ~crossed
                 PROVE  /\ \A q \in Requests : call'[q].at # "issue"
                        /\ \A q \in Purposes : \A c, d \in Unconsumed(q)' : c = d
      BY DEF Superseding, IssueCommit
    <2>1. \A q \in Requests : call'[q].at # "issue"
      BY <1>4 DEF IInv, Superseding, IssueCommit, Out
    <2>2. Unconsumed(p) \subseteq old
      BY <1>1 DEF IInv, Superseding, IssueCommit
    <2>3. Unconsumed(p)' \subseteq {n}
      BY <1>2, <1>3, <2>2 DEF Unconsumed
    <2>4. ASSUME NEW q \in Purposes, q # p
          PROVE  Unconsumed(q)' \subseteq Unconsumed(q)
      BY <1>2, <1>3, <2>4 DEF Unconsumed, Fresh
    <2>5. \A q \in Purposes : \A c, d \in Unconsumed(q) : c = d
      BY DEF IInv, Superseding
    <2>6. ASSUME NEW q \in Purposes, NEW c \in Unconsumed(q)', NEW d \in Unconsumed(q)'
          PROVE  c = d
      <3>1. CASE q = p
        BY <2>3, <2>6, <3>1
      <3>2. CASE q # p
        BY <2>4, <2>5, <2>6, <3>2
      <3> QED
        BY <3>1, <3>2
    <2> QED
      BY <2>1, <2>6
  <1>10. Redeeming'
    <2>1. ASSUME NEW c \in DOMAIN codes, ~codes'[c].shared
          PROVE  /\ codes'[c].uses <= 1
                 /\ codes'[c].uses > 0 => ~codes'[c].live
                 /\ \A q \in Handling("redeem", c)' : codes'[c].uses = 0
                 /\ \A q, s \in Handling("redeem", c)' : q = s
      <3>1. ~codes[c].shared /\ Handling("redeem", c)' = Handling("redeem", c)
        BY <1>2, <1>3, <1>6, <2>1
      <3> QED
        BY <1>3, <3>1 DEF IInv, Redeeming
    <2>2. Handling("redeem", n)' = {} /\ codes'[n].uses = 0
      BY <1>2, <1>6, <1>7 DEF Fresh
    <2> QED
      BY <1>2, <2>1, <2>2 DEF Redeeming
  <1> QED
    BY <1>5, <1>8, <1>9, <1>10 DEF IInv

-------------------------------------------------------------------------------
(* Verifying *)

LEMMA MissHolds ==
  ASSUME CodesAssumption, IInv, NEW r \in Requests, Miss(r)
  PROVE  IInv'
  <1>1. PICK c \in DOMAIN codes : c = call[r].code
    BY CallFields DEF Miss, IInv
  <1>2. codes[c] \in Code /\ [codes[c] EXCEPT !.misses = codes[c].misses + 1] \in Code
    BY CodesAreRows DEF IInv, Code
  <1>3. codes' = [codes EXCEPT ![c] =
                    [codes[c] EXCEPT !.misses = codes[c].misses + 1]]
    BY <1>1 DEF Miss
  <1>4. /\ codes' \in Seq(Code)
        /\ DOMAIN codes' = DOMAIN codes
        /\ codes'[c] = [codes[c] EXCEPT !.misses = codes[c].misses + 1]
        /\ \A d \in DOMAIN codes : d # c => codes'[d] = codes[d]
    BY <1>2, <1>3, OneRow DEF IInv
  <1>5. \A d \in DOMAIN codes :
          /\ codes'[d].for = codes[d].for
          /\ codes'[d].live = codes[d].live
          /\ codes'[d].uses = codes[d].uses
          /\ codes'[d].shared = codes[d].shared
    BY <1>2, <1>4 DEF Code
  <1>6. codes'[c].misses = codes[c].misses + 1
    BY <1>2, <1>4 DEF Code
  <1>7. /\ call' \in [Requests -> Calls']
        /\ call'[r] = Out
        /\ \A q \in Requests \ {r} : call'[q] = call[q]
    BY <1>4, Moved, CallKinds DEF Miss, IInv
  <1>8. TypeOK'
    BY <1>4, <1>7, Zenon DEF Miss, IInv, TypeOK
  <1>9. AttemptsBounded'
    <2>1. Handling("miss", c)' = Handling("miss", c) \ {r} /\ r \in Handling("miss", c)
      BY <1>1, <1>7 DEF Handling, Miss, Out
    <2>2. /\ Cardinality(Handling("miss", c)') = Cardinality(Handling("miss", c)) - 1
          /\ Cardinality(Handling("miss", c)) \in Nat
      <3>1. Handling("miss", c) \in SUBSET Requests
        BY DEF Handling
      <3> QED
        BY <2>1, <3>1, HandlingIsFinite, FS_RemoveElement
    <2>3. codes'[c].misses + Cardinality(Handling("miss", c)')
            < MaxAttempts + Cardinality(Requests)
      <3>1. codes[c].misses \in Nat
        BY <1>2 DEF Code
      <3>2. codes[c].misses + Cardinality(Handling("miss", c))
              < MaxAttempts + Cardinality(Requests)
        BY DEF IInv, AttemptsBounded
      <3>3. codes'[c].misses + Cardinality(Handling("miss", c)')
              = codes[c].misses + Cardinality(Handling("miss", c))
        BY <1>6, <2>2, <3>1
      <3> QED
        BY <3>2, <3>3
    <2>4. ASSUME NEW d \in DOMAIN codes, d # c
          PROVE  Handling("miss", d)' = Handling("miss", d) /\ codes'[d] = codes[d]
      BY <1>1, <1>4, <1>7, <2>4 DEF Handling, Miss, Out
    <2> QED
      BY <1>4, <2>3, <2>4 DEF IInv, AttemptsBounded
  <1>10. Superseding'
    <2>1. \A p \in Purposes : Unconsumed(p)' = Unconsumed(p)
      BY <1>4, <1>5 DEF Unconsumed
    <2>2. \A q \in Requests : call[q].at = "issue" => call[q].for \in Purposes
      BY CallFields DEF IInv
    <2> QED
      BY <1>7, <2>1, <2>2 DEF IInv, Superseding, Miss, Out
  <1>11. Redeeming'
    <2>1. \A d \in DOMAIN codes : Handling("redeem", d)' = Handling("redeem", d)
      BY <1>7 DEF Handling, Miss, Out
    <2> QED
      BY <1>4, <1>5, <2>1 DEF IInv, Redeeming
  <1> QED
    BY <1>8, <1>9, <1>10, <1>11 DEF IInv

LEMMA RedeemHolds ==
  ASSUME CodesAssumption, IInv, NEW r \in Requests, Redeem(r)
  PROVE  IInv'
  <1>1. PICK c \in DOMAIN codes, p \in Purposes :
          c = call[r].code /\ p = call[r].for
    BY CallFields DEF Redeem, IInv
  <1> DEFINE row == [codes[c] EXCEPT !.live = FALSE, !.uses = codes[c].uses + 1]
  <1>2. codes[c] \in Code /\ row \in Code
    <2>1. codes[c] \in Code
      BY CodesAreRows DEF IInv
    <2>2. codes[c].uses + 1 \in Nat
      BY <2>1 DEF Code
    <2>3. \A n \in Nat : [codes[c] EXCEPT !.live = FALSE, !.uses = n] \in Code
      BY <2>1 DEF Code
    <2> QED
      BY <2>1, <2>2, <2>3
  <1>3. codes' = [codes EXCEPT ![c] = row]
    BY <1>1, <1>2, CodesAreRows DEF Redeem, IInv, Code
  <1>4. /\ codes' \in Seq(Code)
        /\ DOMAIN codes' = DOMAIN codes
        /\ codes'[c] = row
        /\ \A d \in DOMAIN codes : d # c => codes'[d] = codes[d]
    BY <1>2, <1>3, OneRow DEF IInv
  <1>5. /\ codes'[c].for = codes[c].for
        /\ ~codes'[c].live
        /\ codes'[c].uses = codes[c].uses + 1
        /\ codes'[c].misses = codes[c].misses
        /\ codes'[c].shared = codes[c].shared
    BY <1>2, <1>4 DEF Code
  <1> HIDE DEF row
  <1>6. [at |-> "passed", code |-> c, for |-> p].at = "passed"
    OBVIOUS
  <1>7. /\ call' \in [Requests -> Calls']
        /\ call'[r] = [at |-> "passed", code |-> c, for |-> p]
        /\ \A q \in Requests \ {r} : call'[q] = call[q]
    BY <1>1, <1>4, Moved, CallKinds DEF Redeem, IInv
  <1>8. TypeOK'
    BY <1>4, <1>7, Zenon DEF Redeem, IInv, TypeOK
  <1>9. AttemptsBounded'
    <2>1. ASSUME NEW d \in DOMAIN codes
          PROVE  /\ Handling("miss", d)' = Handling("miss", d)
                 /\ codes'[d].misses = codes[d].misses
      <3>1. Handling("miss", d)' = Handling("miss", d)
        BY <1>6, <1>7 DEF Handling, Redeem
      <3>2. codes'[d].misses = codes[d].misses
        BY <1>4, <1>5
      <3> QED
        BY <3>1, <3>2
    <2> QED
      BY <1>4, <2>1 DEF IInv, AttemptsBounded
  <1>10. Superseding'
    <2>1. \A q \in Purposes : Unconsumed(q)' \subseteq Unconsumed(q)
      BY <1>4, <1>5 DEF Unconsumed
    <2>2. \A q \in Requests : call[q].at = "issue" => call[q].for \in Purposes
      BY CallFields DEF IInv
    <2>3. crossed' = crossed
      BY DEF Redeem
    <2>4. \A q \in Requests : call'[q].at = "issue" => call'[q] = call[q]
      BY <1>6, <1>7
    <2> QED
      BY <2>1, <2>2, <2>3, <2>4 DEF IInv, Superseding
  <1>11. Redeeming'
    <2>1. r \in Handling("redeem", c)
      BY <1>1 DEF Handling, Redeem
    <2>2. Handling("redeem", c)' = Handling("redeem", c) \ {r}
      BY <1>6, <1>7 DEF Handling
    <2>3. ASSUME ~codes[c].shared
          PROVE  codes'[c].uses = 1 /\ Handling("redeem", c)' = {}
      BY <1>5, <2>1, <2>2, <2>3 DEF IInv, Redeeming
    <2>4. ASSUME NEW d \in DOMAIN codes, d # c
          PROVE  codes'[d] = codes[d] /\ Handling("redeem", d)' = Handling("redeem", d)
      <3>1. codes'[d] = codes[d]
        BY <1>4, <2>4
      <3>2. r \notin Handling("redeem", d) /\ r \notin Handling("redeem", d)'
        BY <1>1, <1>6, <1>7, <2>4 DEF Handling
      <3>3. \A q \in Requests \ {r} :
              q \in Handling("redeem", d)' <=> q \in Handling("redeem", d)
        BY <1>7 DEF Handling
      <3> QED
        BY <3>1, <3>2, <3>3 DEF Handling
    <2> SUFFICES ASSUME NEW d \in DOMAIN codes, ~codes'[d].shared
                 PROVE  /\ codes'[d].uses <= 1
                        /\ codes'[d].uses > 0 => ~codes'[d].live
                        /\ \A q \in Handling("redeem", d)' : codes'[d].uses = 0
                        /\ \A q, s \in Handling("redeem", d)' : q = s
      BY <1>4 DEF Redeeming
    <2>5. CASE d = c
      BY <1>5, <2>3, <2>5
    <2>6. CASE d # c
      BY <2>4, <2>6 DEF IInv, Redeeming
    <2> QED
      BY <2>5, <2>6
  <1> QED
    BY <1>8, <1>9, <1>10, <1>11 DEF IInv

LEMMA LookHolds ==
  ASSUME CodesAssumption, IInv,
         NEW r \in Requests, NEW p \in Purposes, NEW right \in BOOLEAN,
         Look(r, p, right)
  PROVE  IInv'
  <1>1. PICK c \in DOMAIN codes :
          /\ codes[c].for = p /\ codes[c].live
          /\ Verdict(p, c, right) # Out
          /\ Goto(r, Verdict(p, c, right))
          /\ codes' = [codes EXCEPT ![c].shared =
                         codes[c].shared \/ (Verdict(p, c, right).at = "redeem"
                                             /\ Handling("redeem", c) # {})]
    BY DEF Look, IsLatest, Unconsumed
  <1>2. PICK j \in Calls : j = Verdict(p, c, right)
    BY CallKinds DEF Verdict
  <1>3. /\ j.at \in {"miss", "exhaust", "redeem"} /\ j.code = c
        /\ j.at = "miss" => ~(codes[c].misses >= MaxAttempts)
    BY <1>1, <1>2 DEF Verdict
  <1>4. PICK s \in BOOLEAN :
          s = (codes[c].shared \/ (j.at = "redeem" /\ Handling("redeem", c) # {}))
    BY Zenon
  <1>5. codes[c] \in Code /\ [codes[c] EXCEPT !.shared = s] \in Code
    BY CodesAreRows DEF IInv, Code
  <1>6. codes' = [codes EXCEPT ![c] = [codes[c] EXCEPT !.shared = s]]
    BY <1>1, <1>2, <1>4
  <1>7. /\ codes' \in Seq(Code)
        /\ DOMAIN codes' = DOMAIN codes
        /\ codes'[c] = [codes[c] EXCEPT !.shared = s]
        /\ \A d \in DOMAIN codes : d # c => codes'[d] = codes[d]
    BY <1>5, <1>6, OneRow DEF IInv
  <1>8. /\ \A d \in DOMAIN codes :
             /\ codes'[d].for = codes[d].for
             /\ codes'[d].live = codes[d].live
             /\ codes'[d].uses = codes[d].uses
             /\ codes'[d].misses = codes[d].misses
        /\ codes'[c].shared = s
    BY <1>5, <1>7 DEF Code
  <1>9. /\ call' \in [Requests -> Calls']
        /\ call'[r] = j
        /\ \A q \in Requests \ {r} : call'[q] = call[q]
    BY <1>1, <1>2, <1>7, Moved DEF IInv
  <1>10. call[r].at = "out"
    BY DEF Look, Out
  <1>11. TypeOK'
    BY <1>7, <1>9, Zenon DEF Look, IInv, TypeOK
  <1>12. AttemptsBounded'
    <2> SUFFICES ASSUME NEW d \in DOMAIN codes
                 PROVE  codes[d].misses + Cardinality(Handling("miss", d)')
                          < MaxAttempts + Cardinality(Requests)
      BY <1>7, <1>8 DEF AttemptsBounded
    <2>1. CASE d = c /\ j.at = "miss"
      <3>1. Handling("miss", d)' \in SUBSET Requests
        BY DEF Handling
      <3>2. codes[c].misses \in Nat /\ ~(codes[c].misses >= MaxAttempts)
        BY <1>3, <1>5, <2>1 DEF Code
      <3> QED
        BY <2>1, <3>1, <3>2, HandlingIsFinite DEF CodesAssumption
    <2>2. CASE ~(d = c /\ j.at = "miss")
      <3>1. Handling("miss", d)' = Handling("miss", d)
        BY <1>3, <1>9, <1>10, <2>2 DEF Handling
      <3> QED
        BY <3>1 DEF IInv, AttemptsBounded
    <2> QED
      BY <2>1, <2>2
  <1>13. Superseding'
    <2>1. \A q \in Purposes : Unconsumed(q)' = Unconsumed(q)
      BY <1>7, <1>8 DEF Unconsumed
    <2>2. \A q \in Requests : call[q].at = "issue" => call[q].for \in Purposes
      BY CallFields DEF IInv
    <2>3. crossed' = crossed
      BY DEF Look
    <2>4. \A q \in Requests : call'[q].at = "issue" => call'[q] = call[q]
      BY <1>3, <1>9
    <2> QED
      BY <2>1, <2>2, <2>3, <2>4 DEF IInv, Superseding
  <1>14. Redeeming'
    <2> SUFFICES ASSUME NEW d \in DOMAIN codes, ~codes'[d].shared
                 PROVE  /\ codes'[d].uses <= 1
                        /\ codes'[d].uses > 0 => ~codes'[d].live
                        /\ \A q \in Handling("redeem", d)' : codes'[d].uses = 0
                        /\ \A q, t \in Handling("redeem", d)' : q = t
      BY <1>7 DEF Redeeming
    <2>1. CASE d = c /\ j.at = "redeem"
      <3>1. ~codes[c].shared /\ Handling("redeem", c) = {}
        BY <1>4, <1>8, <2>1
      <3>2. codes[c].uses = 0
        BY <1>1, <1>5, <3>1 DEF IInv, Redeeming, Code
      <3>3. Handling("redeem", c)' \subseteq {r}
        BY <1>9, <3>1 DEF Handling
      <3> QED
        BY <1>8, <2>1, <3>2, <3>3
    <2>2. CASE ~(d = c /\ j.at = "redeem")
      <3>1. Handling("redeem", d)' = Handling("redeem", d)
        BY <1>3, <1>9, <1>10, <2>2 DEF Handling
      <3>2. ~codes[d].shared
        BY <1>4, <1>7, <1>8
      <3> QED
        BY <1>8, <3>1, <3>2 DEF IInv, Redeeming
    <2> QED
      BY <2>1, <2>2
  <1> QED
    BY <1>11, <1>12, <1>13, <1>14 DEF IInv

-------------------------------------------------------------------------------
(* Theorems *)

LEMMA InitHolds == CodesAssumption /\ Init => IInv
  <1> SUFFICES ASSUME CodesAssumption, Init PROVE IInv
    OBVIOUS
  <1>1. Fresh("email_verification") \in Code
    BY DEF Fresh, Code, Purposes
  <1>2. codes \in Seq(Code) /\ DOMAIN codes \subseteq {1}
        /\ \A c \in DOMAIN codes : codes[c] = Fresh("email_verification")
    <2>1. PICK f \in Code :
            f = Fresh("email_verification") /\ codes \in {<<>>, <<f>>}
      BY <1>1 DEF Init
    <2>2. codes \in Seq(Code)
      <3>1. <<>> \in Seq(Code) /\ <<f>> \in Seq(Code)
        OBVIOUS
      <3> QED
        BY <2>1, <3>1, Zenon
    <2>3. CASE codes = <<>>
      <3>1. DOMAIN <<>> = {}
        OBVIOUS
      <3> QED
        BY <2>2, <2>3, <3>1
    <2>4. CASE codes = <<f>>
      <3>1. DOMAIN <<f>> = {1} /\ <<f>>[1] = f
        OBVIOUS
      <3> QED
        BY <2>1, <2>2, <2>4, <3>1
    <2> QED
      BY <2>1, <2>3, <2>4
  <1>3. TypeOK
    BY <1>2, CallKinds, Zenon DEF Init, TypeOK
  <1>4. \A r \in Requests : call[r].at = "out"
    BY DEF Init, Out
  <1>5. AttemptsBounded
    <2>1. \A c \in DOMAIN codes : Handling("miss", c) = {}
      BY <1>4 DEF Handling
    <2>2. Cardinality(Requests) \in Nat
      BY FS_CardinalityType DEF CodesAssumption
    <2>3. \A c \in DOMAIN codes :
            codes[c].misses = 0 /\ Cardinality(Handling("miss", c)) = 0
      <3>1. \A c \in DOMAIN codes : codes[c].misses = 0
        BY <1>2 DEF Fresh
      <3>2. \A c \in DOMAIN codes : Cardinality(Handling("miss", c)) = 0
        BY <2>1, FS_EmptySet, Zenon
      <3> QED
        BY <3>1, <3>2
    <2>4. \A m \in {0}, n \in {0} : m + n < MaxAttempts + Cardinality(Requests)
      BY <2>2 DEF CodesAssumption
    <2> QED
      BY <2>3, <2>4 DEF AttemptsBounded
  <1>6. Superseding
    BY <1>2, <1>4 DEF Superseding, Unconsumed
  <1>7. Redeeming
    BY <1>2, <1>4 DEF Redeeming, Handling, Fresh
  <1> QED
    BY <1>3, <1>5, <1>6, <1>7 DEF IInv

LEMMA NextHolds ==
  ASSUME CodesAssumption, IInv, [Next]_vars
  PROVE  IInv'
  <1>1. CASE Next
    BY <1>1, IssueStartHolds, IssueCommitHolds, LookHolds, MissHolds,
       ExhaustHolds, RedeemHolds, StopHolds, ResetHolds, LapseHolds DEF Next
  <1>2. CASE UNCHANGED vars
    BY <1>2
    DEF vars, IInv, TypeOK, AttemptsBounded, Superseding, Redeeming,
        Unconsumed, Handling, Calls
  <1> QED
    BY <1>1, <1>2

\* The strengthened invariant: what issue has seen while it is under way, and
\* who is redeeming what (otp.service.ts:43-114).
THEOREM CodesHold == Spec => []IInv
  BY InitHolds, NextHolds, CodesAssumption, PTL DEF Spec

\* The codes and the requests keep their types.
THEOREM TypeCorrect == Spec => []TypeOK
  <1>1. IInv => TypeOK
    BY DEF IInv
  <1> QED
    BY <1>1, CodesHold, PTL

\* However many requests guess at once, a code is guessed wrong fewer times
\* than the cap and the requests together (otp.service.ts:94-108).
THEOREM AttemptsBoundedHolds == Spec => []AttemptsBounded
  <1>1. IInv => AttemptsBounded
    BY DEF IInv
  <1> QED
    BY <1>1, CodesHold, PTL

\* Codes issued one after the other leave one live code of each purpose
\* (otp.service.ts:53-63).
THEOREM OneLiveCodeHolds == Spec => []OneLiveCode
  <1>1. IInv => OneLiveCode
    <2> SUFFICES ASSUME IInv, ~crossed, NEW p \in Purposes
                 PROVE  Cardinality(Unconsumed(p)) <= 1
      BY DEF OneLiveCode
    <2>1. \A c, d \in Unconsumed(p) : c = d
      BY DEF IInv, Superseding
    <2>2. Unconsumed(p) = {} \/ \E c : Unconsumed(p) = {c}
      BY <2>1
    <2>3. CASE Unconsumed(p) = {}
      <3>1. Cardinality(Unconsumed(p)) = 0
        BY <2>3, FS_EmptySet
      <3> QED
        BY <3>1
    <2>4. CASE \E c : Unconsumed(p) = {c}
      <3>1. Cardinality(Unconsumed(p)) = 1
        BY <2>4, FS_Singleton
      <3> QED
        BY <3>1
    <2> QED
      BY <2>2, <2>3, <2>4
  <1> QED
    BY <1>1, CodesHold, PTL

\* A code is redeemed once, unless two requests were redeeming it together
\* (otp.service.ts:82-86, 110-113).
THEOREM RedeemedOnceHolds == Spec => []RedeemedOnce
  <1>1. IInv => RedeemedOnce
    BY DEF IInv, Redeeming, RedeemedOnce
  <1> QED
    BY <1>1, CodesHold, PTL

-------------------------------------------------------------------------------
(* What a code was redeemed for *)

\* Every request that got past a code redeemed it, for what the code is for,
\* and has not reset the password with it yet.
Serving ==
  /\ \A c \in DOMAIN codes :
       /\ codes[c].resets + Cardinality(Handling("passed", c)) <= codes[c].uses
       /\ codes[c].resets > 0 => codes[c].for = "password_reset"
  /\ \A r \in Requests :
       call[r].at \in {"redeem", "passed"} => call[r].for = codes[call[r].code].for
  /\ verified =>
       \E c \in DOMAIN codes :
         codes[c].for = "email_verification" /\ codes[c].uses > 0

LEMMA PassedIsCounted ==
  ASSUME CodesAssumption, IInv, Serving, NEW c \in DOMAIN codes
  PROVE  /\ codes[c].uses \in Nat /\ codes[c].resets \in Nat
         /\ IsFiniteSet(Handling("passed", c))
         /\ \A S \in SUBSET Handling("passed", c) :
              /\ Cardinality(S) \in Nat
              /\ Cardinality(S) <= Cardinality(Handling("passed", c))
         /\ codes[c].resets + Cardinality(Handling("passed", c)) <= codes[c].uses
  <1>1. Handling("passed", c) \in SUBSET Requests
    BY DEF Handling
  <1>2. IsFiniteSet(Handling("passed", c))
    BY <1>1, HandlingIsFinite
  <1> QED
    BY <1>2, CodesAreRows, FS_Subset, FS_CardinalityType DEF IInv, Code, Serving

\* A step that redeems nothing and resets nothing.
LEMMA ServingKept ==
  ASSUME CodesAssumption, IInv, Serving,
         DOMAIN codes \subseteq DOMAIN codes',
         \A c \in DOMAIN codes :
           /\ codes'[c].for = codes[c].for
           /\ codes'[c].uses = codes[c].uses
           /\ codes'[c].resets = codes[c].resets,
         \A c \in DOMAIN codes' \ DOMAIN codes :
           codes'[c].uses = 0 /\ codes'[c].resets = 0,
         \A q \in Requests :
           \/ call'[q] = call[q]
           \/ call'[q].at \notin {"redeem", "passed"}
           \/ /\ call'[q].at = "redeem"
              /\ call'[q].code \in DOMAIN codes
              /\ call'[q].for = codes[call'[q].code].for,
         verified' = verified
  PROVE  Serving'
  <1>1. \A q \in Requests : call[q].at \in {"redeem", "passed"} =>
          call[q].code \in DOMAIN codes
    BY CallFields DEF IInv
  <1>2. ASSUME NEW c \in DOMAIN codes
        PROVE  /\ codes'[c].resets + Cardinality(Handling("passed", c)') <= codes'[c].uses
               /\ codes'[c].resets > 0 => codes'[c].for = "password_reset"
    <2>1. Handling("passed", c)' \in SUBSET Handling("passed", c)
      BY DEF Handling
    <2>2. /\ codes'[c].resets = codes[c].resets
          /\ codes'[c].uses = codes[c].uses
          /\ codes'[c].for = codes[c].for
      OBVIOUS
    <2>3. codes[c].resets > 0 => codes[c].for = "password_reset"
      BY DEF Serving
    <2> QED
      BY <2>1, <2>2, <2>3, PassedIsCounted, FS_CardinalityType
  <1>3. ASSUME NEW c \in DOMAIN codes' \ DOMAIN codes
        PROVE  codes'[c].resets + Cardinality(Handling("passed", c)') <= codes'[c].uses
    <2>1. Handling("passed", c)' = {}
      BY <1>1 DEF Handling
    <2>2. Cardinality(Handling("passed", c)') = 0
      BY <2>1, FS_EmptySet
    <2> QED
      BY <2>2
  <1>4. \A q \in Requests : call'[q].at \in {"redeem", "passed"} =>
          call'[q].for = codes'[call'[q].code].for
    BY <1>1 DEF Serving
  <1>5. verified' => \E c \in DOMAIN codes' :
                       codes'[c].for = "email_verification" /\ codes'[c].uses > 0
    BY DEF Serving
  <1>6. \A c \in DOMAIN codes' \ DOMAIN codes : ~(codes'[c].resets > 0)
    OBVIOUS
  <1> QED
    BY <1>2, <1>3, <1>4, <1>5, <1>6 DEF Serving

LEMMA IssueServes ==
  ASSUME CodesAssumption, IInv, Serving, NEW r \in Requests,
         RequestReset(r) \/ IssueCommit(r)
  PROVE  Serving'
  <1>1. CASE RequestReset(r)
    <2>1. /\ UNCHANGED <<codes, verified>>
          /\ \A q \in Requests :
               call'[q] = call[q] \/ call'[q].at \notin {"redeem", "passed"}
      BY <1>1 DEF RequestReset, IssueStart, Goto, IInv, TypeOK
    <2> QED
      BY <2>1, ServingKept
  <1>2. CASE IssueCommit(r)
    <2>1. PICK p \in Purposes, old \in SUBSET DOMAIN codes, n \in {Len(codes) + 1} :
            p = call[r].for /\ old = call[r].old
      BY <1>2, CallFields DEF IssueCommit, IInv
    <2>2. /\ DOMAIN codes' = DOMAIN codes \cup {n}
          /\ n \notin DOMAIN codes
          /\ codes'[n] = Fresh(p)
          /\ \A c \in DOMAIN codes :
               codes'[c] = [codes[c] EXCEPT !.live = codes[c].live /\ c \notin old]
      BY <1>2, <2>1, Grown DEF IssueCommit, IInv
    <2>3. ASSUME NEW c \in DOMAIN codes
          PROVE  /\ codes'[c].for = codes[c].for
                 /\ codes'[c].uses = codes[c].uses
                 /\ codes'[c].resets = codes[c].resets
      <3>1. codes[c] \in Code
        BY CodesAreRows DEF IInv
      <3>2. codes'[c] = [codes[c] EXCEPT !.live = codes[c].live /\ c \notin old]
        BY <2>2
      <3> QED
        BY <3>1, <3>2 DEF Code
    <2>4. codes'[n].uses = 0 /\ codes'[n].resets = 0
      BY <2>2 DEF Fresh
    <2>5. \A q \in Requests :
            call'[q] = call[q] \/ call'[q].at \notin {"redeem", "passed"}
      BY <1>2 DEF IssueCommit, Goto, Out, IInv, TypeOK
    <2>6. verified' = verified
      BY <1>2 DEF IssueCommit
    <2> QED
      BY <2>2, <2>3, <2>4, <2>5, <2>6, ServingKept
  <1> QED
    BY <1>1, <1>2

LEMMA LookServes ==
  ASSUME CodesAssumption, IInv, Serving,
         NEW r \in Requests, NEW p \in Purposes, NEW right \in BOOLEAN,
         Look(r, p, right)
  PROVE  Serving'
  <1>1. PICK c \in DOMAIN codes :
          /\ codes[c].for = p
          /\ Verdict(p, c, right) # Out
          /\ Goto(r, Verdict(p, c, right))
          /\ \E s : codes' = [codes EXCEPT ![c].shared = s]
    BY DEF Look, IsLatest, Unconsumed
  <1>2. PICK j \in Calls : j = Verdict(p, c, right)
    BY CallKinds DEF Verdict
  <1>3. /\ j.at \in {"miss", "exhaust", "redeem"} /\ j.code = c
        /\ j.at = "redeem" => j.for = p
    BY <1>1, <1>2 DEF Verdict
  <1>4. /\ DOMAIN codes' = DOMAIN codes
        /\ \A d \in DOMAIN codes :
             /\ codes'[d].for = codes[d].for
             /\ codes'[d].uses = codes[d].uses
             /\ codes'[d].resets = codes[d].resets
    BY <1>1, CodesAreRows DEF IInv, Code
  <1>5. \A q \in Requests : call'[q] = call[q] \/ call'[q] = j
    BY <1>1, <1>2 DEF Goto, IInv, TypeOK
  <1>6. verified' = verified
    BY DEF Look
  <1> QED
    BY <1>1, <1>3, <1>4, <1>5, <1>6, ServingKept

\* A wrong guess, the end of a code and a request that stops.
LEMMA RestServes ==
  ASSUME CodesAssumption, IInv, Serving,
         \/ \E r \in Requests : Miss(r) \/ Exhaust(r) \/ Stop(r)
         \/ \E c \in DOMAIN codes : Lapse(c)
         \/ UNCHANGED vars
  PROVE  Serving'
  <1>1. \/ \E c \in DOMAIN codes : \E x : codes' \in
             {codes, [codes EXCEPT ![c].misses = x], [codes EXCEPT ![c].live = x],
              [codes EXCEPT ![c].lapsed = x]}
        \/ codes' = codes
    BY CallFields DEF IInv, Miss, Exhaust, Stop, Lapse, vars
  <1>2. /\ DOMAIN codes' = DOMAIN codes
        /\ \A d \in DOMAIN codes :
             /\ codes'[d].for = codes[d].for
             /\ codes'[d].uses = codes[d].uses
             /\ codes'[d].resets = codes[d].resets
    <2>1. CASE codes' = codes
      BY <2>1
    <2>2. ASSUME NEW c \in DOMAIN codes, NEW x,
                 codes' \in {codes, [codes EXCEPT ![c].misses = x],
                            [codes EXCEPT ![c].live = x],
                            [codes EXCEPT ![c].lapsed = x]}
          PROVE  /\ DOMAIN codes' = DOMAIN codes
                 /\ \A d \in DOMAIN codes :
                      /\ codes'[d].for = codes[d].for
                      /\ codes'[d].uses = codes[d].uses
                      /\ codes'[d].resets = codes[d].resets
      <3>1. DOMAIN codes' = DOMAIN codes
        BY <2>2
      <3>2. ASSUME NEW d \in DOMAIN codes
            PROVE  /\ codes'[d].for = codes[d].for
                   /\ codes'[d].uses = codes[d].uses
                   /\ codes'[d].resets = codes[d].resets
        <4>1. codes[d] \in Code
          BY CodesAreRows DEF IInv
        <4>2. codes'[d] \in {codes[d], [codes[d] EXCEPT !.misses = x],
                            [codes[d] EXCEPT !.live = x],
                            [codes[d] EXCEPT !.lapsed = x]}
          BY <2>2
        <4> QED
          BY <4>1, <4>2 DEF Code
      <3> QED
        BY <3>1, <3>2
    <2> QED
      BY <1>1, <2>1, <2>2
  <1>3. \A q \in Requests : call'[q] = call[q] \/ call'[q] = Out
    BY DEF IInv, TypeOK, Miss, Exhaust, Stop, Lapse, Goto, vars
  <1>4. verified' = verified
    BY DEF Miss, Exhaust, Stop, Lapse, vars
  <1> QED
    BY <1>2, <1>3, <1>4, ServingKept DEF Out

\* Redeeming makes one more use and one more request past the code.
LEMMA RedeemServes ==
  ASSUME CodesAssumption, IInv, Serving, NEW r \in Requests, Redeem(r)
  PROVE  Serving'
  <1>1. PICK c \in DOMAIN codes, p \in Purposes :
          c = call[r].code /\ p = call[r].for
    BY CallFields DEF Redeem, IInv
  <1>2. codes[c].for = p
    BY <1>1 DEF Serving, Redeem
  <1>3. /\ DOMAIN codes' = DOMAIN codes
        /\ \A d \in DOMAIN codes :
             /\ codes'[d].for = codes[d].for
             /\ codes'[d].resets = codes[d].resets
             /\ d # c => codes'[d].uses = codes[d].uses
        /\ codes'[c].uses = codes[c].uses + 1
    BY <1>1, CodesAreRows DEF IInv, Code, Redeem
  <1>4. /\ call'[r] = [at |-> "passed", code |-> c, for |-> p]
        /\ \A q \in Requests \ {r} : call'[q] = call[q]
    BY <1>1 DEF Redeem, Goto, IInv, TypeOK
  <1>5. ASSUME NEW d \in DOMAIN codes
        PROVE  codes'[d].resets + Cardinality(Handling("passed", d)') <= codes'[d].uses
    <2>1. r \notin Handling("passed", d)
      BY DEF Handling, Redeem
    <2>2. Handling("passed", d)'
            = IF d = c THEN Handling("passed", d) \cup {r} ELSE Handling("passed", d)
      BY <1>4, <2>1 DEF Handling
    <2>3. IF d = c
          THEN Cardinality(Handling("passed", d)') = Cardinality(Handling("passed", d)) + 1
          ELSE Cardinality(Handling("passed", d)') = Cardinality(Handling("passed", d))
      BY <2>1, <2>2, PassedIsCounted, FS_AddElement
    <2> QED
      BY <1>3, <2>3, PassedIsCounted, FS_CardinalityType
  <1>6. \A q \in Requests : call'[q].at \in {"redeem", "passed"} =>
          call'[q].for = codes'[call'[q].code].for
    BY <1>2, <1>3, <1>4, CallFields DEF Serving, IInv
  <1>7. \A d \in DOMAIN codes : codes[d].uses > 0 => codes'[d].uses > 0
    BY <1>3, PassedIsCounted
  <1>8. verified' => \E d \in DOMAIN codes' :
                       codes'[d].for = "email_verification" /\ codes'[d].uses > 0
    <2>1. verified' = verified
      BY DEF Redeem
    <2>2. ASSUME verified
          PROVE  \E d \in DOMAIN codes' :
                   codes'[d].for = "email_verification" /\ codes'[d].uses > 0
      <3>1. PICK d \in DOMAIN codes : codes[d].for = "email_verification" /\ codes[d].uses > 0
        BY <2>2 DEF Serving
      <3> QED
        BY <1>3, <1>7, <3>1
    <2> QED
      BY <2>1, <2>2, Zenon
  <1> QED
    BY <1>3, <1>5, <1>6, <1>8 DEF Serving

\* A request that is past a code is counted among its uses, until it has done
\* what the code is for.
LEMMA PassedServes ==
  ASSUME CodesAssumption, IInv, Serving, NEW r \in Requests,
         VerifyContact(r) \/ ResetPassword(r)
  PROVE  Serving'
  <1>1. PICK c \in DOMAIN codes : c = call[r].code
    BY CallFields DEF IInv, VerifyContact, ResetPassword
  <1>2. r \in Handling("passed", c) /\ codes[c].for = call[r].for
    BY <1>1 DEF Handling, Serving, VerifyContact, ResetPassword
  <1>3. /\ call'[r] = Out
        /\ \A q \in Requests \ {r} : call'[q] = call[q]
    BY DEF VerifyContact, ResetPassword, Goto, IInv, TypeOK
  <1>4. /\ Cardinality(Handling("passed", c)') = Cardinality(Handling("passed", c)) - 1
        /\ Cardinality(Handling("passed", c)) \in Nat \ {0}
        /\ \A d \in DOMAIN codes : d # c =>
             Handling("passed", d)' = Handling("passed", d)
    <2>1. Handling("passed", c)' = Handling("passed", c) \ {r}
      BY <1>3 DEF Handling, Out
    <2>2. \A d \in DOMAIN codes : d # c =>
             Handling("passed", d)' = Handling("passed", d)
      BY <1>1, <1>3 DEF Handling, Out
    <2> QED
      BY <1>2, <2>1, <2>2, PassedIsCounted, FS_RemoveElement, FS_CardinalityType,
         FS_EmptySet
  <1>5. \A q \in Requests : call'[q].at \in {"redeem", "passed"} =>
          call'[q] = call[q] /\ call[q].code \in DOMAIN codes
    BY <1>3, CallFields DEF Out, IInv
  <1>6. CASE VerifyContact(r)
    <2>1. codes' = codes /\ codes[c].for = "email_verification"
      BY <1>2, <1>6 DEF VerifyContact
    <2>2. codes[c].uses > 0
      BY <1>4, PassedIsCounted
    <2>3. ASSUME NEW d \in DOMAIN codes
          PROVE  codes[d].resets + Cardinality(Handling("passed", d)') <= codes[d].uses
      BY <1>4, PassedIsCounted
    <2> QED
      BY <1>5, <2>1, <2>2, <2>3 DEF Serving
  <1>7. CASE ResetPassword(r)
    <2>1. /\ DOMAIN codes' = DOMAIN codes
          /\ \A d \in DOMAIN codes :
               /\ codes'[d].for = codes[d].for
               /\ codes'[d].uses = codes[d].uses
               /\ d # c => codes'[d].resets = codes[d].resets
          /\ codes'[c].resets = codes[c].resets + 1
      BY <1>1, <1>7, CodesAreRows DEF IInv, Code, ResetPassword
    <2>2. codes[c].for = "password_reset"
      BY <1>2, <1>7 DEF ResetPassword
    <2>3. ASSUME NEW d \in DOMAIN codes
          PROVE  codes'[d].resets + Cardinality(Handling("passed", d)') <= codes'[d].uses
      BY <1>4, <2>1, PassedIsCounted
    <2>4. \A d \in DOMAIN codes : codes'[d].resets > 0 => codes'[d].for = "password_reset"
      BY <2>1, <2>2 DEF Serving
    <2>5. verified' = verified
      BY <1>7 DEF ResetPassword
    <2> QED
      BY <1>5, <2>1, <2>3, <2>4, <2>5 DEF Serving
  <1> QED
    BY <1>6, <1>7

LEMMA InitServes == CodesAssumption /\ Init => Serving
  <1> SUFFICES ASSUME CodesAssumption, Init PROVE Serving
    OBVIOUS
  <1>1. \A r \in Requests : call[r].at = "out"
    BY DEF Init, Out
  <1>2. \A c \in DOMAIN codes : codes[c] = Fresh("email_verification")
    BY DEF Init
  <1>3. ASSUME NEW c \in DOMAIN codes
        PROVE  codes[c].resets = 0 /\ codes[c].uses = 0
               /\ Cardinality(Handling("passed", c)) = 0
    <2>1. Handling("passed", c) = {}
      BY <1>1 DEF Handling
    <2> QED
      BY <1>2, <2>1, FS_EmptySet DEF Fresh
  <1>4. ~verified
    BY DEF Init
  <1> QED
    BY <1>1, <1>3, <1>4 DEF Serving

LEMMA NextServes ==
  ASSUME CodesAssumption, IInv, Serving, [Next]_vars
  PROVE  Serving'
  BY IssueServes, LookServes, RestServes, RedeemServes, PassedServes DEF Next

THEOREM CodesServe == Spec => []Serving
  BY InitServes, NextServes, CodesHold, CodesAssumption, PTL DEF Spec

\* A code opens only the door it was issued for, and each redemption opens it
\* once (otp.service.ts:82-86, auth.service.ts:389-433).
THEOREM CodeServesPurposeHolds == Spec => []CodeServesPurpose
  <1>1. CodesAssumption /\ IInv /\ Serving => CodeServesPurpose
    <2> SUFFICES ASSUME CodesAssumption, IInv, Serving PROVE CodeServesPurpose
      OBVIOUS
    <2>1. ASSUME NEW c \in DOMAIN codes PROVE codes[c].resets <= codes[c].uses
      BY PassedIsCounted, FS_CardinalityType
    <2> QED
      BY <2>1 DEF Serving, CodeServesPurpose
  <1> QED
    BY <1>1, CodesHold, CodesServe, CodesAssumption, PTL
===============================================================================
