---------------------------- MODULE AccountsProofs ----------------------------
(***************************************************************************)
(* What Accounts guarantees for any number of requests, passwords and      *)
(* enrolments and whatever the number of failures that locks.              *)
(***************************************************************************)
EXTENDS Accounts, TLAPS

\* A login that has read the counter and not yet written it.
Counting == At("fail") \cup At("clear")

\* While no login has been judged during another, the counter is at least the
\* failures in a row, in the row and in the one login that will write it.
Counted ==
  ~raced =>
    /\ strikes <= failed
    /\ strikes >= MaxFailed => locked
    /\ \A r \in At("fail") : strikes <= job[r].failed
    /\ \A q, r \in Counting : q = r

\* A password that opens something is in force, or its change was noticed.
InForce(pw) == pw = password \/ pw \in excused

Entered ==
  /\ OldPasswordIsOut
  /\ \A pw \in challenges : InForce(pw)
  /\ \A r \in At("clear") \cup At("admit") : InForce(job[r].pw)

IInv == TypeOK /\ Counted /\ Entered

-------------------------------------------------------------------------------
(* Jobs *)

LEMMA JobFields ==
  ASSUME NEW j \in Jobs
  PROVE  /\ j.at = "fail" => j.failed \in Nat
         /\ j.at \in {"clear", "admit"} => j.pw \in Passwords /\ j.mfa \in BOOLEAN
  BY DEF Jobs, Idle

LEMMA JobKinds ==
  /\ Idle \in Jobs
  /\ \A n \in Nat : [at |-> "fail", failed |-> n] \in Jobs
  /\ \A at \in {"clear", "admit"}, pw \in Passwords, m \in BOOLEAN :
       [at |-> at, pw |-> pw, mfa |-> m] \in Jobs
  /\ \A at \in {"enable", "change", "revoke"} : [at |-> at] \in Jobs
  BY DEF Jobs, Idle

LEMMA JudgedFacts ==
  ASSUME TypeOK, NEW pw \in Passwords
  PROVE  /\ Judged(pw) \in Jobs
         /\ Judged(pw).at \in {"fail", "clear", "admit"}
         /\ Judged(pw).at = "fail" => Judged(pw).failed = failed
         /\ Judged(pw).at # "fail" => Judged(pw).pw = password
  <1>1. CASE pw # password
    BY <1>1, JobKinds DEF Judged, TypeOK
  <1>2. CASE pw = password
    BY <1>2, JobKinds DEF Judged, TypeOK
  <1> QED
    BY <1>1, <1>2

\* Moving a request to another job.
LEMMA Moved ==
  ASSUME TypeOK, NEW r \in Requests, NEW j \in Jobs, Then(r, j)
  PROVE  /\ job' \in [Requests -> Jobs]
         /\ job'[r] = j
         /\ \A q \in Requests \ {r} : job'[q] = job[q]
  BY DEF TypeOK, Then

\* A login with the right password goes on to be admitted.
LEMMA ToAdmit ==
  ASSUME NEW j \in Jobs, j.at = "clear"
  PROVE  /\ [j EXCEPT !.at = "admit"] \in Jobs
         /\ [j EXCEPT !.at = "admit"].at = "admit"
         /\ [j EXCEPT !.at = "admit"].pw = j.pw
  BY DEF Jobs, Idle

-------------------------------------------------------------------------------
(* Types *)

LEMMA TypeStep ==
  ASSUME AccountsAssumption, TypeOK, Next
  PROVE  TypeOK'
  <1> USE DEF counter, factor, entry
  <1>1. ASSUME NEW r \in Requests, NEW pw \in Passwords, LoginRead(r, pw)
        PROVE  TypeOK'
    BY <1>1, Moved, JudgedFacts DEF LoginRead, TypeOK
  <1>2. ASSUME NEW r \in Requests, Fail(r)
        PROVE  TypeOK'
    <2>1. job[r].failed \in Nat
      BY <1>2, JobFields DEF Fail, TypeOK
    <2> QED
      BY <1>2, <2>1, Moved, JobKinds DEF Fail, TypeOK
  <1>3. ASSUME NEW r \in Requests, Clear(r)
        PROVE  TypeOK'
    BY <1>3, Moved, ToAdmit DEF Clear, TypeOK
  <1>4. ASSUME NEW r \in Requests, Admit(r)
        PROVE  TypeOK'
    <2>1. job[r].pw \in Passwords
      BY <1>4, JobFields DEF Admit, TypeOK
    <2> QED
      BY <1>4, <2>1, Moved, JobKinds DEF Admit, TypeOK
  <1>5. ASSUME NEW r \in Requests, ConfirmRead(r) \/ Enable(r)
        PROVE  TypeOK'
    BY <1>5, Moved, JobKinds DEF ConfirmRead, Enable, TypeOK
  <1>6. ASSUME NEW r \in Requests, ResetStart(r) \/ Revoke(r)
        PROVE  TypeOK'
    BY <1>6, Moved, JobKinds DEF ResetStart, Revoke, TypeOK
  <1>7. ASSUME NEW r \in Requests, Change(r)
        PROVE  TypeOK'
    <2>1. \A q \in At("clear") \cup At("admit") : job[q].pw \in Passwords
      BY JobFields DEF At, TypeOK
    <2>2. OnTheWay \subseteq Passwords
      BY <2>1 DEF OnTheWay, TypeOK
    <2>3. password + 1 \in Passwords
      BY <1>7 DEF Change, TypeOK, Passwords, AccountsAssumption
    <2> QED
      BY <1>7, <2>2, <2>3, Moved, JobKinds DEF Change, TypeOK
  <1>8. ASSUME NEW r \in Requests, Stop(r)
        PROVE  TypeOK'
    BY <1>8, Moved, JobKinds DEF Stop, TypeOK
  <1>9. ASSUME NEW pw \in Passwords, CompleteMfa(pw) \/ ChallengeEnds(pw)
        PROVE  TypeOK'
    BY <1>9 DEF CompleteMfa, ChallengeEnds, TypeOK
  <1>10. CASE BeginEnrol \/ Scan
    BY <1>10 DEF BeginEnrol, Scan, TypeOK, Secrets, AccountsAssumption
  <1>11. CASE LockEnds
    BY <1>11 DEF LockEnds, TypeOK
  <1> QED
    BY <1>1, <1>2, <1>3, <1>4, <1>5, <1>6, <1>7, <1>8, <1>9, <1>10, <1>11
    DEF Next

-------------------------------------------------------------------------------
(* The login counter *)

\* A step that lets one request move to a job that counts nothing.
LEMMA NotCounting ==
  ASSUME TypeOK, Counted, NEW r \in Requests, NEW j \in Jobs, Then(r, j),
         j.at \notin {"fail", "clear"},
         UNCHANGED <<failed, locked, strikes, raced>>
  PROVE  Counted'
  BY Moved DEF Counted, Counting, At

LEMMA CountedStep ==
  ASSUME AccountsAssumption, TypeOK, Counted, Next
  PROVE  Counted'
  <1> USE DEF counter
  <1>1. ASSUME NEW r \in Requests, NEW pw \in Passwords, LoginRead(r, pw)
        PROVE  Counted'
    <2>1. /\ job'[r] = Judged(pw)
          /\ \A q \in Requests \ {r} : job'[q] = job[q]
      BY <1>1, Moved, JudgedFacts DEF LoginRead
    <2>2. ~raced' => ~raced /\ Counting = {}
      BY <1>1 DEF LoginRead, Counting
    <2> QED
      BY <1>1, <2>1, <2>2, JudgedFacts DEF LoginRead, Counted, Counting, At
  <1>2. ASSUME NEW r \in Requests, Fail(r)
        PROVE  Counted'
    <2>1. /\ job'[r] = Idle
          /\ \A q \in Requests \ {r} : job'[q] = job[q]
      BY <1>2, Moved, JobKinds DEF Fail
    <2>2. job[r].failed \in Nat /\ r \in At("fail")
      BY <1>2, JobFields DEF Fail, TypeOK, At
    <2>3. raced' = raced
      BY <1>2 DEF Fail
    <2>4. CASE ~raced
      <3>1. strikes' = strikes + 1 /\ strikes <= job[r].failed
        BY <1>2, <2>2, <2>4 DEF Fail, Counted
      <3>2. strikes' <= failed' /\ (strikes' >= MaxFailed => failed' >= MaxFailed)
        BY <1>2, <2>2, <3>1 DEF Fail, TypeOK, AccountsAssumption
      <3>3. locked' = (failed' >= MaxFailed)
        BY <1>2, Zenon DEF Fail
      <3>4. strikes' >= MaxFailed => locked'
        BY <3>2, <3>3, Zenon
      <3>5. Counting' = {}
        BY <2>1, <2>2, <2>4 DEF Counted, Counting, At, Idle
      <3> QED
        BY <3>2, <3>4, <3>5 DEF Counted, Counting
    <2> QED
      BY <2>3, <2>4 DEF Counted
  <1>3. ASSUME NEW r \in Requests, Clear(r)
        PROVE  Counted'
    <2>1. /\ job'[r].at = "admit"
          /\ \A q \in Requests \ {r} : job'[q] = job[q]
      BY <1>3, Moved, ToAdmit DEF Clear, TypeOK
    <2>2. \A q \in At("fail") : job[q].failed >= 0
      BY JobFields DEF At, TypeOK
    <2> QED
      BY <1>3, <2>1, <2>2 DEF Clear, Counted, Counting, At, AccountsAssumption
  <1>4. ASSUME NEW r \in Requests,
               \/ Admit(r) \/ ConfirmRead(r) \/ Enable(r)
               \/ ResetStart(r) \/ Revoke(r) \/ Stop(r)
        PROVE  Counted'
    BY <1>4, NotCounting, JobKinds
    DEF Admit, ConfirmRead, Enable, ResetStart, Revoke, Stop, Idle
  <1>5. ASSUME NEW r \in Requests, Change(r)
        PROVE  Counted'
    <2>1. /\ job'[r].at = "revoke"
          /\ \A q \in Requests \ {r} : job'[q] = job[q]
      BY <1>5, Moved, JobKinds DEF Change
    <2>2. \A q \in At("fail") : job[q].failed >= 0
      BY JobFields DEF At, TypeOK
    <2> QED
      BY <1>5, <2>1, <2>2 DEF Change, Counted, Counting, At, AccountsAssumption
  <1>6. CASE LockEnds
    <2>1. \A q \in At("fail") : job[q].failed >= 0
      BY JobFields DEF At, TypeOK
    <2> QED
      BY <1>6, <2>1
      DEF LockEnds, Counted, Counting, At, AccountsAssumption, TypeOK
  <1>7. CASE UNCHANGED <<counter, job>>
    BY <1>7 DEF Counted, Counting, At
  <1>8. ASSUME NEW pw \in Passwords, CompleteMfa(pw) \/ ChallengeEnds(pw)
        PROVE  Counted'
    BY <1>7, <1>8 DEF CompleteMfa, ChallengeEnds
  <1>9. CASE BeginEnrol \/ Scan
    BY <1>7, <1>9 DEF BeginEnrol, Scan
  <1> QED
    BY <1>1, <1>2, <1>3, <1>4, <1>5, <1>6, <1>8, <1>9 DEF Next

-------------------------------------------------------------------------------
(* Sessions and passwords *)

\* A step that leaves passwords and sessions alone and lets one request move to
\* a job that opens nothing it did not.
LEMMA NotEntering ==
  ASSUME TypeOK, Entered, NEW r \in Requests, NEW j \in Jobs, Then(r, j),
         j.at \in {"clear", "admit"} => InForce(j.pw),
         job[r].at # "revoke",
         UNCHANGED entry
  PROVE  Entered'
  <1>1. /\ job'[r] = j
        /\ \A q \in Requests \ {r} : job'[q] = job[q]
    BY Moved
  <1>2. At("revoke") \subseteq At("revoke")'
    BY <1>1 DEF At
  <1> QED
    BY <1>1, <1>2 DEF Entered, OldPasswordIsOut, InForce, At, entry

LEMMA EnteredStep ==
  ASSUME TypeOK, Entered, Next
  PROVE  Entered'
  <1> USE DEF entry
  <1>1. ASSUME NEW r \in Requests, NEW pw \in Passwords, LoginRead(r, pw)
        PROVE  Entered'
    BY <1>1, NotEntering, JudgedFacts DEF LoginRead, InForce, Free, Idle
  <1>2. ASSUME NEW r \in Requests, Fail(r) \/ Enable(r)
        PROVE  Entered'
    BY <1>2, NotEntering, JobKinds DEF Fail, Enable, Idle
  <1>3. ASSUME NEW r \in Requests, Clear(r)
        PROVE  Entered'
    BY <1>3, NotEntering, ToAdmit DEF Clear, Entered, At, TypeOK
  <1>4. ASSUME NEW r \in Requests, Admit(r)
        PROVE  Entered'
    <2>1. /\ job'[r] = Idle
          /\ \A q \in Requests \ {r} : job'[q] = job[q]
      BY <1>4, Moved, JobKinds DEF Admit
    <2>2. At("revoke") = At("revoke")'
      BY <1>4, <2>1 DEF Admit, At, Idle
    <2>3. InForce(job[r].pw)
      BY <1>4 DEF Admit, Entered, At
    <2> QED
      BY <1>4, <2>1, <2>2, <2>3
      DEF Admit, Entered, OldPasswordIsOut, InForce, At, Idle
  <1>5. ASSUME NEW r \in Requests, ConfirmRead(r) \/ ResetStart(r)
        PROVE  Entered'
    BY <1>5, NotEntering, JobKinds DEF ConfirmRead, ResetStart, Free, Idle
  <1>6. ASSUME NEW r \in Requests, Change(r)
        PROVE  Entered'
    <2>1. /\ job'[r] = [at |-> "revoke"]
          /\ \A q \in Requests \ {r} : job'[q] = job[q]
      BY <1>6, Moved, JobKinds DEF Change
    <2>2. r \in At("revoke")'
      BY <2>1 DEF At
    <2>3. \A pw \in challenges' : pw \in excused'
      BY <1>6 DEF Change, OnTheWay
    <2>4. \A q \in (At("clear") \cup At("admit"))' : job'[q].pw \in excused'
      BY <1>6, <2>1 DEF Change, OnTheWay, At
    <2> QED
      BY <2>2, <2>3, <2>4 DEF Entered, OldPasswordIsOut, InForce
  <1>7. ASSUME NEW r \in Requests, Revoke(r)
        PROVE  Entered'
    <2>1. /\ job'[r] = Idle
          /\ \A q \in Requests \ {r} : job'[q] = job[q]
      BY <1>7, Moved, JobKinds DEF Revoke
    <2> QED
      BY <1>7, <2>1 DEF Revoke, Entered, OldPasswordIsOut, InForce, At, Idle
  <1>8. ASSUME NEW r \in Requests, Stop(r)
        PROVE  Entered'
    <2>1. /\ job'[r] = Idle
          /\ \A q \in Requests \ {r} : job'[q] = job[q]
      BY <1>8, Moved, JobKinds DEF Stop
    <2>2. CASE job[r].at = "revoke"
      BY <1>8, <2>1, <2>2
      DEF Stop, Entered, OldPasswordIsOut, InForce, At, Idle
    <2>3. CASE job[r].at # "revoke"
      BY <1>8, <2>3, NotEntering, JobKinds DEF Stop, Idle
    <2> QED
      BY <2>2, <2>3
  <1>9. ASSUME NEW pw \in Passwords, CompleteMfa(pw) \/ ChallengeEnds(pw)
        PROVE  Entered'
    BY <1>9 DEF CompleteMfa, ChallengeEnds, Entered, OldPasswordIsOut, InForce, At
  <1>10. CASE LockEnds \/ BeginEnrol \/ Scan
    BY <1>10
    DEF LockEnds, BeginEnrol, Scan, Entered, OldPasswordIsOut, InForce, At
  <1> QED
    BY <1>1, <1>2, <1>3, <1>4, <1>5, <1>6, <1>7, <1>8, <1>9, <1>10 DEF Next

-------------------------------------------------------------------------------
(* Theorems *)

LEMMA InitHolds == AccountsAssumption /\ Init => IInv
  <1> SUFFICES ASSUME AccountsAssumption, Init PROVE IInv
    OBVIOUS
  <1>1. TypeOK
    <2>1. 1 \in Passwords /\ 0 \in Secrets /\ 0 \in Nat
      BY DEF Passwords, Secrets, AccountsAssumption
    <2>2. job \in [Requests -> Jobs]
      BY JobKinds DEF Init
    <2>3. locked \in BOOLEAN /\ mfa \in BOOLEAN /\ raced \in BOOLEAN
      BY Zenon DEF Init
    <2>4. sessions \subseteq Passwords /\ challenges \subseteq Passwords
          /\ excused \subseteq Passwords
      BY DEF Init
    <2> QED
      BY <2>1, <2>2, <2>3, <2>4 DEF Init, TypeOK
  <1>2. Counted
    BY DEF Init, Counted, Counting, At, Idle, AccountsAssumption
  <1>3. Entered
    BY DEF Init, Entered, OldPasswordIsOut, At, Idle
  <1> QED
    BY <1>1, <1>2, <1>3 DEF IInv

LEMMA Stutters == IInv /\ UNCHANGED vars => IInv'
  BY DEF IInv, TypeOK, Counted, Counting, Entered, OldPasswordIsOut, InForce, At,
         vars, counter, factor, entry

\* The strengthened invariant: the counter, and the passwords behind whatever
\* is on its way in, not only behind the sessions (auth.service.ts:163-457).
THEOREM AccountHolds == Spec => []IInv
  <1>1. IInv /\ [Next]_vars => IInv'
    BY AccountsAssumption, TypeStep, CountedStep, EnteredStep, Stutters DEF IInv
  <1> QED
    BY <1>1, InitHolds, AccountsAssumption, PTL DEF Spec

\* The account's columns and the requests keep their types.
THEOREM TypeCorrect == Spec => []TypeOK
  <1>1. IInv => TypeOK
    BY DEF IInv
  <1> QED
    BY <1>1, AccountHolds, PTL

\* MaxFailed failures in a row lock the account, as long as no login is judged
\* while another is between reading and writing the counter
\* (auth.service.ts:192-203, 254-270).
THEOREM FailuresLockHolds == Spec => []FailuresLock
  <1>1. IInv => FailuresLock
    BY DEF IInv, Counted, FailuresLock
  <1> QED
    BY <1>1, AccountHolds, PTL

\* After a reset no session opened with an old password is left, but those of
\* somebody half way in (auth.service.ts:426-444).
THEOREM OldPasswordIsOutHolds == Spec => []OldPasswordIsOut
  <1>1. IInv => OldPasswordIsOut
    BY DEF IInv, Entered
  <1> QED
    BY <1>1, AccountHolds, PTL
===============================================================================
