--------------------------------- MODULE Codes ---------------------------------
(***************************************************************************)
(* The one-time codes of one user: issue and verify of the OTP service,    *)
(* and the contact check and password reset that call them.  issue is one  *)
(* transaction of two statements, so a second one may start before the     *)
(* first commits; verify reads a row, decides, and writes it by id.        *)
(***************************************************************************)
EXTENDS Integers, FiniteSets, Sequences

CONSTANTS
  Requests,     \* requests that may be served at once
  MaxCodes,     \* bound: codes issued in one behaviour
  MaxAttempts   \* wrong guesses a code survives

ASSUME CodesAssumption ==
  /\ IsFiniteSet(Requests)
  /\ MaxCodes \in Nat
  /\ MaxAttempts \in Nat \ {0}

VARIABLES
  codes,    \* the codes in the order they were made
  call,     \* what each request is doing in the OTP service
  verified, \* emailVerifiedAt is set
  crossed   \* history: two transactions issuing a code have overlapped

vars == <<codes, call, verified, crossed>>

Purposes == {"password_reset", "email_verification"}

\* Three fields are history: how often a code was redeemed, how often the
\* password was reset with it, and whether two requests were redeeming it at
\* once.
Code == [for : Purposes, live : BOOLEAN, lapsed : BOOLEAN, misses : Nat,
         uses : Nat, shared : BOOLEAN, resets : Nat]

Fresh(p) == [for |-> p, live |-> TRUE, lapsed |-> FALSE, misses |-> 0,
             uses |-> 0, shared |-> FALSE, resets |-> 0]

Out == [at |-> "out"]
Calls ==
  {Out}
  \cup [at : {"issue"}, for : Purposes, old : SUBSET DOMAIN codes]
  \cup [at : {"miss", "exhaust"}, code : DOMAIN codes]
  \cup [at : {"redeem", "passed"}, code : DOMAIN codes, for : Purposes]

TypeOK ==
  /\ codes \in Seq(Code)
  /\ call \in [Requests -> Calls]
  /\ verified \in BOOLEAN
  /\ crossed \in BOOLEAN

\* The account has just been registered: its e-mail code was sent, unless the
\* server stopped between the transaction and the sending.
Init ==
  /\ codes \in {<<>>, <<Fresh("email_verification")>>}
  /\ call = [r \in Requests |-> Out]
  /\ verified = FALSE
  /\ crossed = FALSE

\* Variant: any code of the user will do, whatever it was issued for.
AnyUnconsumed(p) == {c \in DOMAIN codes : codes[c].live}

\* Codes that count for verify; a lapsed one is found too, and refused.
Unconsumed(p) == {c \in DOMAIN codes : codes[c].for = p /\ codes[c].live}
IsLatest(c, C) == c \in C /\ \A d \in C : d <= c
Handling(step, c) == {r \in Requests : call[r].at = step /\ call[r].code = c}
Goto(r, step) == call' = [call EXCEPT ![r] = step]

-------------------------------------------------------------------------------
(* issue *)

\* Variant: a new code leaves the earlier ones alone.
IssueStartKeeping(r, p) ==
  /\ call[r] = Out
  /\ Len(codes) < MaxCodes
  /\ crossed' = (crossed \/ \E q \in Requests : call[q].at = "issue")
  /\ Goto(r, [at |-> "issue", for |-> p, old |-> {}])
  /\ UNCHANGED <<codes, verified>>

\* The update takes the rows it can see: not the code of a transaction that
\* has not committed.
IssueStart(r, p) ==
  /\ call[r] = Out
  /\ Len(codes) < MaxCodes
  /\ crossed' = (crossed \/ \E q \in Requests : call[q].at = "issue")
  /\ Goto(r, [at |-> "issue", for |-> p, old |-> Unconsumed(p)])
  /\ UNCHANGED <<codes, verified>>

Retired(old) ==
  [c \in DOMAIN codes |->
     [codes[c] EXCEPT !.live = @ /\ c \notin old]]

IssueCommit(r) ==
  /\ call[r].at = "issue"
  /\ codes' = Append(Retired(call[r].old), Fresh(call[r].for))
  /\ Goto(r, Out)
  /\ UNCHANGED <<verified, crossed>>

-------------------------------------------------------------------------------
(* verify *)

\* Variant: the number of wrong guesses is not looked at.
VerdictUncapped(p, c, right) ==
  IF codes[c].lapsed THEN Out
  ELSE IF ~right THEN [at |-> "miss", code |-> c]
  ELSE [at |-> "redeem", code |-> c, for |-> p]

\* What verify does with the row it has read, and the guess.
Verdict(p, c, right) ==
  IF codes[c].lapsed THEN Out
  ELSE IF codes[c].misses >= MaxAttempts THEN [at |-> "exhaust", code |-> c]
  ELSE IF ~right THEN [at |-> "miss", code |-> c]
  ELSE [at |-> "redeem", code |-> c, for |-> p]

\* The newest unconsumed code of the purpose; without one the request fails.
Look(r, p, right) ==
  /\ call[r] = Out
  /\ \E c \in DOMAIN codes :
       /\ IsLatest(c, Unconsumed(p))
       /\ Verdict(p, c, right) # Out
       /\ Goto(r, Verdict(p, c, right))
       /\ codes' = [codes EXCEPT ![c].shared =
                      @ \/ (Verdict(p, c, right).at = "redeem"
                            /\ Handling("redeem", c) # {})]
  /\ UNCHANGED <<verified, crossed>>

Miss(r) ==
  /\ call[r].at = "miss"
  /\ codes' = [codes EXCEPT ![call[r].code].misses = @ + 1]
  /\ Goto(r, Out)
  /\ UNCHANGED <<verified, crossed>>

Exhaust(r) ==
  /\ call[r].at = "exhaust"
  /\ codes' = [codes EXCEPT ![call[r].code].live = FALSE]
  /\ Goto(r, Out)
  /\ UNCHANGED <<verified, crossed>>

\* Variant: the code is not consumed.
RedeemAgain(r) ==
  /\ call[r].at = "redeem"
  /\ codes' = [codes EXCEPT ![call[r].code].uses = @ + 1]
  /\ Goto(r, [at |-> "passed", code |-> call[r].code, for |-> call[r].for])
  /\ UNCHANGED <<verified, crossed>>

Redeem(r) ==
  /\ call[r].at = "redeem"
  /\ codes' = [codes EXCEPT ![call[r].code].live = FALSE,
                            ![call[r].code].uses = @ + 1]
  /\ Goto(r, [at |-> "passed", code |-> call[r].code, for |-> call[r].for])
  /\ UNCHANGED <<verified, crossed>>

\* Ten minutes after it was made, the oldest first.
Lapse(c) ==
  /\ ~codes[c].lapsed
  /\ \A d \in DOMAIN codes : d < c => codes[d].lapsed
  /\ codes' = [codes EXCEPT ![c].lapsed = TRUE]
  /\ UNCHANGED <<call, verified, crossed>>

-------------------------------------------------------------------------------
(* What calls them *)

\* requestPasswordReset is the only way to a code after registration: the
\* endpoint answers requests for the other purposes without making one.
RequestReset(r) == IssueStart(r, "password_reset")

\* verifyContact, and resetPassword up to the new password (see Accounts).
VerifyContact(r) ==
  /\ call[r].at = "passed" /\ call[r].for = "email_verification"
  /\ verified' = TRUE
  /\ Goto(r, Out)
  /\ UNCHANGED <<codes, crossed>>

ResetPassword(r) ==
  /\ call[r].at = "passed" /\ call[r].for = "password_reset"
  /\ codes' = [codes EXCEPT ![call[r].code].resets = @ + 1]
  /\ Goto(r, Out)
  /\ UNCHANGED <<verified, crossed>>

\* The server stops in the middle of a request; what it wrote stays.
Stop(r) ==
  /\ call[r] # Out
  /\ Goto(r, Out)
  /\ UNCHANGED <<codes, verified, crossed>>

Next ==
  \/ \E r \in Requests :
       \/ RequestReset(r)
       \/ IssueCommit(r)
       \/ \E p \in Purposes, right \in BOOLEAN : Look(r, p, right)
       \/ Miss(r) \/ Exhaust(r) \/ Redeem(r)
       \/ VerifyContact(r) \/ ResetPassword(r)
       \/ Stop(r)
  \/ \E c \in DOMAIN codes : Lapse(c)

Spec == Init /\ [][Next]_vars

-------------------------------------------------------------------------------
(* Properties *)

\* The attempt cap holds on the row although it is checked before it is
\* counted: a code is guessed at once more for each other request that read it
\* in time, and no more than that (otp.service.ts:94-108).
AttemptsBounded ==
  \A c \in DOMAIN codes :
    codes[c].misses + Cardinality(Handling("miss", c))
      < MaxAttempts + Cardinality(Requests)

\* A new code supersedes the earlier ones of its purpose, unless two are being
\* issued at once (otp.service.ts:20-21, 53-63).
OneLiveCode ==
  ~crossed => \A p \in Purposes : Cardinality(Unconsumed(p)) <= 1

\* A code opens one door once: it is redeemed a second time only by a request
\* that had read it while the first was still redeeming it
\* (otp.service.ts:83-86, 110-113).
RedeemedOnce ==
  \A c \in DOMAIN codes : ~codes[c].shared => codes[c].uses <= 1

\* A code issued for one purpose serves no other, and each redemption serves
\* once: the password was reset only with reset codes, no more often than they
\* were redeemed, and the contact was confirmed with a code sent to it
\* (otp.service.ts:82-86).
CodeServesPurpose ==
  /\ \A c \in DOMAIN codes :
       /\ codes[c].resets <= codes[c].uses
       /\ codes[c].resets > 0 => codes[c].for = "password_reset"
  /\ verified =>
       \E c \in DOMAIN codes :
         codes[c].for = "email_verification" /\ codes[c].uses > 0
===============================================================================
