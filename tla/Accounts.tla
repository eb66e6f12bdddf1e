------------------------------- MODULE Accounts -------------------------------
(***************************************************************************)
(* One user's account: login and its lock, two-factor authentication and   *)
(* the password reset of the auth service.  Every request reads the user   *)
(* row and writes it by id later, without a transaction around the two.    *)
(* The code a reset takes is in Codes; here a reset gets past it whenever  *)
(* it likes.                                                               *)
(***************************************************************************)
EXTENDS Integers

CONSTANTS
  Requests,      \* requests that may be served at once
  MaxFailed,     \* failures in a row that lock the account
  MaxCount,      \* bound: the login counter is driven no further
  MaxPasswords,  \* bound: passwords the account ever has
  MaxSecrets     \* bound: enrolments of an authenticator

ASSUME AccountsAssumption ==
  /\ MaxFailed \in Nat \ {0}
  /\ MaxCount \in Nat
  /\ MaxPasswords \in Nat \ {0}
  /\ MaxSecrets \in Nat

VARIABLES
  password,    \* the password in force: the first, the second, ...
  failed,      \* failedLogins
  locked,      \* lockedUntil lies in the future
  secret,      \* the authenticator secret on the row, 0 for none
  mfa,         \* mfaEnabled
  app,         \* the secret the user's authenticator holds
  sessions,    \* passwords under which a live session was opened
  challenges,  \* passwords behind the unexpired MFA tokens
  job,         \* what each request is doing in the auth service
  strikes,     \* history: failures recorded since the last success or lock
  raced,       \* history: a login was judged while another was in flight
  excused      \* history: passwords changed under a login, or half changed

counter == <<failed, locked, strikes, raced>>
factor == <<secret, mfa, app>>
entry == <<password, sessions, challenges, excused>>
vars == <<counter, factor, entry, job>>

Passwords == 1 .. MaxPasswords
Secrets == 0 .. MaxSecrets

Idle == [at |-> "idle"]
Jobs ==
  {Idle}
  \cup [at : {"fail"}, failed : Nat]
  \cup [at : {"clear", "admit"}, pw : Passwords, mfa : BOOLEAN]
  \cup [at : {"enable", "change", "revoke"}]

TypeOK ==
  /\ password \in Passwords
  /\ failed \in Nat
  /\ locked \in BOOLEAN
  /\ secret \in Secrets
  /\ mfa \in BOOLEAN
  /\ app \in Secrets
  /\ sessions \subseteq Passwords
  /\ challenges \subseteq Passwords
  /\ job \in [Requests -> Jobs]
  /\ strikes \in Nat
  /\ raced \in BOOLEAN
  /\ excused \subseteq Passwords

Init ==
  /\ password = 1
  /\ failed = 0
  /\ locked = FALSE
  /\ secret = 0
  /\ mfa = FALSE
  /\ app = 0
  /\ sessions = {}
  /\ challenges = {}
  /\ job = [r \in Requests |-> Idle]
  /\ strikes = 0
  /\ raced = FALSE
  /\ excused = {}

Free(r) == job[r] = Idle
Then(r, step) == job' = [job EXCEPT ![r] = step]
At(step) == {r \in Requests : job[r].at = step}

-------------------------------------------------------------------------------
(* login *)

\* What login does with the row it has read, and the password that was typed.
Judged(pw) ==
  IF pw # password THEN [at |-> "fail", failed |-> failed]
  ELSE [at |-> IF failed > 0 THEN "clear" ELSE "admit", pw |-> pw, mfa |-> mfa]

\* The password typed is any the account has had, or has yet to get: a wrong one.
LoginRead(r, pw) ==
  /\ Free(r)
  /\ ~locked
  /\ failed < MaxCount
  /\ Then(r, Judged(pw))
  /\ raced' = (raced \/ At("fail") \cup At("clear") # {})
  /\ UNCHANGED <<failed, locked, strikes, factor, entry>>

\* Variant: the account locks one failure late.
FailLate(r) ==
  /\ job[r].at = "fail"
  /\ failed' = job[r].failed + 1
  /\ locked' = (failed' > MaxFailed)
  /\ strikes' = IF raced THEN 0 ELSE strikes + 1
  /\ Then(r, Idle)
  /\ UNCHANGED <<raced, factor, entry>>

\* registerFailedLogin: the counter that was read, plus one, and the lock that
\* goes with it, whatever the row says by now.
Fail(r) ==
  /\ job[r].at = "fail"
  /\ failed' = job[r].failed + 1
  /\ locked' = (failed' >= MaxFailed)
  /\ strikes' = IF raced THEN 0 ELSE strikes + 1
  /\ Then(r, Idle)
  /\ UNCHANGED <<raced, factor, entry>>

\* The right password: the counter starts again.
Clear(r) ==
  /\ job[r].at = "clear"
  /\ failed' = 0
  /\ locked' = FALSE
  /\ strikes' = 0
  /\ Then(r, [job[r] EXCEPT !.at = "admit"])
  /\ UNCHANGED <<raced, factor, entry>>

\* The row was read with or without two-factor authentication.
Admit(r) ==
  /\ job[r].at = "admit"
  /\ IF job[r].mfa
     THEN /\ challenges' = challenges \cup {job[r].pw}
          /\ UNCHANGED sessions
     ELSE /\ sessions' = sessions \cup {job[r].pw}
          /\ UNCHANGED challenges
  /\ Then(r, Idle)
  /\ UNCHANGED <<counter, factor, password, excused>>

\* Fifteen minutes have passed.  The counter stays where it is.
LockEnds ==
  /\ locked
  /\ locked' = FALSE
  /\ strikes' = 0
  /\ UNCHANGED <<failed, raced, factor, entry, job>>

-------------------------------------------------------------------------------
(* Two-factor authentication *)

\* The token is good for five minutes and for as many sign-ins.
CompleteMfa(pw) ==
  /\ pw \in challenges
  /\ secret # 0 /\ app = secret
  /\ sessions' = sessions \cup {pw}
  /\ UNCHANGED <<counter, factor, password, challenges, excused, job>>

ChallengeEnds(pw) ==
  /\ pw \in challenges
  /\ challenges' = challenges \ {pw}
  /\ UNCHANGED <<counter, factor, password, sessions, excused, job>>

\* Enabled or not, the secret on the row is overwritten.
BeginEnrol ==
  /\ sessions # {}
  /\ secret < MaxSecrets
  /\ secret' = secret + 1
  /\ UNCHANGED <<counter, mfa, app, entry, job>>

\* The user scans the QR code.
Scan ==
  /\ app # secret
  /\ app' = secret
  /\ UNCHANGED <<counter, secret, mfa, entry, job>>

ConfirmRead(r) ==
  /\ Free(r)
  /\ sessions # {}
  /\ secret # 0 /\ app = secret
  /\ Then(r, [at |-> "enable"])
  /\ UNCHANGED <<counter, factor, entry>>

Enable(r) ==
  /\ job[r].at = "enable"
  /\ mfa' = TRUE
  /\ Then(r, Idle)
  /\ UNCHANGED <<counter, secret, app, entry>>

-------------------------------------------------------------------------------
(* Password reset *)

ResetStart(r) ==
  /\ Free(r)
  /\ password < MaxPasswords
  /\ Then(r, [at |-> "change"])
  /\ UNCHANGED <<counter, factor, entry>>

\* Passwords under which somebody is on the way in.
OnTheWay == challenges \cup {job[r].pw : r \in At("clear") \cup At("admit")}

\* The new password, and the counter back to nothing.
Change(r) ==
  /\ job[r].at = "change"
  /\ password < MaxPasswords
  /\ password' = password + 1
  /\ failed' = 0
  /\ locked' = FALSE
  /\ strikes' = 0
  /\ excused' = excused \cup OnTheWay
  /\ Then(r, [at |-> "revoke"])
  /\ UNCHANGED <<raced, factor, sessions, challenges>>

\* Variant: the sessions are left alone.
RevokeNothing(r) ==
  /\ job[r].at = "revoke"
  /\ Then(r, Idle)
  /\ UNCHANGED <<counter, factor, entry>>

\* revokeAllForUser: one update over the sessions there are.
Revoke(r) ==
  /\ job[r].at = "revoke"
  /\ sessions' = {}
  /\ Then(r, Idle)
  /\ UNCHANGED <<counter, factor, password, challenges, excused>>

\* The server stops in the middle of a request; what it wrote stays.
Stop(r) ==
  /\ ~Free(r)
  /\ Then(r, Idle)
  /\ excused' = IF job[r].at = "revoke" THEN excused \cup sessions ELSE excused
  /\ UNCHANGED <<counter, factor, password, sessions, challenges>>

Next ==
  \/ \E r \in Requests :
       \/ \E pw \in Passwords : LoginRead(r, pw)
       \/ Fail(r) \/ Clear(r) \/ Admit(r)
       \/ ConfirmRead(r) \/ Enable(r)
       \/ ResetStart(r) \/ Change(r) \/ Revoke(r) \/ Stop(r)
  \/ LockEnds
  \/ \E pw \in Passwords : CompleteMfa(pw) \/ ChallengeEnds(pw)
  \/ BeginEnrol
  \/ Scan

Spec == Init /\ [][Next]_vars

-------------------------------------------------------------------------------
(* Properties *)

\* "Five consecutive failures lock the account" (auth.controller.ts:67), as far
\* as no login is judged while another is between its read and its write.
FailuresLock == ~raced => (strikes >= MaxFailed => locked)

\* A password reset signs everybody out who signed in with the old password
\* (auth.service.ts:441-444), except who was half way in when the password
\* changed, and unless the server stops between the change and the revocation.
OldPasswordIsOut ==
  \A pw \in sessions :
    \/ pw = password
    \/ pw \in excused
    \/ At("revoke") # {}
===============================================================================
