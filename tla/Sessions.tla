-------------------------------- MODULE Sessions --------------------------------
(***************************************************************************)
(* The sessions of one user, as the token service keeps them: one row per  *)
(* refresh token, which names it here.  Exchanging a token (rotate) is     *)
(* three statements with nothing to hold them together: read the row,      *)
(* insert its successor, retire it.                                        *)
(***************************************************************************)
CONSTANTS
  Ids,       \* session rows; bound: no session is issued once all are used
  Handlers,  \* refresh requests the server may be working on at once
  Clients,   \* who waits for their answers
  None

ASSUME SessionsAssumption == None \notin Ids \cup Clients

VARIABLES
  session,  \* what the row says: revoked once revokedAt is set, lapsed once
            \* expiresAt has passed
  heir,     \* replacedById
  job       \* what each handler does, for which token and client

SessionStatuses == {"none", "live", "lapsed", "revoked"}

Idle == [at |-> "idle", token |-> None, child |-> None, client |-> None]

\* The child is the successor, from its insertion to the answer; an answer
\* without one is a refusal.
Jobs ==
  {Idle}
  \cup [at : {"read", "purge", "issue"}, token : Ids, child : {None},
        client : Clients \cup {None}]
  \cup [at : {"retire"}, token : Ids, child : Ids, client : Clients \cup {None}]
  \cup [at : {"answer"}, token : Ids, child : Ids \cup {None},
        client : Clients \cup {None}]

SessionsInit ==
  /\ session = [s \in Ids |-> "none"]
  /\ heir = [s \in Ids |-> None]
  /\ job = [h \in Handlers |-> Idle]

Becomes(h, at, child) ==
  job' = [job EXCEPT ![h] = [at |-> at, token |-> job[h].token,
                             child |-> child, client |-> job[h].client]]

Step(h, at) == Becomes(h, at, job[h].child)

Refuse(h) == Becomes(h, "answer", None)

\* A new row, for a token nobody has seen.
NewSession(s) ==
  /\ session[s] = "none"
  /\ session' = [session EXCEPT ![s] = "live"]

Replayed(s) == session[s] = "revoked" \/ heir[s] # None

Read(h) ==
  /\ job[h].at = "read"
  /\ LET t == job[h].token IN
     \/ Replayed(t) /\ Step(h, "purge")
     \/ ~Replayed(t) /\ session[t] = "lapsed" /\ Refuse(h)
     \/ ~Replayed(t) /\ session[t] = "live" /\ Step(h, "issue")
  /\ UNCHANGED <<session, heir>>

RevokeAllForUser ==
  session' = [s \in Ids |-> IF session[s] = "none" THEN "none" ELSE "revoked"]

\* A token that comes back costs the user every session.
Purge(h) ==
  /\ job[h].at = "purge"
  /\ RevokeAllForUser
  /\ Refuse(h)
  /\ UNCHANGED heir

\* Variant: the successor is not found again.
IssueNotFound(h) ==
  /\ job[h].at = "issue"
  /\ \E s \in Ids : NewSession(s)
  /\ Step(h, "retire")
  /\ UNCHANGED heir

Issue(h) ==
  /\ job[h].at = "issue"
  /\ \E s \in Ids :
       /\ NewSession(s)
       /\ Becomes(h, "retire", s)
  /\ UNCHANGED heir

\* Variant: the parent is linked and not revoked.
RetireNotRevoked(h) ==
  /\ job[h].at = "retire"
  /\ heir' = [heir EXCEPT ![job[h].token] = job[h].child]
  /\ Step(h, "answer")
  /\ UNCHANGED session

Retire(h) ==
  /\ job[h].at = "retire"
  /\ session' = [session EXCEPT ![job[h].token] = "revoked"]
  /\ heir' = [heir EXCEPT ![job[h].token] = job[h].child]
  /\ Step(h, "answer")

Rotate(h) == Read(h) \/ Purge(h) \/ Issue(h) \/ Retire(h)

\* A statement fails: the client gets an error, what was written stays.
ServerError(h) ==
  /\ job[h].at \in {"read", "purge", "issue", "retire"}
  /\ Refuse(h)
  /\ UNCHANGED <<session, heir>>

\* Nobody waits for the answer any more: it is dropped, or the handler dies
\* on the way to it.
Forget(h) ==
  /\ job[h].at # "idle"
  /\ job[h].client = None
  /\ job' = [job EXCEPT ![h] = Idle]
  /\ UNCHANGED <<session, heir>>

\* Sign-out of one session; of all, which a password reset does too.
RevokeSession(s) ==
  /\ session[s] \in {"live", "lapsed"}
  /\ session' = [session EXCEPT ![s] = "revoked"]
  /\ UNCHANGED <<heir, job>>

LogoutAll ==
  /\ RevokeAllForUser
  /\ UNCHANGED <<heir, job>>

Lapse(s) ==
  /\ session[s] = "live"
  /\ session' = [session EXCEPT ![s] = "lapsed"]
  /\ UNCHANGED <<heir, job>>
================================================================================
