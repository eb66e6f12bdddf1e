------------------------------ MODULE TokenClient ------------------------------
(***************************************************************************)
(* The web and mobile API clients over Sessions.  Each client keeps one    *)
(* token pair, sends requests in parallel, and answers a 401 with one      *)
(* refresh that every refused request waits for.  Answers get lost, the    *)
(* page is reloaded, the server fails, and the user signs out devices.     *)
(***************************************************************************)
EXTENDS Sessions

CONSTANTS
  Mobile,  \* the clients that drop their tokens when a refresh fails
  Slots    \* requests a client may have under way at once

ASSUME TokenClientAssumption == Mobile \subseteq Clients

VARIABLES
  token,    \* the session whose pair the client holds
  req,      \* the client's requests
  incident  \* what has gone wrong so far: an answer lost or a server error
            \* (failure), a session signed out or past its term (ended)

server == <<session, heir, job>>
client == <<token, req, incident>>
vars == <<server, client>>

Incidents == {"failure", "ended"}

\* A request is sent with the access token the client holds; a refused one
\* waits for the refresh, and is sent again once.
Requests == {"idle", "sent", "waiting", "retried"}

Init ==
  /\ SessionsInit
  /\ token = [c \in Clients |-> None]
  /\ req = [c \in Clients |-> [i \in Slots |-> "idle"]]
  /\ incident = {}

Record(what) == incident' = incident \cup {what}

\* refreshInFlight
Refreshing(c) == \E h \in Handlers : job[h].client = c

Waiters(c) == {i \in Slots : req[c][i] = "waiting"}

\* The shared promise settles: the requests that waited for it are sent again
\* with the new token, or fail.
Wake(c, next) ==
  req' = [req EXCEPT ![c] = [i \in Slots |-> IF i \in Waiters(c) THEN next ELSE @[i]]]

Login(c) ==
  /\ token[c] = None
  /\ ~Refreshing(c)
  /\ \E s \in Ids :
       /\ NewSession(s)
       /\ token' = [token EXCEPT ![c] = s]
  /\ UNCHANGED <<heir, job, req, incident>>

Send(c, i) ==
  /\ req[c][i] = "idle"
  /\ token[c] # None
  /\ req' = [req EXCEPT ![c][i] = "sent"]
  /\ UNCHANGED <<server, token, incident>>

\* The request ends: served, which takes a live session, refused for the
\* second time, refused with no token left to refresh, or cut off.
End(c, i) ==
  /\ req[c][i] \in {"sent", "retried"}
  /\ req' = [req EXCEPT ![c][i] = "idle"]
  /\ UNCHANGED <<server, token, incident>>

\* Variant: every refused request refreshes for itself.
JoinNone(c) == FALSE

Join(c) == Refreshing(c)

\* 401: the session is dead, or the access token is older than its quarter of
\* an hour.  The request joins the refresh under way or starts one.
Refused(c, i) ==
  /\ req[c][i] = "sent"
  /\ token[c] # None
  /\ req' = [req EXCEPT ![c][i] = "waiting"]
  /\ \/ /\ Join(c)
        /\ UNCHANGED job
     \/ /\ ~Join(c)
        /\ \E h \in Handlers :
             /\ job[h] = Idle
             /\ job' = [job EXCEPT ![h] = [at |-> "read", token |-> token[c],
                                           child |-> None, client |-> c]]
  /\ UNCHANGED <<session, heir, token, incident>>

\* Variant: a refused refresh leaves the dead pair in place.
FinishRefreshKeeps(c, h) ==
  /\ job[h].at = "answer"
  /\ job[h].client = c
  /\ token' = [token EXCEPT ![c] = IF job[h].child = None THEN @ ELSE job[h].child]
  /\ Wake(c, IF job[h].child = None THEN "idle" ELSE "retried")
  /\ job' = [job EXCEPT ![h] = Idle]
  /\ UNCHANGED <<session, heir, incident>>

\* Variant: the requests that wait are not told of a failure.
FinishRefreshForgets(c, h) ==
  /\ job[h].at = "answer"
  /\ job[h].client = c
  /\ token' = [token EXCEPT ![c] = job[h].child]
  /\ IF job[h].child = None THEN UNCHANGED req ELSE Wake(c, "retried")
  /\ job' = [job EXCEPT ![h] = Idle]
  /\ UNCHANGED <<session, heir, incident>>

\* Variant: the new refresh token is not stored.
FinishRefreshOld(c, h) ==
  /\ job[h].at = "answer"
  /\ job[h].client = c
  /\ Wake(c, IF job[h].child = None THEN "idle" ELSE "retried")
  /\ job' = [job EXCEPT ![h] = Idle]
  /\ UNCHANGED <<session, heir, token, incident>>

\* The new pair is stored, or the old one cleared.
FinishRefresh(c, h) ==
  /\ job[h].at = "answer"
  /\ job[h].client = c
  /\ token' = [token EXCEPT ![c] = job[h].child]
  /\ Wake(c, IF job[h].child = None THEN "idle" ELSE "retried")
  /\ job' = [job EXCEPT ![h] = Idle]
  /\ UNCHANGED <<session, heir, incident>>

\* The answer is lost, or the page that waits for it is left: the server goes
\* on by itself.  It is a failure for a client that still holds the token.
FailRefresh(c, h) ==
  /\ job[h].client = c
  /\ token' = [token EXCEPT ![c] = IF c \in Mobile THEN None ELSE @]
  /\ Wake(c, "idle")
  /\ job' = [job EXCEPT ![h] = [@ EXCEPT !.client = None]]
  /\ IF token[c] = None THEN UNCHANGED incident ELSE Record("failure")
  /\ UNCHANGED <<session, heir>>

\* The pair is dropped where it is stored; the server is not told, and a
\* refresh under way is not called off.
SignOut(c) ==
  /\ token[c] # None
  /\ token' = [token EXCEPT ![c] = None]
  /\ UNCHANGED <<server, req, incident>>

-------------------------------------------------------------------------------
\* A refresh goes on at the server, with its next statement or an error.
ServerStep(h) ==
  \/ Rotate(h) /\ UNCHANGED client
  \/ ServerError(h) /\ Record("failure") /\ UNCHANGED <<token, req>>

Abandon(h) == Forget(h) /\ UNCHANGED client

Next ==
  \/ \E h \in Handlers : ServerStep(h) \/ Abandon(h)
  \/ \E s \in Ids :
       \/ RevokeSession(s) /\ Record("ended") /\ UNCHANGED <<token, req>>
       \/ Lapse(s) /\ Record("ended") /\ UNCHANGED <<token, req>>
  \/ LogoutAll /\ Record("ended") /\ UNCHANGED <<token, req>>
  \/ \E c \in Clients :
       \/ Login(c)
       \/ SignOut(c)
       \/ \E i \in Slots : Send(c, i) \/ End(c, i) \/ Refused(c, i)
       \/ \E h \in Handlers : FinishRefresh(c, h) \/ FailRefresh(c, h)

Spec == Init /\ [][Next]_vars

\* The handler of a refresh whose answer client c still waits for.
Awaited(c, h) == job[h].client = c

\* The server goes on with what it has read, or fails; the user goes on using
\* the client; and neither is every request cut off, nor every refresh lost
\* at the same point of its way.
Fairness ==
  /\ \A h \in Handlers : WF_vars(ServerStep(h)) /\ WF_vars(Abandon(h))
  /\ \A c \in Clients, i \in Slots :
       WF_vars(Send(c, i)) /\ WF_vars(End(c, i)) /\ SF_vars(Refused(c, i))
  /\ \A c \in Clients :
       /\ SF_vars(\E h \in Handlers : Awaited(c, h) /\ Read(h) /\ UNCHANGED client)
       /\ SF_vars(\E h \in Handlers : Awaited(c, h) /\ Purge(h) /\ UNCHANGED client)
       /\ SF_vars(\E h \in Handlers : FinishRefresh(c, h))

FairSpec == Spec /\ Fairness

-------------------------------------------------------------------------------
TypeOK ==
  /\ session \in [Ids -> SessionStatuses]
  /\ heir \in [Ids -> Ids \cup {None}]
  /\ job \in [Handlers -> Jobs]
  /\ token \in [Clients -> Ids \cup {None}]
  /\ req \in [Clients -> [Slots -> Requests]]
  /\ incident \subseteq Incidents

\* "Concurrent 401s share a single refresh promise": a token that was replaced
\* comes back only if an answer was lost or the server failed, never because
\* a client refreshed twice.
ReplayTakesTrouble ==
  \A h \in Handlers :
    job[h].at = "purge" /\ heir[job[h].token] # None
      => "failure" \in incident

\* A client that nothing has happened to stays signed in: the session it
\* holds is live, or is being exchanged by the one refresh it waits for.
SignedInStaysIn ==
  incident = {} =>
    /\ \A h \in Handlers : job[h].at # "purge"
    /\ \A c \in Clients : token[c] # None =>
         \/ session[token[c]] = "live"
         \/ \E h \in Handlers : job[h].client = c /\ job[h].token = token[c]
                                /\ job[h].at = "answer" /\ job[h].child # None

\* Rotation replaces a session and never multiplies it: each replaced session
\* is revoked, and no two have the same successor.
ReplacedIsRetired ==
  \A s \in Ids : heir[s] # None =>
    /\ session[s] = "revoked"
    /\ session[heir[s]] # "none"
    /\ \A t \in Ids : heir[t] = heir[s] => t = s

-------------------------------------------------------------------------------
\* A refused request is never left waiting for a refresh that has ended.
Answered == \A c \in Clients, i \in Slots : req[c][i] # "idle" ~> req[c][i] = "idle"

\* "They must sign in again": a client does not go on holding a session that
\* has been revoked, it exchanges it in time or lets it go.
DeadIsDropped ==
  \A c \in Clients, s \in Ids :
    token[c] = s /\ session[s] = "revoked" ~> token[c] # s
================================================================================
