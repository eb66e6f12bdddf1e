--------------------------- MODULE TokenClientProofs ---------------------------
(***************************************************************************)
(* Proofs about TokenClient for any number of clients, requests, handlers  *)
(* and sessions.                                                           *)
(***************************************************************************)
EXTENDS TokenClient, TLAPS

Busy(h) == job[h].at # "idle"
Held(s) == \E c \in Clients : token[c] = s

\* A token that anybody holds, exchanges or was given names a row.
HeldExists == \A c \in Clients : token[c] # None => session[token[c]] # "none"
BusyExists == \A h \in Handlers : Busy(h) => session[job[h].token] # "none"
ChildExists == \A h \in Handlers : job[h].child # None => session[job[h].child] # "none"

\* Only revoked rows have a successor, and a successor has one predecessor, or
\* one handler about to make it so.
HeirsRevoked ==
  \A s \in Ids : heir[s] # None => session[s] = "revoked" /\ session[heir[s]] # "none"
HeirsDiffer == \A s, t \in Ids : heir[s] # None /\ heir[s] = heir[t] => s = t
ChildUnlinked ==
  \A h \in Handlers : job[h].at = "retire" => \A s \in Ids : heir[s] # job[h].child
ChildrenDiffer ==
  \A g, h \in Handlers : job[g].at = "retire" /\ job[h].at = "retire"
                         /\ job[g].child = job[h].child => g = h

Rows ==
  /\ HeldExists /\ BusyExists /\ ChildExists
  /\ HeirsRevoked /\ HeirsDiffer
  /\ ChildUnlinked /\ ChildrenDiffer

\* A client waits for one refresh at most, of the token it holds if any.
OneRefresh ==
  /\ \A g, h \in Handlers :
       job[g].client = job[h].client /\ job[g].client # None => g = h
  /\ \A h \in Handlers : job[h].client # None =>
       token[job[h].client] \in {job[h].token, None}

\* While nothing has failed each token is in one place: with one client, or
\* with one handler, which answers to that client, or to one that holds none;
OneHolder == \A c, d \in Clients : token[c] = token[d] /\ token[c] # None => c = d
OneHandler ==
  \A g, h \in Handlers : Busy(g) /\ Busy(h) /\ job[g].token = job[h].token => g = h
HolderAwaits ==
  \A h \in Handlers, c \in Clients : Busy(h) /\ token[c] = job[h].token => job[h].client = c

\* a new token is with the handler that made it;
ChildFresh ==
  \A h \in Handlers : job[h].child # None =>
    /\ ~Held(job[h].child)
    /\ heir[job[h].child] = None
    /\ \A g \in Handlers : Busy(g) => job[g].token # job[h].child
    /\ \A g \in Handlers : job[g].child = job[h].child => g = h

\* and it has a successor only when the answer is ready.
NoHeirYet == \A h \in Handlers : Busy(h) /\ job[h].at # "answer" => heir[job[h].token] = None
HeirAwaited ==
  \A c \in Clients : token[c] # None /\ heir[token[c]] # None => Refreshing(c)

OnePlace ==
  "failure" \notin incident =>
    OneHolder /\ OneHandler /\ HolderAwaits /\ ChildFresh /\ NoHeirYet /\ HeirAwaited

\* While nothing has happened at all, what is held or exchanged is live.
NoPurge == \A h \in Handlers : job[h].at # "purge"
BusyLive ==
  \A h \in Handlers : job[h].at \in {"read", "issue", "retire"} =>
    session[job[h].token] = "live"
AnswerGood == \A h \in Handlers : job[h].at = "answer" => job[h].child # None
ChildLive == \A h \in Handlers : job[h].child # None => session[job[h].child] = "live"
HeldLive ==
  \A c \in Clients : token[c] # None =>
    \/ session[token[c]] = "live"
    \/ \E h \in Handlers : job[h].client = c /\ job[h].at = "answer"

AllLive == incident = {} => NoPurge /\ BusyLive /\ AnswerGood /\ ChildLive /\ HeldLive

IInv == TypeOK /\ Rows /\ OneRefresh /\ OnePlace /\ AllLive

-------------------------------------------------------------------------------
(* The state of a handler *)

\* What TypeOK says of each handler, field by field.
LEMMA JobFields ==
  ASSUME TypeOK, NEW h \in Handlers
  PROVE  /\ job[h] \in Jobs
         /\ job[h].at \in {"idle", "read", "purge", "issue", "retire", "answer"}
         /\ job[h].token \in Ids \cup {None}
         /\ job[h].child \in Ids \cup {None}
         /\ job[h].client \in Clients \cup {None}
         /\ ~Busy(h) <=> job[h] = Idle
         /\ Busy(h) => job[h].token \in Ids
         /\ job[h].at = "retire" => job[h].child \in Ids
         /\ job[h].child # None => job[h].at \in {"retire", "answer"}
         /\ job[h].client # None => Busy(h)
  <1>1. job[h] \in Jobs
    BY DEF TypeOK
  <1> QED
    BY <1>1, SessionsAssumption DEF Jobs, Idle, Busy

\* One handler changes, to a state of its type.
LEMMA Change ==
  ASSUME TypeOK, NEW h \in Handlers, NEW r \in Jobs, job' = [job EXCEPT ![h] = r]
  PROVE  /\ job' \in [Handlers -> Jobs]
         /\ job'[h] = r
         /\ \A g \in Handlers : g # h => job'[g] = job[g]
  BY DEF TypeOK

\* What a handler that goes on with its refresh looks like afterwards.
Goes(h, at, child) ==
  /\ job' \in [Handlers -> Jobs]
  /\ job'[h].at = at /\ job'[h].token = job[h].token
  /\ job'[h].child = child /\ job'[h].client = job[h].client
  /\ \A g \in Handlers : g # h => job'[g] = job[g]

\* A step of rotate keeps the type, the token and the client.
LEMMA Becoming ==
  ASSUME TypeOK, NEW h \in Handlers, Busy(h),
         NEW at \in {"purge", "issue", "retire", "answer"},
         NEW child \in Ids \cup {None},
         at \in {"purge", "issue"} => child = None,
         at = "retire" => child \in Ids,
         Becomes(h, at, child)
  PROVE  Goes(h, at, child)
  <1> DEFINE r == [at |-> at, token |-> job[h].token, child |-> child,
                   client |-> job[h].client]
  <1>1. job[h].token \in Ids /\ job[h].client \in Clients \cup {None}
    BY JobFields
  <1>2. r \in Jobs
    BY <1>1 DEF Jobs
  <1>3. job' = [job EXCEPT ![h] = r]
    BY DEF Becomes
  <1> QED
    BY <1>2, <1>3, Change DEF Goes

-------------------------------------------------------------------------------
(* The steps of a handler *)

\* The invariant holds when rotate reads the row.
\* The invariant holds when rotate reads the row.
\* The invariant holds when rotate reads the row.
\* The invariant holds when rotate reads the row.
LEMMA ReadStep ==
  ASSUME IInv, NEW h \in Handlers, Read(h), UNCHANGED client
  PROVE  IInv'
  <1> DEFINE t == job[h].token
  <1>1. Busy(h) /\ t \in Ids /\ job[h].child = None /\ job[h].client \in Clients \cup {None}
    BY JobFields DEF Read, IInv, Busy
  <1>2. \/ Replayed(t) /\ Goes(h, "purge", None)
        \/ ~Replayed(t) /\ session[t] = "lapsed" /\ Goes(h, "answer", None)
        \/ ~Replayed(t) /\ Goes(h, "issue", None)
    <2>1. CASE Replayed(t) /\ Becomes(h, "purge", None)
      BY <2>1, <1>1, Becoming DEF IInv
    <2>2. CASE ~Replayed(t) /\ session[t] = "lapsed" /\ Becomes(h, "answer", None)
      BY <2>2, <1>1, Becoming DEF IInv
    <2>3. CASE ~Replayed(t) /\ Becomes(h, "issue", None)
      BY <2>3, <1>1, Becoming DEF IInv
    <2> QED
      BY <1>1, <2>1, <2>2, <2>3 DEF Read, Step, Refuse
  <1>3. TypeOK'
    BY <1>1, <1>2 DEF IInv, TypeOK, Read, client, Goes
  <1>4. Rows'
    BY <1>1, <1>2 DEF IInv, Rows, HeldExists, BusyExists, ChildExists, HeirsRevoked,
       HeirsDiffer, ChildUnlinked, ChildrenDiffer, Read, client, Goes, Busy
  <1>5. OneRefresh'
    BY <1>1, <1>2 DEF IInv, OneRefresh, Read, client, Goes
  <1>6. OnePlace'
    BY <1>1, <1>2 DEF IInv, OnePlace, OneHolder, OneHandler, HolderAwaits, ChildFresh,
       NoHeirYet, HeirAwaited, Read, client, Goes, Busy, Held, Refreshing
  <1>7. AllLive'
    BY <1>1, <1>2 DEF IInv, AllLive, NoPurge, BusyLive, AnswerGood, ChildLive, HeldLive,
       Read, client, Goes, Replayed, OnePlace, NoHeirYet, Busy
  <1> QED
    BY <1>3, <1>4, <1>5, <1>6, <1>7 DEF IInv

\* The invariant holds when rotate revokes every session.
LEMMA PurgeStep ==
  ASSUME IInv, NEW h \in Handlers, Purge(h), UNCHANGED client
  PROVE  IInv'
  <1>1. Busy(h) /\ job[h].token \in Ids /\ job[h].child = None
    BY JobFields DEF Purge, IInv, Busy
  <1>2. Goes(h, "answer", None)
    BY <1>1, Becoming DEF Purge, Refuse, IInv
  <1>3. TypeOK'
    BY <1>1, <1>2 DEF IInv, TypeOK, Purge, client, Goes, RevokeAllForUser,
       SessionStatuses
  <1>4. Rows'
    <2>1. HeldExists'
      BY <1>1, <1>2, JobFields DEF IInv, Rows, TypeOK, HeldExists, Purge, client, Goes,
         RevokeAllForUser
    <2>2. BusyExists'
      BY <1>1, <1>2, JobFields DEF IInv, Rows, TypeOK, BusyExists, Purge, client, Goes,
         Busy, RevokeAllForUser
    <2>3. ChildExists'
      BY <1>1, <1>2, JobFields DEF IInv, Rows, TypeOK, ChildExists, Purge, client, Goes,
         RevokeAllForUser
    <2>4. HeirsRevoked'
      BY <1>1, <1>2, JobFields DEF IInv, Rows, TypeOK, HeirsRevoked, Purge, client,
         Goes, RevokeAllForUser
    <2>5. HeirsDiffer'
      BY <1>1, <1>2, JobFields DEF IInv, Rows, TypeOK, HeirsDiffer, Purge, client, Goes,
         RevokeAllForUser
    <2>6. ChildUnlinked'
      BY <1>1, <1>2, JobFields DEF IInv, Rows, TypeOK, ChildUnlinked, Purge, client,
         Goes, RevokeAllForUser
    <2>7. ChildrenDiffer'
      BY <1>1, <1>2, JobFields DEF IInv, Rows, TypeOK, ChildrenDiffer, Purge, client,
         Goes, RevokeAllForUser
    <2> QED
      BY <2>1, <2>2, <2>3, <2>4, <2>5, <2>6, <2>7 DEF Rows
  <1>5. OneRefresh'
    BY <1>1, <1>2 DEF IInv, OneRefresh, Purge, client, Goes
  <1>6. OnePlace'
    BY <1>1, <1>2 DEF IInv, OnePlace, OneHolder, OneHandler, HolderAwaits, ChildFresh,
       NoHeirYet, HeirAwaited, Purge, client, Goes, Busy, Held, Refreshing
  <1>7. AllLive'
    BY <1>1, <1>2 DEF IInv, AllLive, NoPurge, BusyLive, AnswerGood, ChildLive, HeldLive,
       Purge, client, Goes
  <1> QED
    BY <1>3, <1>4, <1>5, <1>6, <1>7 DEF IInv

\* The invariant holds when rotate inserts the successor.
LEMMA IssueStep ==
  ASSUME IInv, NEW h \in Handlers, Issue(h), UNCHANGED client
  PROVE  IInv'
  <1>1. Busy(h) /\ job[h].token \in Ids /\ job[h].child = None
    BY JobFields DEF Issue, IInv, Busy
  <1>2. PICK s \in Ids : NewSession(s) /\ Becomes(h, "retire", s)
    BY DEF Issue
  <1>3. s # None /\ Goes(h, "retire", s)
    BY <1>1, <1>2, Becoming, SessionsAssumption DEF IInv
  <1>4. session[s] = "none" /\ session' = [session EXCEPT ![s] = "live"]
    BY <1>2 DEF NewSession
  <1>5. TypeOK'
    BY <1>1, <1>3, <1>4, JobFields DEF IInv, TypeOK, Issue, client, Goes,
       SessionStatuses
  <1>6. Rows'
    <2>1. HeldExists'
      BY <1>1, <1>3, <1>4, JobFields DEF IInv, Rows, TypeOK, HeldExists, Issue, client,
         Goes
    <2>2. BusyExists'
      BY <1>1, <1>3, <1>4, JobFields DEF IInv, Rows, TypeOK, BusyExists, Issue, client,
         Goes, Busy
    <2>3. ChildExists'
      BY <1>1, <1>3, <1>4, JobFields DEF IInv, Rows, TypeOK, ChildExists, Issue, client,
         Goes
    <2>4. HeirsRevoked'
      BY <1>1, <1>3, <1>4, JobFields DEF IInv, Rows, TypeOK, HeirsRevoked, Issue,
         client, Goes
    <2>5. HeirsDiffer'
      BY <1>1, <1>3, <1>4, JobFields DEF IInv, Rows, TypeOK, HeirsDiffer, Issue, client,
         Goes
    <2>6. ChildUnlinked'
      BY <1>1, <1>3, <1>4, JobFields DEF IInv, Rows, TypeOK, ChildUnlinked, Issue,
         client, Goes, HeirsRevoked
    <2>7. ChildrenDiffer'
      BY <1>1, <1>3, <1>4, JobFields DEF IInv, Rows, TypeOK, ChildrenDiffer, Issue,
         client, Goes, ChildExists
    <2> QED
      BY <2>1, <2>2, <2>3, <2>4, <2>5, <2>6, <2>7 DEF Rows
  <1>7. OneRefresh'
    BY <1>1, <1>3, <1>4, JobFields DEF IInv, OneRefresh, Issue, client, Goes
  <1>8. OnePlace'
    <2> SUFFICES ASSUME "failure" \notin incident' PROVE (OneHolder /\ OneHandler /\
       HolderAwaits /\ ChildFresh /\ NoHeirYet /\ HeirAwaited)'
      BY DEF OnePlace
    <2>1. "failure" \notin incident /\ OneHolder /\ OneHandler /\ HolderAwaits /\
       ChildFresh /\ NoHeirYet /\ HeirAwaited
      BY <1>1, <1>3, <1>4, JobFields DEF IInv, OnePlace, Issue, client, Goes
    <2>2. OneHolder'
      BY <2>1, <1>1, <1>3, <1>4, JobFields DEF IInv, TypeOK, OneHolder, Issue, client,
         Goes
    <2>3. OneHandler'
      BY <2>1, <1>1, <1>3, <1>4, JobFields DEF IInv, TypeOK, OneHandler, Issue, client,
         Goes, Busy
    <2>4. HolderAwaits'
      BY <2>1, <1>1, <1>3, <1>4, JobFields DEF IInv, TypeOK, HolderAwaits, Issue,
         client, Goes, Busy
    <2>5. ChildFresh'
      BY <2>1, <1>1, <1>3, <1>4, JobFields DEF IInv, TypeOK, ChildFresh, Issue, client,
         Goes, Busy, Held, Rows, HeldExists, BusyExists, ChildExists, HeirsRevoked
    <2>6. NoHeirYet'
      BY <2>1, <1>1, <1>3, <1>4, JobFields DEF IInv, TypeOK, NoHeirYet, Issue, client,
         Goes, Busy
    <2>7. HeirAwaited'
      BY <2>1, <1>1, <1>3, <1>4, JobFields DEF IInv, TypeOK, HeirAwaited, Issue, client,
         Goes, Refreshing
    <2> QED
      BY <2>2, <2>3, <2>4, <2>5, <2>6, <2>7
  <1>9. AllLive'
    <2> SUFFICES ASSUME incident' = {} PROVE (NoPurge /\ BusyLive /\ AnswerGood /\
       ChildLive /\ HeldLive)'
      BY DEF AllLive
    <2>1. incident = {} /\ NoPurge /\ BusyLive /\ AnswerGood /\ ChildLive /\ HeldLive
      BY <1>1, <1>3, <1>4, JobFields DEF IInv, AllLive, Issue, client, Goes
    <2>2. NoPurge'
      BY <2>1, <1>1, <1>3, <1>4, JobFields DEF IInv, TypeOK, NoPurge, Issue, client,
         Goes
    <2>3. BusyLive'
      BY <2>1, <1>1, <1>3, <1>4, JobFields DEF IInv, TypeOK, BusyLive, Issue, client,
         Goes
    <2>4. AnswerGood'
      BY <2>1, <1>1, <1>3, <1>4, JobFields DEF IInv, TypeOK, AnswerGood, Issue, client,
         Goes
    <2>5. ChildLive'
      BY <2>1, <1>1, <1>3, <1>4, JobFields DEF IInv, TypeOK, ChildLive, Issue, client,
         Goes
    <2>6. HeldLive'
      BY <2>1, <1>1, <1>3, <1>4, JobFields DEF IInv, TypeOK, HeldLive, Issue, client,
         Goes
    <2> QED
      BY <2>2, <2>3, <2>4, <2>5, <2>6
  <1> QED
    BY <1>5, <1>6, <1>7, <1>8, <1>9 DEF IInv

\* The invariant holds when rotate retires the row.
LEMMA RetireStep ==
  ASSUME IInv, NEW h \in Handlers, Retire(h), UNCHANGED client
  PROVE  IInv'
  <1> DEFINE t == job[h].token
             s == job[h].child
  <1>1. Busy(h) /\ t \in Ids /\ s \in Ids /\ s # None
    BY JobFields, SessionsAssumption DEF Retire, IInv, Busy
  <1>2. Goes(h, "answer", s)
    BY <1>1, Becoming DEF Retire, Step, IInv
  <1>3. session' = [session EXCEPT ![t] = "revoked"] /\ heir' = [heir EXCEPT ![t] = s]
    BY DEF Retire
  <1>4. TypeOK'
    BY <1>1, <1>2, <1>3, JobFields DEF IInv, TypeOK, Retire, client, Goes,
       SessionStatuses
  <1>5. Rows'
    <2>1. HeldExists'
      BY <1>1, <1>2, <1>3, JobFields DEF IInv, Rows, TypeOK, HeldExists, Retire, client,
         Goes
    <2>2. BusyExists'
      BY <1>1, <1>2, <1>3, JobFields DEF IInv, Rows, TypeOK, BusyExists, Retire, client,
         Goes, Busy
    <2>3. ChildExists'
      BY <1>1, <1>2, <1>3, JobFields DEF IInv, Rows, TypeOK, ChildExists, Retire,
         client, Goes
    <2>4. HeirsRevoked'
      BY <1>1, <1>2, <1>3, JobFields DEF IInv, Rows, TypeOK, HeirsRevoked, Retire,
         client, Goes, ChildExists
    <2>5. HeirsDiffer'
      BY <1>1, <1>2, <1>3, JobFields DEF IInv, Rows, TypeOK, HeirsDiffer, Retire,
         client, Goes, ChildUnlinked
    <2>6. ChildUnlinked'
      BY <1>1, <1>2, <1>3, JobFields DEF IInv, Rows, TypeOK, ChildUnlinked, Retire,
         client, Goes, ChildrenDiffer
    <2>7. ChildrenDiffer'
      BY <1>1, <1>2, <1>3, JobFields DEF IInv, Rows, TypeOK, ChildrenDiffer, Retire,
         client, Goes
    <2> QED
      BY <2>1, <2>2, <2>3, <2>4, <2>5, <2>6, <2>7 DEF Rows
  <1>6. OneRefresh'
    BY <1>1, <1>2, <1>3, JobFields DEF IInv, OneRefresh, Retire, client, Goes
  <1>7. OnePlace'
    <2> SUFFICES ASSUME "failure" \notin incident' PROVE (OneHolder /\ OneHandler /\
       HolderAwaits /\ ChildFresh /\ NoHeirYet /\ HeirAwaited)'
      BY DEF OnePlace
    <2>1. "failure" \notin incident /\ OneHolder /\ OneHandler /\ HolderAwaits /\
       ChildFresh /\ NoHeirYet /\ HeirAwaited
      BY <1>1, <1>2, <1>3, JobFields DEF IInv, OnePlace, Retire, client, Goes
    <2>2. OneHolder'
      BY <2>1, <1>1, <1>2, <1>3, JobFields DEF IInv, TypeOK, OneHolder, Retire, client,
         Goes
    <2>3. OneHandler'
      BY <2>1, <1>1, <1>2, <1>3, JobFields DEF IInv, TypeOK, OneHandler, Retire, client,
         Goes, Busy
    <2>4. HolderAwaits'
      BY <2>1, <1>1, <1>2, <1>3, JobFields DEF IInv, TypeOK, HolderAwaits, Retire,
         client, Goes, Busy
    <2>5. ChildFresh'
      BY <2>1, <1>1, <1>2, <1>3, JobFields DEF IInv, TypeOK, ChildFresh, Retire, client,
         Goes, Busy, Held
    <2>6. NoHeirYet'
      BY <2>1, <1>1, <1>2, <1>3, JobFields DEF IInv, TypeOK, NoHeirYet, Retire, client,
         Goes, Busy, OneHandler
    <2>7. HeirAwaited'
      <3>1. \A c \in Clients : Refreshing(c) => Refreshing(c)'
        BY <1>2 DEF Refreshing, Goes
      <3>2. \A c \in Clients : token[c] = t => Refreshing(c)
        BY <2>1, <1>1 DEF HolderAwaits, Refreshing
      <3>3. \A c \in Clients : token[c] # t /\ token[c] # None /\ heir'[token[c]] # None
              => Refreshing(c)
        BY <2>1, <1>3 DEF HeirAwaited, IInv, TypeOK
      <3> QED
        BY <3>1, <3>2, <3>3 DEF HeirAwaited, client
    <2> QED
      BY <2>2, <2>3, <2>4, <2>5, <2>6, <2>7
  <1>8. AllLive'
    <2> SUFFICES ASSUME incident' = {} PROVE (NoPurge /\ BusyLive /\ AnswerGood /\
       ChildLive /\ HeldLive)'
      BY DEF AllLive
    <2>1. incident = {} /\ NoPurge /\ BusyLive /\ AnswerGood /\ ChildLive /\ HeldLive
      BY <1>1, <1>2, <1>3, JobFields DEF IInv, AllLive, Retire, client, Goes
    <2>2. NoPurge'
      BY <2>1, <1>1, <1>2, <1>3, JobFields DEF IInv, TypeOK, NoPurge, Retire, client,
         Goes
    <2>3. BusyLive'
      BY <2>1, <1>1, <1>2, <1>3, JobFields DEF IInv, TypeOK, BusyLive, Retire, client,
         Goes, Busy, OnePlace, OneHandler
    <2>4. AnswerGood'
      BY <2>1, <1>1, <1>2, <1>3, JobFields DEF IInv, TypeOK, AnswerGood, Retire, client,
         Goes
    <2>5. ChildLive'
      BY <2>1, <1>1, <1>2, <1>3, JobFields DEF IInv, TypeOK, ChildLive, Retire, client,
         Goes, Busy, Held, OnePlace, ChildFresh
    <2>6. HeldLive'
      BY <2>1, <1>1, <1>2, <1>3, JobFields DEF IInv, TypeOK, HeldLive, Retire, client,
         Goes, Busy, OnePlace, HolderAwaits, OneRefresh, OneHolder
    <2> QED
      BY <2>2, <2>3, <2>4, <2>5, <2>6
  <1> QED
    BY <1>4, <1>5, <1>6, <1>7, <1>8 DEF IInv

\* The invariant holds when a statement of the refresh fails.
LEMMA ServerErrorStep ==
  ASSUME IInv, NEW h \in Handlers, ServerError(h), Record("failure"), UNCHANGED <<token, req>>
  PROVE  IInv'
  <1>1. Busy(h) /\ job[h].token \in Ids /\ job[h].client \in Clients \cup {None}
    BY JobFields DEF ServerError, IInv, Busy
  <1>2. Goes(h, "answer", None)
    BY <1>1, Becoming DEF ServerError, Refuse, IInv
  <1>3. TypeOK'
    BY <1>1, <1>2 DEF IInv, TypeOK, ServerError, Record, Goes, Incidents
  <1>4. Rows'
    BY <1>1, <1>2 DEF IInv, Rows, HeldExists, BusyExists, ChildExists, HeirsRevoked,
       HeirsDiffer, ChildUnlinked, ChildrenDiffer, ServerError, Record, Goes, Busy
  <1>5. OneRefresh'
    BY <1>1, <1>2 DEF IInv, OneRefresh, ServerError, Record, Goes
  <1>6. OnePlace'
    BY <1>1, <1>2 DEF IInv, OnePlace, OneHolder, OneHandler, HolderAwaits, ChildFresh,
       NoHeirYet, HeirAwaited, ServerError, Record, Goes, Busy, Held, Refreshing
  <1>7. AllLive'
    BY <1>1, <1>2 DEF IInv, AllLive, NoPurge, BusyLive, AnswerGood, ChildLive, HeldLive,
       ServerError, Record, Goes
  <1> QED
    BY <1>3, <1>4, <1>5, <1>6, <1>7 DEF IInv

\* The invariant holds when an answer that nobody waits for is dropped.
LEMMA ForgetStep ==
  ASSUME IInv, NEW h \in Handlers, Forget(h), UNCHANGED client
  PROVE  IInv'
  <1>1. Busy(h) /\ job[h].token \in Ids /\ job[h].client = None
    BY JobFields DEF Forget, IInv, Busy
  <1>2. /\ job' \in [Handlers -> Jobs]
        /\ job'[h] = Idle
        /\ \A g \in Handlers : g # h => job'[g] = job[g]
    BY Change DEF Forget, IInv, Jobs
  <1>3. TypeOK'
    BY <1>1, <1>2 DEF IInv, TypeOK, Forget, client, Idle
  <1>4. Rows'
    BY <1>1, <1>2 DEF IInv, Rows, HeldExists, BusyExists, ChildExists, HeirsRevoked,
       HeirsDiffer, ChildUnlinked, ChildrenDiffer, Forget, client, Idle, Busy
  <1>5. OneRefresh'
    BY <1>1, <1>2 DEF IInv, OneRefresh, Forget, client, Idle
  <1>6. OnePlace'
    <2> SUFFICES ASSUME "failure" \notin incident' PROVE (OneHolder /\ OneHandler /\
       HolderAwaits /\ ChildFresh /\ NoHeirYet /\ HeirAwaited)'
      BY DEF OnePlace
    <2>1. "failure" \notin incident /\ OneHolder /\ OneHandler /\ HolderAwaits /\
       ChildFresh /\ NoHeirYet /\ HeirAwaited
      BY <1>1, <1>2 DEF IInv, OnePlace, Forget, client, Idle
    <2>2. OneHolder'
      BY <2>1, <1>1, <1>2 DEF IInv, OneHolder, Forget, client, Idle
    <2>3. OneHandler'
      BY <2>1, <1>1, <1>2 DEF IInv, OneHandler, Forget, client, Idle, Busy
    <2>4. HolderAwaits'
      BY <2>1, <1>1, <1>2 DEF IInv, HolderAwaits, Forget, client, Idle, Busy
    <2>5. ChildFresh'
      BY <2>1, <1>1, <1>2 DEF IInv, ChildFresh, Forget, client, Idle, Busy, Held
    <2>6. NoHeirYet'
      BY <2>1, <1>1, <1>2 DEF IInv, NoHeirYet, Forget, client, Idle, Busy
    <2>7. HeirAwaited'
      BY <2>1, <1>1, <1>2 DEF IInv, HeirAwaited, Forget, client, Idle, Refreshing
    <2> QED
      BY <2>2, <2>3, <2>4, <2>5, <2>6, <2>7
  <1>7. AllLive'
    <2> SUFFICES ASSUME incident' = {} PROVE (NoPurge /\ BusyLive /\ AnswerGood /\
       ChildLive /\ HeldLive)'
      BY DEF AllLive
    <2>1. incident = {} /\ NoPurge /\ BusyLive /\ AnswerGood /\ ChildLive /\ HeldLive
      BY <1>1, <1>2 DEF IInv, AllLive, Forget, client, Idle
    <2>2. NoPurge'
      BY <2>1, <1>1, <1>2 DEF IInv, NoPurge, Forget, client, Idle
    <2>3. BusyLive'
      BY <2>1, <1>1, <1>2 DEF IInv, BusyLive, Forget, client, Idle
    <2>4. AnswerGood'
      BY <2>1, <1>1, <1>2 DEF IInv, AnswerGood, Forget, client, Idle
    <2>5. ChildLive'
      BY <2>1, <1>1, <1>2 DEF IInv, ChildLive, Forget, client, Idle
    <2>6. HeldLive'
      BY <2>1, <1>1, <1>2, SessionsAssumption DEF IInv, HeldLive, Forget, client, Idle
    <2> QED
      BY <2>2, <2>3, <2>4, <2>5, <2>6
  <1> QED
    BY <1>3, <1>4, <1>5, <1>6, <1>7 DEF IInv

\* The invariant holds when a session is signed out.
LEMMA RevokeSessionStep ==
  ASSUME IInv, NEW s \in Ids, RevokeSession(s), Record("ended"), UNCHANGED <<token, req>>
  PROVE  IInv'
  <1>1. TypeOK'
    BY JobFields DEF IInv, TypeOK, RevokeSession, Record, SessionStatuses, Incidents
  <1>2. Rows'
    <2>1. HeldExists'
      BY JobFields DEF IInv, Rows, TypeOK, HeldExists, RevokeSession, Record
    <2>2. BusyExists'
      BY JobFields DEF IInv, Rows, TypeOK, BusyExists, RevokeSession, Record, Busy
    <2>3. ChildExists'
      BY JobFields DEF IInv, Rows, TypeOK, ChildExists, RevokeSession, Record
    <2>4. HeirsRevoked'
      BY JobFields DEF IInv, Rows, TypeOK, HeirsRevoked, RevokeSession, Record
    <2>5. HeirsDiffer'
      BY JobFields DEF IInv, Rows, TypeOK, HeirsDiffer, RevokeSession, Record
    <2>6. ChildUnlinked'
      BY JobFields DEF IInv, Rows, TypeOK, ChildUnlinked, RevokeSession, Record
    <2>7. ChildrenDiffer'
      BY JobFields DEF IInv, Rows, TypeOK, ChildrenDiffer, RevokeSession, Record
    <2> QED
      BY <2>1, <2>2, <2>3, <2>4, <2>5, <2>6, <2>7 DEF Rows
  <1>3. OneRefresh'
    BY DEF IInv, OneRefresh, RevokeSession, Record
  <1>4. OnePlace'
    BY DEF IInv, OnePlace, OneHolder, OneHandler, HolderAwaits, ChildFresh, NoHeirYet,
       HeirAwaited, RevokeSession, Record, Busy, Held, Refreshing
  <1>5. AllLive'
    BY DEF IInv, AllLive, NoPurge, BusyLive, AnswerGood, ChildLive, HeldLive,
       RevokeSession, Record
  <1> QED
    BY <1>1, <1>2, <1>3, <1>4, <1>5 DEF IInv

\* The invariant holds when every session is signed out.
LEMMA LogoutAllStep ==
  ASSUME IInv, LogoutAll, Record("ended"), UNCHANGED <<token, req>>
  PROVE  IInv'
  <1>1. TypeOK'
    BY JobFields DEF IInv, TypeOK, LogoutAll, RevokeAllForUser, Record, SessionStatuses,
       Incidents
  <1>2. Rows'
    <2>1. HeldExists'
      BY JobFields DEF IInv, Rows, TypeOK, HeldExists, LogoutAll, RevokeAllForUser,
         Record
    <2>2. BusyExists'
      BY JobFields DEF IInv, Rows, TypeOK, BusyExists, LogoutAll, RevokeAllForUser,
         Record, Busy
    <2>3. ChildExists'
      BY JobFields DEF IInv, Rows, TypeOK, ChildExists, LogoutAll, RevokeAllForUser,
         Record
    <2>4. HeirsRevoked'
      BY JobFields DEF IInv, Rows, TypeOK, HeirsRevoked, LogoutAll, RevokeAllForUser,
         Record
    <2>5. HeirsDiffer'
      BY JobFields DEF IInv, Rows, TypeOK, HeirsDiffer, LogoutAll, RevokeAllForUser,
         Record
    <2>6. ChildUnlinked'
      BY JobFields DEF IInv, Rows, TypeOK, ChildUnlinked, LogoutAll, RevokeAllForUser,
         Record
    <2>7. ChildrenDiffer'
      BY JobFields DEF IInv, Rows, TypeOK, ChildrenDiffer, LogoutAll, RevokeAllForUser,
         Record
    <2> QED
      BY <2>1, <2>2, <2>3, <2>4, <2>5, <2>6, <2>7 DEF Rows
  <1>3. OneRefresh'
    BY DEF IInv, OneRefresh, LogoutAll, RevokeAllForUser, Record
  <1>4. OnePlace'
    BY DEF IInv, OnePlace, OneHolder, OneHandler, HolderAwaits, ChildFresh, NoHeirYet,
       HeirAwaited, LogoutAll, RevokeAllForUser, Record, Busy, Held, Refreshing
  <1>5. AllLive'
    BY DEF IInv, AllLive, NoPurge, BusyLive, AnswerGood, ChildLive, HeldLive, LogoutAll,
       RevokeAllForUser, Record
  <1> QED
    BY <1>1, <1>2, <1>3, <1>4, <1>5 DEF IInv

\* The invariant holds when a session reaches its term.
LEMMA LapseStep ==
  ASSUME IInv, NEW s \in Ids, Lapse(s), Record("ended"), UNCHANGED <<token, req>>
  PROVE  IInv'
  <1>1. TypeOK'
    BY JobFields DEF IInv, TypeOK, Lapse, Record, SessionStatuses, Incidents
  <1>2. Rows'
    <2>1. HeldExists'
      BY JobFields DEF IInv, Rows, TypeOK, HeldExists, Lapse, Record
    <2>2. BusyExists'
      BY JobFields DEF IInv, Rows, TypeOK, BusyExists, Lapse, Record, Busy
    <2>3. ChildExists'
      BY JobFields DEF IInv, Rows, TypeOK, ChildExists, Lapse, Record
    <2>4. HeirsRevoked'
      BY JobFields DEF IInv, Rows, TypeOK, HeirsRevoked, Lapse, Record
    <2>5. HeirsDiffer'
      BY JobFields DEF IInv, Rows, TypeOK, HeirsDiffer, Lapse, Record
    <2>6. ChildUnlinked'
      BY JobFields DEF IInv, Rows, TypeOK, ChildUnlinked, Lapse, Record
    <2>7. ChildrenDiffer'
      BY JobFields DEF IInv, Rows, TypeOK, ChildrenDiffer, Lapse, Record
    <2> QED
      BY <2>1, <2>2, <2>3, <2>4, <2>5, <2>6, <2>7 DEF Rows
  <1>3. OneRefresh'
    BY DEF IInv, OneRefresh, Lapse, Record
  <1>4. OnePlace'
    BY DEF IInv, OnePlace, OneHolder, OneHandler, HolderAwaits, ChildFresh, NoHeirYet,
       HeirAwaited, Lapse, Record, Busy, Held, Refreshing
  <1>5. AllLive'
    BY DEF IInv, AllLive, NoPurge, BusyLive, AnswerGood, ChildLive, HeldLive, Lapse,
       Record
  <1> QED
    BY <1>1, <1>2, <1>3, <1>4, <1>5 DEF IInv

-------------------------------------------------------------------------------
(* The steps of a client *)

\* The requests that a refresh wakes keep their type.
LEMMA WakeType ==
  ASSUME TypeOK, NEW c \in Clients, NEW next \in Requests, Wake(c, next)
  PROVE  req' \in [Clients -> [Slots -> Requests]]
  BY DEF TypeOK, Wake

\* The invariant holds when a client signs in.
LEMMA LoginStep ==
  ASSUME IInv, NEW c \in Clients, Login(c)
  PROVE  IInv'
  <1>1. PICK s \in Ids : NewSession(s) /\ token' = [token EXCEPT ![c] = s]
    BY DEF Login
  <1>2. /\ session[s] = "none" /\ session' = [session EXCEPT ![s] = "live"]
        /\ s # None /\ ~Refreshing(c)
    BY <1>1, SessionsAssumption DEF NewSession, Login
  <1>3. TypeOK'
    BY <1>1, <1>2, JobFields DEF IInv, TypeOK, Login, SessionStatuses
  <1>4. Rows'
    <2>1. HeldExists'
      BY <1>1, <1>2, JobFields DEF IInv, Rows, TypeOK, HeldExists, Login
    <2>2. BusyExists'
      BY <1>1, <1>2, JobFields DEF IInv, Rows, TypeOK, BusyExists, Login, Busy
    <2>3. ChildExists'
      BY <1>1, <1>2, JobFields DEF IInv, Rows, TypeOK, ChildExists, Login
    <2>4. HeirsRevoked'
      BY <1>1, <1>2, JobFields DEF IInv, Rows, TypeOK, HeirsRevoked, Login
    <2>5. HeirsDiffer'
      BY <1>1, <1>2, JobFields DEF IInv, Rows, TypeOK, HeirsDiffer, Login
    <2>6. ChildUnlinked'
      BY <1>1, <1>2, JobFields DEF IInv, Rows, TypeOK, ChildUnlinked, Login
    <2>7. ChildrenDiffer'
      BY <1>1, <1>2, JobFields DEF IInv, Rows, TypeOK, ChildrenDiffer, Login
    <2> QED
      BY <2>1, <2>2, <2>3, <2>4, <2>5, <2>6, <2>7 DEF Rows
  <1>5. OneRefresh'
    BY <1>1, <1>2, JobFields DEF IInv, TypeOK, OneRefresh, Login, Refreshing
  <1>6. OnePlace'
    <2> SUFFICES ASSUME "failure" \notin incident' PROVE (OneHolder /\ OneHandler /\
       HolderAwaits /\ ChildFresh /\ NoHeirYet /\ HeirAwaited)'
      BY DEF OnePlace
    <2>1. "failure" \notin incident /\ OneHolder /\ OneHandler /\ HolderAwaits /\
       ChildFresh /\ NoHeirYet /\ HeirAwaited
      BY <1>1, <1>2, JobFields DEF IInv, OnePlace, Login
    <2>2. OneHolder'
      BY <2>1, <1>1, <1>2, JobFields DEF IInv, TypeOK, OneHolder, Login, Rows,
         HeldExists
    <2>3. OneHandler'
      BY <2>1, <1>1, <1>2, JobFields DEF IInv, TypeOK, OneHandler, Login, Busy
    <2>4. HolderAwaits'
      BY <2>1, <1>1, <1>2, JobFields DEF IInv, TypeOK, HolderAwaits, Login, Busy, Rows,
         BusyExists
    <2>5. ChildFresh'
      BY <2>1, <1>1, <1>2, JobFields DEF IInv, TypeOK, ChildFresh, Login, Busy, Held,
         Rows, ChildExists
    <2>6. NoHeirYet'
      BY <2>1, <1>1, <1>2, JobFields DEF IInv, TypeOK, NoHeirYet, Login, Busy
    <2>7. HeirAwaited'
      BY <2>1, <1>1, <1>2, JobFields DEF IInv, TypeOK, HeirAwaited, Login, Refreshing,
         Rows, HeirsRevoked
    <2> QED
      BY <2>2, <2>3, <2>4, <2>5, <2>6, <2>7
  <1>7. AllLive'
    <2> SUFFICES ASSUME incident' = {} PROVE (NoPurge /\ BusyLive /\ AnswerGood /\
       ChildLive /\ HeldLive)'
      BY DEF AllLive
    <2>1. incident = {} /\ NoPurge /\ BusyLive /\ AnswerGood /\ ChildLive /\ HeldLive
      BY <1>1, <1>2, JobFields DEF IInv, AllLive, Login
    <2>2. NoPurge'
      BY <2>1, <1>1, <1>2, JobFields DEF IInv, TypeOK, NoPurge, Login
    <2>3. BusyLive'
      BY <2>1, <1>1, <1>2, JobFields DEF IInv, TypeOK, BusyLive, Login
    <2>4. AnswerGood'
      BY <2>1, <1>1, <1>2, JobFields DEF IInv, TypeOK, AnswerGood, Login
    <2>5. ChildLive'
      BY <2>1, <1>1, <1>2, JobFields DEF IInv, TypeOK, ChildLive, Login
    <2>6. HeldLive'
      BY <2>1, <1>1, <1>2, JobFields DEF IInv, TypeOK, HeldLive, Login
    <2> QED
      BY <2>2, <2>3, <2>4, <2>5, <2>6
  <1> QED
    BY <1>3, <1>4, <1>5, <1>6, <1>7 DEF IInv

\* The invariant holds when a client sends a request.
LEMMA SendStep ==
  ASSUME IInv, NEW c \in Clients, NEW i \in Slots, Send(c, i)
  PROVE  IInv'
  <1>1. TypeOK'
    BY DEF IInv, TypeOK, Send, server, Requests
  <1>2. Rows'
    BY DEF IInv, Rows, HeldExists, BusyExists, ChildExists, HeirsRevoked, HeirsDiffer,
       ChildUnlinked, ChildrenDiffer, Send, server, Busy
  <1>3. OneRefresh'
    BY DEF IInv, OneRefresh, Send, server
  <1>4. OnePlace'
    BY DEF IInv, OnePlace, OneHolder, OneHandler, HolderAwaits, ChildFresh, NoHeirYet,
       HeirAwaited, Send, server, Busy, Held, Refreshing
  <1>5. AllLive'
    BY DEF IInv, AllLive, NoPurge, BusyLive, AnswerGood, ChildLive, HeldLive, Send,
       server
  <1> QED
    BY <1>1, <1>2, <1>3, <1>4, <1>5 DEF IInv

\* The invariant holds when a request ends.
LEMMA EndStep ==
  ASSUME IInv, NEW c \in Clients, NEW i \in Slots, End(c, i)
  PROVE  IInv'
  <1>1. TypeOK'
    BY DEF IInv, TypeOK, End, server, Requests
  <1>2. Rows'
    BY DEF IInv, Rows, HeldExists, BusyExists, ChildExists, HeirsRevoked, HeirsDiffer,
       ChildUnlinked, ChildrenDiffer, End, server, Busy
  <1>3. OneRefresh'
    BY DEF IInv, OneRefresh, End, server
  <1>4. OnePlace'
    BY DEF IInv, OnePlace, OneHolder, OneHandler, HolderAwaits, ChildFresh, NoHeirYet,
       HeirAwaited, End, server, Busy, Held, Refreshing
  <1>5. AllLive'
    BY DEF IInv, AllLive, NoPurge, BusyLive, AnswerGood, ChildLive, HeldLive, End,
       server
  <1> QED
    BY <1>1, <1>2, <1>3, <1>4, <1>5 DEF IInv

\* The invariant holds when a refused request starts a refresh.
LEMMA StartStep ==
  ASSUME IInv, NEW c \in Clients, NEW h \in Handlers, token[c] # None,
         ~Refreshing(c), job[h] = Idle, UNCHANGED <<session, heir, token, incident>>,
         job' = [job EXCEPT ![h] = [at |-> "read", token |-> token[c],
                                    child |-> None, client |-> c]],
         req' \in [Clients -> [Slots -> Requests]]
  PROVE  IInv'
  <1> DEFINE new == [at |-> "read", token |-> token[c], child |-> None, client |-> c]
  <1>1. token[c] \in Ids /\ c # None
    BY SessionsAssumption DEF IInv, TypeOK
  <1>2. /\ job' \in [Handlers -> Jobs]
        /\ job'[h].at = "read" /\ job'[h].token = token[c]
        /\ job'[h].child = None /\ job'[h].client = c
        /\ \A g \in Handlers : g # h => job'[g] = job[g]
    <2>1. new \in Jobs
      BY <1>1 DEF Jobs
    <2> QED
      BY <2>1, Change DEF IInv
  <1>3. job[h].client = None /\ \A g \in Handlers : job[g].client # c
    BY DEF Refreshing, Idle
  <1>4. TypeOK'
    BY <1>1, <1>2, <1>3 DEF IInv, TypeOK
  <1>5. Rows'
    <2>1. HeldExists'
      BY <1>1, <1>2, <1>3 DEF IInv, Rows, TypeOK, HeldExists
    <2>2. BusyExists'
      BY <1>1, <1>2, <1>3 DEF IInv, Rows, TypeOK, BusyExists, Busy, HeldExists
    <2>3. ChildExists'
      BY <1>1, <1>2, <1>3 DEF IInv, Rows, TypeOK, ChildExists
    <2>4. HeirsRevoked'
      BY <1>1, <1>2, <1>3 DEF IInv, Rows, TypeOK, HeirsRevoked
    <2>5. HeirsDiffer'
      BY <1>1, <1>2, <1>3 DEF IInv, Rows, TypeOK, HeirsDiffer
    <2>6. ChildUnlinked'
      BY <1>1, <1>2, <1>3 DEF IInv, Rows, TypeOK, ChildUnlinked
    <2>7. ChildrenDiffer'
      BY <1>1, <1>2, <1>3 DEF IInv, Rows, TypeOK, ChildrenDiffer
    <2> QED
      BY <2>1, <2>2, <2>3, <2>4, <2>5, <2>6, <2>7 DEF Rows
  <1>6. OneRefresh'
    BY <1>1, <1>2, <1>3 DEF IInv, OneRefresh
  <1>7. OnePlace'
    <2> SUFFICES ASSUME "failure" \notin incident' PROVE (OneHolder /\ OneHandler /\
       HolderAwaits /\ ChildFresh /\ NoHeirYet /\ HeirAwaited)'
      BY DEF OnePlace
    <2>1. "failure" \notin incident /\ OneHolder /\ OneHandler /\ HolderAwaits /\
       ChildFresh /\ NoHeirYet /\ HeirAwaited
      BY <1>1, <1>2, <1>3 DEF IInv, OnePlace
    <2>2. OneHolder'
      BY <2>1, <1>1, <1>2, <1>3 DEF IInv, TypeOK, OneHolder
    <2>3. OneHandler'
      BY <2>1, <1>1, <1>2, <1>3, JobFields DEF IInv, TypeOK, OneHandler, Busy,
         HolderAwaits
    <2>4. HolderAwaits'
      BY <2>1, <1>1, <1>2, <1>3 DEF IInv, TypeOK, HolderAwaits, Busy, OneHolder
    <2>5. ChildFresh'
      BY <2>1, <1>1, <1>2, <1>3 DEF IInv, TypeOK, ChildFresh, Busy, Held
    <2>6. NoHeirYet'
      BY <2>1, <1>1, <1>2, <1>3 DEF IInv, TypeOK, NoHeirYet, Busy, Refreshing,
         HeirAwaited
    <2>7. HeirAwaited'
      BY <2>1, <1>1, <1>2, <1>3, SessionsAssumption DEF IInv, TypeOK, HeirAwaited,
         Refreshing
    <2> QED
      BY <2>2, <2>3, <2>4, <2>5, <2>6, <2>7
  <1>8. AllLive'
    <2> SUFFICES ASSUME incident' = {} PROVE (NoPurge /\ BusyLive /\ AnswerGood /\
       ChildLive /\ HeldLive)'
      BY DEF AllLive
    <2>1. incident = {} /\ NoPurge /\ BusyLive /\ AnswerGood /\ ChildLive /\ HeldLive
      BY <1>1, <1>2, <1>3 DEF IInv, AllLive
    <2>2. NoPurge'
      BY <2>1, <1>1, <1>2, <1>3 DEF IInv, TypeOK, NoPurge
    <2>3. BusyLive'
      BY <2>1, <1>1, <1>2, <1>3 DEF IInv, TypeOK, BusyLive, HeldLive
    <2>4. AnswerGood'
      BY <2>1, <1>1, <1>2, <1>3 DEF IInv, TypeOK, AnswerGood
    <2>5. ChildLive'
      BY <2>1, <1>1, <1>2, <1>3 DEF IInv, TypeOK, ChildLive
    <2>6. HeldLive'
      BY <2>1, <1>1, <1>2, <1>3, SessionsAssumption DEF IInv, TypeOK, HeldLive
    <2> QED
      BY <2>2, <2>3, <2>4, <2>5, <2>6
  <1> QED
    BY <1>4, <1>5, <1>6, <1>7, <1>8 DEF IInv

\* The invariant holds when a refused request waits for a refresh.
LEMMA RefusedStep ==
  ASSUME IInv, NEW c \in Clients, NEW i \in Slots, Refused(c, i)
  PROVE  IInv'
  <1>1. req' \in [Clients -> [Slots -> Requests]]
    BY DEF Refused, IInv, TypeOK, Requests
  <1>2. CASE UNCHANGED job
    BY <1>1, <1>2 DEF Refused, IInv, TypeOK, Rows, HeldExists, BusyExists, ChildExists,
       HeirsRevoked, HeirsDiffer, ChildUnlinked, ChildrenDiffer, OneRefresh, OnePlace,
       OneHolder, OneHandler, HolderAwaits, ChildFresh, NoHeirYet, HeirAwaited, AllLive,
       NoPurge, BusyLive, AnswerGood, ChildLive, HeldLive, Busy, Held, Refreshing
  <1>3. CASE ~Join(c) /\ ~UNCHANGED job
    BY <1>1, <1>3, StartStep DEF Refused, Join
  <1> QED
    BY <1>2, <1>3 DEF Refused

\* The invariant holds when a client stores the new pair, or clears the old one.
LEMMA FinishRefreshStep ==
  ASSUME IInv, NEW c \in Clients, NEW h \in Handlers, FinishRefresh(c, h)
  PROVE  IInv'
  <1> DEFINE s == job[h].child
  <1>1. /\ Busy(h) /\ job[h].at = "answer" /\ job[h].client = c
        /\ c # None /\ s \in Ids \cup {None}
    BY JobFields, SessionsAssumption DEF FinishRefresh, IInv, Busy
  <1>2. /\ job' \in [Handlers -> Jobs]
        /\ job'[h].at = "idle" /\ job'[h].child = None /\ job'[h].client = None
        /\ \A g \in Handlers : g # h => job'[g] = job[g] /\ job[g].client # c
    <2>1. job' \in [Handlers -> Jobs] /\ job'[h] = Idle
      BY Change DEF FinishRefresh, IInv, Jobs
    <2>2. \A g \in Handlers : g # h => job'[g] = job[g]
      BY Change DEF FinishRefresh, IInv, Jobs
    <2>3. \A g \in Handlers : g # h => job[g].client # c
      BY <1>1 DEF IInv, OneRefresh
    <2> QED
      BY <2>1, <2>2, <2>3 DEF Idle
  <1>3. token' = [token EXCEPT ![c] = s] /\ UNCHANGED <<session, heir, incident>>
    BY DEF FinishRefresh
  <1>4. req' \in [Clients -> [Slots -> Requests]]
    <2>1. CASE Wake(c, "idle")
      BY <2>1, WakeType DEF IInv, Requests
    <2>2. CASE Wake(c, "retried")
      BY <2>2, WakeType DEF IInv, Requests
    <2> QED
      BY <2>1, <2>2 DEF FinishRefresh
  <1>5. TypeOK'
    BY <1>1, <1>2, <1>3, <1>4 DEF IInv, TypeOK
  <1>6. Rows'
    <2>1. HeldExists'
      BY <1>1, <1>2, <1>3, <1>4 DEF IInv, Rows, TypeOK, HeldExists, ChildExists
    <2>2. BusyExists'
      BY <1>1, <1>2, <1>3, <1>4 DEF IInv, Rows, TypeOK, BusyExists, Busy
    <2>3. ChildExists'
      BY <1>1, <1>2, <1>3, <1>4 DEF IInv, Rows, TypeOK, ChildExists
    <2>4. HeirsRevoked'
      BY <1>1, <1>2, <1>3, <1>4 DEF IInv, Rows, TypeOK, HeirsRevoked
    <2>5. HeirsDiffer'
      BY <1>1, <1>2, <1>3, <1>4 DEF IInv, Rows, TypeOK, HeirsDiffer
    <2>6. ChildUnlinked'
      BY <1>1, <1>2, <1>3, <1>4 DEF IInv, Rows, TypeOK, ChildUnlinked
    <2>7. ChildrenDiffer'
      BY <1>1, <1>2, <1>3, <1>4 DEF IInv, Rows, TypeOK, ChildrenDiffer
    <2> QED
      BY <2>1, <2>2, <2>3, <2>4, <2>5, <2>6, <2>7 DEF Rows
  <1>7. OneRefresh'
    <2>1. \A g \in Handlers : job'[g].client # None => g # h /\ job'[g] = job[g]
      BY <1>2
    <2>2. \A g \in Handlers : job'[g].client # None =>
            token'[job'[g].client] \in {job'[g].token, None}
      BY <1>2, <1>3, <2>1, JobFields DEF IInv, TypeOK, OneRefresh
    <2> QED
      BY <2>1, <2>2 DEF IInv, OneRefresh
  <1>8. OnePlace'
    <2> SUFFICES ASSUME "failure" \notin incident' PROVE (OneHolder /\ OneHandler /\
       HolderAwaits /\ ChildFresh /\ NoHeirYet /\ HeirAwaited)'
      BY DEF OnePlace
    <2>1. "failure" \notin incident /\ OneHolder /\ OneHandler /\ HolderAwaits /\
       ChildFresh /\ NoHeirYet /\ HeirAwaited
      BY <1>1, <1>2, <1>3, <1>4 DEF IInv, OnePlace
    <2>2. OneHolder'
      BY <2>1, <1>1, <1>2, <1>3, <1>4 DEF IInv, TypeOK, OneHolder, Busy, Held,
         ChildFresh
    <2>3. OneHandler'
      BY <2>1, <1>1, <1>2, <1>3, <1>4 DEF IInv, TypeOK, OneHandler, Busy
    <2>4. HolderAwaits'
      BY <2>1, <1>1, <1>2, <1>3, <1>4, JobFields, SessionsAssumption DEF IInv, TypeOK,
         HolderAwaits, Busy, Held, ChildFresh
    <2>5. ChildFresh'
      <3> SUFFICES ASSUME NEW g \in Handlers, job'[g].child # None
                   PROVE  /\ ~Held(job[g].child)'
                          /\ heir'[job'[g].child] = None
                          /\ \A f \in Handlers : Busy(f)' => job'[f].token # job'[g].child
                          /\ \A f \in Handlers : job'[f].child = job'[g].child => f = g
        BY DEF ChildFresh
      <3>1. g # h /\ job'[g] = job[g] /\ job[g].child # None /\ job[g].child # s
        BY <2>1, <1>2 DEF ChildFresh
      <3>2. ~Held(job[g].child)'
        BY <2>1, <1>3, <3>1 DEF ChildFresh, Held, IInv, TypeOK
      <3>3. \A f \in Handlers : Busy(f)' => job'[f].token # job'[g].child
        BY <2>1, <1>2, <3>1 DEF ChildFresh, Busy
      <3> QED
        BY <2>1, <1>2, <1>3, <3>1, <3>2, <3>3 DEF ChildFresh
    <2>6. NoHeirYet'
      BY <2>1, <1>1, <1>2, <1>3, <1>4 DEF IInv, TypeOK, NoHeirYet, Busy
    <2>7. HeirAwaited'
      BY <2>1, <1>1, <1>2, <1>3, <1>4 DEF IInv, TypeOK, HeirAwaited, Refreshing, Busy,
         Held, ChildFresh
    <2> QED
      BY <2>2, <2>3, <2>4, <2>5, <2>6, <2>7
  <1>9. AllLive'
    <2> SUFFICES ASSUME incident' = {} PROVE (NoPurge /\ BusyLive /\ AnswerGood /\
       ChildLive /\ HeldLive)'
      BY DEF AllLive
    <2>1. incident = {} /\ NoPurge /\ BusyLive /\ AnswerGood /\ ChildLive /\ HeldLive
      BY <1>1, <1>2, <1>3, <1>4 DEF IInv, AllLive
    <2>2. NoPurge'
      BY <2>1, <1>1, <1>2, <1>3, <1>4 DEF IInv, TypeOK, NoPurge
    <2>3. BusyLive'
      BY <2>1, <1>1, <1>2, <1>3, <1>4 DEF IInv, TypeOK, BusyLive
    <2>4. AnswerGood'
      BY <2>1, <1>1, <1>2, <1>3, <1>4 DEF IInv, TypeOK, AnswerGood
    <2>5. ChildLive'
      BY <2>1, <1>1, <1>2, <1>3, <1>4 DEF IInv, TypeOK, ChildLive
    <2>6. HeldLive'
      BY <2>1, <1>1, <1>2, <1>3, <1>4 DEF IInv, TypeOK, HeldLive, AnswerGood, ChildLive
    <2> QED
      BY <2>2, <2>3, <2>4, <2>5, <2>6
  <1> QED
    BY <1>5, <1>6, <1>7, <1>8, <1>9 DEF IInv

\* The invariant holds when a client loses the answer of its refresh.
LEMMA FailRefreshStep ==
  ASSUME IInv, NEW c \in Clients, NEW h \in Handlers, FailRefresh(c, h)
  PROVE  IInv'
  <1>1. Busy(h) /\ job[h] \in Jobs /\ job[h].client = c /\ c # None
    BY JobFields, SessionsAssumption DEF FailRefresh, IInv
  <1> DEFINE r == [job[h] EXCEPT !.client = None]
  <1>2. /\ r \in Jobs
        /\ r.at = job[h].at /\ r.token = job[h].token /\ r.child = job[h].child
        /\ r.client = None
    BY <1>1 DEF Jobs, Idle, Busy
  <1>3. /\ job' \in [Handlers -> Jobs]
        /\ \A g \in Handlers :
             /\ job'[g].at = job[g].at /\ job'[g].token = job[g].token
             /\ job'[g].child = job[g].child
             /\ job'[g].client = IF job[g].client = c THEN None ELSE job[g].client
    <2>1. job' = [job EXCEPT ![h] = r]
      BY DEF FailRefresh
    <2>2. /\ job' \in [Handlers -> Jobs] /\ job'[h] = r
          /\ \A g \in Handlers : g # h => job'[g] = job[g]
      BY <1>2, <2>1, Change DEF IInv
    <2>3. \A g \in Handlers : g # h => job[g].client # c
      BY <1>1 DEF IInv, OneRefresh
    <2> QED
      BY <1>1, <1>2, <2>2, <2>3
  <1>4. req' \in [Clients -> [Slots -> Requests]]
    BY WakeType DEF FailRefresh, IInv, Requests
  <1>5. TypeOK'
    BY <1>1, <1>3, <1>4 DEF IInv, TypeOK, FailRefresh, Record, Incidents
  <1>6. Rows'
    <2>1. HeldExists'
      BY <1>1, <1>3, <1>4 DEF IInv, Rows, TypeOK, HeldExists, FailRefresh, Record
    <2>2. BusyExists'
      BY <1>1, <1>3, <1>4 DEF IInv, Rows, TypeOK, BusyExists, FailRefresh, Record, Busy
    <2>3. ChildExists'
      BY <1>1, <1>3, <1>4 DEF IInv, Rows, TypeOK, ChildExists, FailRefresh, Record
    <2>4. HeirsRevoked'
      BY <1>1, <1>3, <1>4 DEF IInv, Rows, TypeOK, HeirsRevoked, FailRefresh, Record
    <2>5. HeirsDiffer'
      BY <1>1, <1>3, <1>4 DEF IInv, Rows, TypeOK, HeirsDiffer, FailRefresh, Record
    <2>6. ChildUnlinked'
      BY <1>1, <1>3, <1>4 DEF IInv, Rows, TypeOK, ChildUnlinked, FailRefresh, Record
    <2>7. ChildrenDiffer'
      BY <1>1, <1>3, <1>4 DEF IInv, Rows, TypeOK, ChildrenDiffer, FailRefresh, Record
    <2> QED
      BY <2>1, <2>2, <2>3, <2>4, <2>5, <2>6, <2>7 DEF Rows
  <1>7. OneRefresh'
    BY <1>1, <1>3, <1>4 DEF IInv, TypeOK, OneRefresh, FailRefresh, Record
  <1>8. OnePlace'
    <2> SUFFICES ASSUME "failure" \notin incident' PROVE (OneHolder /\ OneHandler /\
       HolderAwaits /\ ChildFresh /\ NoHeirYet /\ HeirAwaited)'
      BY DEF OnePlace
    <2>1. "failure" \notin incident /\ OneHolder /\ OneHandler /\ HolderAwaits /\
       ChildFresh /\ NoHeirYet /\ HeirAwaited
      BY <1>1, <1>3, <1>4 DEF IInv, OnePlace, FailRefresh, Record
    <2>2. OneHolder'
      BY <2>1, <1>1, <1>3, <1>4 DEF IInv, TypeOK, OneHolder, FailRefresh, Record
    <2>3. OneHandler'
      BY <2>1, <1>1, <1>3, <1>4 DEF IInv, TypeOK, OneHandler, FailRefresh, Record, Busy
    <2>4. HolderAwaits'
      BY <2>1, <1>1, <1>3, <1>4, JobFields, SessionsAssumption DEF IInv, TypeOK,
         HolderAwaits, FailRefresh, Record, Busy
    <2>5. ChildFresh'
      BY <2>1, <1>1, <1>3, <1>4 DEF IInv, TypeOK, ChildFresh, FailRefresh, Record, Busy,
         Held
    <2>6. NoHeirYet'
      BY <2>1, <1>1, <1>3, <1>4 DEF IInv, TypeOK, NoHeirYet, FailRefresh, Record, Busy
    <2>7. HeirAwaited'
      BY <2>1, <1>1, <1>3, <1>4 DEF IInv, TypeOK, HeirAwaited, FailRefresh, Record,
         Refreshing
    <2> QED
      BY <2>2, <2>3, <2>4, <2>5, <2>6, <2>7
  <1>9. AllLive'
    BY <1>1, <1>3, <1>4 DEF IInv, AllLive, NoPurge, BusyLive, AnswerGood, ChildLive,
       HeldLive, FailRefresh, Record
  <1> QED
    BY <1>5, <1>6, <1>7, <1>8, <1>9 DEF IInv

\* The invariant holds when a client drops its pair.
LEMMA SignOutStep ==
  ASSUME IInv, NEW c \in Clients, SignOut(c)
  PROVE  IInv'
  <1>1. token' = [token EXCEPT ![c] = None] /\ UNCHANGED <<server, req, incident>>
    BY DEF SignOut
  <1>2. TypeOK'
    BY <1>1 DEF IInv, TypeOK, server
  <1>3. Rows'
    BY <1>1 DEF IInv, TypeOK, Rows, HeldExists, BusyExists, ChildExists, HeirsRevoked,
       HeirsDiffer, ChildUnlinked, ChildrenDiffer, server, Busy
  <1>4. OneRefresh'
    BY <1>1 DEF IInv, TypeOK, OneRefresh, server
  <1>5. OnePlace'
    <2> SUFFICES ASSUME "failure" \notin incident' PROVE (OneHolder /\ OneHandler /\
       HolderAwaits /\ ChildFresh /\ NoHeirYet /\ HeirAwaited)'
      BY DEF OnePlace
    <2>1. "failure" \notin incident /\ OneHolder /\ OneHandler /\ HolderAwaits /\
       ChildFresh /\ NoHeirYet /\ HeirAwaited
      BY <1>1 DEF IInv, OnePlace, server
    <2>2. OneHolder'
      BY <2>1, <1>1 DEF IInv, TypeOK, OneHolder, server
    <2>3. OneHandler'
      BY <2>1, <1>1 DEF IInv, TypeOK, OneHandler, server, Busy
    <2>4. HolderAwaits'
      BY <2>1, <1>1, JobFields, SessionsAssumption DEF IInv, TypeOK, HolderAwaits,
         server, Busy
    <2>5. ChildFresh'
      BY <2>1, <1>1 DEF IInv, TypeOK, ChildFresh, server, Busy, Held
    <2>6. NoHeirYet'
      BY <2>1, <1>1 DEF IInv, TypeOK, NoHeirYet, server, Busy
    <2>7. HeirAwaited'
      BY <2>1, <1>1 DEF IInv, TypeOK, HeirAwaited, server, Refreshing
    <2> QED
      BY <2>2, <2>3, <2>4, <2>5, <2>6, <2>7
  <1>6. AllLive'
    BY <1>1 DEF IInv, TypeOK, AllLive, NoPurge, BusyLive, AnswerGood, ChildLive,
       HeldLive, server
  <1> QED
    BY <1>2, <1>3, <1>4, <1>5, <1>6 DEF IInv

-------------------------------------------------------------------------------
(* The invariant *)

\* The invariant holds at first,
LEMMA InitIInv == Init => IInv
  <1> SUFFICES ASSUME Init PROVE IInv
    OBVIOUS
  <1>1. TypeOK
    BY DEF Init, SessionsInit, TypeOK, SessionStatuses, Requests, Jobs
  <1>2. \A h \in Handlers :
          /\ job[h].at = "idle" /\ job[h].child = None /\ job[h].client = None
    BY DEF Init, SessionsInit, Idle
  <1>3. /\ \A c \in Clients : token[c] = None
        /\ \A s \in Ids : heir[s] = None
    BY DEF Init, SessionsInit
  <1> QED
    BY <1>1, <1>2, <1>3 DEF IInv, Rows, HeldExists, BusyExists, ChildExists,
       HeirsRevoked, HeirsDiffer, ChildUnlinked, ChildrenDiffer, OneRefresh, OnePlace,
       OneHolder, OneHandler, HolderAwaits, ChildFresh, NoHeirYet, HeirAwaited, AllLive,
       NoPurge, BusyLive, AnswerGood, ChildLive, HeldLive, Busy

\* every step keeps it,
LEMMA NextIInv == IInv /\ [Next]_vars => IInv'
  <1> SUFFICES ASSUME IInv, [Next]_vars PROVE IInv'
    OBVIOUS
  <1>1. ASSUME NEW h \in Handlers, ServerStep(h) PROVE IInv'
    BY <1>1, ReadStep, PurgeStep, IssueStep, RetireStep, ServerErrorStep
       DEF ServerStep, Rotate
  <1>2. ASSUME NEW h \in Handlers, Abandon(h) PROVE IInv'
    BY <1>2, ForgetStep DEF Abandon
  <1>3. ASSUME NEW s \in Ids, Record("ended"), UNCHANGED <<token, req>>,
               RevokeSession(s) \/ Lapse(s)
        PROVE  IInv'
    BY <1>3, RevokeSessionStep, LapseStep
  <1>4. CASE LogoutAll /\ Record("ended") /\ UNCHANGED <<token, req>>
    BY <1>4, LogoutAllStep
  <1>5. ASSUME NEW c \in Clients, Login(c) \/ SignOut(c) PROVE IInv'
    BY <1>5, LoginStep, SignOutStep
  <1>6. ASSUME NEW c \in Clients, NEW i \in Slots,
               Send(c, i) \/ End(c, i) \/ Refused(c, i)
        PROVE  IInv'
    BY <1>6, SendStep, EndStep, RefusedStep
  <1>7. ASSUME NEW c \in Clients, NEW h \in Handlers,
               FinishRefresh(c, h) \/ FailRefresh(c, h)
        PROVE  IInv'
    BY <1>7, FinishRefreshStep, FailRefreshStep
  <1>8. CASE UNCHANGED vars
    BY <1>8 DEF vars, server, client, IInv, TypeOK, Rows, HeldExists, BusyExists,
       ChildExists, HeirsRevoked, HeirsDiffer, ChildUnlinked, ChildrenDiffer,
       OneRefresh, OnePlace, OneHolder, OneHandler, HolderAwaits, ChildFresh, NoHeirYet,
       HeirAwaited, AllLive, NoPurge, BusyLive, AnswerGood, ChildLive, HeldLive, Busy,
       Held, Refreshing
  <1> QED
    BY <1>1, <1>2, <1>3, <1>4, <1>5, <1>6, <1>7, <1>8 DEF Next

\* and it holds in every reachable state.
LEMMA Invariant == Spec => []IInv
  <1>1. IInv /\ [Next]_vars => IInv'
    BY NextIInv
  <1> QED
    BY <1>1, InitIInv, PTL DEF Spec

-------------------------------------------------------------------------------
(* The theorems *)

\* Every variable keeps its type: in particular a handler has a successor in
\* hand exactly in the states of rotate that come after its insertion.
THEOREM TypeCorrect == Spec => []TypeOK
  <1>1. IInv => TypeOK
    BY DEF IInv
  <1> QED
    BY <1>1, Invariant, PTL

\* However many requests are refused at once, on however many clients, a
\* replaced token comes back only after a lost answer or a server error:
\* until then it is with the one refresh that exchanges it.
THEOREM ReplayNeedsTrouble == Spec => []ReplayTakesTrouble
  <1>1. IInv => ReplayTakesTrouble
    BY DEF IInv, OnePlace, NoHeirYet, Busy, ReplayTakesTrouble
  <1> QED
    BY <1>1, Invariant, PTL

\* Nobody is signed out unless an answer was lost, the server failed, or a
\* session was ended.
THEOREM NobodySignedOutForNothing == Spec => []SignedInStaysIn
  <1>1. IInv => SignedInStaysIn
    <2> SUFFICES ASSUME IInv, incident = {} PROVE
          /\ \A h \in Handlers : job[h].at # "purge"
          /\ \A c \in Clients : token[c] # None =>
               \/ session[token[c]] = "live"
               \/ \E h \in Handlers : job[h].client = c /\ job[h].token = token[c]
                                      /\ job[h].at = "answer" /\ job[h].child # None
      BY DEF SignedInStaysIn
    <2>1. NoPurge /\ AnswerGood /\ HeldLive
      BY DEF IInv, AllLive
    <2>2. \A h \in Handlers : job[h].client # None =>
            token[job[h].client] \in {job[h].token, None}
      BY DEF IInv, OneRefresh
    <2> QED
      BY <2>1, <2>2, SessionsAssumption DEF NoPurge, AnswerGood, HeldLive
  <1> QED
    BY <1>1, Invariant, PTL

\* Whatever fails, rotation replaces a session and never multiplies it.
THEOREM RotationReplaces == Spec => []ReplacedIsRetired
  <1>1. IInv => ReplacedIsRetired
    BY DEF IInv, Rows, HeirsRevoked, HeirsDiffer, ReplacedIsRetired
  <1> QED
    BY <1>1, Invariant, PTL
================================================================================
