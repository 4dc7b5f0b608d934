-------------------------- MODULE TokenSourcesProofs --------------------------
(***************************************************************************)
(* Theorems about TokenSources, for any number of people, flows, logins,   *)
(* callbacks, keys and requests in flight. The invariant of Accounts comes *)
(* first: the theorems about credentials rest on it.                       *)
(***************************************************************************)
EXTENDS TokenSources, TLAPS

\* User ids are given once.
AccountsWereGiven == Accounts \subseteq given

\* A row of api_cache is of the user who started its flow, and so is what a
\* callback read in it.
PendingIsTheStarters == \A f \in Flows : pending[f] # None => starter[f] = pending[f]
CallbackIsTheStarters ==
  \A c \in Callbacks : callback[c] # None => starter[callback[c].flow] = callback[c].user

\* What a callback exchanged, it exchanged for a code of its flow.
TokenOfItsFlow ==
  \A c \in Callbacks : callback[c] # None /\ callback[c].pc # "read" =>
    callback[c].token # None /\ callback[c].token[1] = callback[c].flow

\* A code is one the provider gave, to somebody who was sent there.
CodesWereGiven == \A f \in Flows : codes[f] <= approvals[f]

\* A flow that is over stays so: its row is gone, and only start makes one.
OverIsClosed == \A f \in over : pending[f] = None /\ starter[f] # None
ShutIsQuiet ==
  \A f \in shut : f \in over /\ \A c \in Callbacks : callback[c] # None => callback[c].flow # f

\* The inductive invariant.
AccountsInv ==
  /\ AccountsTypeOK /\ AccountsWereGiven
  /\ OneAccountPerSubject /\ CredentialOfAnAccount /\ CredentialOfOwnFlow /\ DisconnectHolds
  /\ PendingIsTheStarters /\ CallbackIsTheStarters /\ TokenOfItsFlow
  /\ CodesWereGiven /\ OverIsClosed /\ ShutIsQuiet

USE DEF Token
USE NoneAssumption, CodesAssumption

-----------------------------------------------------------------------------
LEMMA AccountsInitInv == AccountsInit => AccountsInv
BY DEF AccountsInit, AccountsInv, AccountsTypeOK, OneAccountPerSubject, Accounts,
       AccountsWereGiven, CredentialOfAnAccount, CredentialOfOwnFlow, DisconnectHolds, PendingIsTheStarters,
       CallbackIsTheStarters, TokenOfItsFlow, CodesWereGiven, OverIsClosed, ShutIsQuiet

LEMMA AccountsStutter == AccountsInv /\ UNCHANGED accountsVars => AccountsInv'
BY DEF accountsVars, accountVars, flowVars, AccountsInv, AccountsTypeOK, OneAccountPerSubject,
       Accounts, AccountsWereGiven, CredentialOfAnAccount, CredentialOfOwnFlow, DisconnectHolds,
       PendingIsTheStarters, CallbackIsTheStarters, TokenOfItsFlow, CodesWereGiven,
       OverIsClosed, ShutIsQuiet

\* What a callback in flight carries, field by field.
LEMMA CallbackFields ==
  ASSUME AccountsTypeOK, NEW c \in Callbacks, callback[c] # None
  PROVE  /\ callback[c] \in Callback
         /\ callback[c].pc \in {"read", "exchanged", "stored"}
         /\ callback[c].flow \in Flows /\ callback[c].user \in Users
         /\ callback[c].token \in Token \cup {None}
BY DEF AccountsTypeOK, Callback

-----------------------------------------------------------------------------
\* Steps that leave the flows and the credentials alone.
LEMMA SignedInKeeps ==
  ASSUME AccountsInv, UNCHANGED <<subjectOf, flowVars, credential, shut>>,
         given' = given, sessions' \subseteq given,
         login' \in [Logins -> Subjects \cup {None}]
  PROVE  AccountsInv'
BY DEF flowVars, AccountsInv, AccountsTypeOK, OneAccountPerSubject, Accounts,
       AccountsWereGiven, CredentialOfAnAccount, CredentialOfOwnFlow, DisconnectHolds, PendingIsTheStarters,
       CallbackIsTheStarters, TokenOfItsFlow, CodesWereGiven, OverIsClosed, ShutIsQuiet

\* A new account has a user id of its own and the subject of no other; it has
\* no credential, since only accounts have.
LEMMA LoginCreateKeeps ==
  ASSUME AccountsInv, NEW l \in Logins, NEW u \in Users, LoginCreate(l, u)
  PROVE  AccountsInv'
<1>1. AccountsTypeOK'
  BY DEF AccountsInv, AccountsTypeOK, LoginCreate, flowVars
<1>2. OneAccountPerSubject'
  BY DEF AccountsInv, AccountsTypeOK, OneAccountPerSubject, Accounts, LoginCreate, SubjectFree
<1>3. CredentialOfAnAccount' /\ AccountsWereGiven'
  BY DEF AccountsInv, AccountsTypeOK, AccountsWereGiven, CredentialOfAnAccount, Accounts, LoginCreate
<1>4. /\ CredentialOfOwnFlow' /\ DisconnectHolds' /\ PendingIsTheStarters'
      /\ CallbackIsTheStarters' /\ TokenOfItsFlow' /\ CodesWereGiven' /\ OverIsClosed' /\ ShutIsQuiet'
  BY DEF AccountsInv, LoginCreate, flowVars, CredentialOfOwnFlow, DisconnectHolds,
         PendingIsTheStarters, CallbackIsTheStarters, TokenOfItsFlow, CodesWereGiven,
         OverIsClosed, ShutIsQuiet
<1> QED BY <1>1, <1>2, <1>3, <1>4 DEF AccountsInv

\* A user leaves the provider, or the service: no credential of his is left,
\* and what others have comes from flows of theirs.
LEMMA LeavingKeeps ==
  ASSUME AccountsInv, NEW u \in Users, UNCHANGED <<given, login, sessions, flowVars>>,
         credential' = [credential EXCEPT ![u] = None], shut' = Shut(u),
         subjectOf' = subjectOf \/ subjectOf' = [subjectOf EXCEPT ![u] = None]
  PROVE  AccountsInv'
<1>1. AccountsTypeOK'
  BY DEF AccountsInv, AccountsTypeOK, Shut, flowVars
<1>2. OneAccountPerSubject' /\ AccountsWereGiven' /\ CredentialOfAnAccount'
  BY DEF AccountsInv, AccountsTypeOK, OneAccountPerSubject, AccountsWereGiven, CredentialOfAnAccount, Accounts
<1>3. CredentialOfOwnFlow'
  BY DEF AccountsInv, AccountsTypeOK, CredentialOfOwnFlow, flowVars
<1>4. DisconnectHolds'
  BY DEF AccountsInv, AccountsTypeOK, CredentialOfOwnFlow, DisconnectHolds, Shut
<1>5. ShutIsQuiet'
  BY DEF AccountsInv, ShutIsQuiet, Shut, flowVars
<1>6. /\ PendingIsTheStarters' /\ CallbackIsTheStarters' /\ TokenOfItsFlow'
      /\ CodesWereGiven' /\ OverIsClosed'
  BY DEF AccountsInv, flowVars, PendingIsTheStarters, CallbackIsTheStarters, TokenOfItsFlow,
         CodesWereGiven, OverIsClosed
<1> QED BY <1>1, <1>2, <1>3, <1>4, <1>5, <1>6 DEF AccountsInv

LEMMA StartKeeps ==
  ASSUME AccountsInv, NEW u \in Users, NEW f \in Flows, Start(u, f)
  PROVE  AccountsInv'
<1>1. AccountsTypeOK'
  BY DEF AccountsInv, AccountsTypeOK, Start, accountVars
<1>2. OneAccountPerSubject' /\ AccountsWereGiven' /\ CredentialOfAnAccount' /\ DisconnectHolds' /\ ShutIsQuiet'
  BY DEF AccountsInv, Start, accountVars, OneAccountPerSubject, AccountsWereGiven, CredentialOfAnAccount, Accounts,
         DisconnectHolds, ShutIsQuiet
<1>3. CredentialOfOwnFlow'
  BY DEF AccountsInv, AccountsTypeOK, Start, CredentialOfOwnFlow
<1>4. PendingIsTheStarters' /\ TokenOfItsFlow' /\ CodesWereGiven' /\ OverIsClosed'
  BY DEF AccountsInv, AccountsTypeOK, Start, PendingIsTheStarters, TokenOfItsFlow, CodesWereGiven,
         OverIsClosed
<1>5. CallbackIsTheStarters'
  BY CallbackFields DEF AccountsInv, AccountsTypeOK, Start, CallbackIsTheStarters
<1> QED BY <1>1, <1>2, <1>3, <1>4, <1>5 DEF AccountsInv

LEMMA PendingExpiresKeeps ==
  ASSUME AccountsInv, NEW f \in Flows, PendingExpires(f)
  PROVE  AccountsInv'
<1>1. AccountsTypeOK'
  BY DEF AccountsInv, AccountsTypeOK, PendingExpires, accountVars
<1>2. /\ OneAccountPerSubject' /\ AccountsWereGiven' /\ CredentialOfAnAccount' /\ CredentialOfOwnFlow'
      /\ DisconnectHolds' /\ CallbackIsTheStarters' /\ TokenOfItsFlow' /\ CodesWereGiven'
  BY DEF AccountsInv, PendingExpires, accountVars, OneAccountPerSubject, AccountsWereGiven,
         CredentialOfAnAccount, Accounts, CredentialOfOwnFlow, DisconnectHolds, CallbackIsTheStarters, TokenOfItsFlow,
         CodesWereGiven
<1>3. PendingIsTheStarters' /\ OverIsClosed' /\ ShutIsQuiet'
  BY DEF AccountsInv, AccountsTypeOK, PendingExpires, PendingIsTheStarters, OverIsClosed,
         ShutIsQuiet
<1> QED BY <1>1, <1>2, <1>3 DEF AccountsInv

LEMMA ApproveKeeps ==
  ASSUME AccountsInv, NEW f \in Flows, Approve(f)
  PROVE  AccountsInv'
<1>1. AccountsTypeOK' /\ CodesWereGiven'
  BY DEF AccountsInv, AccountsTypeOK, Approve, accountVars, CodesWereGiven
<1>2. /\ OneAccountPerSubject' /\ AccountsWereGiven' /\ CredentialOfAnAccount' /\ CredentialOfOwnFlow'
      /\ DisconnectHolds' /\ CallbackIsTheStarters' /\ TokenOfItsFlow'
      /\ PendingIsTheStarters' /\ OverIsClosed' /\ ShutIsQuiet'
  BY DEF AccountsInv, Approve, accountVars, OneAccountPerSubject, AccountsWereGiven,
         CredentialOfAnAccount, Accounts, CredentialOfOwnFlow, DisconnectHolds, CallbackIsTheStarters, TokenOfItsFlow,
         PendingIsTheStarters, OverIsClosed, ShutIsQuiet
<1> QED BY <1>1, <1>2 DEF AccountsInv

-----------------------------------------------------------------------------
\* A callback goes on with the user it read, or ends; the credentials stay.
LEMMA CallbackMoves ==
  ASSUME AccountsInv, NEW c \in Callbacks, NEW cb \in Callback \cup {None},
         UNCHANGED <<accountVars, pending, starter, approvals, over, credential, shut>>,
         callback' = [callback EXCEPT ![c] = cb],
         codes' \in [Flows -> 0..MaxCodes], \A f \in Flows : codes'[f] <= codes[f],
         cb # None => /\ starter[cb.flow] = cb.user /\ cb.flow \notin shut
                      /\ cb.pc # "read" => cb.token # None /\ cb.token[1] = cb.flow
  PROVE  AccountsInv'
<1>1. AccountsTypeOK' /\ CodesWereGiven'
  BY DEF AccountsInv, AccountsTypeOK, accountVars, CodesWereGiven
<1>2. /\ OneAccountPerSubject' /\ AccountsWereGiven' /\ CredentialOfAnAccount' /\ CredentialOfOwnFlow'
      /\ DisconnectHolds' /\ PendingIsTheStarters' /\ OverIsClosed'
  BY DEF AccountsInv, accountVars, OneAccountPerSubject, AccountsWereGiven, CredentialOfAnAccount, Accounts,
         CredentialOfOwnFlow, DisconnectHolds, PendingIsTheStarters, OverIsClosed
<1>3. \A d \in Callbacks : callback'[d] = IF d = c THEN cb ELSE callback[d]
  BY DEF AccountsInv, AccountsTypeOK
<1>4. CallbackIsTheStarters' /\ TokenOfItsFlow' /\ ShutIsQuiet'
  BY <1>3 DEF AccountsInv, CallbackIsTheStarters, TokenOfItsFlow, ShutIsQuiet
<1> QED BY <1>1, <1>2, <1>4 DEF AccountsInv

\* A callback reads the row of a flow that is not over.
LEMMA CallbackReadKeeps ==
  ASSUME AccountsInv, NEW c \in Callbacks, NEW f \in Flows, CallbackRead(c, f)
  PROVE  AccountsInv'
<1> DEFINE cb == [pc |-> "read", flow |-> f, user |-> pending[f], token |-> None]
<1>1. cb \in Callback
  BY DEF AccountsInv, AccountsTypeOK, CallbackRead, Callback
<1>2. starter[cb.flow] = cb.user /\ cb.flow \notin shut /\ cb.pc = "read"
  BY DEF AccountsInv, CallbackRead, PendingIsTheStarters, OverIsClosed, ShutIsQuiet
<1>3. callback' = [callback EXCEPT ![c] = cb]
  BY DEF CallbackRead, UserOfFlow
<1>4. /\ UNCHANGED <<accountVars, pending, starter, approvals, over, credential, shut>>
      /\ codes' \in [Flows -> 0..MaxCodes] /\ \A g \in Flows : codes'[g] <= codes[g]
  BY DEF CallbackRead, AccountsInv, AccountsTypeOK
<1> HIDE DEF cb
<1> QED BY <1>1, <1>2, <1>3, <1>4, CallbackMoves

LEMMA ExchangeKeeps ==
  ASSUME AccountsInv, NEW c \in Callbacks, Exchange(c)
  PROVE  AccountsInv'
<1> DEFINE f == callback[c].flow
           token == <<f, approvals[f] - codes[f] + 1>>
           cb == [callback[c] EXCEPT !.pc = "exchanged", !.token = token]
<1>1. f \in Flows /\ callback[c] \in Callback
  BY CallbackFields DEF AccountsInv, Exchange
<1>2. token \in Token
  BY <1>1 DEF AccountsInv, AccountsTypeOK, CodesWereGiven, Exchange
<1>3. /\ cb \in Callback /\ cb.pc = "exchanged" /\ cb.flow = f /\ cb.user = callback[c].user
      /\ cb.token = token
  BY <1>1, <1>2 DEF Callback
<1>4. starter[cb.flow] = cb.user /\ cb.flow \notin shut
      /\ (cb.pc # "read" => cb.token # None /\ cb.token[1] = cb.flow)
  BY <1>1, <1>2, <1>3 DEF AccountsInv, CallbackIsTheStarters, ShutIsQuiet, Exchange
<1>5. callback' = [callback EXCEPT ![c] = cb]
  BY DEF Exchange, AccountsInv, AccountsTypeOK
<1>6. /\ UNCHANGED <<accountVars, pending, starter, approvals, over, credential, shut>>
      /\ codes' \in [Flows -> 0..MaxCodes] /\ \A g \in Flows : codes'[g] <= codes[g]
  BY <1>1 DEF Exchange, AccountsInv, AccountsTypeOK
<1> HIDE DEF cb
<1> QED BY <1>3, <1>4, <1>5, <1>6, CallbackMoves

LEMMA CallbackEndsKeeps ==
  ASSUME AccountsInv, NEW c \in Callbacks, ExchangeLost(c) \/ Fails(c)
  PROVE  AccountsInv'
<1>1. callback' = [callback EXCEPT ![c] = None]
  BY DEF ExchangeLost, Fails
<1>2. UNCHANGED <<accountVars, pending, starter, approvals, over, credential, shut>>
  BY DEF ExchangeLost, Fails
<1>3. codes' \in [Flows -> 0..MaxCodes] /\ \A g \in Flows : codes'[g] <= codes[g]
  BY CallbackFields DEF ExchangeLost, Fails, AccountsInv, AccountsTypeOK
<1> QED BY <1>1, <1>2, <1>3, CallbackMoves

\* The credential is of the user of the flow, and the flow has a callback: it
\* is not shut.
LEMMA StoreKeeps ==
  ASSUME AccountsInv, NEW c \in Callbacks, Store(c)
  PROVE  AccountsInv'
<1> DEFINE u == callback[c].user
           token == callback[c].token
           cb == [callback[c] EXCEPT !.pc = "stored"]
<1>1. /\ callback[c] \in Callback /\ u \in Users /\ token \in Token
      /\ token[1] = callback[c].flow /\ callback[c].flow \in Flows
  BY CallbackFields DEF AccountsInv, TokenOfItsFlow, Store
<1>2. cb \in Callback /\ cb.flow = callback[c].flow /\ cb.user = u /\ cb.token = token
  BY <1>1 DEF Callback
<1>3. /\ callback' = [callback EXCEPT ![c] = cb] /\ credential' = [credential EXCEPT ![u] = token]
      /\ u \in Accounts
  BY DEF Store, UserExists, AccountsInv, AccountsTypeOK
<1> HIDE DEF cb, token, u
<1>4. /\ \A d \in Callbacks : callback'[d] = IF d = c THEN cb ELSE callback[d]
      /\ \A v \in Users : credential'[v] = IF v = u THEN token ELSE credential[v]
  BY <1>3 DEF AccountsInv, AccountsTypeOK
<1>5. starter[callback[c].flow] = u /\ callback[c].flow \notin shut
  BY DEF u, AccountsInv, CallbackIsTheStarters, ShutIsQuiet, Store
<1>6. AccountsTypeOK'
  <2>1. UNCHANGED <<subjectOf, given, login, sessions, pending, starter, codes, approvals, over, shut>>
    BY DEF Store, accountVars
  <2>2. credential' \in [Users -> Token \cup {None}]
    BY <1>1, <1>3 DEF AccountsInv, AccountsTypeOK
  <2>3. callback' \in [Callbacks -> Callback \cup {None}]
    BY <1>2, <1>3 DEF AccountsInv, AccountsTypeOK
  <2> QED BY <2>1, <2>2, <2>3 DEF AccountsInv, AccountsTypeOK
<1>7. OneAccountPerSubject' /\ PendingIsTheStarters' /\ CodesWereGiven' /\ OverIsClosed'
  BY DEF Store, AccountsInv, accountVars, OneAccountPerSubject, Accounts, PendingIsTheStarters,
         CodesWereGiven, OverIsClosed
<1>8. CredentialOfAnAccount' /\ AccountsWereGiven'
  BY <1>3, <1>4 DEF Store, AccountsInv, accountVars, AccountsWereGiven, CredentialOfAnAccount, Accounts
<1>9. CredentialOfOwnFlow' /\ DisconnectHolds'
  BY <1>1, <1>4, <1>5 DEF Store, AccountsInv, CredentialOfOwnFlow, DisconnectHolds
<1>10. CallbackIsTheStarters' /\ ShutIsQuiet'
  BY <1>1, <1>2, <1>4, <1>5 DEF Store, AccountsInv, CallbackIsTheStarters, ShutIsQuiet
<1>11. TokenOfItsFlow'
  BY <1>1, <1>2, <1>4 DEF Store, AccountsInv, TokenOfItsFlow
<1> QED BY <1>6, <1>7, <1>8, <1>9, <1>10, <1>11 DEF AccountsInv

LEMMA FinishKeeps ==
  ASSUME AccountsInv, NEW c \in Callbacks, Finish(c)
  PROVE  AccountsInv'
<1>1. PICK f \in Flows : f = callback[c].flow
  BY CallbackFields DEF AccountsInv, Finish
<1>2. /\ pending' = [pending EXCEPT ![f] = None] /\ over' = over \cup {f}
      /\ callback' = [callback EXCEPT ![c] = None]
  BY <1>1 DEF Finish, Taken
<1>3. AccountsTypeOK'
  BY <1>2 DEF Finish, AccountsInv, AccountsTypeOK, accountVars
<1>4. /\ OneAccountPerSubject' /\ AccountsWereGiven' /\ CredentialOfAnAccount' /\ CredentialOfOwnFlow'
      /\ DisconnectHolds' /\ CodesWereGiven'
  BY DEF Finish, AccountsInv, accountVars, OneAccountPerSubject, AccountsWereGiven, CredentialOfAnAccount, Accounts,
         CredentialOfOwnFlow, DisconnectHolds, CodesWereGiven
<1>5. CallbackIsTheStarters' /\ TokenOfItsFlow' /\ ShutIsQuiet'
  BY <1>2 DEF Finish, AccountsInv, AccountsTypeOK, CallbackIsTheStarters, TokenOfItsFlow,
         ShutIsQuiet
<1>6. starter[f] # None
  BY <1>1, CallbackFields DEF Finish, AccountsInv, CallbackIsTheStarters
<1>7. PendingIsTheStarters' /\ OverIsClosed'
  BY <1>2, <1>6 DEF Finish, AccountsInv, AccountsTypeOK, PendingIsTheStarters, OverIsClosed
<1> QED BY <1>3, <1>4, <1>5, <1>7 DEF AccountsInv

-----------------------------------------------------------------------------
\* Every step of Accounts keeps the invariant.
LEMMA AccountsNextKeeps == AccountsInv /\ AccountsNext => AccountsInv'
<1> SUFFICES ASSUME AccountsInv, AccountsNext PROVE AccountsInv'
  OBVIOUS
<1>1. ASSUME NEW u \in Users, LoginKnown(u) \/ SessionExpires(u) PROVE AccountsInv'
  <2>1. sessions' \subseteq given
    BY <1>1 DEF LoginKnown, SessionExpires, AccountsInv, AccountsTypeOK, AccountsWereGiven
  <2> QED BY <1>1, <2>1, SignedInKeeps DEF LoginKnown, SessionExpires, AccountsInv, AccountsTypeOK
<1>2. ASSUME NEW u \in Users, DeleteMe(u) \/ Disconnect(u) PROVE AccountsInv'
  BY <1>2, LeavingKeeps DEF DeleteMe, Disconnect, Cascade, accountVars
<1>3. ASSUME NEW l \in Logins, LoginFails(l) PROVE AccountsInv'
  BY <1>3, SignedInKeeps DEF LoginFails, AccountsInv, AccountsTypeOK
<1>4. ASSUME NEW l \in Logins, NEW s \in Subjects, LoginUnknown(l, s) PROVE AccountsInv'
  BY <1>4, SignedInKeeps DEF LoginUnknown, AccountsInv, AccountsTypeOK
<1>5. ASSUME NEW l \in Logins, NEW u \in Users, LoginCreate(l, u) PROVE AccountsInv'
  BY <1>5, LoginCreateKeeps
<1>6. ASSUME NEW u \in Users, NEW f \in Flows, Start(u, f) PROVE AccountsInv'
  BY <1>6, StartKeeps
<1>7. ASSUME NEW f \in Flows, PendingExpires(f) \/ Approve(f) PROVE AccountsInv'
  BY <1>7, PendingExpiresKeeps, ApproveKeeps
<1>8. ASSUME NEW c \in Callbacks, NEW f \in Flows, CallbackRead(c, f) PROVE AccountsInv'
  BY <1>8, CallbackReadKeeps
<1>9. ASSUME NEW c \in Callbacks,
             Exchange(c) \/ ExchangeLost(c) \/ Store(c) \/ Finish(c) \/ Fails(c)
      PROVE  AccountsInv'
  BY <1>9, ExchangeKeeps, CallbackEndsKeeps, StoreKeeps, FinishKeeps
<1> QED BY <1>1, <1>2, <1>3, <1>4, <1>5, <1>6, <1>7, <1>8, <1>9 DEF AccountsNext

\* Accounts alone: one account per person, and credentials that are of an
\* account, of a flow its user started, and not of one that was over when he
\* disconnected.
THEOREM AccountsAlwaysInv == AccountsSpec => []AccountsInv
<1>1. AccountsInv /\ [AccountsNext]_accountsVars => AccountsInv'
  BY AccountsNextKeeps, AccountsStutter
<1> QED BY <1>1, AccountsInitInv, PTL DEF AccountsSpec

-----------------------------------------------------------------------------
(* The tokens and the requests made with them.                             *)

\* A token's number is one of those already exchanged for its flow.
Spent(t) == t[2] <= approvals[t[1]] - codes[t[1]]
TokensAreSpent ==
  /\ \A u \in Users : credential[u] # None => Spent(credential[u])
  /\ \A c \in Callbacks : callback[c] # None /\ callback[c].pc = "exchanged" => Spent(callback[c].token)
  /\ \A t \in withdrawn : Spent(t)

\* A token a callback has and did not store is nobody else's, now or before.
TokenIsNew ==
  \A c \in Callbacks : callback[c] # None /\ callback[c].pc = "exchanged" =>
    /\ callback[c].token \notin withdrawn
    /\ \A u \in Users : credential[u] # callback[c].token
    /\ \A d \in Callbacks \ {c} : callback[d] # None /\ callback[d].pc = "exchanged" =>
         callback[d].token # callback[c].token

\* What a user has was never taken away.
CredentialsLive == \A u \in Users : credential[u] # None => credential[u] \notin withdrawn

TokenInv == TokensAreSpent /\ TokenIsNew /\ CredentialsLive

\* What the cache was given and what a request will give it, the source said.
SaidBefore ==
  /\ \A k \in Keys : last[k] <= release[k]
  /\ \A f \in Fetchers : fetch[f] # None /\ fetch[f].pc = "answered" =>
       fetch[f].answer <= release[fetch[f].key]

\* A job that is over has an answer as fresh as any written, or to be.
JobIsFreshest ==
  \A j \in JobIds : job[j] # None =>
    /\ j[2] = None
    /\ job[j].state = "completed" =>
         /\ last[j[1]] <= job[j].answer /\ job[j].answer <= release[j[1]]
         /\ \A f \in Fetchers :
              fetch[f] # None /\ fetch[f].pc = "answered" /\ fetch[f].key = j[1] =>
                fetch[f].answer <= job[j].answer

AnswerInv == SaidBefore /\ JobIsFreshest /\ OlderOnlyByOverlap

\* The inductive invariant.
Inv == TypeOK /\ AccountsInv /\ TokenInv /\ NoWithdrawnToken /\ AnswerInv

USE ServerAssumption, KeyAssumption, NoneAssumption, CodesAssumption
USE DEF Token

-----------------------------------------------------------------------------
LEMMA InitInv == Init => Inv
<1> SUFFICES ASSUME Init PROVE Inv
  OBVIOUS
<1>1. AccountsInv
  BY AccountsInitInv DEF Init
<1>2. TypeOK
  BY <1>1 DEF Init, TypeOK, AccountsInv, Releases
<1>3. TokenInv
  BY DEF Init, AccountsInit, TokenInv, TokensAreSpent, TokenIsNew, CredentialsLive
<1>4. NoWithdrawnToken /\ AnswerInv
  BY DEF Init, NoWithdrawnToken, AnswerInv, SaidBefore, JobIsFreshest, OlderOnlyByOverlap
<1> QED BY <1>1, <1>2, <1>3, <1>4 DEF Inv

LEMMA FetchFields ==
  ASSUME TypeOK, NEW f \in Fetchers, fetch[f] # None
  PROVE  /\ fetch[f] \in Fetch
         /\ fetch[f].key \in Keys /\ fetch[f].user \in Users
         /\ fetch[f].answer \in Releases /\ fetch[f].overlapped \in BOOLEAN
         /\ JobId(fetch[f].key, fetch[f].user) \in JobIds
BY DEF TypeOK, Fetch, JobId, JobIds

LEMMA JobFields ==
  ASSUME TypeOK, NEW j \in JobIds, job[j] # None
  PROVE  /\ job[j] \in Job
         /\ job[j].user \in Users /\ job[j].answer \in Releases
         /\ j[1] \in Keys
BY DEF TypeOK, Job, JobIds

-----------------------------------------------------------------------------
(* Accounts move.                                                          *)

\* What was taken away by a step: tokens somebody had, and nobody has.
LEMMA Withdrawals ==
  ASSUME Withdraw
  PROVE  \A t : t \in withdrawn' <=>
           \/ t \in withdrawn
           \/ t # None /\ (\E u \in Users : credential[u] = t) /\ \A u \in Users : credential'[u] # t
<1> DEFINE had == {credential[u] : u \in Users}
           has == {credential'[u] : u \in Users}
<1>1. withdrawn' = withdrawn \cup (had \ (has \cup {None}))
  BY DEF Withdraw
<1>2. \A t : (t \in had <=> \E u \in Users : credential[u] = t)
  OBVIOUS
<1>3. \A t : (t \in has <=> \E u \in Users : credential'[u] = t)
  OBVIOUS
<1> HIDE DEF had, has
<1> QED BY <1>1, <1>2, <1>3

\* The tokens that credentials and callbacks hold are tokens.
LEMMA HeldTokens ==
  ASSUME Inv
  PROVE  /\ \A u \in Users : credential[u] # None => credential[u] \in Token
         /\ withdrawn \subseteq Token
         /\ \A c \in Callbacks : callback[c] # None /\ callback[c].pc = "exchanged" =>
              callback[c].token \in Token
<1>1. ASSUME NEW c \in Callbacks, callback[c] # None, callback[c].pc = "exchanged"
      PROVE  callback[c].token \in Token
  <2>1. callback[c].token # None
    BY <1>1 DEF Inv, AccountsInv, TokenOfItsFlow
  <2> QED BY <1>1, <2>1, CallbackFields DEF Inv, AccountsInv
<1> QED BY <1>1 DEF Inv, TypeOK, AccountsTypeOK

\* Steps that give nobody a token.
LEMMA TokensStay ==
  ASSUME Inv, Withdraw,
         \A f \in Flows : approvals'[f] - codes'[f] >= approvals[f] - codes[f],
         codes' \in [Flows -> 0..MaxCodes], approvals' \in [Flows -> 0..MaxCodes],
         \A u \in Users : credential'[u] \in {credential[u], None},
         \A c \in Callbacks : callback'[c] # None /\ callback'[c].pc = "exchanged" =>
           callback'[c] = callback[c]
  PROVE  TokenInv'
<1>1. \A t \in Token : (Spent(t) => Spent(t)')
  <2> SUFFICES ASSUME NEW t \in Token, Spent(t) PROVE Spent(t)'
    OBVIOUS
  <2>1. PICK f \in Flows, n \in 1..MaxCodes : t = <<f, n>>
    OBVIOUS
  <2>2. n <= approvals[f] - codes[f]
    BY <2>1 DEF Spent
  <2>3. codes[f] \in 0..MaxCodes /\ approvals[f] \in 0..MaxCodes
    BY DEF Inv, TypeOK, AccountsTypeOK
  <2>4. n <= approvals'[f] - codes'[f]
    BY <2>2, <2>3
  <2> QED BY <2>1, <2>4 DEF Spent
<1>2. CredentialsLive'
  BY Withdrawals DEF Inv, TokenInv, CredentialsLive
<1>3. TokenIsNew'
  BY Withdrawals, HeldTokens DEF Inv, TokenInv, TokenIsNew
<1>4. TokensAreSpent'
  BY <1>1, HeldTokens, Withdrawals DEF Inv, TokenInv, TokensAreSpent
<1> QED BY <1>2, <1>3, <1>4 DEF TokenInv

LEMMA ExchangeTokens ==
  ASSUME Inv, NEW c \in Callbacks, Exchange(c), Withdraw
  PROVE  TokenInv'
<1>1. PICK f \in Flows : f = callback[c].flow
  BY CallbackFields DEF Inv, AccountsInv, Exchange
<1>2. PICK n \in Nat : n = approvals[f] - codes[f]
  BY DEF Inv, AccountsInv, AccountsTypeOK, CodesWereGiven
<1>3. /\ codes[f] \in 1..MaxCodes /\ codes' = [codes EXCEPT ![f] = @ - 1]
      /\ approvals' = approvals /\ credential' = credential /\ n + 1 \in 1..MaxCodes
  <2>1. /\ codes[f] > 0 /\ codes' = [codes EXCEPT ![f] = @ - 1]
        /\ approvals' = approvals /\ credential' = credential
    BY <1>1 DEF Exchange
  <2>2. codes[f] \in 0..MaxCodes /\ approvals[f] \in 0..MaxCodes
    BY DEF Inv, AccountsInv, AccountsTypeOK
  <2> QED BY <1>2, <2>1, <2>2
<1>4. PICK token \in Token : token = <<f, n + 1>>
  BY <1>3
<1>5. /\ \A d \in Callbacks \ {c} : callback'[d] = callback[d]
      /\ callback'[c].token = token
  BY <1>1, <1>2, <1>4, CallbackFields DEF Exchange, Inv, AccountsInv, AccountsTypeOK, Callback
<1>6. \A t : t \in withdrawn' <=> t \in withdrawn
  BY <1>3, Withdrawals
<1>7. \A t \in Token : (Spent(t) => Spent(t)' /\ t # token)
  <2> SUFFICES ASSUME NEW t \in Token, Spent(t) PROVE Spent(t)' /\ t # token
    OBVIOUS
  <2>1. PICK g \in Flows, m \in 1..MaxCodes : t = <<g, m>>
    OBVIOUS
  <2>2. m <= approvals[g] - codes[g] /\ codes[g] \in 0..MaxCodes /\ approvals[g] \in 0..MaxCodes
    BY <2>1 DEF Spent, Inv, TypeOK, AccountsTypeOK
  <2>3. codes'[g] <= codes[g] /\ codes'[g] \in Int
    BY <1>3, <2>2 DEF Inv, TypeOK, AccountsTypeOK
  <2>4. m <= approvals'[g] - codes'[g]
    BY <1>3, <2>2, <2>3
  <2>5. g = f => m # n + 1
    BY <1>2, <2>2
  <2> QED BY <1>4, <2>1, <2>4, <2>5 DEF Spent
<1>8. Spent(token)'
  <2>1. codes'[f] = codes[f] - 1 /\ codes[f] \in Int /\ approvals[f] \in Int
    BY <1>3 DEF Inv, TypeOK, AccountsTypeOK
  <2>2. n + 1 <= approvals'[f] - codes'[f]
    BY <1>2, <1>3, <2>1
  <2> QED BY <1>4, <2>2 DEF Spent
<1>9. TokensAreSpent'
  BY <1>3, <1>5, <1>6, <1>7, <1>8, HeldTokens DEF Inv, TokenInv, TokensAreSpent
<1>10. /\ \A u \in Users : credential[u] # token
       /\ token \notin withdrawn
       /\ \A d \in Callbacks : callback[d] # None /\ callback[d].pc = "exchanged" =>
            callback[d].token # token
  BY <1>7, HeldTokens DEF Inv, TokenInv, TokensAreSpent
<1>11. TokenIsNew'
  BY <1>3, <1>5, <1>6, <1>10 DEF Inv, TokenInv, TokenIsNew
<1>12. CredentialsLive'
  BY <1>3, <1>6 DEF Inv, TokenInv, CredentialsLive
<1> QED BY <1>9, <1>11, <1>12 DEF TokenInv

LEMMA StoreTokens ==
  ASSUME Inv, NEW c \in Callbacks, Store(c), Withdraw
  PROVE  TokenInv'
<1>1. PICK u \in Users : u = callback[c].user
  BY CallbackFields DEF Inv, AccountsInv, Store
<1>2. PICK token \in Token : token = callback[c].token
  BY CallbackFields DEF Inv, AccountsInv, TokenOfItsFlow, Store
<1>3. /\ \A v \in Users : credential'[v] = IF v = u THEN token ELSE credential[v]
      /\ UNCHANGED <<codes, approvals>>
  BY <1>1, <1>2 DEF Store, Inv, AccountsInv, AccountsTypeOK
<1>4. /\ \A d \in Callbacks \ {c} : callback'[d] = callback[d]
      /\ callback'[c].pc = "stored"
  BY CallbackFields DEF Store, Inv, AccountsInv, AccountsTypeOK, Callback
<1>5. \A t \in withdrawn' : t \in withdrawn \/ (t # None /\ \E v \in Users : credential[v] = t)
  BY Withdrawals
<1>6. \A t : Spent(t)' <=> Spent(t)
  BY <1>3 DEF Spent
<1>7. callback[c] # None /\ callback[c].pc = "exchanged"
  BY DEF Store
<1>8. TokensAreSpent'
  BY <1>2, <1>3, <1>4, <1>5, <1>6, <1>7 DEF Inv, TokenInv, TokensAreSpent
<1>9. TokenIsNew'
  BY <1>2, <1>3, <1>4, <1>5, <1>7 DEF Inv, TokenInv, TokenIsNew
<1>10. CredentialsLive'
  BY <1>2, <1>3, <1>7, Withdrawals DEF Inv, TokenInv, TokenIsNew, CredentialsLive
<1> QED BY <1>8, <1>9, <1>10 DEF TokenInv

LEMMA AccountsTokens ==
  ASSUME Inv, AccountsNext, Withdraw
  PROVE  TokenInv'
<1> USE DEF Inv, TypeOK, AccountsTypeOK, accountVars, flowVars
<1>1. ASSUME NEW u \in Users,
             LoginKnown(u) \/ SessionExpires(u) \/ DeleteMe(u) \/ Disconnect(u)
      PROVE  TokenInv'
  BY <1>1, TokensStay DEF LoginKnown, SessionExpires, DeleteMe, Disconnect, Cascade
<1>2. ASSUME NEW l \in Logins,
             \/ LoginFails(l)
             \/ \E s \in Subjects : LoginUnknown(l, s)
             \/ \E u \in Users : LoginCreate(l, u)
      PROVE  TokenInv'
  BY <1>2, TokensStay DEF LoginFails, LoginUnknown, LoginCreate
<1>3. ASSUME NEW f \in Flows,
             PendingExpires(f) \/ \E u \in Users : Start(u, f)
      PROVE  TokenInv'
  BY <1>3, TokensStay DEF PendingExpires, Start
<1>4. ASSUME NEW f \in Flows, Approve(f) PROVE TokenInv'
  <2>1. /\ \A g \in Flows : approvals'[g] - codes'[g] >= approvals[g] - codes[g]
        /\ UNCHANGED <<callback, credential>>
    BY <1>4 DEF Approve
  <2>2. codes' \in [Flows -> 0..MaxCodes] /\ approvals' \in [Flows -> 0..MaxCodes]
    BY <1>4 DEF Approve, AccountsInv, CodesWereGiven
  <2> QED BY <2>1, <2>2, TokensStay
<1>5. ASSUME NEW c \in Callbacks, \/ \E f \in Flows : CallbackRead(c, f)
                                  \/ Fails(c) \/ Finish(c)
      PROVE  TokenInv'
  BY <1>5, TokensStay DEF CallbackRead, Fails, Finish
<1>6. ASSUME NEW c \in Callbacks, ExchangeLost(c) PROVE TokenInv'
  <2>1. PICK f \in Flows : f = callback[c].flow
    BY <1>6, CallbackFields DEF ExchangeLost
  <2>2. /\ \A g \in Flows : approvals'[g] - codes'[g] >= approvals[g] - codes[g]
        /\ UNCHANGED credential /\ callback' = [callback EXCEPT ![c] = None]
        /\ codes' \in [Flows -> 0..MaxCodes] /\ approvals' \in [Flows -> 0..MaxCodes]
    BY <1>6, <2>1 DEF ExchangeLost
  <2> QED BY <2>2, TokensStay
<1>7. ASSUME NEW c \in Callbacks, Exchange(c) \/ Store(c) PROVE TokenInv'
  BY <1>7, ExchangeTokens, StoreTokens
<1> QED BY <1>1, <1>2, <1>3, <1>4, <1>5, <1>6, <1>7 DEF AccountsNext

LEMMA AccountsMove ==
  ASSUME Inv, AccountsNext, UNCHANGED sourceVars, Withdraw
  PROVE  Inv'
<1>1. AccountsInv' /\ TokenInv'
  BY AccountsNextKeeps, AccountsTokens DEF Inv
<1>2. withdrawn' \subseteq Token
  BY HeldTokens, Withdrawals
<1>3. TypeOK'
  BY <1>1, <1>2 DEF Inv, TypeOK, AccountsInv, sourceVars
<1>4. NoWithdrawnToken' /\ AnswerInv'
  BY DEF Inv, sourceVars, NoWithdrawnToken, AnswerInv, SaidBefore, JobIsFreshest,
         OlderOnlyByOverlap
<1> QED BY <1>1, <1>3, <1>4 DEF Inv

-----------------------------------------------------------------------------
(* The source is asked.                                                    *)

\* Steps of the source leave the tokens where they are.
LEMMA SourceKeepsTokens ==
  ASSUME Inv, UNCHANGED <<accountsVars, withdrawn>>
  PROVE  AccountsInv' /\ TokenInv' /\ AccountsTypeOK' /\ withdrawn' \subseteq Token
<1>1. AccountsInv'
  BY AccountsStutter DEF Inv
<1>2. TokenInv'
  BY DEF Inv, TokenInv, TokensAreSpent, Spent, TokenIsNew, CredentialsLive, accountsVars, flowVars
<1> QED BY <1>1, <1>2 DEF Inv, TypeOK, AccountsInv

\* A job that is taken up has an access its user has now.
LEMMA AccessIsLive ==
  ASSUME Inv, NEW u \in Users, Resolve(u) # None
  PROVE  Resolve(u) \in Access \ withdrawn
BY DEF Inv, TypeOK, AccountsTypeOK, TokenInv, CredentialsLive, Resolve, Access

\* What a step of the source has to show.
SourceInv ==
  /\ premium \subseteq Users
  /\ release \in [Keys -> Releases]
  /\ cache \in [Keys -> Releases \cup {None}]
  /\ job \in [JobIds -> Job \cup {None}]
  /\ fetch \in [Fetchers -> Fetch \cup {None}]
  /\ last \in [Keys -> Releases]
  /\ NoWithdrawnToken
  /\ AnswerInv

LEMMA SourceIsInv ==
  ASSUME Inv, UNCHANGED <<accountsVars, withdrawn>>, SourceInv'
  PROVE  Inv'
BY SourceKeepsTokens DEF Inv, TypeOK, SourceInv, AccountsInv

LEMMA InvIsSource == Inv => SourceInv
BY DEF Inv, TypeOK, SourceInv

LEMMA WorldKeeps ==
  ASSUME SourceInv, \/ \E u \in Users : PremiumChanges(u)
                    \/ \E k \in Keys : Release(k) \/ Expire(k)
  PROVE  SourceInv'
<1>1. ASSUME NEW u \in Users, PremiumChanges(u) PROVE SourceInv'
  BY <1>1 DEF PremiumChanges, SourceInv, NoWithdrawnToken, AnswerInv, SaidBefore, JobIsFreshest,
              OlderOnlyByOverlap
<1>2. ASSUME NEW k \in Keys, Expire(k) PROVE SourceInv'
  BY <1>2 DEF Expire, SourceInv, NoWithdrawnToken, AnswerInv, SaidBefore, JobIsFreshest,
              OlderOnlyByOverlap
<1>3. ASSUME NEW k \in Keys, Release(k) PROVE SourceInv'
  <2>1. /\ release' \in [Keys -> Releases]
        /\ \A l \in Keys : release[l] <= release'[l] /\ release[l] \in Int /\ release'[l] \in Int
    BY <1>3 DEF Release, SourceInv, Releases
  <2>2. /\ \A l \in Keys : last[l] \in Int
        /\ \A f \in Fetchers : fetch[f] # None => fetch[f].key \in Keys /\ fetch[f].answer \in Int
        /\ \A j \in JobIds : j[1] \in Keys /\ (job[j] # None => job[j].answer \in Int)
    BY DEF SourceInv, Fetch, Job, JobIds, Releases
  <2>3. SaidBefore'
    BY <1>3, <2>1, <2>2 DEF Release, SourceInv, AnswerInv, SaidBefore
  <2>4. JobIsFreshest'
    BY <1>3, <2>1, <2>2 DEF Release, SourceInv, AnswerInv, JobIsFreshest
  <2>5. OlderOnlyByOverlap' /\ NoWithdrawnToken'
    BY <1>3 DEF Release, SourceInv, AnswerInv, OlderOnlyByOverlap, NoWithdrawnToken
  <2> QED BY <1>3, <2>1, <2>3, <2>4, <2>5 DEF Release, SourceInv, AnswerInv
<1> QED BY <1>1, <1>2, <1>3

\* A request that starts, waits or gives up brings no answer.
LEMMA FetchMoves ==
  ASSUME SourceInv, UNCHANGED <<release, last>>,
         job' \in [JobIds -> Job \cup {None}], fetch' \in [Fetchers -> Fetch \cup {None}],
         \A f \in Fetchers : fetch'[f] # None /\ fetch'[f].pc = "answered" => fetch'[f] = fetch[f],
         \A j \in JobIds : job'[j] # None =>
           j[2] = None /\ (job'[j].state = "completed" => job'[j] = job[j])
  PROVE  AnswerInv'
BY DEF SourceInv, AnswerInv, SaidBefore, JobIsFreshest, OlderOnlyByOverlap

LEMMA MissKeeps ==
  ASSUME TypeOK, SourceInv, NEW f \in Fetchers, NEW u \in Users, NEW k \in Keys, Miss(f, u, k)
  PROVE  SourceInv'
<1> DEFINE new == [pc |-> "missed", key |-> k, user |-> u, access |-> Resolve(u),
                   answer |-> 0, overlapped |-> FALSE]
<1>1. Resolve(u) \in Access
  BY DEF TypeOK, AccountsTypeOK, Resolve, Access
<1>2. new \in Fetch /\ new.pc = "missed"
  BY <1>1 DEF Fetch, Releases
<1>3. fetch' = [fetch EXCEPT ![f] = new] /\ UNCHANGED <<premium, release, cache, job, last>>
  BY DEF Miss
<1> HIDE DEF new
<1>4. fetch' \in [Fetchers -> Fetch \cup {None}]
  BY <1>2, <1>3 DEF SourceInv
<1>5. \A g \in Fetchers : fetch'[g] # None /\ fetch'[g].pc = "answered" => fetch'[g] = fetch[g]
  BY <1>2, <1>3 DEF SourceInv
<1>6. AnswerInv'
  BY <1>3, <1>4, <1>5, FetchMoves DEF SourceInv, AnswerInv, JobIsFreshest
<1> QED BY <1>3, <1>4, <1>6 DEF SourceInv, NoWithdrawnToken

LEMMA GiveUpKeeps ==
  ASSUME SourceInv, NEW f \in Fetchers, GiveUp(f)
  PROVE  SourceInv'
<1>1. /\ fetch' \in [Fetchers -> Fetch \cup {None}]
      /\ \A g \in Fetchers : fetch'[g] # None /\ fetch'[g].pc = "answered" => fetch'[g] = fetch[g]
  BY DEF GiveUp, SourceInv
<1>2. AnswerInv'
  BY <1>1, FetchMoves DEF GiveUp, SourceInv, AnswerInv, JobIsFreshest
<1> QED BY <1>1, <1>2 DEF GiveUp, SourceInv, NoWithdrawnToken

\* A request that joins a job that is over gets an answer as fresh as any.
LEMMA EnqueueKeeps ==
  ASSUME TypeOK, SourceInv, NEW f \in Fetchers, Enqueue(f)
  PROVE  SourceInv'
<1>1. fetch[f] \in Fetch /\ fetch[f].key \in Keys /\ fetch[f].user \in Users
  BY FetchFields DEF Enqueue
<1>2. PICK j \in JobIds : j = JobId(fetch[f].key, fetch[f].user)
  BY FetchFields DEF Enqueue
<1>3. j[1] = fetch[f].key /\ j[2] = None
  BY <1>2 DEF JobId
<1>4. UNCHANGED <<premium, release, cache, last>>
  BY DEF Enqueue
<1>5. CASE job[j] = None
  <2> DEFINE new == [state |-> "waiting", user |-> fetch[f].user, access |-> None,
                     gone |-> {}, answer |-> 0]
             asked == [fetch[f] EXCEPT !.pc = "waiting"]
  <2>1. new \in Job /\ new.state = "waiting" /\ asked \in Fetch /\ asked.pc = "waiting"
    BY <1>1 DEF Job, Fetch, Access, Releases
  <2>2. job' = [job EXCEPT ![j] = new] /\ fetch' = [fetch EXCEPT ![f] = asked]
    BY <1>2, <1>5 DEF Enqueue, SourceInv
  <2> HIDE DEF new, asked
  <2>3. /\ job' \in [JobIds -> Job \cup {None}] /\ fetch' \in [Fetchers -> Fetch \cup {None}]
        /\ \A i \in JobIds : job'[i] = IF i = j THEN new ELSE job[i]
        /\ \A g \in Fetchers : fetch'[g] = IF g = f THEN asked ELSE fetch[g]
    BY <2>1, <2>2 DEF SourceInv
  <2>4. /\ \A g \in Fetchers : fetch'[g] # None /\ fetch'[g].pc = "answered" => fetch'[g] = fetch[g]
        /\ \A i \in JobIds : job'[i] # None =>
             i[2] = None /\ (job'[i].state = "completed" => job'[i] = job[i])
    BY <1>3, <2>1, <2>3 DEF SourceInv, AnswerInv, JobIsFreshest
  <2>5. AnswerInv'
    BY <1>4, <2>3, <2>4, FetchMoves
  <2>6. NoWithdrawnToken'
    BY <2>1, <2>3 DEF SourceInv, NoWithdrawnToken
  <2> QED BY <1>4, <2>3, <2>5, <2>6 DEF SourceInv
<1>6. CASE job[j] # None /\ job[j].state # "completed"
  <2> DEFINE asked == [fetch[f] EXCEPT !.pc = "waiting"]
  <2>1. asked \in Fetch /\ asked.pc = "waiting"
    BY <1>1 DEF Fetch
  <2>2. job' = job /\ fetch' = [fetch EXCEPT ![f] = asked]
    BY <1>2, <1>6 DEF Enqueue, SourceInv
  <2> HIDE DEF asked
  <2>3. /\ fetch' \in [Fetchers -> Fetch \cup {None}]
        /\ \A g \in Fetchers : fetch'[g] # None /\ fetch'[g].pc = "answered" => fetch'[g] = fetch[g]
    BY <2>1, <2>2 DEF SourceInv
  <2>4. AnswerInv'
    BY <1>4, <2>2, <2>3, FetchMoves DEF SourceInv, AnswerInv, JobIsFreshest
  <2> QED BY <1>4, <2>2, <2>3, <2>4 DEF SourceInv, NoWithdrawnToken
<1>7. CASE job[j] # None /\ job[j].state = "completed"
  <2> DEFINE told == [fetch[f] EXCEPT !.pc = "answered", !.answer = job[j].answer]
  <2>1. job[j].answer \in Releases
    BY <1>7, JobFields
  <2>2. /\ told \in Fetch /\ told.pc = "answered" /\ told.answer = job[j].answer
        /\ told.key = j[1] /\ told.key \in Keys
    BY <1>1, <1>3, <2>1 DEF Fetch
  <2>3. job' = job /\ fetch' = [fetch EXCEPT ![f] = told]
    BY <1>2, <1>7 DEF Enqueue, SourceInv
  <2> HIDE DEF told
  <2>4. /\ fetch' \in [Fetchers -> Fetch \cup {None}]
        /\ \A g \in Fetchers : fetch'[g] = IF g = f THEN told ELSE fetch[g]
    BY <2>2, <2>3 DEF SourceInv
  <2>5. job[j].answer <= release[j[1]] /\ last[j[1]] <= job[j].answer
    BY <1>7 DEF SourceInv, AnswerInv, JobIsFreshest
  <2>6. SaidBefore'
    BY <1>4, <2>2, <2>4, <2>5 DEF SourceInv, AnswerInv, SaidBefore
  <2>7. \A i \in JobIds : job[i] # None /\ i[1] = j[1] => i = j
    BY <1>7 DEF SourceInv, AnswerInv, JobIsFreshest, JobIds
  <2>8. JobIsFreshest'
    BY <1>4, <2>1, <2>2, <2>3, <2>4, <2>7 DEF SourceInv, AnswerInv, JobIsFreshest, Releases
  <2>9. OlderOnlyByOverlap'
    BY <1>4, <2>1, <2>2, <2>4, <2>5 DEF SourceInv, AnswerInv, OlderOnlyByOverlap, Releases
  <2> QED BY <1>4, <2>3, <2>4, <2>6, <2>8, <2>9 DEF SourceInv, AnswerInv, NoWithdrawnToken
<1> QED BY <1>5, <1>6, <1>7

\* A job that fails, or is forgotten, leaves fewer jobs and fewer requests.
LEMMA GoneKeeps ==
  ASSUME SourceInv, NEW j \in JobIds, UNCHANGED <<premium, release, cache, last>>,
         Failed(j) \/ Removed(j)
  PROVE  SourceInv'
<1>1. job' = [job EXCEPT ![j] = None]
  BY DEF Failed, Removed
<1>2. \A i \in JobIds : job'[i] # None => job'[i] = job[i]
  BY <1>1 DEF SourceInv
<1>3. /\ fetch' \in [Fetchers -> Fetch \cup {None}]
      /\ \A f \in Fetchers : fetch'[f] # None => fetch'[f] = fetch[f]
  BY DEF Failed, Removed, SourceInv
<1>4. job' \in [JobIds -> Job \cup {None}]
  BY <1>1 DEF SourceInv
<1>5. AnswerInv'
  BY <1>2, <1>3, <1>4, FetchMoves DEF SourceInv, AnswerInv, JobIsFreshest
<1>6. NoWithdrawnToken'
  BY <1>2 DEF SourceInv, NoWithdrawnToken
<1> QED BY <1>3, <1>4, <1>5, <1>6 DEF SourceInv

\* A job is taken up with what its user has now, which nobody took away.
LEMMA TakeKeeps ==
  ASSUME Inv, NEW j \in JobIds, Take(j)
  PROVE  SourceInv'
<1>1. SourceInv /\ UNCHANGED <<premium, release, cache, last>>
  BY InvIsSource DEF Take
<1>2. CASE Failed(j)
  BY <1>1, <1>2, GoneKeeps
<1>3. CASE ~Failed(j)
  <2> DEFINE taken == [job[j] EXCEPT !.state = "active", !.access = Resolve(job[j].user),
                                     !.gone = withdrawn]
  <2>1. /\ job[j] \in Job /\ job[j].user \in Users /\ Resolve(job[j].user) # None
        /\ fetch' = fetch
    BY <1>3, JobFields DEF Take, AccessOf, Inv
  <2>2. Resolve(job[j].user) \in Access \ withdrawn
    BY <2>1, AccessIsLive
  <2>3. /\ taken \in Job /\ taken.state = "active" /\ taken.access \notin taken.gone
    BY <2>1, <2>2, HeldTokens DEF Job
  <2>4. job' = [job EXCEPT ![j] = taken]
    BY <1>3 DEF Take, AccessOf, Inv, TypeOK
  <2> HIDE DEF taken
  <2>5. /\ job' \in [JobIds -> Job \cup {None}]
        /\ \A i \in JobIds : job'[i] = IF i = j THEN taken ELSE job[i]
    BY <1>1, <2>3, <2>4 DEF SourceInv
  <2>6. \A i \in JobIds : job'[i] # None =>
          i[2] = None /\ (job'[i].state = "completed" => job'[i] = job[i])
    BY <1>1, <2>3, <2>5 DEF Take, SourceInv, AnswerInv, JobIsFreshest
  <2>7. AnswerInv'
    BY <1>1, <2>1, <2>5, <2>6, FetchMoves DEF SourceInv
  <2>8. NoWithdrawnToken'
    BY <1>1, <2>3, <2>5 DEF SourceInv, NoWithdrawnToken
  <2> QED BY <1>1, <2>1, <2>5, <2>7, <2>8 DEF SourceInv
<1> QED BY <1>2, <1>3

\* A job found stalled waits as it did before: it has no answer, and no access.
LEMMA StallsKeeps ==
  ASSUME TypeOK, SourceInv, NEW j \in JobIds, Stalls(j)
  PROVE  SourceInv'
<1>1. UNCHANGED <<premium, release, cache, fetch, last>>
  BY DEF Stalls
<1> DEFINE again == [job[j] EXCEPT !.state = "waiting", !.access = None, !.gone = {}]
<1>2. job[j] \in Job /\ job[j] # None
  BY JobFields DEF Stalls
<1>3. again \in Job /\ again.state = "waiting"
  BY <1>2 DEF Job, Access
<1>4. job' = [job EXCEPT ![j] = again]
  BY DEF Stalls, SourceInv
<1> HIDE DEF again
<1>5. /\ job' \in [JobIds -> Job \cup {None}]
      /\ \A i \in JobIds : job'[i] = IF i = j THEN again ELSE job[i]
  BY <1>3, <1>4 DEF SourceInv
<1>6. \A i \in JobIds : job'[i] # None =>
        i[2] = None /\ (job'[i].state = "completed" => job'[i] = job[i])
  BY <1>2, <1>3, <1>5 DEF SourceInv, AnswerInv, JobIsFreshest
<1>7. AnswerInv'
  BY <1>1, <1>5, <1>6, FetchMoves DEF SourceInv
<1>8. NoWithdrawnToken'
  BY <1>3, <1>5 DEF SourceInv, NoWithdrawnToken
<1> QED BY <1>1, <1>5, <1>7, <1>8 DEF SourceInv

\* The source answers with what it says now: nothing fresher was written, nor
\* waits to be.
LEMMA AnswerKeeps ==
  ASSUME TypeOK, SourceInv, NEW j \in JobIds, Answer(j)
  PROVE  SourceInv'
<1>1. UNCHANGED <<premium, release, cache, last>>
  BY DEF Answer
<1>2. PICK k \in Keys : k = j[1]
  BY JobFields DEF Answer
<1>3. PICK said \in Releases : said = release[k]
  BY DEF SourceInv
<1>4. job[j] \in Job /\ j[2] = None
  BY JobFields DEF Answer, SourceInv, AnswerInv, JobIsFreshest
<1> DEFINE done == [job[j] EXCEPT !.state = "completed", !.answer = said,
                                  !.access = None, !.gone = {}]
<1>5. done \in Job /\ done.state = "completed" /\ done.answer = said
  BY <1>4 DEF Job, Access
<1>6. job' = [job EXCEPT ![j] = done]
  BY <1>2, <1>3 DEF Answer, SourceInv
<1> HIDE DEF done
<1>7. /\ job' \in [JobIds -> Job \cup {None}]
      /\ \A i \in JobIds : job'[i] = IF i = j THEN done ELSE job[i]
  BY <1>5, <1>6 DEF SourceInv
<1>8. ASSUME NEW f \in Fetchers, f \in WaitingFor(j)
      PROVE  /\ fetch'[f] \in Fetch /\ fetch'[f].pc = "answered" /\ fetch'[f].answer = said
             /\ fetch'[f].key = k
  <2>1. fetch[f] \in Fetch /\ fetch[f].key = k
    BY <1>2, <1>8, FetchFields DEF WaitingFor, JobId
  <2>2. fetch'[f] = [fetch[f] EXCEPT !.pc = "answered", !.answer = said]
    BY <1>2, <1>3, <1>8 DEF Answer
  <2> QED BY <2>1, <2>2 DEF Fetch
<1>9. ASSUME NEW f \in Fetchers, f \notin WaitingFor(j)
      PROVE  fetch'[f] = fetch[f]
  BY <1>9 DEF Answer
<1>10. fetch' \in [Fetchers -> Fetch \cup {None}]
  <2>1. \A f \in Fetchers : fetch'[f] \in Fetch \cup {None}
    BY <1>8, <1>9 DEF SourceInv
  <2>2. fetch' = [f \in Fetchers |-> fetch'[f]]
    BY DEF Answer
  <2> QED BY <2>1, <2>2
<1>11. /\ last[k] <= said /\ last[k] \in Int /\ said \in Int
       /\ \A f \in Fetchers : fetch[f] # None /\ fetch[f].pc = "answered" /\ fetch[f].key = k =>
            fetch[f].answer <= said
  BY <1>3 DEF SourceInv, AnswerInv, SaidBefore, Releases
<1>12. SaidBefore'
  BY <1>1, <1>3, <1>8, <1>9, <1>11 DEF SourceInv, AnswerInv, SaidBefore
<1>13. OlderOnlyByOverlap'
  BY <1>1, <1>8, <1>9, <1>11 DEF SourceInv, AnswerInv, OlderOnlyByOverlap
<1>14. \A i \in JobIds : job[i] # None /\ i[1] = k => i = j
  BY <1>2, <1>4 DEF SourceInv, AnswerInv, JobIsFreshest, JobIds
<1>15. ASSUME NEW i \in JobIds, job'[i] # None, job'[i].state = "completed"
       PROVE  /\ last[i[1]] <= job'[i].answer /\ job'[i].answer <= release[i[1]]
              /\ \A f \in Fetchers :
                   fetch'[f] # None /\ fetch'[f].pc = "answered" /\ fetch'[f].key = i[1] =>
                     fetch'[f].answer <= job'[i].answer
  <2>1. CASE i = j
    BY <1>2, <1>3, <1>5, <1>7, <1>8, <1>9, <1>11, <2>1
  <2>2. CASE i # j
    <3>1. job'[i] = job[i] /\ i[1] # k
      BY <1>7, <1>14, <1>15, <2>2
    <3> QED BY <1>8, <1>9, <1>15, <3>1 DEF SourceInv, AnswerInv, JobIsFreshest
  <2> QED BY <2>1, <2>2
<1>16. JobIsFreshest'
  BY <1>1, <1>4, <1>7, <1>15 DEF SourceInv, AnswerInv, JobIsFreshest
<1>17. NoWithdrawnToken'
  BY <1>5, <1>7 DEF SourceInv, NoWithdrawnToken
<1> QED BY <1>1, <1>7, <1>10, <1>12, <1>13, <1>16, <1>17 DEF SourceInv, AnswerInv

\* A request writes its answer; those in flight for the key overlap with it.
LEMMA WriteKeeps ==
  ASSUME TypeOK, SourceInv, NEW f \in Fetchers, Write(f)
  PROVE  SourceInv'
<1>1. PICK k \in Keys, a \in Releases : k = fetch[f].key /\ a = fetch[f].answer
  BY FetchFields DEF Write
<1>2. /\ UNCHANGED <<premium, release, job>>
      /\ last' = [last EXCEPT ![k] = a] /\ cache' = [cache EXCEPT ![k] = a]
      /\ fetch[f] # None /\ fetch[f].pc = "answered"
  BY <1>1 DEF Write
<1>3. ASSUME NEW g \in Fetchers, fetch'[g] # None
      PROVE  /\ fetch[g] # None /\ fetch'[g] \in Fetch
             /\ fetch'[g].pc = fetch[g].pc /\ fetch'[g].key = fetch[g].key
             /\ fetch'[g].answer = fetch[g].answer
             /\ fetch'[g].overlapped = (fetch[g].overlapped \/ fetch[g].key = k)
  <2>1. fetch'[g] = IF fetch[g] # None /\ fetch[g].key = k
                    THEN [fetch[g] EXCEPT !.overlapped = TRUE] ELSE fetch[g]
    BY <1>1, <1>3 DEF Write
  <2>2. fetch[g] # None
    BY <1>3, <2>1
  <2>3. fetch[g] \in Fetch /\ fetch[g].overlapped \in BOOLEAN
    BY <2>2, FetchFields
  <2> QED BY <2>1, <2>2, <2>3 DEF Fetch
<1>4. fetch' \in [Fetchers -> Fetch \cup {None}]
  <2>1. \A g \in Fetchers : fetch'[g] \in Fetch \cup {None}
    BY <1>3
  <2>2. fetch' = [g \in Fetchers |-> fetch'[g]]
    BY DEF Write
  <2> QED BY <2>1, <2>2
<1>5. /\ last' \in [Keys -> Releases] /\ cache' \in [Keys -> Releases \cup {None}]
      /\ \A l \in Keys : last'[l] = IF l = k THEN a ELSE last[l]
  BY <1>2 DEF SourceInv
<1>6. a <= release[k]
  BY <1>1, <1>2 DEF SourceInv, AnswerInv, SaidBefore
<1>7. SaidBefore'
  BY <1>2, <1>3, <1>5, <1>6 DEF SourceInv, AnswerInv, SaidBefore
<1>8. JobIsFreshest'
  BY <1>1, <1>2, <1>3, <1>5 DEF SourceInv, AnswerInv, JobIsFreshest, JobIds
<1>9. OlderOnlyByOverlap'
  BY <1>2, <1>3, <1>5, FetchFields DEF SourceInv, AnswerInv, OlderOnlyByOverlap
<1>10. NoWithdrawnToken'
  BY <1>2 DEF SourceInv, NoWithdrawnToken
<1> QED BY <1>2, <1>4, <1>5, <1>7, <1>8, <1>9, <1>10 DEF SourceInv, AnswerInv

LEMMA SourceMoves ==
  ASSUME Inv, SourceNext, UNCHANGED <<accountsVars, withdrawn>>
  PROVE  Inv'
<1>1. TypeOK /\ SourceInv
  BY InvIsSource DEF Inv
<1>2. ASSUME NEW j \in JobIds, Take(j) \/ Answer(j) \/ CallFails(j) \/ Stalls(j) \/ Removed(j)
      PROVE  SourceInv'
  <2>1. CallFails(j) => Failed(j) /\ UNCHANGED <<premium, release, cache, last>>
    BY DEF CallFails
  <2>2. Removed(j) => UNCHANGED <<premium, release, cache, last>>
    BY DEF Removed
  <2> QED BY <1>1, <1>2, <2>1, <2>2, TakeKeeps, AnswerKeeps, StallsKeeps, GoneKeeps
<1>3. SourceInv'
  BY <1>1, <1>2, WorldKeeps, MissKeeps, EnqueueKeeps, GiveUpKeeps, WriteKeeps DEF SourceNext
<1> QED BY <1>3, SourceIsInv

LEMMA StutterKeeps == Inv /\ UNCHANGED vars => Inv'
<1> SUFFICES ASSUME Inv, UNCHANGED vars PROVE Inv'
  OBVIOUS
<1>1. UNCHANGED <<accountsVars, withdrawn>> /\ UNCHANGED sourceVars
  BY DEF vars
<1>2. SourceInv'
  BY <1>1, InvIsSource DEF sourceVars, SourceInv, NoWithdrawnToken, AnswerInv, SaidBefore,
     JobIsFreshest, OlderOnlyByOverlap
<1> QED BY <1>1, <1>2, SourceIsInv

LEMMA NextKeeps == Inv /\ [Next]_vars => Inv'
BY AccountsMove, SourceMoves, StutterKeeps DEF Next

LEMMA AlwaysInv == Spec => []Inv
BY InitInv, NextKeeps, PTL DEF Spec

-----------------------------------------------------------------------------
(* The theorems.                                                           *)

\* Type correctness.
THEOREM TypesHold == Spec => []TypeOK
<1>1. Inv => TypeOK
  BY DEF Inv
<1> QED BY <1>1, AlwaysInv, PTL

\* However the first logins of a person race, he has one account.
THEOREM OneAccount == Spec => []OneAccountPerSubject
<1>1. Inv => OneAccountPerSubject
  BY DEF Inv, AccountsInv
<1> QED BY <1>1, AlwaysInv, PTL

\* A callback that outlives the account it works for stores nothing.
THEOREM CredentialsAreOfAccounts == Spec => []CredentialOfAnAccount
<1>1. Inv => CredentialOfAnAccount
  BY DEF Inv, AccountsInv
<1> QED BY <1>1, AlwaysInv, PTL

\* A credential came from a flow its user started, whatever callbacks race or
\* are retried, and whoever the browser is signed in as.
THEOREM CredentialsAreOwn == Spec => []CredentialOfOwnFlow
<1>1. Inv => CredentialOfOwnFlow
  BY DEF Inv, AccountsInv
<1> QED BY <1>1, AlwaysInv, PTL

\* The two promises on stored tokens together.
THEOREM CredentialsAlwaysHold == Spec => []CredentialsHold
BY CredentialsAreOfAccounts, CredentialsAreOwn, PTL DEF CredentialsHold

\* What was disconnected comes back only through a flow then still open.
THEOREM DisconnectIsFinal == Spec => []DisconnectHolds
<1>1. Inv => DisconnectHolds
  BY DEF Inv, AccountsInv
<1> QED BY <1>1, AlwaysInv, PTL

\* The worker calls the source with nothing that was taken away before.
THEOREM OnlyLiveTokens == Spec => []NoWithdrawnToken
<1>1. Inv => NoWithdrawnToken
  BY DEF Inv
<1> QED BY <1>1, AlwaysInv, PTL

\* A request alone never makes the cache older.
THEOREM CacheAgesOnlyByOverlap == Spec => []OlderOnlyByOverlap
<1>1. Inv => OlderOnlyByOverlap
  BY DEF Inv, AnswerInv
<1> QED BY <1>1, AlwaysInv, PTL
=============================================================================
