------------------------------- MODULE Accounts -------------------------------
(***************************************************************************)
(* Accounts and the providers they connect: AuthService and                *)
(* IdentityResolverService (login), JwtAuthGuard, UsersService.deleteMe,   *)
(* the OAuth flows of MalAdapter and DiscogsAdapter, and                   *)
(* OauthCredentialsService.                                                *)
(*                                                                         *)
(* A flow is known by its state (Discogs: by its request token), which the *)
(* server keeps as a row of api_cache for ten minutes.  The callback is a  *)
(* public route: the state alone tells whose flow it is.                   *)
(*                                                                         *)
(* One provider.  The audit log, the signature of the tokens and the       *)
(* encryption of the credentials are left out.                             *)
(***************************************************************************)
EXTENDS Integers, FiniteSets

CONSTANTS
  Subjects,      \* people, as their identity provider knows them
  Users,         \* user ids (uuids)
  Logins,        \* slots for logins in flight
  Flows,         \* states of OAuth flows
  Callbacks,     \* slots for callbacks in flight
  MaxCodes,      \* bound on the codes a person is given for a flow
  None

ASSUME NoneAssumption ==
  None \notin Subjects \cup Users \cup Flows /\ None \notin Flows \X (1..MaxCodes)
ASSUME CodesAssumption == MaxCodes \in Nat

VARIABLES
  subjectOf,   \* users.google_sub_hash, None without a row
  given,       \* user ids given so far
  login,       \* per slot, the subject no row was found for
  sessions,    \* users somebody holds an unexpired JWT of
  pending,     \* per flow, the user of its row of api_cache, or None
  starter,     \* per flow, the user who started it (the row's user, for good)
  codes,       \* codes the provider gave for a flow and did not yet exchange
  approvals,   \* codes it gave so far
  callback,    \* per slot, a callback in flight or None
  credential,  \* per user, the token of his oauth_credentials row, or None
  over,        \* history: flows that expired or that a callback brought to its end
  shut         \* history: those that were over, with no callback left, when their
               \* user last disconnected
accountVars == <<subjectOf, given, login, sessions>>
flowVars == <<pending, starter, codes, approvals, callback, over>>
accountsVars == <<accountVars, flowVars, credential, shut>>

\* A token is known by the flow it came from and the code it was given for.
Token == Flows \X (1..MaxCodes)
Callback == [pc : {"read", "exchanged", "stored"}, flow : Flows, user : Users,
             token : Token \cup {None}]

AccountsTypeOK ==
  /\ subjectOf \in [Users -> Subjects \cup {None}]
  /\ given \subseteq Users
  /\ login \in [Logins -> Subjects \cup {None}]
  /\ sessions \subseteq given
  /\ pending \in [Flows -> Users \cup {None}]
  /\ starter \in [Flows -> Users \cup {None}]
  /\ approvals \in [Flows -> 0..MaxCodes]
  /\ codes \in [Flows -> 0..MaxCodes]
  /\ callback \in [Callbacks -> Callback \cup {None}]
  /\ credential \in [Users -> Token \cup {None}]
  /\ over \subseteq Flows /\ shut \subseteq Flows

AccountsInit ==
  /\ subjectOf = [u \in Users |-> None]
  /\ given = {}
  /\ login = [l \in Logins |-> None]
  /\ sessions = {}
  /\ pending = [f \in Flows |-> None]
  /\ starter = [f \in Flows |-> None]
  /\ approvals = [f \in Flows |-> 0]
  /\ codes = [f \in Flows |-> 0]
  /\ callback = [c \in Callbacks |-> None]
  /\ credential = [u \in Users |-> None]
  /\ over = {} /\ shut = {}

Accounts == {u \in Users : subjectOf[u] # None}

-----------------------------------------------------------------------------
(* Login and account.                                                      *)

\* resolveOrCreate, the lookup: a known subject gets a JWT of his account.
LoginKnown(u) ==
  /\ u \in Accounts
  /\ sessions' = sessions \cup {u}
  /\ UNCHANGED <<subjectOf, given, login, flowVars, credential, shut>>

LoginUnknown(l, s) ==
  /\ login[l] = None
  /\ \A u \in Users : subjectOf[u] # s
  /\ login' = [login EXCEPT ![l] = s]
  /\ UNCHANGED <<subjectOf, given, sessions, flowVars, credential, shut>>

AnySubject(s) == TRUE                          \* mutant of SubjectFree
\* users.google_sub_hash is unique.
SubjectFree(s) == \A u \in Users : subjectOf[u] # s

\* The insert.  Another login may have made the account since: P2002, which
\* nothing catches, and the client gets a 500 (LoginFails).
LoginCreate(l, u) ==
  /\ login[l] # None
  /\ SubjectFree(login[l])
  /\ u \notin given
  /\ subjectOf' = [subjectOf EXCEPT ![u] = login[l]]
  /\ given' = given \cup {u}
  /\ sessions' = sessions \cup {u}
  /\ login' = [login EXCEPT ![l] = None]
  /\ UNCHANGED <<flowVars, credential, shut>>

LoginFails(l) ==
  /\ login[l] # None
  /\ login' = [login EXCEPT ![l] = None]
  /\ UNCHANGED <<subjectOf, given, sessions, flowVars, credential, shut>>

\* The JWT alone: whether its user still has an account is not looked at.
JwtAuthGuard(u) == u \in sessions

\* Seven days.
SessionExpires(u) ==
  /\ u \in sessions
  /\ sessions' = sessions \ {u}
  /\ UNCHANGED <<subjectOf, given, login, flowVars, credential, shut>>

Shut(u) == shut \cup {f \in over : starter[f] = u
                         /\ \A c \in Callbacks : callback[c] # None => callback[c].flow # f}

\* deleteMe: the rows of the user go with him (onDelete: Cascade).  His JWTs
\* stay valid, and so do his flows: neither is a row that refers to him.
Cascade(u) == [credential EXCEPT ![u] = None]
DeleteMe(u) ==
  /\ JwtAuthGuard(u)
  /\ subjectOf' = [subjectOf EXCEPT ![u] = None]
  /\ credential' = Cascade(u)
  /\ shut' = Shut(u)
  /\ UNCHANGED <<given, login, sessions, flowVars>>

-----------------------------------------------------------------------------
(* The OAuth flow.                                                         *)

\* start: a random state, kept with the user of the JWT (who may be gone).
Start(u, f) ==
  /\ JwtAuthGuard(u)
  /\ starter[f] = None
  /\ starter' = [starter EXCEPT ![f] = u]
  /\ pending' = [pending EXCEPT ![f] = u]
  /\ UNCHANGED <<accountVars, codes, approvals, callback, over, credential, shut>>

\* Ten minutes.
PendingExpires(f) ==
  /\ pending[f] # None
  /\ pending' = [pending EXCEPT ![f] = None]
  /\ over' = over \cup {f}
  /\ UNCHANGED <<accountVars, starter, codes, approvals, callback, credential, shut>>

\* The provider: the person at the authorize URL agrees, and is sent back with
\* a code.  He may do so more than once.
Approve(f) ==
  /\ starter[f] # None
  /\ approvals[f] < MaxCodes
  /\ approvals' = [approvals EXCEPT ![f] = @ + 1]
  /\ codes' = [codes EXCEPT ![f] = @ + 1]
  /\ UNCHANGED <<accountVars, pending, starter, callback, over, credential, shut>>

UserOfSession(f) ==                                      \* mutant of UserOfFlow
  IF sessions = {} THEN pending[f] ELSE CHOOSE u \in sessions : TRUE

\* callback, up to the exchange: the pending row is read, not taken.
UserOfFlow(f) == pending[f]
CallbackRead(c, f) ==
  /\ callback[c] = None
  /\ approvals[f] > 0
  /\ pending[f] # None
  /\ callback' = [callback EXCEPT ![c] =
                    [pc |-> "read", flow |-> f, user |-> UserOfFlow(f), token |-> None]]
  /\ UNCHANGED <<accountVars, pending, starter, codes, approvals, over, credential, shut>>

\* The POST of the code, which the provider exchanges once.
Exchange(c) ==
  LET f == callback[c].flow IN
  /\ callback[c] # None
  /\ callback[c].pc = "read"
  /\ codes[f] > 0
  /\ codes' = [codes EXCEPT ![f] = @ - 1]
  /\ callback' = [callback EXCEPT ![c].pc = "exchanged",
                                  ![c].token = <<f, approvals[f] - codes[f] + 1>>]
  /\ UNCHANGED <<accountVars, pending, starter, approvals, over, credential, shut>>

\* The answer is lost and the request is sent again: the code is spent, and
\* the provider refuses (Fails).
ExchangeLost(c) ==
  /\ callback[c] # None
  /\ callback[c].pc = "read"
  /\ codes[callback[c].flow] > 0
  /\ codes' = [codes EXCEPT ![callback[c].flow] = @ - 1]
  /\ callback' = [callback EXCEPT ![c] = None]
  /\ UNCHANGED <<accountVars, pending, starter, approvals, over, credential, shut>>

\* OauthCredentialsService.store: an upsert, which the foreign key refuses to
\* a user who is gone (Fails).
UserExists(u) == u \in Accounts
Store(c) ==
  LET u == callback[c].user IN
  /\ callback[c] # None
  /\ callback[c].pc = "exchanged"
  /\ UserExists(u)
  /\ credential' = [credential EXCEPT ![u] = callback[c].token]
  /\ callback' = [callback EXCEPT ![c].pc = "stored"]
  /\ UNCHANGED <<accountVars, pending, starter, codes, approvals, over, shut>>

NotTaken(f) == pending                                   \* mutant
Taken(f) == [pending EXCEPT ![f] = None]
Finish(c) ==
  LET f == callback[c].flow IN
  /\ callback[c] # None
  /\ callback[c].pc = "stored"
  /\ pending' = Taken(f)
  /\ over' = over \cup {f}
  /\ callback' = [callback EXCEPT ![c] = None]
  /\ UNCHANGED <<accountVars, starter, codes, approvals, credential, shut>>

\* An error of any kind, or a crash: what was done stays done.
Fails(c) ==
  /\ callback[c] # None
  /\ callback' = [callback EXCEPT ![c] = None]
  /\ UNCHANGED <<accountVars, pending, starter, codes, approvals, over, credential, shut>>

\* OauthCredentialsService.remove: DELETE /oauth/:provider.
Disconnect(u) ==
  /\ JwtAuthGuard(u)
  /\ credential' = [credential EXCEPT ![u] = None]
  /\ shut' = Shut(u)
  /\ UNCHANGED <<accountVars, flowVars>>

AccountsNext ==
  \/ \E u \in Users : LoginKnown(u) \/ SessionExpires(u) \/ DeleteMe(u) \/ Disconnect(u)
  \/ \E l \in Logins : LoginFails(l)
  \/ \E l \in Logins, s \in Subjects : LoginUnknown(l, s)
  \/ \E l \in Logins, u \in Users : LoginCreate(l, u)
  \/ \E u \in Users, f \in Flows : Start(u, f)
  \/ \E f \in Flows : PendingExpires(f) \/ Approve(f)
  \/ \E c \in Callbacks, f \in Flows : CallbackRead(c, f)
  \/ \E c \in Callbacks : Exchange(c) \/ ExchangeLost(c) \/ Store(c) \/ Finish(c) \/ Fails(c)

AccountsSpec == AccountsInit /\ [][AccountsNext]_accountsVars

-----------------------------------------------------------------------------
(* Properties.                                                             *)

\* However many first logins of a person race, he has one account at most.
OneAccountPerSubject ==
  \A u, v \in Accounts : subjectOf[u] = subjectOf[v] => u = v

\* A callback that outlives the account leaves no credential behind.
CredentialOfAnAccount == \A u \in Users : credential[u] # None => u \in Accounts

\* A credential comes from a flow its user started: the public callback, its
\* retries and its races never give a token to another account.
CredentialOfOwnFlow ==
  \A u \in Users : credential[u] # None => starter[credential[u][1]] = u

\* Every credential is that of an account, from a flow of its own.
CredentialsHold == CredentialOfAnAccount /\ CredentialOfOwnFlow

\* What a person disconnected comes back only through a flow that was still
\* open, or had a callback in flight, when he did.
DisconnectHolds == \A u \in Users : credential[u] # None => credential[u][1] \notin shut
=============================================================================
