---------------------------- MODULE Subscriptions ----------------------------
(***************************************************************************)
(* Google Play subscriptions: SubscriptionsService, its cron and the push  *)
(* notifications (RTDN) of Google.                                         *)
(*                                                                         *)
(* Google is external: a purchase token has a state there which changes    *)
(* when it likes, each change sends a notification, and a notification is  *)
(* delivered until it is acknowledged, again while it is being handled     *)
(* too.  A request reads the state over the network and writes the row     *)
(* later; others run in between.  Rollback is every way a request fails:   *)
(* Google unreachable, a refused write, a crash.                           *)
(***************************************************************************)
EXTENDS Premium, FiniteSets

CONSTANTS
  Users,
  Tokens,       \* purchase tokens
  Requests,     \* slots for requests in flight (the cron takes one too)
  PlayStates,   \* states of Google in use, without SUBSCRIPTION_STATE_
  Dates,        \* dates of expiry in use
  Window,       \* REVERIFY_WINDOW_MS
  MaxClock,     \* bound of the clock
  MaxChanges    \* bound on the changes of a token at Google

ASSUME PlayStatesAssumption == PlayStates \subseteq STRING
ASSUME BoundsAssumption == /\ Window \in Nat /\ MaxClock \in Nat
                           /\ MaxChanges \in Nat \ {0} /\ Dates \subseteq Nat

VARIABLES
  accounts,   \* rows of users
  subs,       \* subscriptions, by user_id (its primary key)
  play,       \* Google: the state of each token, Null before and after
  reported,   \* history: what each token's state has been
  notices,    \* Google: notifications not acknowledged yet, per token
  verified,   \* history: tokens each user has presented
  inflight,   \* requests between reading Google and writing the row
  clock

vars == <<accounts, subs, play, reported, notices, verified, inflight, clock>>

GOOGLE_STATE_TO_STATUS ==
  [ACTIVE   |-> "active",    IN_GRACE_PERIOD |-> "grace_period",
   ON_HOLD  |-> "on_hold",   PAUSED          |-> "paused",
   CANCELED |-> "cancelled", EXPIRED         |-> "expired"]

\* Anything Google says that is not listed, PENDING for one, is not premium.
UnknownIsActive(state) ==                         \* mutant of mapGoogleState
  IF state \in DOMAIN GOOGLE_STATE_TO_STATUS THEN GOOGLE_STATE_TO_STATUS[state] ELSE "active"
mapGoogleState(state) ==
  IF state \in DOMAIN GOOGLE_STATE_TO_STATUS THEN GOOGLE_STATE_TO_STATUS[state] ELSE "expired"

Statuses == {"active", "grace_period", "on_hold", "paused", "cancelled", "expired"}
Snapshot == [state : PlayStates, expiresAt : Dates]
Row      == [purchaseToken : Tokens, status : Statuses, expiresAt : Dates]
Due      == [user : Users, token : Tokens]
Request  == [id : Requests, op : {"verify", "rtdn"}, user : Users, token : Tokens,
             snapshot : Snapshot \cup {Null}]
            \cup [id : Requests, op : {"cron"}, due : SUBSET Due, at : Due \cup {Null},
                  snapshot : Snapshot \cup {Null}]

ASSUME NullAssumption == Null \notin Row \cup Snapshot \cup Due

TypeOK ==
  /\ accounts \subseteq Users
  /\ subs \in [Users -> Row \cup {Null}]
  /\ play \in [Tokens -> Snapshot \cup {Null}]
  /\ reported \in [Tokens -> SUBSET Snapshot]
  /\ notices \in [Tokens -> Nat]
  /\ verified \subseteq Due
  /\ inflight \subseteq Request
  /\ clock \in 0..MaxClock

Init ==
  /\ accounts = Users
  /\ subs = [u \in Users |-> Null]
  /\ play = [t \in Tokens |-> Null]
  /\ reported = [t \in Tokens |-> {}]
  /\ notices = [t \in Tokens |-> 0]
  /\ verified = {}
  /\ inflight = {}
  /\ clock = 0

google == <<play, reported, notices>>

Free(r) == \A q \in inflight : q.id # r

Start(q) ==
  /\ Free(q.id)
  /\ inflight' = inflight \cup {q}

Proceed(q, p) == inflight' = (inflight \ {q}) \cup {p}
Finish(q)     == inflight' = inflight \ {q}

(***************************************************************************)
(* Google and the clock                                                    *)
(***************************************************************************)
\* A purchase, a renewal, a cancellation...: at most MaxChanges per token.
PlayChanges(t, s) ==
  /\ Cardinality(reported[t]) < MaxChanges
  /\ s \notin reported[t]
  /\ play' = [play EXCEPT ![t] = s]
  /\ reported' = [reported EXCEPT ![t] = @ \cup {s}]
  /\ notices' = [notices EXCEPT ![t] = @ + 1]
  /\ UNCHANGED <<accounts, subs, verified, inflight, clock>>

\* Google forgets a token; getSubscription answers null from then on.
PlayForgets(t) ==
  /\ play[t] # Null
  /\ Cardinality(reported[t]) = MaxChanges
  /\ play' = [play EXCEPT ![t] = Null]
  /\ UNCHANGED <<accounts, subs, reported, notices, verified, inflight, clock>>

Tick ==
  /\ clock < MaxClock
  /\ clock' = clock + 1
  /\ UNCHANGED <<accounts, subs, google, verified, inflight>>

(***************************************************************************)
(* handleVerify.  The token's row is unique: another user's blocks it.     *)
(***************************************************************************)
TokenTakenByOther(u, t) == \E v \in Users \ {u} : subs[v] # Null /\ subs[v].purchaseToken = t

BeginVerify(r, u, t) ==
  /\ play[t] # Null
  /\ Start([id |-> r, op |-> "verify", user |-> u, token |-> t, snapshot |-> play[t]])
  /\ UNCHANGED <<accounts, subs, google, verified, clock>>

RowFor(t, s) ==
  [purchaseToken |-> t, status |-> mapGoogleState(s.state), expiresAt |-> s.expiresAt]

CommitVerify(q) ==
  /\ q.op = "verify"
  /\ q.user \in accounts
  /\ ~TokenTakenByOther(q.user, q.token)
  /\ subs' = [subs EXCEPT ![q.user] = RowFor(q.token, q.snapshot)]
  /\ verified' = verified \cup {[user |-> q.user, token |-> q.token]}
  /\ Finish(q)
  /\ UNCHANGED <<accounts, google, clock>>

(***************************************************************************)
(* handleRtdn.  The user is looked up by token, Google is asked, the row   *)
(* of that user is updated; then the notification is acknowledged.         *)
(***************************************************************************)
AnyHolder(t) == {u \in Users : subs[u] # Null}         \* mutant of Holder
Holder(t) == {u \in Users : subs[u] # Null /\ subs[u].purchaseToken = t}

AcknowledgeAll(t) == notices' = [notices EXCEPT ![t] = 0]  \* mutant of Acknowledge
Acknowledge(t) == notices' = [notices EXCEPT ![t] = IF @ = 0 THEN 0 ELSE @ - 1]

\* No row has the token: acknowledged, the client will verify.
RtdnPendingVerify(r, t) ==
  /\ Free(r)
  /\ notices[t] > 0
  /\ Holder(t) = {}
  /\ Acknowledge(t)
  /\ UNCHANGED <<accounts, subs, play, reported, verified, inflight, clock>>

BeginRtdn(r, t) ==
  /\ notices[t] > 0
  /\ \E u \in Holder(t) :
       Start([id |-> r, op |-> "rtdn", user |-> u, token |-> t, snapshot |-> Null])
  /\ UNCHANGED <<accounts, subs, google, verified, clock>>

FetchRtdn(q) ==
  /\ q.op = "rtdn" /\ q.snapshot = Null
  /\ play[q.token] # Null
  /\ Proceed(q, [q EXCEPT !.snapshot = play[q.token]])
  /\ UNCHANGED <<accounts, subs, google, verified, clock>>

\* refreshFromGoogle writes by user, whatever token the row has by now.
Refreshed(u, s) ==
  [subs[u] EXCEPT !.status = mapGoogleState(s.state), !.expiresAt = s.expiresAt]

CommitRtdn(q) ==
  /\ q.op = "rtdn" /\ q.snapshot # Null
  /\ subs[q.user] # Null
  /\ subs' = [subs EXCEPT ![q.user] = Refreshed(q.user, q.snapshot)]
  /\ Acknowledge(q.token)
  /\ Finish(q)
  /\ UNCHANGED <<accounts, play, reported, verified, clock>>

(***************************************************************************)
(* The cron: the rows due are read once, then refreshed one after another. *)
(* A failure on one leaves it and goes on.                                 *)
(***************************************************************************)
DueRows == {[user |-> u, token |-> subs[u].purchaseToken] :
             u \in {v \in Users : /\ subs[v] # Null
                                  /\ subs[v].status \in {"active", "grace_period"}
                                  /\ subs[v].expiresAt < clock + Window}}

\* One cycle at a time: they are six hours apart.
BeginCron(r) ==
  /\ DueRows # {}
  /\ \A q \in inflight : q.op # "cron"
  /\ Start([id |-> r, op |-> "cron", due |-> DueRows,
            at |-> Null, snapshot |-> Null])
  /\ UNCHANGED <<accounts, subs, google, verified, clock>>

FetchCron(q, d) ==
  /\ q.op = "cron" /\ q.at = Null
  /\ d \in q.due
  /\ play[d.token] # Null
  /\ Proceed(q, [q EXCEPT !.due = @ \ {d}, !.at = d, !.snapshot = play[d.token]])
  /\ UNCHANGED <<accounts, subs, google, verified, clock>>

CarryOn(q, due) ==
  \/ due = {} /\ Finish(q)
  \/ due # {} /\ Proceed(q, [q EXCEPT !.due = due, !.at = Null, !.snapshot = Null])

CommitCron(q) ==
  /\ q.op = "cron" /\ q.at # Null
  /\ subs[q.at.user] # Null
  /\ subs' = [subs EXCEPT ![q.at.user] = Refreshed(q.at.user, q.snapshot)]
  /\ CarryOn(q, q.due)
  /\ UNCHANGED <<accounts, google, verified, clock>>

\* Google answered null or failed, or the write did.
SkipCron(q) ==
  /\ q.op = "cron"
  /\ \/ q.at # Null /\ CarryOn(q, q.due)
     \/ q.at = Null /\ \E d \in q.due : CarryOn(q, q.due \ {d})
  /\ UNCHANGED <<accounts, subs, google, verified, clock>>

Rollback(q) ==
  /\ Finish(q)
  /\ UNCHANGED <<accounts, subs, google, verified, clock>>

\* users.deleteMe; the row goes by cascade.
DeleteAccount(u) ==
  /\ u \in accounts
  /\ accounts' = accounts \ {u}
  /\ subs' = [subs EXCEPT ![u] = Null]
  /\ UNCHANGED <<google, verified, inflight, clock>>

Answer(q) == FetchRtdn(q) \/ CommitRtdn(q) \/ CommitVerify(q) \/ CommitCron(q)
             \/ SkipCron(q) \/ Rollback(q)

Next ==
  \/ \E t \in Tokens, s \in Snapshot : PlayChanges(t, s)
  \/ \E t \in Tokens : PlayForgets(t)
  \/ Tick
  \/ \E r \in Requests, u \in Users, t \in Tokens : BeginVerify(r, u, t)
  \/ \E q \in inflight : CommitVerify(q)
  \/ \E r \in Requests, t \in Tokens : RtdnPendingVerify(r, t)
  \/ \E r \in Requests, t \in Tokens : BeginRtdn(r, t)
  \/ \E q \in inflight : FetchRtdn(q)
  \/ \E q \in inflight : CommitRtdn(q)
  \/ \E r \in Requests : BeginCron(r)
  \/ \E q \in inflight, d \in Due : FetchCron(q, d)
  \/ \E q \in inflight : CommitCron(q)
  \/ \E q \in inflight : SkipCron(q)
  \/ \E q \in inflight : Rollback(q)
  \/ \E u \in Users : DeleteAccount(u)

Spec == Init /\ [][Next]_vars

\* Every request ends (they have timeouts), and a notification is delivered
\* until it is acknowledged, so that it does not fail forever.
FairSpec ==
  /\ Spec
  /\ \A r \in Requests : WF_vars(\E q \in inflight : q.id = r /\ Answer(q))
  /\ \A t \in Tokens :
       /\ SF_vars(\E r \in Requests : RtdnPendingVerify(r, t))
       /\ SF_vars(\E r \in Requests : BeginRtdn(r, t))
       /\ SF_vars(\E q \in inflight : q.op = "rtdn" /\ q.token = t /\ FetchRtdn(q))
       /\ SF_vars(\E q \in inflight : q.op = "rtdn" /\ q.token = t /\ CommitRtdn(q))
-----------------------------------------------------------------------------
(***************************************************************************)
(* Properties                                                              *)
(***************************************************************************)
PaidStates == {"ACTIVE", "IN_GRACE_PERIOD", "CANCELED"}

\* Nobody is premium by a subscription that Google did not once report, as
\* paid and until that date, for a token the user presented: not by a request
\* overtaken by another, nor by a state this code does not know.
PremiumOnlyIfPaid ==
  \A u \in Users : SubActive(subs[u], clock) =>
    \E t \in Tokens : /\ [user |-> u, token |-> t] \in verified
                      /\ \E s \in reported[t] : /\ s.state \in PaidStates
                                                /\ s.expiresAt = subs[u].expiresAt

\* A row says what Google said of the very token it holds.
RowSpeaksOfItsToken ==
  \A u \in Users : subs[u] # Null =>
    \E s \in reported[subs[u].purchaseToken] : subs[u] = RowFor(subs[u].purchaseToken, s)

\* Two rows never hold one purchase, though a user may change purchase, and
\* another present the one left behind, while the cron or a notification is
\* refreshing it (the unique key on purchase_token, and refreshes that leave the
\* token alone).
OneHolderPerToken == \A t \in Tokens : Cardinality(Holder(t)) <= 1

\* Google being the source of truth, a row ends up saying what Google says once
\* Google has stopped changing its mind and its notifications have arrived.
Agrees(u) == LET t == subs[u].purchaseToken IN
  play[t] # Null => subs[u] = RowFor(t, play[t])
RowsSettle == <>[](\A u \in Users : subs[u] # Null => Agrees(u))
=============================================================================
