------------------------- MODULE SubscriptionsProofs -------------------------
(***************************************************************************)
(* Theorems about Subscriptions, for any number of users, purchases and    *)
(* requests in flight, whatever states Google knows.                       *)
(***************************************************************************)
EXTENDS Subscriptions, FiniteSetTheorems, TLAPS

\* What Google says now it has said.
PlayIsReported == \A t \in Tokens : play[t] # Null => play[t] \in reported[t]

Presented(u, t) == [user |-> u, token |-> t] \in verified

\* A request carries an answer Google gave for the token it asked about, and a
\* refresh asks about a token its user presented.
RequestsHonest ==
  \A q \in inflight :
    /\ q.op = "verify" => q.snapshot \in reported[q.token]
    /\ q.op = "rtdn" => /\ Presented(q.user, q.token)
                        /\ q.snapshot # Null => q.snapshot \in reported[q.token]
    /\ q.op = "cron" =>
         /\ q.due \subseteq verified
         /\ q.at # Null => q.at \in verified /\ q.snapshot \in reported[q.at.token]

\* Two rows hold two tokens.
TokensApart ==
  \A u, v \in Users :
    subs[u] # Null /\ subs[v] # Null /\ subs[u].purchaseToken = subs[v].purchaseToken => u = v

\* What a row says Google said, of a token the user presented.
Earned(u, row) ==
  \E t \in Tokens : /\ Presented(u, t)
                    /\ \E s \in reported[t] : /\ row.status = mapGoogleState(s.state)
                                              /\ row.expiresAt = s.expiresAt
RowsEarned ==
  \A u \in Users : subs[u] # Null => /\ Presented(u, subs[u].purchaseToken)
                                     /\ Earned(u, subs[u])

\* The inductive invariant.
Inv == TypeOK /\ PlayIsReported /\ RequestsHonest /\ TokensApart /\ RowsEarned

-----------------------------------------------------------------------------
LEMMA MapIsTyped == \A state : mapGoogleState(state) \in Statuses
BY DEF mapGoogleState, GOOGLE_STATE_TO_STATUS, Statuses

\* Only what Google calls paid makes a row active.
LEMMA ActiveIsPaid ==
  ASSUME NEW state \in STRING, mapGoogleState(state) \in ActiveSubStatuses
  PROVE  state \in PaidStates
<1>1. CASE state \notin DOMAIN GOOGLE_STATE_TO_STATUS
  BY <1>1 DEF mapGoogleState, ActiveSubStatuses
<1>2. CASE state \in DOMAIN GOOGLE_STATE_TO_STATUS
  <2>1. state \in {"ACTIVE", "IN_GRACE_PERIOD", "ON_HOLD", "PAUSED", "CANCELED", "EXPIRED"}
    BY <1>2 DEF GOOGLE_STATE_TO_STATUS
  <2>2. mapGoogleState(state) = GOOGLE_STATE_TO_STATUS[state]
    BY <1>2 DEF mapGoogleState
  <2>3. /\ GOOGLE_STATE_TO_STATUS["ON_HOLD"] = "on_hold"
        /\ GOOGLE_STATE_TO_STATUS["PAUSED"] = "paused"
        /\ GOOGLE_STATE_TO_STATUS["EXPIRED"] = "expired"
    BY DEF GOOGLE_STATE_TO_STATUS
  <2> QED BY <2>1, <2>2, <2>3 DEF ActiveSubStatuses, PaidStates
<1> QED BY <1>1, <1>2

LEMMA InitInv == Init => Inv
BY BoundsAssumption DEF Init, Inv, TypeOK, PlayIsReported, RequestsHonest, TokensApart, RowsEarned

\* The fields of a request, by kind.
LEMMA RequestFields ==
  ASSUME TypeOK, NEW q \in inflight
  PROVE  /\ q.op \in {"verify", "rtdn", "cron"}
         /\ q.op \in {"verify", "rtdn"} => q.user \in Users /\ q.token \in Tokens
         /\ q.snapshot \in Snapshot \cup {Null}
         /\ q.op = "cron" => q.due \subseteq Due /\ q.at \in Due \cup {Null}
BY DEF TypeOK, Request

\* Fewer requests, or the same ones and one honest more, and nothing else.
LEMMA OtherRequests ==
  ASSUME Inv, UNCHANGED <<accounts, subs, play, reported, verified, clock>>,
         notices' \in [Tokens -> Nat],
         NEW p, inflight' \subseteq inflight \cup {p}, p \in inflight' => p \in Request,
         p \in inflight' => /\ p.op = "verify" => p.snapshot \in reported[p.token]
                            /\ p.op = "rtdn" => /\ Presented(p.user, p.token)
                                                /\ p.snapshot # Null => p.snapshot \in reported[p.token]
                            /\ p.op = "cron" =>
                                 /\ p.due \subseteq verified
                                 /\ p.at # Null => p.at \in verified /\ p.snapshot \in reported[p.at.token]
  PROVE  Inv'
<1> USE DEF Inv
<1>1. TypeOK'
  BY DEF TypeOK
<1>2. RequestsHonest'
  BY DEF RequestsHonest, Presented
<1>3. PlayIsReported' /\ TokensApart' /\ RowsEarned'
  BY DEF PlayIsReported, TokensApart, RowsEarned, Earned, Presented
<1> QED BY <1>1, <1>2, <1>3

\* Nothing the invariant speaks of, types aside, has changed.
LEMMA Elsewhere ==
  ASSUME Inv, TypeOK', UNCHANGED <<subs, play, reported, verified, inflight>>
  PROVE  Inv'
<1>1. PlayIsReported'
  BY DEF Inv, PlayIsReported
<1>2. RequestsHonest'
  BY DEF Inv, RequestsHonest, Presented
<1>3. TokensApart'
  BY DEF Inv, TokensApart
<1>4. RowsEarned'
  BY DEF Inv, RowsEarned, Earned, Presented
<1> QED BY <1>1, <1>2, <1>3, <1>4 DEF Inv

LEMMA PlayChangesKeeps ==
  ASSUME Inv, NEW t \in Tokens, NEW s \in Snapshot, PlayChanges(t, s)
  PROVE  Inv'
<1> USE DEF PlayChanges, Inv
<1>1. TypeOK'
  BY DEF TypeOK
<1>2. \A x \in Tokens : /\ reported[x] \subseteq reported'[x]
                        /\ play'[x] # play[x] => play'[x] \in reported'[x]
  BY DEF TypeOK
<1>3. PlayIsReported'
  BY <1>2 DEF PlayIsReported
<1>4. RequestsHonest'
  <2> SUFFICES ASSUME NEW q \in inflight
               PROVE  /\ q.op = "verify" => q.snapshot \in reported'[q.token]
                      /\ q.op = "rtdn" => /\ Presented(q.user, q.token)
                                          /\ q.snapshot # Null => q.snapshot \in reported'[q.token]
                      /\ q.op = "cron" =>
                           /\ q.due \subseteq verified
                           /\ q.at # Null => q.at \in verified /\ q.snapshot \in reported'[q.at.token]
    BY DEF RequestsHonest, Presented
  <2>1. q.op \in {"verify", "rtdn"} => q.token \in Tokens
    BY RequestFields
  <2>2. q.op = "cron" /\ q.at # Null => q.at.token \in Tokens
    BY RequestFields DEF Due
  <2> QED BY <2>1, <2>2, <1>2 DEF RequestsHonest
<1>5. TokensApart'
  BY DEF TokensApart
<1>6. RowsEarned'
  BY <1>2 DEF RowsEarned, Earned, Presented
<1> QED BY <1>1, <1>3, <1>4, <1>5, <1>6

LEMMA PlayForgetsKeeps == ASSUME Inv, NEW t \in Tokens, PlayForgets(t) PROVE Inv'
<1> USE DEF PlayForgets, Inv
<1>1. TypeOK' /\ PlayIsReported'
  BY DEF TypeOK, PlayIsReported
<1> QED BY <1>1 DEF RequestsHonest, TokensApart, RowsEarned, Earned, Presented

LEMMA TickKeeps == Inv /\ Tick => Inv'
<1> SUFFICES ASSUME Inv, Tick PROVE Inv'
  OBVIOUS
<1> USE DEF Tick, Inv, google
<1>1. TypeOK'
  BY BoundsAssumption DEF TypeOK
<1> QED BY <1>1 DEF PlayIsReported, RequestsHonest, TokensApart, RowsEarned, Earned, Presented

LEMMA BeginVerifyKeeps ==
  ASSUME Inv, NEW r \in Requests, NEW u \in Users, NEW t \in Tokens, BeginVerify(r, u, t)
  PROVE  Inv'
<1> DEFINE p == [id |-> r, op |-> "verify", user |-> u, token |-> t, snapshot |-> play[t]]
<1>1. p \in Request
  BY DEF BeginVerify, Inv, TypeOK, Request
<1>2. /\ p.op = "verify" /\ p.snapshot = play[t] /\ p.token = t
      /\ play[t] \in reported[t]
  BY DEF BeginVerify, Inv, PlayIsReported
<1>3. inflight' \subseteq inflight \cup {p}
  BY DEF BeginVerify, Start
<1> HIDE DEF p
<1> QED BY <1>1, <1>2, <1>3, OtherRequests DEF BeginVerify, google, Inv, TypeOK

LEMMA AcknowledgeTyped ==
  ASSUME TypeOK, NEW t \in Tokens, Acknowledge(t)
  PROVE  notices' \in [Tokens -> Nat]
<1>1. notices \in [Tokens -> Nat]
  BY DEF TypeOK
<1>2. (IF notices[t] = 0 THEN 0 ELSE notices[t] - 1) \in Nat
  BY <1>1
<1> QED BY <1>1, <1>2 DEF Acknowledge

LEMMA PendingKeeps ==
  ASSUME Inv, NEW r \in Requests, NEW t \in Tokens, RtdnPendingVerify(r, t)
  PROVE  Inv'
<1>1. notices' \in [Tokens -> Nat]
  BY AcknowledgeTyped DEF RtdnPendingVerify, Inv
<1>2. TypeOK'
  BY <1>1 DEF RtdnPendingVerify, Inv, TypeOK
<1> QED BY <1>2, Elsewhere DEF RtdnPendingVerify

LEMMA BeginRtdnKeeps ==
  ASSUME Inv, NEW r \in Requests, NEW t \in Tokens, BeginRtdn(r, t)
  PROVE  Inv'
<1>1. PICK u \in Holder(t) :
        Start([id |-> r, op |-> "rtdn", user |-> u, token |-> t, snapshot |-> Null])
  BY DEF BeginRtdn
<1> DEFINE p == [id |-> r, op |-> "rtdn", user |-> u, token |-> t, snapshot |-> Null]
<1>2. p \in Request
  BY DEF Request, Holder
<1>3. p.op = "rtdn" /\ p.snapshot = Null /\ Presented(p.user, p.token)
  BY DEF Holder, Inv, RowsEarned
<1>4. inflight' \subseteq inflight \cup {p}
  BY <1>1 DEF Start
<1> HIDE DEF p
<1> QED BY <1>2, <1>3, <1>4, OtherRequests DEF BeginRtdn, google, Inv, TypeOK

LEMMA FetchRtdnKeeps == ASSUME Inv, NEW q \in inflight, FetchRtdn(q) PROVE Inv'
<1> DEFINE p == [q EXCEPT !.snapshot = play[q.token]]
<1>1. q.op = "rtdn" /\ q.token \in Tokens /\ q.user \in Users
  BY RequestFields DEF FetchRtdn, Inv
<1>2. q \in [id : Requests, op : {"verify", "rtdn"}, user : Users, token : Tokens,
              snapshot : Snapshot \cup {Null}]
  BY <1>1 DEF Inv, TypeOK, Request
<1>3. p \in Request
  BY <1>1, <1>2 DEF Inv, TypeOK, Request
<1>4. /\ p.op = "rtdn" /\ p.user = q.user /\ p.token = q.token
      /\ p.snapshot = play[q.token] /\ p.snapshot \in reported[q.token]
  BY <1>1, <1>2 DEF FetchRtdn, Inv, PlayIsReported
<1>5. Presented(q.user, q.token)
  BY <1>1 DEF Inv, RequestsHonest
<1>6. inflight' \subseteq inflight \cup {p}
  BY DEF FetchRtdn, Proceed
<1> HIDE DEF p
<1> QED BY <1>3, <1>4, <1>5, <1>6, OtherRequests DEF FetchRtdn, google, Inv, TypeOK

LEMMA BeginCronKeeps == ASSUME Inv, NEW r \in Requests, BeginCron(r) PROVE Inv'
<1> DEFINE p == [id |-> r, op |-> "cron", due |-> DueRows, at |-> Null, snapshot |-> Null]
<1>1. DueRows \subseteq verified /\ DueRows \subseteq Due
  BY DEF DueRows, Due, Inv, TypeOK, RowsEarned, Presented, Row
<1>2. p \in Request
  BY <1>1 DEF Request
<1>3. p.op = "cron" /\ p.due = DueRows /\ p.at = Null
  OBVIOUS
<1>4. inflight' \subseteq inflight \cup {p}
  BY DEF BeginCron, Start
<1> HIDE DEF p
<1> QED BY <1>1, <1>2, <1>3, <1>4, OtherRequests DEF BeginCron, google, Inv, TypeOK

LEMMA CronShape ==
  ASSUME Inv, NEW q \in inflight, q.op = "cron"
  PROVE  /\ q \in [id : Requests, op : {"cron"}, due : SUBSET Due, at : Due \cup {Null},
                   snapshot : Snapshot \cup {Null}]
         /\ q.due \subseteq verified
         /\ q.at # Null => q.at \in verified /\ q.snapshot \in reported[q.at.token]
BY DEF Inv, TypeOK, Request, RequestsHonest

LEMMA FetchCronKeeps ==
  ASSUME Inv, NEW q \in inflight, NEW d \in Due, FetchCron(q, d)
  PROVE  Inv'
<1> DEFINE p == [q EXCEPT !.due = @ \ {d}, !.at = d, !.snapshot = play[d.token]]
<1>1. q.op = "cron" /\ d \in q.due /\ d.token \in Tokens /\ play[d.token] # Null
  BY DEF FetchCron, Due
<1>2. p \in Request
  BY ZenonT(60), <1>1, CronShape DEF Inv, TypeOK, Request
<1>3. /\ p.op = "cron" /\ p.due \subseteq verified
      /\ p.at = d /\ d \in verified
      /\ p.snapshot = play[d.token] /\ play[d.token] \in reported[d.token]
  BY <1>1, CronShape DEF Inv, PlayIsReported
<1>4. inflight' \subseteq inflight \cup {p}
  BY DEF FetchCron, Proceed
<1> HIDE DEF p
<1> QED BY <1>2, <1>3, <1>4, OtherRequests DEF FetchCron, google, Inv, TypeOK

\* Going on to the next row leaves an honest request, whatever is dropped.
LEMMA CarryOnHonest ==
  ASSUME Inv, NEW q \in inflight, q.op = "cron", NEW due \in SUBSET q.due, CarryOn(q, due)
  PROVE  \A p \in inflight' : p \in inflight \/
           /\ p \in Request /\ p.op = "cron" /\ p.due \subseteq verified /\ p.at = Null
<1>1. [q EXCEPT !.due = due, !.at = Null, !.snapshot = Null] \in
        [id : Requests, op : {"cron"}, due : SUBSET Due, at : Due \cup {Null},
         snapshot : Snapshot \cup {Null}]
  BY CronShape
<1>2. /\ [q EXCEPT !.due = due, !.at = Null, !.snapshot = Null].due = due
      /\ [q EXCEPT !.due = due, !.at = Null, !.snapshot = Null].at = Null
      /\ [q EXCEPT !.due = due, !.at = Null, !.snapshot = Null].op = "cron"
  BY CronShape
<1>3. due \subseteq verified
  BY CronShape
<1> QED BY <1>1, <1>2, <1>3 DEF CarryOn, Finish, Proceed, Request

LEMMA SkipCronKeeps == ASSUME Inv, NEW q \in inflight, SkipCron(q) PROVE Inv'
<1>1. /\ q.op = "cron"
      /\ \E due \in SUBSET q.due : CarryOn(q, due)
  BY DEF SkipCron
<1>2. \A p \in inflight' : p \in inflight \/
        /\ p \in Request /\ p.op = "cron" /\ p.due \subseteq verified /\ p.at = Null
  BY <1>1, CarryOnHonest
<1>3. UNCHANGED <<accounts, subs, play, reported, notices, verified, clock>>
  BY DEF SkipCron, google
<1>4. TypeOK'
  BY <1>2, <1>3 DEF Inv, TypeOK
<1>5. RequestsHonest'
  BY <1>2, <1>3 DEF Inv, RequestsHonest, Presented
<1> QED
  BY <1>3, <1>4, <1>5 DEF Inv, PlayIsReported, TokensApart, RowsEarned, Earned, Presented

LEMMA RollbackKeeps == ASSUME Inv, NEW q \in inflight, Rollback(q) PROVE Inv'
BY ZenonT(60) DEF Rollback, Finish, google, Inv, TypeOK, PlayIsReported, RequestsHonest, TokensApart,
   RowsEarned, Earned, Presented

LEMMA DeleteKeeps == ASSUME Inv, NEW u \in Users, DeleteAccount(u) PROVE Inv'
<1> USE DEF DeleteAccount, google, Inv
<1>1. \A v \in Users : subs'[v] # Null => subs'[v] = subs[v]
  BY DEF TypeOK
<1>2. TypeOK'
  BY DEF TypeOK
<1>3. RowsEarned'
  <2> SUFFICES ASSUME NEW v \in Users, subs'[v] # Null
               PROVE  Presented(v, subs[v].purchaseToken)' /\ Earned(v, subs[v])'
    BY <1>1 DEF RowsEarned
  <2>1. Presented(v, subs[v].purchaseToken) /\ Earned(v, subs[v])
    BY <1>1 DEF RowsEarned
  <2> QED BY <2>1, <1>1 DEF Earned, Presented
<1>4. TokensApart'
  BY <1>1 DEF TokensApart
<1> QED BY <1>2, <1>3, <1>4 DEF PlayIsReported, RequestsHonest, Presented

-----------------------------------------------------------------------------
\* Writing one row: earned, and with a token no other row has.
LEMMA RowWritten ==
  ASSUME Inv, NEW u \in Users, NEW row \in Row,
         subs' = [subs EXCEPT ![u] = row], UNCHANGED <<play, reported>>,
         verified \subseteq verified',
         [user |-> u, token |-> row.purchaseToken] \in verified',
         \E t \in Tokens : /\ [user |-> u, token |-> t] \in verified'
                           /\ \E s \in reported[t] : /\ row.status = mapGoogleState(s.state)
                                                     /\ row.expiresAt = s.expiresAt,
         \A v \in Users \ {u} : subs[v] # Null => subs[v].purchaseToken # row.purchaseToken
  PROVE  TokensApart' /\ RowsEarned' /\ PlayIsReported'
<1>1. \A v \in Users : subs'[v] = IF v = u THEN row ELSE subs[v]
  BY DEF Inv, TypeOK
<1>2. TokensApart'
  BY <1>1 DEF Inv, TokensApart
<1>3. RowsEarned'
  <2> SUFFICES ASSUME NEW v \in Users, subs'[v] # Null
               PROVE  Presented(v, subs[v].purchaseToken)' /\ Earned(v, subs[v])'
    BY DEF RowsEarned
  <2>1. CASE v = u
    BY <2>1, <1>1 DEF Earned, Presented
  <2>2. CASE v # u
    <3>1. subs'[v] = subs[v]
      BY <2>2, <1>1
    <3>2. Presented(v, subs[v].purchaseToken) /\ Earned(v, subs[v])
      BY <3>1 DEF Inv, RowsEarned
    <3> QED BY <3>1, <3>2 DEF Earned, Presented
  <2> QED BY <2>1, <2>2
<1>4. PlayIsReported'
  BY DEF Inv, PlayIsReported
<1> QED BY <1>2, <1>3, <1>4

LEMMA CommitVerifyKeeps == ASSUME Inv, NEW q \in inflight, CommitVerify(q) PROVE Inv'
<1> DEFINE d == [user |-> q.user, token |-> q.token]
<1>1. /\ q.user \in Users /\ q.token \in Tokens
      /\ q.snapshot \in reported[q.token] /\ q.snapshot \in Snapshot
  BY RequestFields DEF CommitVerify, Inv, RequestsHonest, TypeOK
<1>2. PICK row \in Row :
        /\ row = RowFor(q.token, q.snapshot) /\ row.purchaseToken = q.token
        /\ row.status = mapGoogleState(q.snapshot.state)
        /\ row.expiresAt = q.snapshot.expiresAt
  <2> DEFINE written == RowFor(q.token, q.snapshot)
  <2>1. /\ written \in Row /\ written.purchaseToken = q.token
        /\ written.status = mapGoogleState(q.snapshot.state)
        /\ written.expiresAt = q.snapshot.expiresAt
    BY <1>1, MapIsTyped DEF RowFor, Row, Snapshot
  <2> HIDE DEF written
  <2>2. PICK row \in Row : row = written
    BY <2>1
  <2> QED BY <2>1, <2>2 DEF written
<1>3. d \in Due
  BY <1>1 DEF Due
<1>4. /\ subs' = [subs EXCEPT ![q.user] = row]
      /\ verified' = verified \cup {d} /\ inflight' \subseteq inflight
      /\ UNCHANGED <<accounts, play, reported, notices, clock>>
  BY <1>2 DEF CommitVerify, Finish, google
<1>5. \A v \in Users \ {q.user} : subs[v] # Null => subs[v].purchaseToken # q.token
  BY DEF CommitVerify, TokenTakenByOther
<1> HIDE DEF d
<1>6. TypeOK'
  BY <1>1, <1>2, <1>3, <1>4 DEF Inv, TypeOK
<1>7. TokensApart' /\ RowsEarned' /\ PlayIsReported'
  <2>1. d \in verified' /\ verified \subseteq verified'
    BY <1>4
  <2>2. /\ [user |-> q.user, token |-> row.purchaseToken] \in verified'
        /\ \E t \in Tokens : /\ [user |-> q.user, token |-> t] \in verified'
                             /\ \E s \in reported[t] : /\ row.status = mapGoogleState(s.state)
                                                       /\ row.expiresAt = s.expiresAt
    BY <2>1, <1>1, <1>2 DEF d
  <2>3. \A v \in Users \ {q.user} : subs[v] # Null => subs[v].purchaseToken # row.purchaseToken
    BY <1>2, <1>5
  <2> QED BY <2>1, <2>2, <2>3, <1>1, <1>4, RowWritten
<1>8. RequestsHonest'
  BY <1>4 DEF Inv, RequestsHonest, Presented
<1> QED BY <1>6, <1>7, <1>8 DEF Inv

\* A refresh leaves the token of the row alone, whatever it is by now.
LEMMA RefreshKeeps ==
  ASSUME Inv, NEW u \in Users, NEW t \in Tokens, NEW s \in reported[t],
         subs[u] # Null, subs' = [subs EXCEPT ![u] = Refreshed(u, s)],
         UNCHANGED <<play, reported, verified>>, Presented(u, t)
  PROVE  /\ TokensApart' /\ RowsEarned' /\ PlayIsReported'
         /\ subs' \in [Users -> Row \cup {Null}]
<1>1. subs[u] \in Row /\ s \in Snapshot
  BY DEF Inv, TypeOK
<1>2. PICK row \in Row :
        /\ row = Refreshed(u, s) /\ row.purchaseToken = subs[u].purchaseToken
        /\ row.status = mapGoogleState(s.state) /\ row.expiresAt = s.expiresAt
  <2> DEFINE written == Refreshed(u, s)
  <2>1. /\ written \in Row /\ written.purchaseToken = subs[u].purchaseToken
        /\ written.status = mapGoogleState(s.state) /\ written.expiresAt = s.expiresAt
    BY <1>1, MapIsTyped DEF Refreshed, Row, Snapshot
  <2> HIDE DEF written
  <2>2. PICK row \in Row : row = written
    BY <2>1
  <2> QED BY <2>1, <2>2 DEF written
<1>3. [user |-> u, token |-> row.purchaseToken] \in verified
  BY <1>2 DEF Inv, RowsEarned, Presented
<1>4. \A v \in Users \ {u} : subs[v] # Null => subs[v].purchaseToken # row.purchaseToken
  BY <1>2 DEF Inv, TokensApart
<1>5. subs' = [subs EXCEPT ![u] = row]
  BY <1>2
<1>6. \E x \in Tokens : /\ [user |-> u, token |-> x] \in verified'
                        /\ \E y \in reported[x] : /\ row.status = mapGoogleState(y.state)
                                                  /\ row.expiresAt = y.expiresAt
  BY <1>2 DEF Presented
<1>7. subs' \in [Users -> Row \cup {Null}]
  BY <1>2, <1>5 DEF Inv, TypeOK
<1> QED BY ZenonT(60), <1>2, <1>3, <1>4, <1>5, <1>6, <1>7, RowWritten

LEMMA CommitRtdnKeeps == ASSUME Inv, NEW q \in inflight, CommitRtdn(q) PROVE Inv'
<1>1. /\ q.user \in Users /\ q.token \in Tokens
      /\ q.snapshot \in reported[q.token] /\ Presented(q.user, q.token)
  BY RequestFields DEF CommitRtdn, Inv, RequestsHonest
<1>2. /\ subs[q.user] # Null
      /\ subs' = [subs EXCEPT ![q.user] = Refreshed(q.user, q.snapshot)]
      /\ inflight' \subseteq inflight
      /\ UNCHANGED <<accounts, play, reported, verified, clock>>
  BY DEF CommitRtdn, Finish
<1>3. /\ TokensApart' /\ RowsEarned' /\ PlayIsReported'
      /\ subs' \in [Users -> Row \cup {Null}]
  BY <1>1, <1>2, RefreshKeeps
<1>4. notices' \in [Tokens -> Nat]
  BY <1>1, AcknowledgeTyped DEF CommitRtdn, Inv
<1>5. TypeOK'
  BY <1>2, <1>3, <1>4 DEF Inv, TypeOK
<1>6. RequestsHonest'
  BY <1>2 DEF Inv, RequestsHonest, Presented
<1> QED BY <1>3, <1>5, <1>6 DEF Inv

LEMMA CommitCronKeeps == ASSUME Inv, NEW q \in inflight, CommitCron(q) PROVE Inv'
<1>1. /\ q.op = "cron" /\ q.at # Null /\ q.at \in Due /\ q.at \in verified
      /\ q.snapshot \in reported[q.at.token]
  BY CronShape DEF CommitCron
<1>2. /\ q.at.user \in Users /\ q.at.token \in Tokens
      /\ q.at = [user |-> q.at.user, token |-> q.at.token]
  BY <1>1 DEF Due
<1>3. /\ subs[q.at.user] # Null
      /\ subs' = [subs EXCEPT ![q.at.user] = Refreshed(q.at.user, q.snapshot)]
      /\ UNCHANGED <<accounts, play, reported, notices, verified, clock>>
  BY DEF CommitCron, google
<1>4. /\ TokensApart' /\ RowsEarned' /\ PlayIsReported'
      /\ subs' \in [Users -> Row \cup {Null}]
  <2>1. Presented(q.at.user, q.at.token)
    BY <1>1, <1>2 DEF Presented
  <2> QED BY <1>1, <1>2, <1>3, <2>1, RefreshKeeps
<1>5. \A p \in inflight' : p \in inflight \/
        /\ p \in Request /\ p.op = "cron" /\ p.due \subseteq verified /\ p.at = Null
  BY <1>1, CarryOnHonest DEF CommitCron
<1>6. TypeOK'
  BY <1>3, <1>4, <1>5 DEF Inv, TypeOK
<1>7. RequestsHonest'
  BY <1>3, <1>5 DEF Inv, RequestsHonest, Presented
<1> QED BY <1>4, <1>6, <1>7 DEF Inv

LEMMA StutterKeeps == ASSUME Inv, UNCHANGED vars PROVE Inv'
<1>1. TypeOK'
  BY DEF vars, Inv, TypeOK
<1> QED BY <1>1, Elsewhere DEF vars

LEMMA StepInv == Inv /\ [Next]_vars => Inv'
BY PlayChangesKeeps, PlayForgetsKeeps, TickKeeps, BeginVerifyKeeps, CommitVerifyKeeps,
   PendingKeeps, BeginRtdnKeeps, FetchRtdnKeeps, CommitRtdnKeeps, BeginCronKeeps,
   FetchCronKeeps, CommitCronKeeps, SkipCronKeeps, RollbackKeeps, DeleteKeeps,
   StutterKeeps DEF Next

\* The invariant all the others are read from.
THEOREM InvInvariant == Spec => []Inv
BY InitInv, StepInv, PTL DEF Spec

-----------------------------------------------------------------------------
\* Every table keeps its shape.
THEOREM TypeCorrect == Spec => []TypeOK
<1>1. Inv => TypeOK
  BY DEF Inv
<1> QED BY <1>1, InvInvariant, PTL

\* Nobody is premium by a subscription Google did not report as paid to them,
\* whichever requests overtake one another.
THEOREM PremiumIsPaid == Spec => []PremiumOnlyIfPaid
<1>1. Inv => PremiumOnlyIfPaid
  <2> SUFFICES ASSUME Inv, NEW u \in Users, SubActive(subs[u], clock)
               PROVE  \E t \in Tokens :
                        /\ [user |-> u, token |-> t] \in verified
                        /\ \E s \in reported[t] : /\ s.state \in PaidStates
                                                  /\ s.expiresAt = subs[u].expiresAt
    BY DEF PremiumOnlyIfPaid
  <2>1. Earned(u, subs[u]) /\ subs[u].status \in ActiveSubStatuses
    BY DEF SubActive, Inv, RowsEarned
  <2>2. PICK t \in Tokens : /\ Presented(u, t)
                            /\ \E s \in reported[t] : /\ subs[u].status = mapGoogleState(s.state)
                                                      /\ subs[u].expiresAt = s.expiresAt
    BY <2>1 DEF Earned
  <2>3. \A s \in reported[t] : s.state \in STRING
    <3>1. reported[t] \subseteq Snapshot
      BY DEF Inv, TypeOK
    <3>2. \A s \in Snapshot : s.state \in PlayStates
      BY DEF Snapshot
    <3> QED BY <3>1, <3>2, PlayStatesAssumption
  <2> QED BY <2>1, <2>2, <2>3, ActiveIsPaid DEF Presented
<1> QED BY <1>1, InvInvariant, PTL

\* A purchase never serves two rows.
THEOREM OneHolder == Spec => []OneHolderPerToken
<1>1. Inv => OneHolderPerToken
  <2> SUFFICES ASSUME Inv, NEW t \in Tokens PROVE Cardinality(Holder(t)) <= 1
    BY DEF OneHolderPerToken
  <2>1. CASE Holder(t) = {}
    BY <2>1, FS_EmptySet
  <2>2. CASE Holder(t) # {}
    <3>1. PICK u : u \in Holder(t)
      BY <2>2
    <3>2. Holder(t) = {u}
      BY <3>1 DEF Holder, Inv, TokensApart
    <3> QED BY <3>2, FS_Singleton
  <2> QED BY <2>1, <2>2
<1> QED BY <1>1, InvInvariant, PTL

-----------------------------------------------------------------------------
(***************************************************************************)
(* One request at a time, the hypothesis of the run subs_one: a row then   *)
(* says what Google said of the very token it holds.  (With two, a refresh *)
(* may write the state of one token into the row of another.)              *)
(***************************************************************************)
OneAtATime == \A r, s \in Requests : r = s

AtMostOne == \A p, q \in inflight : p = q

\* What a refresh has read of the rows is still so, except that the row of a
\* deleted account is gone.
Holds(u, t) == subs[u] # Null => subs[u].purchaseToken = t
Theirs(q) ==
  /\ q.op = "rtdn" => Holds(q.user, q.token)
  /\ q.op = "cron" => /\ \A d \in q.due : Holds(d.user, d.token)
                      /\ q.at # Null => Holds(q.at.user, q.at.token)
StillTheirs == \A q \in inflight : Theirs(q)

AloneInv == Inv /\ AtMostOne /\ StillTheirs /\ RowSpeaksOfItsToken

LEMMA InitAlone == Init => AloneInv
BY InitInv DEF Init, AloneInv, AtMostOne, StillTheirs, RowSpeaksOfItsToken

\* The only slot is free: nothing is in flight.
LEMMA NothingInFlight ==
  ASSUME OneAtATime, TypeOK, NEW r \in Requests, Free(r)
  PROVE  inflight = {}
<1>1. \A q \in inflight : q.id \in Requests
  BY DEF TypeOK, Request
<1> QED BY <1>1 DEF OneAtATime, Free

\* Rows keep their tokens or go: what was read of them is still so.
RowsKeepTokens ==
  \A u \in Users : subs'[u] # Null =>
    subs[u] # Null /\ subs'[u].purchaseToken = subs[u].purchaseToken

LEMMA TheirsKept ==
  ASSUME NEW q \in Request, Theirs(q), RowsKeepTokens
  PROVE  Theirs(q)'
<1>1. CASE q.op = "rtdn"
  <2>1. q.user \in Users
    BY <1>1 DEF Request
  <2> QED BY <1>1, <2>1 DEF Theirs, Holds, RowsKeepTokens
<1>2. CASE q.op = "cron"
  <2>1. q.due \subseteq Due /\ q.at \in Due \cup {Null}
    BY <1>2 DEF Request
  <2>2. \A d \in Due : d.user \in Users
    BY DEF Due
  <2> QED BY <1>2, <2>1, <2>2 DEF Theirs, Holds, RowsKeepTokens
<1> QED BY <1>1, <1>2 DEF Theirs

\* The step of one request, or of none, that leaves the tokens of the rows.
LEMMA StillTheirsKept ==
  ASSUME TypeOK, TypeOK', StillTheirs, RowsKeepTokens, NEW p,
         inflight' \subseteq inflight \cup {p}, p \in inflight' => Theirs(p)
  PROVE  StillTheirs'
<1> SUFFICES ASSUME NEW q \in inflight' PROVE Theirs(q)'
  BY DEF StillTheirs
<1>1. q \in Request /\ Theirs(q)
  BY DEF TypeOK, StillTheirs
<1> QED BY <1>1, TheirsKept

LEMMA SameRows == ASSUME UNCHANGED subs PROVE RowsKeepTokens
BY DEF RowsKeepTokens

\* What rows say stays said: Google's history only grows.
LEMMA RowsSpeakOn ==
  ASSUME Inv, RowSpeaksOfItsToken,
         \A u \in Users : subs'[u] # Null => subs'[u] = subs[u],
         \A t \in Tokens : reported[t] \subseteq reported'[t]
  PROVE  RowSpeaksOfItsToken'
<1> SUFFICES ASSUME NEW u \in Users, subs'[u] # Null
             PROVE  \E s \in reported'[subs'[u].purchaseToken] :
                      subs'[u] = RowFor(subs'[u].purchaseToken, s)
  BY DEF RowSpeaksOfItsToken
<1>1. subs'[u] = subs[u] /\ subs[u].purchaseToken \in Tokens
  BY DEF Inv, TypeOK, Row
<1>2. PICK s \in reported[subs[u].purchaseToken] : subs[u] = RowFor(subs[u].purchaseToken, s)
  BY <1>1 DEF RowSpeaksOfItsToken
<1> QED BY <1>1, <1>2

\* One row written with what Google said of its token.
LEMMA OneRowSpeaks ==
  ASSUME Inv, RowSpeaksOfItsToken, NEW u \in Users, NEW t \in Tokens, NEW s \in reported[t],
         subs' = [subs EXCEPT ![u] = RowFor(t, s)], UNCHANGED reported
  PROVE  RowSpeaksOfItsToken'
<1>1. RowFor(t, s).purchaseToken = t
  BY DEF RowFor
<1>2. \A v \in Users : subs'[v] = IF v = u THEN RowFor(t, s) ELSE subs[v]
  BY DEF Inv, TypeOK
<1> SUFFICES ASSUME NEW v \in Users, subs'[v] # Null
             PROVE  \E x \in reported[subs'[v].purchaseToken] :
                      subs'[v] = RowFor(subs'[v].purchaseToken, x)
  BY DEF RowSpeaksOfItsToken
<1>3. CASE v = u
  BY <1>1, <1>2, <1>3
<1>4. CASE v # u
  BY <1>2, <1>4 DEF RowSpeaksOfItsToken
<1> QED BY <1>3, <1>4

\* A refresh of the row that still holds the token asked about.
LEMMA RefreshedIsRowFor ==
  ASSUME Inv, NEW u \in Users, subs[u] # Null, NEW s
  PROVE  Refreshed(u, s) = RowFor(subs[u].purchaseToken, s)
<1>1. ASSUME NEW row \in Row, NEW x, NEW y
      PROVE  [row EXCEPT !.status = x, !.expiresAt = y]
               = [purchaseToken |-> row.purchaseToken, status |-> x, expiresAt |-> y]
  <2>1. row \in [purchaseToken : {row.purchaseToken}, status : Statuses, expiresAt : Dates]
    BY DEF Row
  <2>2. [row EXCEPT !.status = x, !.expiresAt = y]
          \in [purchaseToken : {row.purchaseToken}, status : {x}, expiresAt : {y}]
    BY <2>1
  <2>3. ASSUME NEW e \in [purchaseToken : {row.purchaseToken}, status : {x}, expiresAt : {y}]
        PROVE  e = [purchaseToken |-> row.purchaseToken, status |-> x, expiresAt |-> y]
    OBVIOUS
  <2> QED BY <2>2, <2>3
<1>2. subs[u] \in Row
  BY DEF Inv, TypeOK
<1> QED BY <1>1, <1>2 DEF Refreshed, RowFor

LEMMA RefreshSpeaks ==
  ASSUME Inv, RowSpeaksOfItsToken, NEW u \in Users, NEW t \in Tokens, NEW s \in reported[t],
         subs[u] # Null, Holds(u, t), subs' = [subs EXCEPT ![u] = Refreshed(u, s)],
         UNCHANGED reported
  PROVE  RowSpeaksOfItsToken' /\ RowsKeepTokens
<1>1. Refreshed(u, s) = RowFor(t, s)
  BY RefreshedIsRowFor DEF Holds
<1>2. RowSpeaksOfItsToken'
  BY <1>1, OneRowSpeaks
<1>3. \A v \in Users : subs'[v] = IF v = u THEN RowFor(t, s) ELSE subs[v]
  BY <1>1 DEF Inv, TypeOK
<1>4. RowFor(t, s).purchaseToken = t
  BY DEF RowFor
<1> QED BY <1>2, <1>3, <1>4 DEF Holds, RowsKeepTokens

-----------------------------------------------------------------------------
\* A step of Google, of the clock or of an account.
LEMMA WorldAlone ==
  ASSUME AloneInv, Inv',
         \/ \E t \in Tokens, s \in Snapshot : PlayChanges(t, s)
         \/ \E t \in Tokens : PlayForgets(t)
         \/ Tick
         \/ \E r \in Requests, t \in Tokens : RtdnPendingVerify(r, t)
         \/ \E u \in Users : DeleteAccount(u)
         \/ UNCHANGED vars
  PROVE  AloneInv'
<1>1. /\ UNCHANGED inflight
      /\ \A u \in Users : subs'[u] # Null => subs'[u] = subs[u]
      /\ \A t \in Tokens : reported[t] \subseteq reported'[t]
  BY DEF PlayChanges, PlayForgets, Tick, RtdnPendingVerify, DeleteAccount, vars, google,
         AloneInv, Inv, TypeOK
<1>2. RowsKeepTokens
  BY <1>1 DEF RowsKeepTokens
<1>3. StillTheirs'
  <2> SUFFICES ASSUME NEW q \in inflight PROVE Theirs(q)'
    BY <1>1 DEF StillTheirs
  <2>1. q \in Request /\ Theirs(q)
    BY DEF AloneInv, Inv, TypeOK, StillTheirs
  <2> QED BY <2>1, <1>2, TheirsKept
<1>4. RowSpeaksOfItsToken'
  BY <1>1, RowsSpeakOn DEF AloneInv
<1> QED BY <1>1, <1>3, <1>4 DEF AloneInv, AtMostOne

\* A request begins: it is the only one, and has just read the rows.
LEMMA StartAlone ==
  ASSUME OneAtATime, AloneInv, Inv', NEW p, p.id \in Requests, Start(p), Theirs(p),
         UNCHANGED <<subs, reported>>
  PROVE  AloneInv'
<1>1. inflight = {} /\ inflight' = {p}
  BY NothingInFlight DEF Start, AloneInv, Inv
<1>2. StillTheirs'
  BY <1>1, StillTheirsKept, SameRows DEF AloneInv, Inv
<1>3. RowSpeaksOfItsToken'
  BY RowsSpeakOn DEF AloneInv
<1> QED BY <1>1, <1>2, <1>3 DEF AloneInv, AtMostOne

LEMMA BeginAlone ==
  ASSUME OneAtATime, AloneInv, Inv', NEW r \in Requests,
         \/ \E u \in Users, t \in Tokens : BeginVerify(r, u, t)
         \/ \E t \in Tokens : BeginRtdn(r, t)
         \/ BeginCron(r)
  PROVE  AloneInv'
<1>1. ASSUME NEW u \in Users, NEW t \in Tokens, BeginVerify(r, u, t) PROVE AloneInv'
  <2> DEFINE p == [id |-> r, op |-> "verify", user |-> u, token |-> t, snapshot |-> play[t]]
  <2>1. Theirs(p) /\ p.id \in Requests
    BY DEF Theirs
  <2>2. Start(p) /\ UNCHANGED <<subs, reported>>
    BY <1>1 DEF BeginVerify, google
  <2> HIDE DEF p
  <2> QED BY <2>1, <2>2, StartAlone
<1>2. ASSUME NEW t \in Tokens, BeginRtdn(r, t) PROVE AloneInv'
  <2>1. PICK u \in Holder(t) :
          Start([id |-> r, op |-> "rtdn", user |-> u, token |-> t, snapshot |-> Null])
    BY <1>2 DEF BeginRtdn
  <2> DEFINE p == [id |-> r, op |-> "rtdn", user |-> u, token |-> t, snapshot |-> Null]
  <2>2. Theirs(p) /\ p.id \in Requests
    BY DEF Theirs, Holds, Holder
  <2>3. Start(p) /\ UNCHANGED <<subs, reported>>
    BY <1>2, <2>1 DEF BeginRtdn, google
  <2> HIDE DEF p
  <2> QED BY <2>2, <2>3, StartAlone
<1>3. ASSUME BeginCron(r) PROVE AloneInv'
  <2> DEFINE p == [id |-> r, op |-> "cron", due |-> DueRows, at |-> Null, snapshot |-> Null]
  <2>1. \A d \in DueRows : Holds(d.user, d.token)
    BY DEF DueRows, Holds
  <2>2. Theirs(p) /\ p.id \in Requests
    BY <2>1 DEF Theirs
  <2>3. Start(p) /\ UNCHANGED <<subs, reported>>
    BY <1>3 DEF BeginCron, google
  <2> HIDE DEF p
  <2> QED BY <2>2, <2>3, StartAlone
<1> QED BY <1>1, <1>2, <1>3

\* The request goes on or ends.
LEMMA OnlyOneStays ==
  ASSUME AtMostOne, NEW q \in inflight, NEW p,
         Finish(q) \/ Proceed(q, p)
  PROVE  /\ AtMostOne'
         /\ inflight' \subseteq {p}
BY DEF AtMostOne, Finish, Proceed

LEMMA GoesOnAlone ==
  ASSUME AloneInv, Inv', NEW q \in inflight, NEW p, Finish(q) \/ Proceed(q, p), Theirs(p),
         RowsKeepTokens, RowSpeaksOfItsToken'
  PROVE  AloneInv'
<1>1. AtMostOne' /\ inflight' \subseteq {p}
  BY OnlyOneStays DEF AloneInv
<1>2. StillTheirs'
  BY <1>1, StillTheirsKept DEF AloneInv, Inv
<1> QED BY <1>1, <1>2 DEF AloneInv

LEMMA CommitVerifyAlone ==
  ASSUME AloneInv, Inv', NEW q \in inflight, CommitVerify(q)
  PROVE  AloneInv'
<1>1. /\ q.user \in Users /\ q.token \in Tokens /\ q.snapshot \in reported[q.token]
  BY RequestFields DEF CommitVerify, AloneInv, Inv, RequestsHonest
<1>2. inflight' = {}
  BY DEF CommitVerify, Finish, AloneInv, AtMostOne
<1>3. RowSpeaksOfItsToken'
  BY <1>1, OneRowSpeaks DEF CommitVerify, google, AloneInv
<1> QED BY <1>2, <1>3 DEF AloneInv, AtMostOne, StillTheirs

LEMMA RtdnAlone ==
  ASSUME AloneInv, Inv', NEW q \in inflight, FetchRtdn(q) \/ CommitRtdn(q)
  PROVE  AloneInv'
<1>1. /\ q.op = "rtdn" /\ q.user \in Users /\ q.token \in Tokens
      /\ q \in [id : Requests, op : {"verify", "rtdn"}, user : Users, token : Tokens,
                snapshot : Snapshot \cup {Null}]
      /\ q.snapshot # Null => q.snapshot \in reported[q.token]
      /\ Theirs(q)
  BY DEF FetchRtdn, CommitRtdn, AloneInv, Inv, TypeOK, Request, RequestsHonest, StillTheirs
<1>2. CASE FetchRtdn(q)
  <2> DEFINE p == [q EXCEPT !.snapshot = play[q.token]]
  <2>1. Proceed(q, p) /\ UNCHANGED <<subs, reported>>
    BY <1>2 DEF FetchRtdn, google
  <2>2. Theirs(p)
    BY <1>1 DEF Theirs
  <2>3. RowSpeaksOfItsToken'
    BY <2>1, RowsSpeakOn DEF AloneInv
  <2> HIDE DEF p
  <2> QED BY <2>1, <2>2, <2>3, SameRows, GoesOnAlone
<1>3. CASE CommitRtdn(q)
  <2>1. /\ q.snapshot \in reported[q.token] /\ subs[q.user] # Null
        /\ subs' = [subs EXCEPT ![q.user] = Refreshed(q.user, q.snapshot)]
        /\ UNCHANGED reported /\ Finish(q)
    BY <1>1, <1>3 DEF CommitRtdn
  <2>2. Holds(q.user, q.token)
    BY <1>1 DEF Theirs
  <2>3. RowSpeaksOfItsToken' /\ RowsKeepTokens
    BY <1>1, <2>1, <2>2, RefreshSpeaks DEF AloneInv
  <2> QED BY <1>1, <2>1, <2>3, GoesOnAlone
<1> QED BY <1>2, <1>3

\* The next row, or the end.
LEMMA CarryOnAlone ==
  ASSUME AloneInv, Inv', NEW q \in inflight, q.op = "cron", NEW due \in SUBSET q.due,
         CarryOn(q, due), RowsKeepTokens, RowSpeaksOfItsToken'
  PROVE  AloneInv'
<1> DEFINE p == [q EXCEPT !.due = due, !.at = Null, !.snapshot = Null]
<1>1. q \in [id : Requests, op : {"cron"}, due : SUBSET Due, at : Due \cup {Null},
             snapshot : Snapshot \cup {Null}]
  BY CronShape DEF AloneInv
<1>2. p.op = "cron" /\ p.due = due /\ p.at = Null
  BY <1>1
<1>3. \A d \in due : Holds(d.user, d.token)
  BY DEF AloneInv, StillTheirs, Theirs
<1>4. Finish(q) \/ Proceed(q, p)
  BY DEF CarryOn
<1> HIDE DEF p
<1>5. Theirs(p)
  BY <1>2, <1>3 DEF Theirs
<1> QED BY <1>4, <1>5, GoesOnAlone

LEMMA CronAlone ==
  ASSUME AloneInv, Inv', NEW q \in inflight,
         (\E d \in Due : FetchCron(q, d)) \/ CommitCron(q) \/ SkipCron(q)
  PROVE  AloneInv'
<1>1. /\ q.op = "cron" /\ q.due \subseteq Due
      /\ q \in [id : Requests, op : {"cron"}, due : SUBSET Due, at : Due \cup {Null},
                snapshot : Snapshot \cup {Null}]
      /\ q.at # Null => q.at \in Due /\ q.snapshot \in reported[q.at.token]
  BY CronShape DEF FetchCron, CommitCron, SkipCron, AloneInv
<1>2. Theirs(q)
  BY DEF AloneInv, StillTheirs
<1>3. ASSUME NEW d \in Due, FetchCron(q, d) PROVE AloneInv'
  <2> DEFINE p == [q EXCEPT !.due = @ \ {d}, !.at = d, !.snapshot = play[d.token]]
  <2>1. Proceed(q, p) /\ UNCHANGED <<subs, reported>> /\ d \in q.due
    BY <1>3 DEF FetchCron, google
  <2>2. p.op = "cron" /\ p.due = q.due \ {d} /\ p.at = d
    BY <1>1
  <2> HIDE DEF p
  <2>3. Theirs(p)
    BY <1>1, <1>2, <2>1, <2>2 DEF Theirs
  <2>4. RowSpeaksOfItsToken'
    BY <2>1, RowsSpeakOn DEF AloneInv
  <2> QED BY <2>1, <2>3, <2>4, SameRows, GoesOnAlone
<1>4. ASSUME CommitCron(q) PROVE AloneInv'
  <2>1. /\ q.at \in Due /\ q.snapshot \in reported[q.at.token]
        /\ q.at.user \in Users /\ q.at.token \in Tokens
    BY <1>1, <1>4 DEF CommitCron, Due
  <2>2. Holds(q.at.user, q.at.token)
    BY <1>1, <1>2, <1>4 DEF Theirs, CommitCron
  <2>3. RowSpeaksOfItsToken' /\ RowsKeepTokens
    BY <1>4, <2>1, <2>2, RefreshSpeaks DEF CommitCron, google, AloneInv
  <2> QED BY <1>1, <1>4, <2>3, CarryOnAlone DEF CommitCron
<1>5. ASSUME SkipCron(q) PROVE AloneInv'
  <2>1. PICK due \in SUBSET q.due : CarryOn(q, due)
    BY <1>5 DEF SkipCron
  <2>2. UNCHANGED <<subs, reported>>
    BY <1>5 DEF SkipCron, google
  <2>3. RowSpeaksOfItsToken'
    BY <2>2, RowsSpeakOn DEF AloneInv
  <2> QED BY <1>1, <2>1, <2>2, <2>3, SameRows, CarryOnAlone
<1> QED BY <1>3, <1>4, <1>5

LEMMA RollbackAlone ==
  ASSUME AloneInv, Inv', NEW q \in inflight, Rollback(q)
  PROVE  AloneInv'
<1>1. inflight' = {} /\ UNCHANGED <<subs, reported>>
  BY DEF Rollback, Finish, google, AloneInv, AtMostOne
<1>2. RowSpeaksOfItsToken'
  BY <1>1, RowsSpeakOn DEF AloneInv
<1> QED BY <1>1, <1>2 DEF AloneInv, AtMostOne, StillTheirs

LEMMA NextAlone ==
  ASSUME OneAtATime, AloneInv, [Next]_vars
  PROVE  AloneInv'
<1>1. Inv'
  BY StepInv DEF AloneInv
<1> QED BY <1>1, WorldAlone, BeginAlone, CommitVerifyAlone, RtdnAlone, CronAlone,
           RollbackAlone DEF Next

\* With one request at a time, a row says what Google said of its own token.
THEOREM RowSpeaksAlone == OneAtATime => (Spec => []RowSpeaksOfItsToken)
<1> SUFFICES ASSUME OneAtATime PROVE Spec => []RowSpeaksOfItsToken
  OBVIOUS
<1>1. AloneInv /\ [Next]_vars => AloneInv'
  BY NextAlone
<1>2. AloneInv => RowSpeaksOfItsToken
  BY DEF AloneInv
<1> QED BY <1>1, <1>2, InitAlone, PTL DEF Spec
=============================================================================
