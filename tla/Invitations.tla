----------------------------- MODULE Invitations -----------------------------
(***************************************************************************)
(* Invitation codes and premium grants: InvitationsService, and            *)
(* scripts/grant-premium.ts, which writes the same grants from a terminal. *)
(*                                                                         *)
(* redeem is one transaction (REPEATABLE READ): BeginRedeem is its first   *)
(* reads, which fix its snapshot, CommitRedeem its writes, which see the   *)
(* rows as they are and are serialised by the lock on the invitation.      *)
(* Rollback is every way the transaction fails in between.                 *)
(***************************************************************************)
EXTENDS Premium, FiniteSets

CONSTANTS
  Users,
  Codes,
  Requests,     \* slots for redeems in flight
  MaxUses,      \* bound on max_uses
  MaxClock,     \* bound of the clock
  Dates         \* the dates in use: premium_expires_at, expires_at

ASSUME BoundsAssumption == MaxUses \in Nat \ {0} /\ MaxClock \in Nat
ASSUME DatesAssumption  == Dates \subseteq Nat
ASSUME CliAssumption    == "cli" \notin Codes
ASSUME UsersAssumption  == IsFiniteSet(Users)

VARIABLES
  accounts,     \* rows of users
  issued,       \* history: each invitation as it was created, Null before
  uses,         \* used_count of the invitations there are, Null without a row
  redemptions,  \* rows of invitation_redemptions: users, by code
  grants,       \* premium_grants, by user_id (its primary key)
  claimed,      \* history: the users whose claim succeeded, by code
  inflight,
  clock

vars == <<accounts, issued, uses, redemptions, grants, claimed, inflight, clock>>

Date       == Dates \cup {Null}
Invitation == [grantsPremium : BOOLEAN, premiumExpiresAt : Date,
               maxUses : 1..MaxUses, expiresAt : Date]
Grant      == [expiresAt : Date, grantedBy : Codes \cup {"cli"}]
Request    == [id : Requests, code : Codes, user : Users, granted : BOOLEAN]

ASSUME NullAssumption == Null \notin Nat \cup Invitation \cup Grant

TypeOK ==
  /\ accounts \subseteq Users
  /\ issued \in [Codes -> Invitation \cup {Null}]
  /\ uses \in [Codes -> Nat \cup {Null}]
  /\ \A c \in Codes : uses[c] # Null => uses[c] <= issued[c].maxUses
  /\ redemptions \in [Codes -> SUBSET Users]
  /\ grants \in [Users -> Grant \cup {Null}]
  /\ claimed \in [Codes -> SUBSET Users]
  /\ inflight \subseteq Request
  /\ clock \in 0..MaxClock

Init ==
  /\ accounts = Users
  /\ issued = [c \in Codes |-> Null]
  /\ uses = [c \in Codes |-> Null]
  /\ redemptions = [c \in Codes |-> {}]
  /\ grants = [u \in Users |-> Null]
  /\ claimed = [c \in Codes |-> {}]
  /\ inflight = {}
  /\ clock = 0

Tick ==
  /\ clock < MaxClock
  /\ clock' = clock + 1
  /\ UNCHANGED <<accounts, issued, uses, redemptions, grants, claimed, inflight>>

\* A code is random: it is never drawn twice.
Create(c, i) ==
  /\ issued[c] = Null
  /\ issued' = [issued EXCEPT ![c] = i]
  /\ uses' = [uses EXCEPT ![c] = 0]
  /\ UNCHANGED <<accounts, redemptions, grants, claimed, inflight, clock>>

Lapsed(c) == issued[c].expiresAt # Null /\ issued[c].expiresAt < clock

\* One claim in hand: already redeemed answers early, spent refuses.
BeginRedeem(r, c, u) ==
  /\ \A q \in inflight : q.id # r
  /\ uses[c] # Null
  /\ ~Lapsed(c)
  /\ u \notin redemptions[c]
  /\ uses[c] < issued[c].maxUses
  /\ inflight' = inflight \cup
       {[id |-> r, code |-> c, user |-> u, granted |-> grants[u] # Null]}
  /\ UNCHANGED <<accounts, issued, uses, redemptions, grants, claimed, clock>>

\* updateMany where used_count < maxUses: nothing matches a purged row.
UseLeft(c) == uses[c] # Null /\ uses[c] < issued[c].maxUses

\* The primary key of invitation_redemptions.
NoKey(c, u) == u \in accounts                         \* mutant of NotYetRedeemed
NotYetRedeemed(c, u) == u \in accounts \ redemptions[c]

\* upsert with an empty update: a grant the snapshot has is left alone, one
\* that appeared since makes the insert fail.
OverwritesGrant(q) ==                                 \* mutant of GrantFrom
  IF issued[q.code].grantsPremium
  THEN [expiresAt |-> issued[q.code].premiumExpiresAt, grantedBy |-> q.code]
  ELSE grants[q.user]
GrantFrom(q) ==
  IF issued[q.code].grantsPremium /\ ~q.granted
  THEN [expiresAt |-> issued[q.code].premiumExpiresAt, grantedBy |-> q.code]
  ELSE grants[q.user]

CommitRedeem(q) ==
  /\ UseLeft(q.code)
  /\ NotYetRedeemed(q.code, q.user)
  /\ issued[q.code].grantsPremium => q.granted \/ grants[q.user] = Null
  /\ uses' = [uses EXCEPT ![q.code] = @ + 1]
  /\ redemptions' = [redemptions EXCEPT ![q.code] = @ \cup {q.user}]
  /\ claimed' = [claimed EXCEPT ![q.code] = @ \cup {q.user}]
  /\ grants' = [grants EXCEPT ![q.user] = GrantFrom(q)]
  /\ inflight' = inflight \ {q}
  /\ UNCHANGED <<accounts, issued, clock>>

Rollback(q) ==
  /\ inflight' = inflight \ {q}
  /\ UNCHANGED <<accounts, issued, uses, redemptions, grants, claimed, clock>>

\* purgeExpired; the redemptions of a purged code go by cascade.
Purged(c) == uses[c] # Null /\ Lapsed(c)

PurgeExpired ==
  /\ \E c \in Codes : Purged(c)
  /\ uses' = [c \in Codes |-> IF Purged(c) THEN Null ELSE uses[c]]
  /\ redemptions' = [c \in Codes |-> IF Purged(c) THEN {} ELSE redemptions[c]]
  /\ UNCHANGED <<accounts, issued, grants, claimed, inflight, clock>>

\* grant-premium add: an upsert that does overwrite.
GrantAdd(u, e) ==
  /\ u \in accounts
  /\ grants' = [grants EXCEPT ![u] = [expiresAt |-> e, grantedBy |-> "cli"]]
  /\ UNCHANGED <<accounts, issued, uses, redemptions, claimed, inflight, clock>>

\* grant-premium revoke.
GrantRevoke(u) ==
  /\ grants[u] # Null
  /\ grants' = [grants EXCEPT ![u] = Null]
  /\ UNCHANGED <<accounts, issued, uses, redemptions, claimed, inflight, clock>>

\* users.deleteMe, with its cascades; used_count stays.
DeleteAccount(u) ==
  /\ u \in accounts
  /\ accounts' = accounts \ {u}
  /\ grants' = [grants EXCEPT ![u] = Null]
  /\ redemptions' = [c \in Codes |-> redemptions[c] \ {u}]
  /\ UNCHANGED <<issued, uses, claimed, inflight, clock>>

Next ==
  \/ Tick
  \/ \E c \in Codes, i \in Invitation : Create(c, i)
  \/ \E r \in Requests, c \in Codes, u \in Users : BeginRedeem(r, c, u)
  \/ \E q \in inflight : CommitRedeem(q)
  \/ \E q \in inflight : Rollback(q)
  \/ PurgeExpired
  \/ \E u \in Users, e \in Date : GrantAdd(u, e)
  \/ \E u \in Users : GrantRevoke(u)
  \/ \E u \in Users : DeleteAccount(u)

Spec == Init /\ [][Next]_vars
-----------------------------------------------------------------------------
(***************************************************************************)
(* Properties                                                              *)
(***************************************************************************)
\* Every use counted is a claim by one more user and the other way round, even
\* when one user submits a code twice at once, or accounts are deleted.
UsesAreClaims == \A c \in Codes : uses[c] # Null => uses[c] = Cardinality(claimed[c])

\* A code never makes more users premium than it has uses, whichever redeems
\* race, and also after the code is purged.
GrantedBy(c) == {u \in Users : grants[u] # Null /\ grants[u].grantedBy = c}
GrantsWithinUses ==
  \A c \in Codes : GrantedBy(c) # {} => /\ issued[c] # Null /\ issued[c].grantsPremium
                                        /\ Cardinality(GrantedBy(c)) <= issued[c].maxUses

\* Redeeming a code never takes or shortens the premium somebody has: a grant
\* in force changes by the command line or with its account only.
GrantsNeverWorsen ==
  [][\A u \in accounts' : GrantActive(grants[u], clock) =>
       \/ grants'[u] = grants[u]
       \/ grants'[u] = Null /\ GrantRevoke(u)
       \/ grants'[u] # Null /\ grants'[u].grantedBy = "cli"]_vars

\* A code that never expires, or has not yet, keeps the trace of who used it,
\* which is what stops a second claim: only expiry or the account's end erase it.
TraceSurvives ==
  [][\A c \in Codes, u \in accounts' :
       u \in redemptions[c] /\ ~Lapsed(c) => u \in redemptions'[c]]_vars

(* What does not hold of the code, and is checked by no run.               *)

\* A claim of a code that grants premium until later leaves its user premium
\* (invitations.service.ts:151 leaves a lapsed grant as it is).
ClaimGivesPremium ==
  [][\A c \in Codes : \A u \in claimed'[c] \ claimed[c] :
       /\ issued[c].grantsPremium
       /\ issued[c].premiumExpiresAt = Null \/ issued[c].premiumExpiresAt > clock
       => GrantActive(grants'[u], clock)]_vars
=============================================================================
