------------------------------- MODULE Sharing -------------------------------
(***************************************************************************)
(* Collection sharing: SharingService and CollectionAccessService.         *)
(*                                                                         *)
(* Every table the two services touch is a variable; an absent row is      *)
(* NoUser, the empty set or 0.  A request that reads and then writes is    *)
(* two steps: Begin does the reads and the checks, Commit the writes, and  *)
(* any other request may run in between.  A transaction writes at Commit   *)
(* all at once: MariaDB keeps the rows it wrote locked until then, while   *)
(* its plain reads come from the snapshot taken at Begin.  Rollback is     *)
(* every way a request ends without effect: a failed check at Commit (the  *)
(* conditional update matched nothing, a unique or foreign key refused the *)
(* insert, the row to update is gone), a timeout, a crash of the process.  *)
(***************************************************************************)
EXTENDS Naturals, FiniteSets

CONSTANTS
  Users,        \* account ids; a deleted account's id never comes back
  Collections,  \* collection ids
  Shares,       \* share ids, one per code (codeHash is unique)
  Requests,     \* slots for requests in flight
  Statuses,     \* ITEM_STATUSES
  MaxUses,      \* bound: largest maxUses a share is created with
  NoUser        \* no such row

ASSUME MaxUsesAssumption == MaxUses \in Nat \ {0}
ASSUME NoUserAssumption  == NoUser \notin Users

VARIABLES
  accounts,         \* rows of users
  collectionOwner,  \* collections.user_id
  issued,           \* history: share ids ever used
  shareOwner,       \* collection_shares.owner_user_id
  maxUses,          \* collection_shares.max_uses
  usedCount,        \* collection_shares.used_count
  expiry,           \* collection_shares.expires_at against the clock
  revoked,          \* shares with a revoked_at
  entries,          \* collection_share_entries: statuses exposed, per collection
  members,          \* rows of collection_share_members
  ejected,          \* those with a revoked_at
  inflight          \* requests between their reads and their writes

shareVars == <<issued, shareOwner, maxUses, usedCount, expiry, revoked,
               entries, members, ejected>>
vars == <<accounts, collectionOwner, shareVars, inflight>>

Expiry  == {"never", "future", "past"}
Request == [id : Requests, op : {"redeem", "revoke", "eject"},
            share : Shares, user : Users]
Scope   == [Collections -> SUBSET Statuses]

TypeOK ==
  /\ accounts \subseteq Users
  /\ collectionOwner \in [Collections -> Users \cup {NoUser}]
  /\ issued \subseteq Shares
  /\ shareOwner \in [Shares -> Users \cup {NoUser}]
  /\ maxUses \in [Shares -> Nat]
  /\ usedCount \in [Shares -> Nat]
  /\ expiry \in [Shares -> Expiry]
  /\ revoked \subseteq Shares
  /\ entries \in [Shares -> Scope]
  /\ members \in [Shares -> SUBSET Users]
  /\ ejected \in [Shares -> SUBSET Users]
  /\ inflight \subseteq Request

\* The accounts and their collections exist before the first share.
Init ==
  /\ accounts = Users
  /\ collectionOwner \in [Collections -> Users]
  /\ issued = {}
  /\ shareOwner = [s \in Shares |-> NoUser]
  /\ maxUses = [s \in Shares |-> 0]
  /\ usedCount = [s \in Shares |-> 0]
  /\ expiry = [s \in Shares |-> "never"]
  /\ revoked = {}
  /\ entries = [s \in Shares |-> [c \in Collections |-> {}]]
  /\ members = [s \in Shares |-> {}]
  /\ ejected = [s \in Shares |-> {}]
  /\ inflight = {}

Exists(s)  == shareOwner[s] # NoUser
Exposed(e) == {c \in Collections : e[c] # {}}

(***************************************************************************)
(* Requests in flight                                                      *)
(***************************************************************************)
Submit(r, op, s, u) ==
  /\ \A q \in inflight : q.id # r
  /\ inflight' = inflight \cup {[id |-> r, op |-> op, share |-> s, user |-> u]}
  /\ UNCHANGED <<accounts, collectionOwner, shareVars>>

Finish(q) == inflight' = inflight \ {q}

Rollback(q) ==
  /\ q \in inflight
  /\ Finish(q)
  /\ UNCHANGED <<accounts, collectionOwner, shareVars>>

(***************************************************************************)
(* create: POST /v1/shares.  assertOwnsAll and the insert are one step.    *)
(* A collection never changes owner, so the check can only be stale by the *)
(* collection having been deleted, and then the foreign key of the entry   *)
(* refuses the insert: as if the check had run at that moment.             *)
(***************************************************************************)
OwnsAll(u, e)  == \A c \in Exposed(e) : collectionOwner[c] = u

Create(s, u, e, n, x) ==
  /\ s \notin issued
  /\ Exposed(e) # {}
  /\ OwnsAll(u, e)
  /\ issued' = issued \cup {s}
  /\ shareOwner' = [shareOwner EXCEPT ![s] = u]
  /\ maxUses' = [maxUses EXCEPT ![s] = n]
  /\ usedCount' = [usedCount EXCEPT ![s] = 0]
  /\ expiry' = [expiry EXCEPT ![s] = x]
  /\ entries' = [entries EXCEPT ![s] = e]
  /\ UNCHANGED <<accounts, collectionOwner, revoked, members, ejected, inflight>>

\* The clock passes expiresAt.
Lapse(s) ==
  /\ expiry[s] = "future"
  /\ expiry' = [expiry EXCEPT ![s] = "past"]
  /\ UNCHANGED <<accounts, collectionOwner, issued, shareOwner, maxUses,
                 usedCount, revoked, entries, members, ejected, inflight>>

(***************************************************************************)
(* redeem: POST /v1/shares/redeem, an interactive transaction.  The token  *)
(* of a deleted account is still accepted, hence u \in Users.  A user who  *)
(* is already an active member gets the same answer again and nothing is   *)
(* written (but the label, which is left out).                             *)
(***************************************************************************)
CodeValid(s) == Exists(s) /\ s \notin revoked /\ expiry[s] # "past"
SeatFree(s)  == usedCount[s] < maxUses[s]

\* The conditional updateMany re-checks the seats on the current row.
SeatUnchecked(s)  == Exists(s)       \* mutant of SeatStillFree
SeatStillFree(s)  == SeatFree(s)

\* One row per share and user, ejected or not.
NoActiveRow(s, u) == u \notin members[s] \ ejected[s]   \* mutant of NoRow
NoRow(s, u)       == u \notin members[s]

BeginRedeem(r, u, s) ==
  /\ CodeValid(s)
  /\ shareOwner[s] # u
  /\ NoRow(s, u)
  /\ SeatFree(s)
  /\ Submit(r, "redeem", s, u)

\* Neither the revocation nor the expiry is looked at again; the primary key
\* refuses a second membership, the foreign key an account deleted meanwhile.
CommitRedeem(q) ==
  /\ q \in inflight /\ q.op = "redeem"
  /\ SeatStillFree(q.share)
  /\ NoRow(q.share, q.user)
  /\ q.user \in accounts
  /\ usedCount' = [usedCount EXCEPT ![q.share] = @ + 1]
  /\ members' = [members EXCEPT ![q.share] = @ \cup {q.user}]
  /\ Finish(q)
  /\ UNCHANGED <<accounts, collectionOwner, issued, shareOwner, maxUses,
                 expiry, revoked, entries, ejected>>

(***************************************************************************)
(* revoke: DELETE /v1/shares/:id by its owner.  The two updates are one    *)
(* transaction.                                                            *)
(***************************************************************************)
BeginRevoke(r, s) ==
  /\ Exists(s)
  /\ s \notin revoked
  /\ Submit(r, "revoke", s, shareOwner[s])

CommitRevoke(q) ==
  /\ q \in inflight /\ q.op = "revoke"
  /\ Exists(q.share)
  /\ revoked' = revoked \cup {q.share}
  /\ ejected' = [ejected EXCEPT ![q.share] = members[q.share]]
  /\ Finish(q)
  /\ UNCHANGED <<accounts, collectionOwner, issued, shareOwner, maxUses,
                 usedCount, expiry, entries, members>>

(***************************************************************************)
(* revokeMember: the owner ejects u.  assertOwnedShare and findUnique are  *)
(* one step: while the member row exists, its share exists and keeps its   *)
(* owner.                                                                  *)
(***************************************************************************)
BeginEject(r, s, u) ==
  /\ Exists(s)
  /\ u \in members[s] \ ejected[s]
  /\ Submit(r, "eject", s, u)

CommitEject(q) ==
  /\ q \in inflight /\ q.op = "eject"
  /\ q.user \in members[q.share]
  /\ ejected' = [ejected EXCEPT ![q.share] = @ \cup {q.user}]
  /\ Finish(q)
  /\ UNCHANGED <<accounts, collectionOwner, issued, shareOwner, maxUses,
                 usedCount, expiry, revoked, entries, members>>

(***************************************************************************)
(* Deletions elsewhere that reach the sharing tables by cascade.           *)
(***************************************************************************)
Without(e, C) == [c \in Collections |-> IF c \in C THEN {} ELSE e[c]]

DeleteCollection(c) ==
  /\ collectionOwner[c] # NoUser
  /\ collectionOwner' = [collectionOwner EXCEPT ![c] = NoUser]
  /\ entries' = [s \in Shares |-> Without(entries[s], {c})]
  /\ UNCHANGED <<accounts, issued, shareOwner, maxUses, usedCount, expiry,
                 revoked, members, ejected, inflight>>

SharesOf(u)      == {s \in Shares : shareOwner[s] = u}
NoCollection(u)  == {}               \* mutant of CollectionsOf
CollectionsOf(u) == {c \in Collections : collectionOwner[c] = u}

\* users.deleteMe: the account, its collections with their entries, the
\* shares it issued, and its memberships.  used_count of the shares it had
\* joined is not given back.
DeleteAccount(u) ==
  LET gone == SharesOf(u)
      Keep(f, none) == [s \in Shares |-> IF s \in gone THEN none ELSE f[s]]
  IN  /\ u \in accounts
      /\ accounts' = accounts \ {u}
      /\ collectionOwner' = [c \in Collections |->
            IF c \in CollectionsOf(u) THEN NoUser ELSE collectionOwner[c]]
      /\ shareOwner' = Keep(shareOwner, NoUser)
      /\ maxUses' = Keep(maxUses, 0)
      /\ usedCount' = Keep(usedCount, 0)
      /\ expiry' = Keep(expiry, "never")
      /\ revoked' = revoked \ gone
      /\ entries' = [s \in Shares |-> IF s \in gone
                       THEN [c \in Collections |-> {}]
                       ELSE Without(entries[s], CollectionsOf(u))]
      /\ members' = [s \in Shares |-> IF s \in gone THEN {} ELSE members[s] \ {u}]
      /\ ejected' = [s \in Shares |-> IF s \in gone THEN {} ELSE ejected[s] \ {u}]
      /\ UNCHANGED <<issued, inflight>>

(***************************************************************************)
(* resolveAccess: what user u may read of collection c.                    *)
(***************************************************************************)
GrantingRevoked(u) == {s \in Shares : u \in members[s] \ ejected[s]}   \* mutant of Granting
Granting(u) == {s \in Shares \ revoked : u \in members[s] \ ejected[s]}

Access(u, c) ==
  IF collectionOwner[c] = NoUser THEN {}
  ELSE IF collectionOwner[c] = u THEN Statuses
  ELSE UNION {entries[s][c] : s \in Granting(u)}

Next ==
  \/ \E s \in Shares, u \in Users, e \in Scope, n \in 1..MaxUses, x \in Expiry :
       Create(s, u, e, n, x)
  \/ \E s \in Shares : Lapse(s)
  \/ \E r \in Requests, u \in Users, s \in Shares : BeginRedeem(r, u, s)
  \/ \E r \in Requests, s \in Shares : BeginRevoke(r, s)
  \/ \E r \in Requests, s \in Shares, u \in Users : BeginEject(r, s, u)
  \/ \E q \in inflight : CommitRedeem(q)
  \/ \E q \in inflight : CommitRevoke(q)
  \/ \E q \in inflight : CommitEject(q)
  \/ \E q \in inflight : Rollback(q)
  \/ \E c \in Collections : DeleteCollection(c)
  \/ \E u \in Users : DeleteAccount(u)

Spec == Init /\ [][Next]_vars
-----------------------------------------------------------------------------
(***************************************************************************)
(* Properties                                                              *)
(***************************************************************************)

\* Two redeems racing for the last seat cannot both pass: a share never has
\* more members than seats used, nor more seats used than its owner allowed,
\* whatever the reads of the redeems in flight saw (redeem's conditional
\* increment, and its membership row in the same transaction).
SeatsRespected ==
  \A s \in Shares : /\ usedCount[s] <= maxUses[s]
                    /\ Cardinality(members[s]) <= usedCount[s]

\* A share exposes only collections its issuer still owns, and nobody is a
\* member of a share of their own (assertOwnsAll, the owner check of redeem,
\* and the cascades that reach collection_share_entries).
EntriesBelongToIssuer ==
  \A s \in Shares :
    /\ \A c \in Exposed(entries[s]) : Exists(s) /\ collectionOwner[c] = shareOwner[s]
    /\ shareOwner[s] \notin members[s]

\* Deleting accounts and collections between the two halves of any request
\* leaves no row whose parent is gone, and a request in flight still speaks of
\* a share that was really issued, never of the redeemer's own.
NoOrphanRows ==
  /\ \A c \in Collections : collectionOwner[c] \in accounts \cup {NoUser}
  /\ \A s \in Shares :
       /\ ejected[s] \subseteq members[s] /\ members[s] \subseteq accounts
       /\ Exists(s) => s \in issued /\ shareOwner[s] \in accounts
       /\ ~Exists(s) => /\ members[s] = {} /\ Exposed(entries[s]) = {}
                        /\ maxUses[s] = 0 /\ usedCount[s] = 0 /\ s \notin revoked
  /\ \A q \in inflight :
       /\ q.share \in issued
       /\ q.op = "redeem" => q.user # shareOwner[q.share]

\* What a user sees of a collection only ever grows by that user taking a
\* seat on a live share that exposes it: not by an owner issuing, revoking or
\* ejecting, not by somebody else joining, not by any deletion, and not by a
\* second commit of a request that was overtaken (resolveAccess over the
\* tables as every handler leaves them).
Joined(u) == {s \in Shares \ revoked : u \in members'[s] \ members[s]}

AccessWidensOnlyByJoining ==
  [][\A u \in Users, c \in Collections :
       Access(u, c)' \subseteq Access(u, c) \cup UNION {entries[s][c] : s \in Joined(u)}]_vars

(***************************************************************************)
(* Sharing implements ShareGrants: members of a revoked share, including   *)
(* one that slipped in while the revocation was in flight, hold nothing.   *)
(***************************************************************************)
Live(s) == Exists(s) /\ s \notin revoked

OfferOf(s) == IF s \notin issued THEN "none" ELSE IF Live(s) THEN "open" ELSE "closed"

Grants == INSTANCE ShareGrants WITH
  MaxSeats <- MaxUses,
  offer    <- [s \in Shares |-> OfferOf(s)],
  seats    <- [s \in Shares |-> IF Live(s) THEN maxUses[s] - usedCount[s] ELSE 0],
  holders  <- [s \in Shares |-> IF Live(s) THEN members[s] \ ejected[s] ELSE {}],
  barred   <- [s \in Shares |-> IF Live(s) THEN ejected[s] ELSE {}],
  departed <- Users \ accounts

\* Every behaviour of the two services is one the promise of sharing allows:
\* a seat is taken once and only while one is free, an ejected user never
\* holds that share again, and a revoked or deleted share gives nobody
\* anything from that moment on, races with requests in flight included.
ImplementsShareGrants == Grants!Spec
=============================================================================
