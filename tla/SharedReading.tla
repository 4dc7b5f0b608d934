---------------------------- MODULE SharedReading ----------------------------
(***************************************************************************)
(* What the tables of Sharing show to whom: the lists of the owner and of  *)
(* the member, the guards, and the guard each route of a collection is     *)
(* declared with.  Nothing here writes; a request is judged on the tables  *)
(* as they stand when its guard reads them.                                *)
(*                                                                         *)
(* Who is premium is no table of Sharing (see Subscriptions, Invitations): *)
(* P ranges over every set of accounts.  A volume or a series leads to the *)
(* collection that holds it, with which it is deleted: a route is judged   *)
(* by that collection.  A malformed id is left to the pipe, and left out.  *)
(* So are the labels of shares: no decision reads one, but who may set one *)
(* is decided here.                                                        *)
(***************************************************************************)
EXTENDS Sharing

-----------------------------------------------------------------------------
(* The lists.                                                              *)

\* ACTIVE_MEMBERS.
ActiveMembers(s) == members[s] \ ejected[s]

UnexpiredOnly(u) ==                       \* mutant of Issued
  {s \in Shares : shareOwner[s] = u /\ s \notin revoked /\ expiry[s] # "past"}

\* list: what u shares.  An expired share stays, its members still read.
Issued(u) == {s \in Shares : shareOwner[s] = u /\ s \notin revoked}

\* list with a collectionId, which is 404 for who does not own it.
IssuedOf(u, c) ==
  IF collectionOwner[c] = u THEN {s \in Issued(u) : c \in Exposed(entries[s])} ELSE {}

\* A share as its owner is shown it.
View(s) == [collections |-> entries[s], members |-> ActiveMembers(s)]

Joinable(u) ==                            \* mutant of Received
  {s \in Shares : s \notin revoked /\ expiry[s] # "past" /\ u \in ActiveMembers(s)}

\* listReceived: what is shared with u; expires_at bounds the code only.
Received(u) == {s \in Shares : s \notin revoked /\ u \in ActiveMembers(s)}

\* toReceivedEntries: what those shares say u sees of c.
ReceivedOf(u, c) == UNION {entries[s][c] : s \in Received(u)}

\* CollectionsService.list, without its filters: the collections of u.
Owned(u) == {c \in Collections : collectionOwner[c] = u}

\* exportMe: the shares u issued and the memberships he was given, those that
\* were revoked included.
ExportedShares(u) ==
  {[share |-> s, collections |-> entries[s], members |-> members[s], withdrawn |-> ejected[s]] :
     s \in {s \in Shares : shareOwner[s] = u}}
ExportedMemberships(u) ==
  {[share |-> s, collections |-> entries[s], withdrawn |-> u \in ejected[s]] :
     s \in {s \in Shares : u \in members[s]}}

-----------------------------------------------------------------------------
(* What a request is answered: "ok", or the status of the exception that   *)
(* ends it.                                                                *)

\* mapException: a class is looked for before the class it extends.
mapException ==
  [ZodValidation |-> "400", BadRequest |-> "400", Unauthorized |-> "401",
   TechnicalLimit |-> "409", PaymentRequired |-> "402", SourceTokenRequired |-> "403",
   Forbidden |-> "403", ShareCodeInvalid |-> "404", NotFound |-> "404",
   InvitationExpired |-> "410", InvitationExhausted |-> "409", Conflict |-> "409",
   BadGateway |-> "502"]

Status(result) == IF result = "ok" THEN "ok" ELSE mapException[result]

\* updateLabel: its owner names a share, a revoked one too.
UpdateLabel(u, s) == IF shareOwner[s] = u THEN "ok" ELSE "NotFound"

\* updateMembershipLabel: a member names a live share for himself.
UpdateMembershipLabel(u, s) ==
  IF s \notin revoked /\ u \in ActiveMembers(s) THEN "ok" ELSE "NotFound"

-----------------------------------------------------------------------------
(* The guards.                                                             *)

\* The role resolveAccess gives, "none" where it returns null.
Role(u, c) ==
  IF collectionOwner[c] = u THEN "owner" ELSE IF Access(u, c) # {} THEN "shared" ELSE "none"

\* accessStatuses.
StatusesOf(u, c) == IF Role(u, c) = "owner" THEN Statuses ELSE Access(u, c)

\* PremiumGuard looks at the requester.
PremiumGuard(P, u) == IF u \in P THEN "ok" ELSE "PaymentRequired"

RequesterPays(P, u, c) ==                 \* mutant of CollectionPremiumGuard
  IF Role(u, c) = "none" THEN "NotFound" ELSE PremiumGuard(P, u)

\* CollectionPremiumGuard looks at the owner.
CollectionPremiumGuard(P, u, c) ==
  IF Role(u, c) = "none" THEN "NotFound" ELSE PremiumGuard(P, collectionOwner[c])

\* CollectionWriteGuard: a member knows the collection exists.
CollectionWriteGuard(P, u, c) ==
  CASE Role(u, c) = "none"   -> "NotFound"
    [] Role(u, c) = "shared" -> "Forbidden"
    [] Role(u, c) = "owner"  -> PremiumGuard(P, collectionOwner[c])

-----------------------------------------------------------------------------
(* The routes, each with its guard behind JwtAuthGuard.                    *)

ItemRoutes == [create |-> "write", list |-> "read", findOne |-> "read", sources |-> "read",
               attachSource |-> "write", update |-> "write", remove |-> "write"]

NodeRoutes == [create |-> "write", list |-> "read", findOne |-> "read", sources |-> "read",
               attachSource |-> "write", update |-> "write"]

\* Those that aim at one collection.
CollectionRoutes == [findOne |-> "read", update |-> "write", remove |-> "write"]

\* Only issuing is paid for: to see, to revoke and to join is free.
ShareRoutes == [create |-> "premium", list |-> "none", revoke |-> "none", revokeMember |-> "none",
                redeem |-> "none", received |-> "none", updateReceivedLabel |-> "none",
                updateLabel |-> "none"]

Mutating == {"create", "attachSource", "update", "remove"}

\* What the guard of a route answers to u, of c.
Answer(guard, P, u, c) ==
  Status(CASE guard = "none"    -> "ok"
           [] guard = "premium" -> PremiumGuard(P, u)
           [] guard = "read"    -> CollectionPremiumGuard(P, u, c)
           [] guard = "write"   -> CollectionWriteGuard(P, u, c))

-----------------------------------------------------------------------------
(* Properties.                                                             *)

\* GET /shares/received tells a member exactly what the routes of the
\* collections then show him: no collection listed that answers 404, none
\* readable that is not listed nor his own, and under the same statuses,
\* whatever expired, was revoked or deleted since he joined (list, listReceived
\* and resolveAccess are three queries that start from different tables).  Of
\* those shares, and of no other, he may set the label.
ReceivedMatchesAccess ==
  /\ \A u \in Users, c \in Collections :
       StatusesOf(u, c) = IF c \in Owned(u) THEN Statuses ELSE ReceivedOf(u, c)
  /\ \A u \in Users, s \in Shares :
       s \in Received(u) <=> Status(UpdateMembershipLabel(u, s)) = "ok"

\* Whoever reads a collection without owning it is among the members its owner
\* is shown, in a share that exposes it, which the owner may withdraw or name
\* even when he no longer pays: no reader is out of the owner's sight or reach.
\* The reader's export of his data says what he reads, the owner's who does.
OwnerSeesWhoReads ==
  \A u \in Users, c \in Collections : Role(u, c) = "shared" =>
    LET o == collectionOwner[c]
    IN  \E s \in IssuedOf(o, c) :
          /\ u \in View(s).members
          /\ \A P \in SUBSET Users, op \in {"list", "revoke", "revokeMember", "updateLabel"} :
               Answer(ShareRoutes[op], P, o, c) = "ok"
          /\ Status(UpdateLabel(o, s)) = "ok"
          /\ \E x \in ExportedShares(o) :
               x.share = s /\ c \in Exposed(x.collections) /\ u \in x.members \ x.withdrawn
          /\ \E x \in ExportedMemberships(u) :
               x.share = s /\ c \in Exposed(x.collections) /\ ~x.withdrawn

\* Of a collection in one of his received shares a member is answered, on every
\* route that reads, by the premium of who issued the share, never by his own;
\* and 403 on every route that writes, of the collection, its series or its
\* volumes, whoever is premium.
MembersReadAndNeverWrite ==
  \A u \in Users : \A s \in Received(u) : \A c \in Exposed(entries[s]) :
    \A P \in SUBSET Users, routes \in {ItemRoutes, NodeRoutes, CollectionRoutes} :
      \A op \in DOMAIN routes :
        Answer(routes[op], P, u, c) =
          IF op \in Mutating THEN "403" ELSE IF shareOwner[s] \in P THEN "ok" ELSE "402"
=============================================================================
