---------------------------- MODULE SharingProofs ----------------------------
(***************************************************************************)
(* Theorems about Sharing and SharedReading, for any number of accounts,   *)
(* collections, shares and requests in flight.                             *)
(***************************************************************************)
EXTENDS SharedReading, FiniteSetTheorems, TLAPS

\* The inductive invariant: the seats are only safe because the rows are.
Inv == TypeOK /\ NoOrphanRows /\ EntriesBelongToIssuer

-----------------------------------------------------------------------------
LEMMA InitInv == Init => Inv
BY NoUserAssumption
DEF Init, Inv, TypeOK, NoOrphanRows, EntriesBelongToIssuer, Exists, Exposed,
    Scope, Expiry, Request

\* A request in flight names a share of the right type.
LEMMA InflightTyped ==
  ASSUME TypeOK, NEW q \in inflight
  PROVE  /\ q.share \in Shares /\ q.user \in Users /\ q.id \in Requests
         /\ q.op \in {"redeem", "revoke", "eject"}
BY DEF TypeOK, Request

LEMMA CreateInv ==
  ASSUME Inv, NEW s \in Shares, NEW u \in Users, NEW e \in Scope,
         NEW n \in 1..MaxUses, NEW x \in Expiry, Create(s, u, e, n, x)
  PROVE  Inv'
<1> USE DEF Inv
<1>1. u \in accounts
  BY NoUserAssumption DEF Create, OwnsAll, Exposed, NoOrphanRows
<1>2. TypeOK'
  BY MaxUsesAssumption DEF Create, TypeOK
<1>3. NoOrphanRows'
  <2>1. ~Exists(s) /\ members[s] = {} /\ ejected[s] = {} /\ s \notin revoked
    BY DEF Create, NoOrphanRows
  <2> QED BY <1>1, <2>1, NoUserAssumption
      DEF Create, NoOrphanRows, TypeOK, Exists, Exposed
<1>4. EntriesBelongToIssuer'
  <2>1. ~Exists(s) /\ members[s] = {}
    BY DEF Create, NoOrphanRows
  <2> QED BY <1>1, <2>1, NoUserAssumption
      DEF Create, EntriesBelongToIssuer, TypeOK, Exists, Exposed, OwnsAll
<1> QED BY <1>2, <1>3, <1>4

LEMMA LapseInv == ASSUME Inv, NEW s \in Shares, Lapse(s) PROVE Inv'
BY DEF Inv, TypeOK, NoOrphanRows, EntriesBelongToIssuer, Lapse, Exists,
       Exposed, Expiry

LEMMA SubmitInv ==
  ASSUME Inv, NEW r \in Requests, NEW op \in {"redeem", "revoke", "eject"},
         NEW s \in Shares, NEW u \in Users, Submit(r, op, s, u), Exists(s),
         op = "redeem" => u # shareOwner[s]
  PROVE  Inv'
BY DEF Inv, TypeOK, NoOrphanRows, EntriesBelongToIssuer, Submit, shareVars,
       Exists, Exposed, Request

LEMMA CommitRedeemInv ==
  ASSUME Inv, NEW q \in inflight, CommitRedeem(q) PROVE Inv'
<1> USE DEF Inv
<1>1. /\ q.share \in Shares /\ q.user \in Users
  BY InflightTyped
<1>2. Exists(q.share)
  BY <1>1 DEF CommitRedeem, SeatStillFree, SeatFree, NoOrphanRows
<1>3. TypeOK'
  BY <1>1 DEF CommitRedeem, TypeOK, Finish
<1>4. NoOrphanRows'
  BY <1>1, <1>2 DEF CommitRedeem, TypeOK, NoOrphanRows, Finish, Exists, Exposed
<1>5. EntriesBelongToIssuer'
  BY <1>1, <1>2 DEF CommitRedeem, TypeOK, NoOrphanRows, EntriesBelongToIssuer,
                    Exists, Exposed
<1> QED BY <1>3, <1>4, <1>5

LEMMA CommitRevokeInv ==
  ASSUME Inv, NEW q \in inflight, CommitRevoke(q) PROVE Inv'
<1>1. q.share \in Shares
  BY InflightTyped DEF Inv
<1> QED BY <1>1 DEF Inv, CommitRevoke, TypeOK, NoOrphanRows,
                    EntriesBelongToIssuer, Finish, Exists, Exposed

LEMMA CommitEjectInv ==
  ASSUME Inv, NEW q \in inflight, CommitEject(q) PROVE Inv'
<1>1. q.share \in Shares /\ q.user \in Users
  BY InflightTyped DEF Inv
<1> QED BY <1>1 DEF Inv, CommitEject, TypeOK, NoOrphanRows,
                    EntriesBelongToIssuer, Finish, Exists, Exposed

LEMMA RollbackInv ==
  ASSUME Inv, NEW q \in inflight, Rollback(q) PROVE Inv'
BY DEF Inv, Rollback, TypeOK, NoOrphanRows, EntriesBelongToIssuer, Finish,
       shareVars, Exists, Exposed

LEMMA DeleteCollectionInv ==
  ASSUME Inv, NEW c \in Collections, DeleteCollection(c) PROVE Inv'
<1> USE DEF Inv
<1>1. TypeOK'
  BY DEF DeleteCollection, TypeOK, Without, Scope
<1>2. \A s \in Shares : Exposed(entries[s])' = Exposed(entries[s]) \ {c}
  BY DEF DeleteCollection, TypeOK, Without, Exposed
<1>3. NoOrphanRows'
  BY <1>2 DEF DeleteCollection, TypeOK, NoOrphanRows, Exists
<1>4. EntriesBelongToIssuer'
  BY ZenonT(60), <1>2 DEF DeleteCollection, TypeOK, EntriesBelongToIssuer, Exists, Exposed
<1> QED BY <1>1, <1>3, <1>4

LEMMA DeleteAccountInv ==
  ASSUME Inv, NEW u \in Users, DeleteAccount(u) PROVE Inv'
<1> USE DEF Inv
<1>1. TypeOK'
  BY DEF DeleteAccount, TypeOK, Without, Scope, Expiry
<1>2. \A s \in Shares : Exposed(entries[s])' =
         IF s \in SharesOf(u) THEN {} ELSE Exposed(entries[s]) \ CollectionsOf(u)
  BY DEF DeleteAccount, TypeOK, Without, Exposed
<1>3. \A s \in Shares :
         /\ shareOwner'[s] = IF s \in SharesOf(u) THEN NoUser ELSE shareOwner[s]
         /\ members'[s] = IF s \in SharesOf(u) THEN {} ELSE members[s] \ {u}
         /\ ejected'[s] = IF s \in SharesOf(u) THEN {} ELSE ejected[s] \ {u}
         /\ maxUses'[s] = IF s \in SharesOf(u) THEN 0 ELSE maxUses[s]
         /\ usedCount'[s] = IF s \in SharesOf(u) THEN 0 ELSE usedCount[s]
  BY DEF DeleteAccount
<1>4. NoOrphanRows'
  <2>1. \A c \in Collections : collectionOwner'[c] \in accounts' \cup {NoUser}
    BY DEF DeleteAccount, NoOrphanRows, CollectionsOf
  <2>2. ASSUME NEW s \in Shares
        PROVE  /\ ejected'[s] \subseteq members'[s] /\ members'[s] \subseteq accounts'
               /\ Exists(s)' => s \in issued' /\ shareOwner'[s] \in accounts'
    BY <1>3 DEF DeleteAccount, NoOrphanRows, SharesOf, Exists
  <2>3. ASSUME NEW s \in Shares, ~Exists(s)'
        PROVE  /\ members'[s] = {} /\ Exposed(entries[s])' = {}
               /\ maxUses'[s] = 0 /\ usedCount'[s] = 0 /\ s \notin revoked'
    BY <1>2, <1>3, <2>3 DEF DeleteAccount, NoOrphanRows, SharesOf, Exists
  <2>4. ASSUME NEW q \in inflight'
        PROVE  q.share \in issued' /\ (q.op = "redeem" => q.user # shareOwner'[q.share])
    BY <1>3, InflightTyped, NoUserAssumption DEF DeleteAccount, NoOrphanRows
  <2> QED BY <2>1, <2>2, <2>3, <2>4 DEF NoOrphanRows
<1>5. EntriesBelongToIssuer'
  <2>1. ASSUME NEW s \in Shares, NEW c \in Exposed(entries[s])'
        PROVE  Exists(s)' /\ collectionOwner'[c] = shareOwner'[s]
    BY <1>2, <1>3, <2>1 DEF DeleteAccount, EntriesBelongToIssuer, Exists, Exposed,
                       SharesOf, CollectionsOf
  <2>2. ASSUME NEW s \in Shares PROVE shareOwner'[s] \notin members'[s]
    BY <1>3 DEF EntriesBelongToIssuer
  <2> QED BY <2>1, <2>2 DEF EntriesBelongToIssuer
<1> QED BY <1>1, <1>4, <1>5

LEMMA NextInv == Inv /\ [Next]_vars => Inv'
<1>1. ASSUME Inv, Next PROVE Inv'
  <2>1. ASSUME NEW r \in Requests, NEW u \in Users, NEW s \in Shares,
               BeginRedeem(r, u, s)
        PROVE  Inv'
    BY <1>1, <2>1, SubmitInv DEF BeginRedeem, CodeValid
  <2>2. ASSUME NEW r \in Requests, NEW s \in Shares, BeginRevoke(r, s)
        PROVE  Inv'
    <3>1. shareOwner[s] \in Users
      BY <1>1, <2>2 DEF BeginRevoke, Exists, Inv, TypeOK
    <3> QED BY <1>1, <2>2, <3>1, SubmitInv DEF BeginRevoke
  <2>3. ASSUME NEW r \in Requests, NEW s \in Shares, NEW u \in Users,
               BeginEject(r, s, u)
        PROVE  Inv'
    BY <1>1, <2>3, SubmitInv DEF BeginEject
  <2> QED
    BY <1>1, <2>1, <2>2, <2>3, CreateInv, LapseInv, CommitRedeemInv,
       CommitRevokeInv, CommitEjectInv, RollbackInv, DeleteCollectionInv,
       DeleteAccountInv DEF Next
<1>2. ASSUME Inv, UNCHANGED vars PROVE Inv'
  BY <1>2 DEF Inv, vars, shareVars, TypeOK, NoOrphanRows,
              EntriesBelongToIssuer, Exists, Exposed
<1> QED BY <1>1, <1>2

\* The rows stay consistent under every interleaving of the requests.
THEOREM InvInvariant == Spec => []Inv
BY InitInv, NextInv, PTL DEF Spec

\* Every table keeps its shape; a request in flight names a real account.
THEOREM TypeCorrect == Spec => []TypeOK
BY InvInvariant, PTL DEF Inv

\* Every row refers to rows that exist, in every reachable state.
THEOREM NoOrphans == Spec => []NoOrphanRows
BY InvInvariant, PTL DEF Inv

\* A share never exposes a collection that is not its issuer's.
THEOREM EntriesOfIssuer == Spec => []EntriesBelongToIssuer
BY InvInvariant, PTL DEF Inv

-----------------------------------------------------------------------------
(***************************************************************************)
(* Seats                                                                   *)
(***************************************************************************)
FiniteMembers == \A s \in Shares : IsFiniteSet(members[s])

LEMMA InitSeats == Init => SeatsRespected /\ FiniteMembers
BY FS_EmptySet DEF Init, SeatsRespected, FiniteMembers

LEMMA NextSeats ==
  ASSUME Inv, Inv', SeatsRespected, FiniteMembers, [Next]_vars
  PROVE  SeatsRespected' /\ FiniteMembers'
<1> USE DEF SeatsRespected, FiniteMembers
<1>1. ASSUME NEW s \in Shares, NEW u \in Users, NEW e \in Scope,
             NEW n \in 1..MaxUses, NEW x \in Expiry, Create(s, u, e, n, x)
      PROVE  SeatsRespected' /\ FiniteMembers'
  <2>1. members[s] = {} /\ Cardinality(members[s]) = 0
    BY <1>1, FS_EmptySet DEF Create, Inv, NoOrphanRows
  <2>2. ASSUME NEW t \in Shares
        PROVE  /\ usedCount'[t] = IF t = s THEN 0 ELSE usedCount[t]
               /\ maxUses'[t] = IF t = s THEN n ELSE maxUses[t]
               /\ members'[t] = members[t]
    BY <1>1 DEF Create, Inv, TypeOK
  <2>3. n \in Nat
    BY MaxUsesAssumption
  <2>4. \A t \in Shares : usedCount'[t] <= maxUses'[t]
    BY <2>2, <2>3
  <2>5. \A t \in Shares : Cardinality(members'[t]) <= usedCount'[t]
    BY <2>1, <2>2
  <2>6. \A t \in Shares : IsFiniteSet(members'[t])
    BY <2>2
  <2> QED BY <2>4, <2>5, <2>6
<1>2. ASSUME NEW q \in inflight, CommitRedeem(q)
      PROVE  SeatsRespected' /\ FiniteMembers'
  <2>1. q.share \in Shares /\ q.user \notin members[q.share]
    BY <1>2, InflightTyped DEF CommitRedeem, NoRow, Inv
  <2>2. /\ IsFiniteSet(members[q.share] \cup {q.user})
        /\ Cardinality(members[q.share] \cup {q.user}) = Cardinality(members[q.share]) + 1
    BY <2>1, FS_AddElement
  <2>3. usedCount[q.share] + 1 <= maxUses[q.share]
    BY <1>2, <2>1 DEF CommitRedeem, SeatStillFree, SeatFree, Inv, TypeOK
  <2>4. \A t \in Shares : Cardinality(members[t]) \in Nat
    BY FS_CardinalityType
  <2>5. ASSUME NEW t \in Shares
        PROVE  /\ usedCount'[t] = IF t = q.share THEN usedCount[t] + 1 ELSE usedCount[t]
               /\ maxUses'[t] = maxUses[t]
               /\ members'[t] = IF t = q.share THEN members[t] \cup {q.user} ELSE members[t]
               /\ usedCount[t] \in Nat
    BY <1>2, <2>1 DEF CommitRedeem, Inv, TypeOK
  <2>6. \A t \in Shares : usedCount'[t] <= maxUses'[t]
    BY ZenonT(60), <2>1, <2>3, <2>5
  <2>7. ASSUME NEW t \in Shares PROVE Cardinality(members'[t]) <= usedCount'[t]
    <3>1. CASE t = q.share
      BY <2>2, <2>4, <2>5, <3>1
    <3>2. CASE t # q.share
      BY <2>5, <3>2
    <3> QED BY <3>1, <3>2
  <2>8. \A t \in Shares : IsFiniteSet(members'[t])
    BY <2>2, <2>5
  <2> QED BY <2>6, <2>7, <2>8
<1>3. ASSUME NEW u \in Users, DeleteAccount(u)
      PROVE  SeatsRespected' /\ FiniteMembers'
  <2>1. ASSUME NEW s \in Shares
        PROVE  /\ IsFiniteSet(members[s] \ {u})
               /\ Cardinality(members[s] \ {u}) <= Cardinality(members[s])
    BY FS_Subset, FS_CardinalityType
  <2>2. Cardinality({}) = 0 /\ IsFiniteSet({})
    BY FS_EmptySet
  <2>3. ASSUME NEW s \in Shares
        PROVE  /\ Cardinality(members[s] \ {u}) \in Nat
               /\ Cardinality(members[s]) \in Nat
    BY <2>1, FS_CardinalityType
  <2>4. ASSUME NEW s \in Shares
        PROVE  \/ /\ members'[s] = {}
                  /\ usedCount'[s] = 0 /\ maxUses'[s] = 0
               \/ /\ members'[s] = members[s] \ {u}
                  /\ usedCount'[s] = usedCount[s] /\ maxUses'[s] = maxUses[s]
                  /\ usedCount[s] \in Nat
    BY <1>3 DEF DeleteAccount, Inv, TypeOK
  <2>5. ASSUME NEW s \in Shares
        PROVE  /\ usedCount'[s] <= maxUses'[s]
               /\ Cardinality(members'[s]) <= usedCount'[s]
               /\ IsFiniteSet(members'[s])
    BY <2>1, <2>2, <2>3, <2>4
  <2> QED BY <2>5
<1>4. CASE UNCHANGED <<maxUses, usedCount, members>>
  BY <1>4
<1> QED
  BY <1>1, <1>2, <1>3, <1>4
  DEF Next, vars, shareVars, Lapse, BeginRedeem, BeginRevoke, BeginEject,
      Submit, CommitRevoke, CommitEject, Rollback, DeleteCollection

\* However many redeems race, a share never has more members than its owner
\* allowed uses.
THEOREM SeatsAreRespected == Spec => []SeatsRespected
BY InvInvariant, InitSeats, NextSeats, PTL DEF Spec

-----------------------------------------------------------------------------
(***************************************************************************)
(* Access                                                                  *)
(***************************************************************************)
\* If owners only disappear, and every share that grants something after the
\* step granted at least as much before it or was joined in it, access does
\* not widen otherwise.
LEMMA AccessStep ==
  ASSUME NEW u \in Users, NEW c \in Collections,
         collectionOwner'[c] \in {collectionOwner[c], NoUser},
         \A s \in Granting(u)' : /\ entries'[s][c] \subseteq entries[s][c]
                                 /\ s \in Granting(u) \cup Joined(u)
  PROVE  Access(u, c)' \subseteq Access(u, c) \cup UNION {entries[s][c] : s \in Joined(u)}
<1>1. CASE collectionOwner'[c] = NoUser
  BY <1>1 DEF Access
<1>2. CASE collectionOwner'[c] # NoUser /\ collectionOwner[c] = u
  BY <1>2 DEF Access
<1>3. CASE collectionOwner'[c] # NoUser /\ collectionOwner[c] # u
  <2>1. Access(u, c)' = UNION {entries'[s][c] : s \in Granting(u)'}
    BY <1>3 DEF Access
  <2>2. Access(u, c) = UNION {entries[s][c] : s \in Granting(u)}
    BY <1>3 DEF Access
  <2> QED BY <2>1, <2>2
<1> QED BY <1>1, <1>2, <1>3

LEMMA AccessNext ==
  ASSUME Inv, [Next]_vars, NEW u \in Users, NEW c \in Collections
  PROVE  Access(u, c)' \subseteq Access(u, c) \cup UNION {entries[s][c] : s \in Joined(u)}
<1> DEFINE Narrow == /\ collectionOwner'[c] \in {collectionOwner[c], NoUser}
                     /\ \A s \in Granting(u)' :
                          /\ entries'[s][c] \subseteq entries[s][c]
                          /\ s \in Granting(u) \cup Joined(u)
<1> SUFFICES Narrow
  BY AccessStep
<1> USE DEF Inv, Granting, Joined
<1>1. ASSUME NEW s \in Shares, NEW v \in Users, NEW e \in Scope,
             NEW n \in 1..MaxUses, NEW x \in Expiry, Create(s, v, e, n, x)
      PROVE  Narrow
  BY <1>1 DEF Create, NoOrphanRows, TypeOK, Scope
<1>2. ASSUME NEW q \in inflight, CommitRedeem(q) PROVE Narrow
  BY <1>2, InflightTyped DEF CommitRedeem, TypeOK, NoRow
<1>3. ASSUME NEW q \in inflight, CommitRevoke(q) PROVE Narrow
  BY <1>3, InflightTyped DEF CommitRevoke, TypeOK
<1>4. ASSUME NEW q \in inflight, CommitEject(q) PROVE Narrow
  BY <1>4, InflightTyped DEF CommitEject, TypeOK
<1>5. ASSUME NEW d \in Collections, DeleteCollection(d) PROVE Narrow
  BY <1>5 DEF DeleteCollection, TypeOK, Without
<1>6. ASSUME NEW v \in Users, DeleteAccount(v) PROVE Narrow
  BY <1>6 DEF DeleteAccount, TypeOK, Without, SharesOf, CollectionsOf
<1>7. CASE UNCHANGED <<collectionOwner, entries, revoked, members, ejected>>
  BY <1>7
<1> QED
  BY <1>1, <1>2, <1>3, <1>4, <1>5, <1>6, <1>7
  DEF Next, vars, shareVars, Lapse, BeginRedeem, BeginRevoke, BeginEject,
      Submit, Rollback

\* Nobody sees more of a collection than before except by joining a live share.
THEOREM AccessWidens == Spec => AccessWidensOnlyByJoining
<1>1. Inv /\ [Next]_vars =>
        [\A u \in Users, c \in Collections :
           Access(u, c)' \subseteq Access(u, c) \cup UNION {entries[s][c] : s \in Joined(u)}]_vars
  BY AccessNext
<1> QED BY <1>1, InvInvariant, PTL DEF Spec, AccessWidensOnlyByJoining
-----------------------------------------------------------------------------
(***************************************************************************)
(* Refinement: each step of Sharing is a step of ShareGrants or a stutter. *)
(***************************************************************************)
\* What the mapping reads is unchanged by a step: the step stutters.
LEMMA Stutter ==
  ASSUME UNCHANGED <<issued, shareOwner, revoked, maxUses, usedCount, members,
                     ejected, accounts>>
  PROVE  UNCHANGED Grants!vars
BY DEF Grants!vars, OfferOf, Live, Exists

LEMMA RefinesInit == Init => Grants!Init
BY DEF Init, Grants!Init, OfferOf, Live, Exists

LEMMA RefinesCreate ==
  ASSUME Inv, NEW s \in Shares, NEW u \in Users, NEW e \in Scope,
         NEW n \in 1..MaxUses, NEW x \in Expiry, Create(s, u, e, n, x)
  PROVE  Grants!Issue(s, n)
<1> USE DEF Inv
<1>1. ~Exists(s) /\ members[s] = {} /\ ejected[s] = {} /\ s \notin revoked
  BY DEF Create, NoOrphanRows
<1>2. /\ Live(s)' /\ ~Live(s)
      /\ \A t \in Shares \ {s} : Live(t)' = Live(t)
  BY <1>1, NoUserAssumption DEF Create, Live, Exists, TypeOK
<1>3. OfferOf(s) = "none"
  BY DEF Create, OfferOf
<1>4. \A t \in Shares : OfferOf(t)' = IF t = s THEN "open" ELSE OfferOf(t)
  BY <1>2 DEF Create, OfferOf
<1>5. \A t \in Shares : /\ maxUses'[t] = IF t = s THEN n ELSE maxUses[t]
                        /\ usedCount'[t] = IF t = s THEN 0 ELSE usedCount[t]
  BY DEF Create, TypeOK
<1>6. n - 0 = n
  BY MaxUsesAssumption
<1>7. UNCHANGED <<members, ejected, accounts>>
  BY DEF Create
<1> QED BY <1>1, <1>2, <1>3, <1>4, <1>5, <1>6, <1>7 DEF Grants!Issue

LEMMA RefinesCommitRedeem ==
  ASSUME Inv, NEW q \in inflight, CommitRedeem(q)
  PROVE  Grants!Join(q.share, q.user) \/ UNCHANGED Grants!vars
<1> USE DEF Inv
<1>1. q.share \in Shares /\ q.user \in Users
  BY InflightTyped
<1>2. \A t \in Shares : Live(t)' = Live(t) /\ OfferOf(t)' = OfferOf(t)
  BY DEF CommitRedeem, Live, Exists, OfferOf
<1>3. \A t \in Shares :
         /\ usedCount'[t] = IF t = q.share THEN usedCount[t] + 1 ELSE usedCount[t]
         /\ members'[t] = IF t = q.share THEN members[t] \cup {q.user} ELSE members[t]
         /\ usedCount[t] \in Nat /\ maxUses[t] \in Nat
  BY <1>1 DEF CommitRedeem, TypeOK
<1>4. UNCHANGED <<ejected, accounts, maxUses>>
  BY DEF CommitRedeem
<1>5. CASE ~Live(q.share)
  BY <1>1, <1>2, <1>3, <1>4, <1>5 DEF Grants!vars
<1>6. CASE Live(q.share)
  <2>1. OfferOf(q.share) = "open"
    BY <1>1, <1>6 DEF OfferOf, Live, NoOrphanRows
  <2>2. maxUses[q.share] - usedCount[q.share] > 0
    BY <1>1, <1>3 DEF CommitRedeem, SeatStillFree, SeatFree
  <2>3. q.user \notin members[q.share] /\ q.user \notin ejected[q.share]
    BY <1>1 DEF CommitRedeem, NoRow, NoOrphanRows
  <2>4. \A a, b \in Nat : a - (b + 1) = (a - b) - 1
    OBVIOUS
  <2>5. q.user \in accounts
    BY DEF CommitRedeem
  <2>6. (members[q.share] \cup {q.user}) \ ejected[q.share] = (members[q.share] \ ejected[q.share]) \cup {q.user}
    BY <2>3
  <2>7. [s \in Shares |-> IF Live(s)' THEN maxUses'[s] - usedCount'[s] ELSE 0]
          = [[s \in Shares |-> IF Live(s) THEN maxUses[s] - usedCount[s] ELSE 0]
               EXCEPT ![q.share] = @ - 1]
    <3> DEFINE Free(s) == IF Live(s) THEN maxUses[s] - usedCount[s] ELSE 0
    <3>1. ASSUME NEW s \in Shares, s # q.share PROVE Free(s)' = Free(s)
      BY <1>2, <1>3, <1>4, <3>1
    <3>2. Free(q.share)' = Free(q.share) - 1
      <4>1. /\ usedCount[q.share] \in Nat /\ maxUses[q.share] \in Nat
            /\ usedCount'[q.share] = usedCount[q.share] + 1
            /\ maxUses'[q.share] = maxUses[q.share]
        BY <1>1, <1>3, <1>4
      <4>2. Free(q.share)' = maxUses'[q.share] - usedCount'[q.share]
        BY <1>1, <1>2, <1>6
      <4>3. Free(q.share) = maxUses[q.share] - usedCount[q.share]
        BY <1>6
      <4> QED BY <2>4, <4>1, <4>2, <4>3
    <3> HIDE DEF Free
    <3>3. [s \in Shares |-> Free(s)'] = [[s \in Shares |-> Free(s)] EXCEPT ![q.share] = @ - 1]
      BY <1>1, <3>1, <3>2
    <3> QED BY <3>3 DEF Free
  <2>8. [s \in Shares |-> IF Live(s)' THEN members'[s] \ ejected'[s] ELSE {}]
          = [[s \in Shares |-> IF Live(s) THEN members[s] \ ejected[s] ELSE {}]
               EXCEPT ![q.share] = @ \cup {q.user}]
    BY <1>1, <1>2, <1>3, <1>4, <1>6, <2>6
  <2>9. /\ [s \in Shares |-> OfferOf(s)'] = [s \in Shares |-> OfferOf(s)]
        /\ [s \in Shares |-> IF Live(s)' THEN ejected'[s] ELSE {}]
             = [s \in Shares |-> IF Live(s) THEN ejected[s] ELSE {}]
    BY <1>2, <1>4
  <2> QED BY <1>1, <1>4, <1>6, <2>1, <2>2, <2>3, <2>5, <2>7, <2>8, <2>9
      DEF Grants!Join
<1> QED BY <1>5, <1>6

LEMMA RefinesCommitRevoke ==
  ASSUME Inv, NEW q \in inflight, CommitRevoke(q)
  PROVE  Grants!Close(q.share) \/ UNCHANGED Grants!vars
<1> USE DEF Inv
<1>1. q.share \in Shares /\ q.share \in issued /\ Exists(q.share)
  BY InflightTyped DEF CommitRevoke, NoOrphanRows
<1>2. \A t \in Shares : /\ Live(t)' = (Live(t) /\ t # q.share)
                        /\ t # q.share => OfferOf(t)' = OfferOf(t)
  BY DEF CommitRevoke, Live, Exists, OfferOf
<1>3. OfferOf(q.share)' = "closed"
  BY <1>1, <1>2 DEF CommitRevoke, OfferOf
<1>4. /\ UNCHANGED <<members, maxUses, usedCount, accounts>>
      /\ \A t \in Shares \ {q.share} : ejected'[t] = ejected[t]
  BY DEF CommitRevoke, TypeOK
<1>5. CASE ~Live(q.share)
  <2>1. OfferOf(q.share) = "closed"
    BY <1>1, <1>5 DEF OfferOf
  <2> QED BY <1>1, <1>2, <1>3, <1>4, <1>5, <2>1 DEF Grants!vars
<1>6. CASE Live(q.share)
  <2>1. OfferOf(q.share) = "open"
    BY <1>1, <1>6 DEF OfferOf
  <2> QED BY <1>1, <1>2, <1>3, <1>4, <1>6, <2>1 DEF Grants!Close
<1> QED BY <1>5, <1>6

LEMMA RefinesCommitEject ==
  ASSUME Inv, NEW q \in inflight, CommitEject(q)
  PROVE  Grants!Eject(q.share, q.user) \/ UNCHANGED Grants!vars
<1> USE DEF Inv
<1>1. /\ q.share \in Shares /\ q.user \in Users
      /\ q.user \in members[q.share]
  BY InflightTyped DEF CommitEject
<1>2. \A t \in Shares : Live(t)' = Live(t) /\ OfferOf(t)' = OfferOf(t)
  BY DEF CommitEject, Live, Exists, OfferOf
<1>3. \A t \in Shares :
         ejected'[t] = IF t = q.share THEN ejected[t] \cup {q.user} ELSE ejected[t]
  BY <1>1 DEF CommitEject, TypeOK
<1>4. UNCHANGED <<members, maxUses, usedCount, accounts>>
  BY DEF CommitEject
<1>5. CASE ~Live(q.share) \/ q.user \in ejected[q.share]
  BY ZenonT(60), <1>1, <1>2, <1>3, <1>4, <1>5 DEF Grants!vars
<1>6. CASE Live(q.share) /\ q.user \notin ejected[q.share]
  <2>1. OfferOf(q.share) = "open"
    BY <1>1, <1>6 DEF OfferOf, Live, NoOrphanRows
  <2>2. members[q.share] \ (ejected[q.share] \cup {q.user}) = (members[q.share] \ ejected[q.share]) \ {q.user}
    OBVIOUS
  <2> QED BY <1>1, <1>2, <1>3, <1>4, <1>6, <2>1, <2>2 DEF Grants!Eject
<1> QED BY <1>5, <1>6

LEMMA RefinesDeleteAccount ==
  ASSUME Inv, NEW u \in Users, DeleteAccount(u)
  PROVE  Grants!Depart(u, {s \in SharesOf(u) : Live(s)})
<1> USE DEF Inv
<1> DEFINE S == {s \in SharesOf(u) : Live(s)}
<1>1. ASSUME NEW s \in Shares
      PROVE  /\ Live(s)' = (Live(s) /\ s \notin SharesOf(u))
             /\ OfferOf(s)' = IF s \in S THEN "closed" ELSE OfferOf(s)
             /\ s \in S => OfferOf(s) = "open"
  BY DEF DeleteAccount, Live, Exists, OfferOf, SharesOf, NoOrphanRows
<1>2. ASSUME NEW s \in Shares \ SharesOf(u)
      PROVE  /\ maxUses'[s] = maxUses[s] /\ usedCount'[s] = usedCount[s]
             /\ members'[s] = members[s] \ {u} /\ ejected'[s] = ejected[s] \ {u}
  BY DEF DeleteAccount
<1>3. u \in accounts /\ Users \ accounts' = (Users \ accounts) \cup {u}
  BY DEF DeleteAccount
<1>4. \A s \in Shares :
         (IF Live(s)' THEN maxUses'[s] - usedCount'[s] ELSE 0)
           = IF s \in S THEN 0 ELSE IF Live(s) THEN maxUses[s] - usedCount[s] ELSE 0
  BY <1>1, <1>2
<1>5. \A s \in Shares :
         /\ (IF Live(s)' THEN members'[s] \ ejected'[s] ELSE {})
              = IF s \in S THEN {} ELSE (IF Live(s) THEN members[s] \ ejected[s] ELSE {}) \ {u}
         /\ (IF Live(s)' THEN ejected'[s] ELSE {})
              = IF s \in S THEN {} ELSE (IF Live(s) THEN ejected[s] ELSE {}) \ {u}
  BY <1>1, <1>2
<1>6. S \subseteq Shares
  BY DEF SharesOf
<1> QED BY <1>1, <1>3, <1>4, <1>5, <1>6 DEF Grants!Depart

LEMMA RefinesNext == Inv /\ [Next]_vars => [Grants!Next]_(Grants!vars)
<1> SUFFICES ASSUME Inv, [Next]_vars PROVE [Grants!Next]_(Grants!vars)
  OBVIOUS
<1>1. ASSUME NEW s \in Shares, NEW u \in Users, NEW e \in Scope,
             NEW n \in 1..MaxUses, NEW x \in Expiry, Create(s, u, e, n, x)
      PROVE  Grants!Next
  BY <1>1, RefinesCreate DEF Grants!Next
<1>2. ASSUME NEW q \in inflight, CommitRedeem(q)
      PROVE  [Grants!Next]_(Grants!vars)
  BY <1>2, RefinesCommitRedeem, InflightTyped DEF Grants!Next, Inv
<1>3. ASSUME NEW q \in inflight, CommitRevoke(q)
      PROVE  [Grants!Next]_(Grants!vars)
  BY <1>3, RefinesCommitRevoke, InflightTyped DEF Grants!Next, Inv
<1>4. ASSUME NEW q \in inflight, CommitEject(q)
      PROVE  [Grants!Next]_(Grants!vars)
  BY <1>4, RefinesCommitEject, InflightTyped DEF Grants!Next, Inv
<1>5. ASSUME NEW u \in Users, DeleteAccount(u) PROVE Grants!Next
  <2>1. PICK S \in SUBSET Shares : Grants!Depart(u, S)
    <3> DEFINE T == {s \in SharesOf(u) : Live(s)}
    <3>1. T \in SUBSET Shares
      BY DEF SharesOf
    <3>2. Grants!Depart(u, T)
      BY <1>5, RefinesDeleteAccount
    <3> HIDE DEF T
    <3> QED BY <3>1, <3>2 DEF Grants!Depart
  <2> QED BY <2>1 DEF Grants!Next
<1>6. CASE UNCHANGED <<issued, shareOwner, revoked, maxUses, usedCount, members,
                       ejected, accounts>>
  BY <1>6, Stutter
<1> QED
  BY <1>1, <1>2, <1>3, <1>4, <1>5, <1>6
  DEF Next, vars, shareVars, Lapse, BeginRedeem, BeginRevoke, BeginEject,
      Submit, Rollback, DeleteCollection

\* Sharing implements ShareGrants.
THEOREM Refinement == Spec => ImplementsShareGrants
BY InvInvariant, RefinesInit, RefinesNext, PTL DEF Spec, ImplementsShareGrants, Grants!Spec

-----------------------------------------------------------------------------
(***************************************************************************)
(* What the lists and the guards of SharedReading say is true of every     *)
(* state the inductive invariant allows.                                   *)
(***************************************************************************)
\* A collection in a received share exists, and is its issuer's, who is not
\* the member.
LEMMA ReceivedIsOwnedByIssuer ==
  ASSUME Inv, NEW u \in Users, NEW s \in Received(u), NEW c \in Exposed(entries[s])
  PROVE  /\ s \in Shares /\ c \in Collections
         /\ collectionOwner[c] = shareOwner[s]
         /\ collectionOwner[c] \in Users
         /\ collectionOwner[c] # u
<1>1. s \in Shares /\ c \in Collections /\ u \in members[s]
  BY DEF Received, ActiveMembers, Exposed
<1>2. Exists(s) /\ collectionOwner[c] = shareOwner[s]
  BY <1>1 DEF Inv, EntriesBelongToIssuer
<1>3. collectionOwner[c] \in Users
  BY <1>1, <1>2 DEF Inv, TypeOK, Exists
<1>4. shareOwner[s] # u
  BY <1>1 DEF Inv, EntriesBelongToIssuer
<1> QED BY <1>1, <1>2, <1>3, <1>4

\* What resolveAccess finds, starting from the entries, are the shares
\* listReceived finds, starting from the memberships.
LEMMA ReceivedAreGranting == ASSUME NEW u \in Users PROVE Received(u) = Granting(u)
BY DEF Received, Granting, ActiveMembers

LEMMA ListIsAccess ==
  ASSUME Inv, NEW u \in Users, NEW c \in Collections, collectionOwner[c] # u
  PROVE  ReceivedOf(u, c) = Access(u, c)
<1>1. CASE collectionOwner[c] = NoUser
  <2>1. \A s \in Received(u) : entries[s][c] = {}
    <3> SUFFICES ASSUME NEW s \in Received(u), entries[s][c] # {} PROVE FALSE
      OBVIOUS
    <3>1. c \in Exposed(entries[s])
      BY DEF Exposed
    <3> QED BY <3>1, <1>1, ReceivedIsOwnedByIssuer, NoUserAssumption
  <2>2. ReceivedOf(u, c) = {}
    BY <2>1 DEF ReceivedOf
  <2> QED BY <1>1, <2>2 DEF Access
<1>2. CASE collectionOwner[c] # NoUser
  BY <1>2, ReceivedAreGranting DEF Access, ReceivedOf
<1> QED BY <1>1, <1>2

LEMMA ReceivedMatches == Inv => ReceivedMatchesAccess
<1> SUFFICES ASSUME Inv PROVE ReceivedMatchesAccess
  OBVIOUS
<1>1. ASSUME NEW u \in Users, NEW c \in Collections
      PROVE  StatusesOf(u, c) = IF c \in Owned(u) THEN Statuses ELSE ReceivedOf(u, c)
  <2>1. CASE collectionOwner[c] = u
    BY <2>1 DEF StatusesOf, Role, Owned
  <2>2. CASE collectionOwner[c] # u
    BY <2>2, ListIsAccess DEF StatusesOf, Role, Owned
  <2> QED BY <2>1, <2>2
<1>2. ASSUME NEW u \in Users, NEW s \in Shares
      PROVE  s \in Received(u) <=> Status(UpdateMembershipLabel(u, s)) = "ok"
  BY DEF Received, UpdateMembershipLabel, Status, mapException
<1> QED BY <1>1, <1>2 DEF ReceivedMatchesAccess

LEMMA OwnerSees == Inv => OwnerSeesWhoReads
<1> SUFFICES ASSUME Inv, NEW u \in Users, NEW c \in Collections, Role(u, c) = "shared"
             PROVE  \E s \in IssuedOf(collectionOwner[c], c) :
                      /\ u \in View(s).members
                      /\ \A P \in SUBSET Users, op \in {"list", "revoke", "revokeMember", "updateLabel"} :
                           Answer(ShareRoutes[op], P, collectionOwner[c], c) = "ok"
                      /\ Status(UpdateLabel(collectionOwner[c], s)) = "ok"
                      /\ \E x \in ExportedShares(collectionOwner[c]) :
                           x.share = s /\ c \in Exposed(x.collections) /\ u \in x.members \ x.withdrawn
                      /\ \E x \in ExportedMemberships(u) :
                           x.share = s /\ c \in Exposed(x.collections) /\ ~x.withdrawn
  BY DEF OwnerSeesWhoReads
<1>1. collectionOwner[c] # u /\ Access(u, c) # {}
  BY DEF Role
<1>2. ReceivedOf(u, c) # {}
  BY <1>1, ListIsAccess
<1>3. PICK s \in Received(u) : entries[s][c] # {}
  BY <1>2 DEF ReceivedOf
<1>4. c \in Exposed(entries[s])
  BY <1>3 DEF Exposed
<1>5. s \in Shares /\ collectionOwner[c] = shareOwner[s]
  BY <1>4, ReceivedIsOwnedByIssuer
<1>6. s \in IssuedOf(collectionOwner[c], c)
  BY <1>3, <1>4, <1>5 DEF IssuedOf, Issued, Received
<1>7. u \in members[s] /\ u \notin ejected[s]
  BY DEF Received, ActiveMembers
<1>8. u \in View(s).members
  BY <1>7 DEF View, ActiveMembers
<1>9. \A P \in SUBSET Users, op \in {"list", "revoke", "revokeMember", "updateLabel"} :
        Answer(ShareRoutes[op], P, collectionOwner[c], c) = "ok"
  BY DEF Answer, ShareRoutes, Status
<1>10. Status(UpdateLabel(collectionOwner[c], s)) = "ok"
  BY <1>5 DEF UpdateLabel, Status
<1>11. \E x \in ExportedShares(collectionOwner[c]) :
         x.share = s /\ c \in Exposed(x.collections) /\ u \in x.members \ x.withdrawn
  <2> DEFINE x == [share |-> s, collections |-> entries[s], members |-> members[s],
                   withdrawn |-> ejected[s]]
  <2>1. x \in ExportedShares(collectionOwner[c])
    BY <1>5 DEF ExportedShares
  <2>2. x.share = s /\ x.collections = entries[s] /\ x.members = members[s] /\ x.withdrawn = ejected[s]
    OBVIOUS
  <2> HIDE DEF x
  <2> QED BY <2>1, <2>2, <1>4, <1>7
<1>12. \E x \in ExportedMemberships(u) :
         x.share = s /\ c \in Exposed(x.collections) /\ ~x.withdrawn
  <2> DEFINE x == [share |-> s, collections |-> entries[s], withdrawn |-> u \in ejected[s]]
  <2>1. x \in ExportedMemberships(u)
    BY <1>5, <1>7 DEF ExportedMemberships
  <2>2. x.share = s /\ x.collections = entries[s] /\ (x.withdrawn <=> u \in ejected[s])
    OBVIOUS
  <2> HIDE DEF x
  <2> QED BY <2>1, <2>2, <1>4, <1>7
<1> QED BY <1>6, <1>8, <1>9, <1>10, <1>11, <1>12

LEMMA MembersRead == Inv => MembersReadAndNeverWrite
<1> SUFFICES ASSUME Inv, NEW u \in Users, NEW s \in Received(u), NEW c \in Exposed(entries[s]),
                    NEW P \in SUBSET Users,
                    NEW routes \in {ItemRoutes, NodeRoutes, CollectionRoutes},
                    NEW op \in DOMAIN routes
             PROVE  Answer(routes[op], P, u, c) =
                      IF op \in Mutating THEN "403" ELSE IF shareOwner[s] \in P THEN "ok" ELSE "402"
  BY DEF MembersReadAndNeverWrite
<1>1. /\ c \in Collections /\ entries[s][c] # {}
      /\ collectionOwner[c] = shareOwner[s] /\ collectionOwner[c] # u
  BY ReceivedIsOwnedByIssuer DEF Exposed
<1>2. Access(u, c) # {}
  <2>1. ReceivedOf(u, c) # {}
    BY <1>1 DEF ReceivedOf
  <2> QED BY <1>1, <2>1, ListIsAccess
<1>3. Role(u, c) = "shared"
  BY <1>1, <1>2 DEF Role
<1>4. CollectionWriteGuard(P, u, c) = "Forbidden"
  BY <1>3 DEF CollectionWriteGuard
<1>5. CollectionPremiumGuard(P, u, c) = IF shareOwner[s] \in P THEN "ok" ELSE "PaymentRequired"
  BY <1>1, <1>3 DEF CollectionPremiumGuard, PremiumGuard
<1>6. routes[op] = IF op \in Mutating THEN "write" ELSE "read"
  BY DEF ItemRoutes, NodeRoutes, CollectionRoutes, Mutating
<1>7. Status("ok") = "ok" /\ Status("Forbidden") = "403" /\ Status("PaymentRequired") = "402"
  BY DEF Status, mapException
<1> QED BY <1>4, <1>5, <1>6, <1>7 DEF Answer

\* GET /shares/received and the collections' own routes tell a member the same.
THEOREM ListsAgree == Spec => []ReceivedMatchesAccess
BY InvInvariant, ReceivedMatches, PTL

\* Nobody reads a collection out of its owner's sight or reach.
THEOREM ReadersAreSeen == Spec => []OwnerSeesWhoReads
BY InvInvariant, OwnerSees, PTL

\* A member reads by his owner's premium and never writes, on any route.
THEOREM MembersOnlyRead == Spec => []MembersReadAndNeverWrite
BY InvInvariant, MembersRead, PTL
=============================================================================
