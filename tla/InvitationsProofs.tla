-------------------------- MODULE InvitationsProofs --------------------------
(***************************************************************************)
(* Theorems about Invitations, for any number of users, codes, uses and    *)
(* redeems in flight, and any dates.                                       *)
(***************************************************************************)
EXTENDS Invitations, FiniteSetTheorems, TLAPS

\* Only a code that was created is used or claimed, and not beyond its uses;
\* that outlives its row.
ClaimsOfIssued ==
  \A c \in Codes :
    /\ uses[c] # Null => issued[c] # Null
    /\ issued[c] = Null => claimed[c] = {}
    /\ issued[c] # Null => Cardinality(claimed[c]) <= issued[c].maxUses

\* The row that stops a second claim is there as long as code and account are.
ClaimsLeaveRows ==
  \A c \in Codes : uses[c] # Null => claimed[c] \cap accounts \subseteq redemptions[c]

\* A grant by a code is to a user who claimed it, and of a code that grants.
GrantsAreClaims ==
  \A u \in Users : grants[u] # Null /\ grants[u].grantedBy \in Codes =>
    /\ u \in claimed[grants[u].grantedBy]
    /\ issued[grants[u].grantedBy] # Null
    /\ issued[grants[u].grantedBy].grantsPremium

\* A redeem in flight found the code it redeems.
RequestsKnow == \A q \in inflight : issued[q.code] # Null

\* The inductive invariant.
Inv == TypeOK /\ UsesAreClaims /\ ClaimsOfIssued /\ ClaimsLeaveRows
       /\ GrantsAreClaims /\ RequestsKnow

-----------------------------------------------------------------------------
LEMMA InitInv == Init => Inv
BY FS_EmptySet, BoundsAssumption DEF Init, Inv, TypeOK, UsesAreClaims, ClaimsOfIssued, ClaimsLeaveRows,
   GrantsAreClaims, RequestsKnow

LEMMA TickKeeps == Inv /\ Tick => Inv'
BY BoundsAssumption DEF Tick, Inv, TypeOK, UsesAreClaims, ClaimsOfIssued, ClaimsLeaveRows,
   GrantsAreClaims, RequestsKnow

LEMMA RollbackKeeps == ASSUME Inv, NEW q \in inflight, Rollback(q) PROVE Inv'
BY DEF Rollback, Inv, TypeOK, UsesAreClaims, ClaimsOfIssued, ClaimsLeaveRows,
   GrantsAreClaims, RequestsKnow

LEMMA BeginKeeps ==
  ASSUME Inv, NEW r \in Requests, NEW c \in Codes, NEW u \in Users, BeginRedeem(r, c, u)
  PROVE  Inv'
<1>1. TypeOK'
  <2>1. (grants[u] # Null) \in BOOLEAN
    OBVIOUS
  <2>2. \A b \in BOOLEAN : [id |-> r, code |-> c, user |-> u, granted |-> b] \in Request
    BY DEF Request
  <2>3. inflight' \subseteq Request
    BY <2>1, <2>2 DEF BeginRedeem, Inv, TypeOK
  <2> QED BY <2>3 DEF BeginRedeem, Inv, TypeOK
<1>2. RequestsKnow'
  BY DEF BeginRedeem, Inv, RequestsKnow, ClaimsOfIssued
<1> QED
  BY <1>1, <1>2 DEF BeginRedeem, Inv, UsesAreClaims, ClaimsOfIssued, ClaimsLeaveRows,
     GrantsAreClaims

\* Nobody has claimed a code that does not exist yet.
LEMMA CreateKeeps ==
  ASSUME Inv, NEW c \in Codes, NEW i \in Invitation, Create(c, i)
  PROVE  Inv'
<1> USE DEF Create, Inv
<1>1. \A d \in Codes : /\ issued'[d] = IF d = c THEN i ELSE issued[d]
                       /\ uses'[d] = IF d = c THEN 0 ELSE uses[d]
  BY DEF TypeOK
<1>2. /\ claimed[c] = {} /\ Cardinality(claimed[c]) = 0
      /\ i # Null /\ i.maxUses \in Nat /\ 0 <= i.maxUses
  <2>1. i.maxUses \in 1..MaxUses
    BY DEF Invitation
  <2>2. i.maxUses \in Nat /\ 0 <= i.maxUses
    BY <2>1, BoundsAssumption
  <2>3. i # Null
    BY NullAssumption
  <2>4. claimed[c] = {} /\ Cardinality(claimed[c]) = 0
    BY FS_EmptySet DEF ClaimsOfIssued
  <2> QED BY <2>2, <2>3, <2>4
<1>3. TypeOK'
  <2>1. \A d \in Codes : uses'[d] # Null => uses'[d] <= issued'[d].maxUses
    BY <1>1, <1>2 DEF TypeOK
  <2> QED BY <2>1 DEF TypeOK
<1>4. UsesAreClaims' /\ ClaimsOfIssued'
  <2>1. claimed' = claimed
    OBVIOUS
  <2>2. UsesAreClaims'
    BY <1>1, <1>2, <2>1 DEF UsesAreClaims
  <2>3. ClaimsOfIssued'
    BY <1>1, <1>2, <2>1 DEF ClaimsOfIssued
  <2> QED BY <2>2, <2>3
<1>5. ClaimsLeaveRows' /\ RequestsKnow'
  BY <1>1, <1>2 DEF ClaimsLeaveRows, RequestsKnow, TypeOK, Request
<1>6. GrantsAreClaims'
  BY <1>1, <1>2 DEF GrantsAreClaims
<1> QED BY <1>3, <1>4, <1>5, <1>6

\* A claim that commits is a new one: the row of an earlier one would be there.
LEMMA CommitKeeps ==
  ASSUME Inv, NEW q \in inflight, CommitRedeem(q)
  PROVE  Inv'
<1> USE DEF CommitRedeem, Inv
<1> DEFINE c == q.code
           u == q.user
<1>1. c \in Codes /\ u \in Users /\ issued[c] # Null /\ issued[c] \in Invitation
  BY DEF TypeOK, Request, RequestsKnow
<1>2. /\ uses[c] \in Nat /\ uses[c] # Null
      /\ uses[c] < issued[c].maxUses /\ issued[c].maxUses \in 1..MaxUses
  BY <1>1 DEF TypeOK, UseLeft, Invitation
<1>3. u \notin claimed[c]
  BY <1>1, <1>2 DEF ClaimsLeaveRows, NotYetRedeemed
<1>4. \A d \in Codes :
        /\ uses'[d] = IF d = c THEN uses[d] + 1 ELSE uses[d]
        /\ claimed'[d] = IF d = c THEN claimed[d] \cup {u} ELSE claimed[d]
        /\ redemptions'[d] = IF d = c THEN redemptions[d] \cup {u} ELSE redemptions[d]
  BY DEF TypeOK
<1>5. \A v \in Users : grants'[v] = IF v = u THEN GrantFrom(q) ELSE grants[v]
  BY DEF TypeOK
<1>6. IsFiniteSet(claimed[c])
  BY <1>1, UsersAssumption, FS_Subset DEF TypeOK
<1>7. Cardinality(claimed[c] \cup {u}) = uses[c] + 1
  <2>1. uses[c] = Cardinality(claimed[c])
    BY <1>1, <1>2 DEF UsesAreClaims
  <2> HIDE DEF c, u
  <2> QED BY <1>3, <1>6, <2>1, FS_AddElement
<1>8. GrantFrom(q) \in Grant \cup {Null}
  BY <1>1 DEF TypeOK, GrantFrom, Invitation, Grant
<1>9. /\ issued' = issued /\ accounts' = accounts
      /\ inflight' \subseteq inflight
  OBVIOUS
<1>15. TypeOK'
  <2>1. /\ uses' \in [Codes -> Nat \cup {Null}]
        /\ \A d \in Codes : uses'[d] # Null => uses'[d] <= issued'[d].maxUses
    BY <1>1, <1>2, <1>4, BoundsAssumption DEF TypeOK
  <2>2. grants' \in [Users -> Grant \cup {Null}]
    BY <1>8 DEF TypeOK
  <2> QED BY <2>1, <2>2, <1>1 DEF TypeOK
<1> HIDE DEF c, u, CommitRedeem
<1>10. UsesAreClaims'
  BY <1>1, <1>2, <1>4, <1>7, NullAssumption DEF UsesAreClaims
<1>11. ClaimsOfIssued'
  <2> SUFFICES ASSUME NEW d \in Codes
               PROVE  /\ uses'[d] # Null => issued[d] # Null
                      /\ issued[d] = Null => claimed'[d] = {}
                      /\ issued[d] # Null => Cardinality(claimed'[d]) <= issued[d].maxUses
    BY <1>9 DEF ClaimsOfIssued
  <2>1. CASE d = c
    <3>1. Cardinality(claimed'[c]) = uses[c] + 1
      BY <1>1, <1>4, <1>7
    <3>2. uses[c] + 1 <= issued[c].maxUses
      BY <1>2
    <3> QED BY <2>1, <3>1, <3>2, <1>1
  <2>2. CASE d # c
    BY <2>2, <1>4 DEF ClaimsOfIssued
  <2> QED BY <2>1, <2>2
<1>12. ClaimsLeaveRows'
  BY <1>1, <1>2, <1>4, <1>9 DEF ClaimsLeaveRows
<1>13. GrantsAreClaims'
  <2> SUFFICES ASSUME NEW v \in Users, grants'[v] # Null, grants'[v].grantedBy \in Codes
               PROVE  /\ v \in claimed'[grants'[v].grantedBy]
                      /\ issued[grants'[v].grantedBy] # Null
                      /\ issued[grants'[v].grantedBy].grantsPremium
    BY <1>9 DEF GrantsAreClaims
  <2>1. CASE grants'[v] = grants[v]
    BY ZenonT(60), <2>1, <1>4 DEF GrantsAreClaims
  <2>2. CASE grants'[v] # grants[v]
    <3>1. /\ v = u /\ issued[c].grantsPremium
          /\ grants'[v].grantedBy = c
      BY <2>2, <1>5 DEF GrantFrom, c, u
    <3> QED BY <3>1, <1>1, <1>4
  <2> QED BY <2>1, <2>2
<1>14. RequestsKnow'
  BY <1>9 DEF RequestsKnow
<1> QED BY <1>15, <1>10, <1>11, <1>12, <1>13, <1>14

LEMMA PurgeKeeps == Inv /\ PurgeExpired => Inv'
<1> SUFFICES ASSUME Inv, PurgeExpired PROVE Inv'
  OBVIOUS
<1> USE DEF PurgeExpired, Inv
<1>1. \A c \in Codes : uses'[c] # Null => /\ uses'[c] = uses[c]
                                          /\ redemptions'[c] = redemptions[c]
  OBVIOUS
<1>2. TypeOK'
  BY DEF TypeOK
<1> QED
  BY <1>1, <1>2 DEF UsesAreClaims, ClaimsOfIssued, ClaimsLeaveRows, GrantsAreClaims,
     RequestsKnow

LEMMA GrantAddKeeps ==
  ASSUME Inv, NEW u \in Users, NEW e \in Date, GrantAdd(u, e)
  PROVE  Inv'
<1> USE DEF GrantAdd, Inv
<1>1. TypeOK'
  BY DEF TypeOK, Grant
<1>2. GrantsAreClaims'
  BY CliAssumption DEF TypeOK, GrantsAreClaims
<1> QED
  BY <1>1, <1>2 DEF UsesAreClaims, ClaimsOfIssued, ClaimsLeaveRows, RequestsKnow

LEMMA GrantRevokeKeeps == ASSUME Inv, NEW u \in Users, GrantRevoke(u) PROVE Inv'
BY DEF GrantRevoke, Inv, TypeOK, UsesAreClaims, ClaimsOfIssued, ClaimsLeaveRows,
   GrantsAreClaims, RequestsKnow

LEMMA DeleteKeeps == ASSUME Inv, NEW u \in Users, DeleteAccount(u) PROVE Inv'
<1> USE DEF DeleteAccount, Inv
<1>1. TypeOK'
  BY DEF TypeOK
<1>2. ClaimsLeaveRows'
  BY DEF TypeOK, ClaimsLeaveRows
<1>3. GrantsAreClaims'
  BY DEF TypeOK, GrantsAreClaims
<1> QED
  BY <1>1, <1>2, <1>3 DEF UsesAreClaims, ClaimsOfIssued, RequestsKnow

LEMMA StutterKeeps == Inv /\ UNCHANGED vars => Inv'
BY DEF vars, Inv, TypeOK, UsesAreClaims, ClaimsOfIssued, ClaimsLeaveRows,
   GrantsAreClaims, RequestsKnow

LEMMA StepInv == Inv /\ [Next]_vars => Inv'
BY TickKeeps, RollbackKeeps, BeginKeeps, CreateKeeps, CommitKeeps, PurgeKeeps,
   GrantAddKeeps, GrantRevokeKeeps, DeleteKeeps, StutterKeeps DEF Next

\* The invariant all the others are read from.
THEOREM InvInvariant == Spec => []Inv
BY InitInv, StepInv, PTL DEF Spec

-----------------------------------------------------------------------------
\* Every table keeps its shape.
THEOREM TypeCorrect == Spec => []TypeOK
<1>1. Inv => TypeOK
  BY DEF Inv
<1> QED BY <1>1, InvInvariant, PTL

\* used_count counts the users who claimed, whatever races and is deleted.
THEOREM UsesCountClaims == Spec => []UsesAreClaims
<1>1. Inv => UsesAreClaims
  BY DEF Inv
<1> QED BY <1>1, InvInvariant, PTL

\* A code never makes more users premium than it has uses, purged or not.
THEOREM GrantsBounded == Spec => []GrantsWithinUses
<1>1. Inv => GrantsWithinUses
  <2> SUFFICES ASSUME Inv, NEW c \in Codes, GrantedBy(c) # {}
               PROVE  /\ issued[c] # Null /\ issued[c].grantsPremium
                      /\ Cardinality(GrantedBy(c)) <= issued[c].maxUses
    BY DEF GrantsWithinUses
  <2>1. GrantedBy(c) \subseteq claimed[c] /\ issued[c] # Null /\ issued[c].grantsPremium
    BY DEF Inv, GrantsAreClaims, GrantedBy
  <2>2. IsFiniteSet(claimed[c])
    BY UsersAssumption, FS_Subset DEF Inv, TypeOK
  <2>3. /\ Cardinality(GrantedBy(c)) <= Cardinality(claimed[c])
        /\ Cardinality(GrantedBy(c)) \in Nat /\ Cardinality(claimed[c]) \in Nat
    BY <2>1, <2>2, FS_Subset, FS_CardinalityType
  <2>4. Cardinality(claimed[c]) <= issued[c].maxUses /\ issued[c].maxUses \in Nat
    BY <2>1, BoundsAssumption DEF Inv, ClaimsOfIssued, TypeOK, Invitation
  <2> QED BY <2>1, <2>3, <2>4
<1> QED BY <1>1, InvInvariant, PTL

-----------------------------------------------------------------------------
\* No redeem takes or shortens a grant in force, whichever race: the command line
\* and the deletion of the account alone do.
THEOREM GrantsKept == Spec => GrantsNeverWorsen
<1> DEFINE Kept == \A u \in accounts' : GrantActive(grants[u], clock) =>
                     \/ grants'[u] = grants[u]
                     \/ grants'[u] = Null /\ GrantRevoke(u)
                     \/ grants'[u] # Null /\ grants'[u].grantedBy = "cli"
<1>1. Inv /\ [Next]_vars => [Kept]_vars
  <2> SUFFICES ASSUME Inv, Next PROVE Kept
    BY DEF vars
  <2>1. grants \in [Users -> Grant \cup {Null}] /\ accounts \subseteq Users
    BY DEF Inv, TypeOK
  <2>2. ASSUME NEW q \in inflight, CommitRedeem(q) PROVE Kept
    <3>1. q.user \in Users
      BY DEF Inv, TypeOK, Request
    <3>2. GrantActive(grants[q.user], clock) => GrantFrom(q) = grants[q.user]
      BY <2>2 DEF CommitRedeem, GrantFrom, GrantActive
    <3> QED BY <2>1, <2>2, <3>1, <3>2 DEF CommitRedeem
  <2>3. ASSUME NEW u \in Users, NEW e \in Date, GrantAdd(u, e) PROVE Kept
    <3>1. \A v \in Users : grants'[v] = IF v = u THEN [expiresAt |-> e, grantedBy |-> "cli"]
                                                ELSE grants[v]
      BY <2>1, <2>3 DEF GrantAdd
    <3> SUFFICES ASSUME NEW v \in accounts', GrantActive(grants[v], clock)
                 PROVE  \/ grants'[v] = grants[v]
                        \/ grants'[v] # Null /\ grants'[v].grantedBy = "cli"
      OBVIOUS
    <3>2. v \in Users
      BY <2>1, <2>3 DEF GrantAdd
    <3>3. [expiresAt |-> e, grantedBy |-> "cli"] # Null
      BY NullAssumption DEF Grant
    <3> QED BY <3>1, <3>2, <3>3
  <2>4. ASSUME NEW u \in Users, GrantRevoke(u) PROVE Kept
    BY <2>1, <2>4 DEF GrantRevoke
  <2>5. ASSUME NEW u \in Users, DeleteAccount(u) PROVE Kept
    BY <2>1, <2>5 DEF DeleteAccount
  <2>6. ASSUME UNCHANGED grants PROVE Kept
    BY <2>6
  <2> HIDE DEF Kept
  <2> QED
    BY <2>2, <2>3, <2>4, <2>5, <2>6
    DEF Next, Tick, Create, BeginRedeem, Rollback, PurgeExpired
<1> QED BY <1>1, InvInvariant, PTL DEF Spec, GrantsNeverWorsen

\* What stops a second claim of a code stays until the code lapses or its user goes.
THEOREM TracesKept == Spec => TraceSurvives
<1> DEFINE Kept == \A c \in Codes, u \in accounts' :
                     u \in redemptions[c] /\ ~Lapsed(c) => u \in redemptions'[c]
<1>1. Inv /\ [Next]_vars => [Kept]_vars
  <2> SUFFICES ASSUME Inv, Next PROVE Kept
    BY DEF vars
  <2>1. redemptions \in [Codes -> SUBSET Users]
    BY DEF Inv, TypeOK
  <2>2. ASSUME NEW q \in inflight, CommitRedeem(q) PROVE Kept
    BY <2>1, <2>2 DEF CommitRedeem
  <2>3. ASSUME PurgeExpired PROVE Kept
    BY <2>1, <2>3 DEF PurgeExpired, Purged
  <2>4. ASSUME NEW u \in Users, DeleteAccount(u) PROVE Kept
    BY <2>1, <2>4 DEF DeleteAccount
  <2>5. ASSUME UNCHANGED redemptions PROVE Kept
    BY <2>5
  <2> HIDE DEF Kept
  <2> QED
    BY <2>2, <2>3, <2>4, <2>5
    DEF Next, Tick, Create, BeginRedeem, Rollback, GrantAdd, GrantRevoke
<1> QED BY <1>1, InvInvariant, PTL DEF Spec, TraceSurvives
=============================================================================
