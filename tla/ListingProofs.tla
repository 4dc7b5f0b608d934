---------------------------- MODULE ListingProofs ----------------------------
(***************************************************************************)
(* Theorems about Listing, for any library, any statuses, any number of    *)
(* writers and of writes, and pages of any length.                         *)
(***************************************************************************)
EXTENDS Listing, FiniteSetTheorems, WellFoundedInduction, TLAPS

\* A volume's series has a row.
Placed == \A i \in RowsOf("items") : nodeOf[i] \in rows \cup {None}

\* What was listed had a row, and comes before the row the next page starts
\* from, or is that row.
NotAhead == reader.cursor # None =>
  /\ reader.cursor \in Ids \ fresh
  /\ \A x \in listed \cup shown : x = reader.cursor \/ Before(x, reader.cursor)
Behind ==
  /\ (listed \cup shown) \cap fresh = {}
  /\ reader.pc \in {"granted", "scoped"} => shown = {} /\ (reader.cursor = None => listed = {})
  /\ reader.pc = "between" => reader.cursor # None
  /\ reader.pc = "idle" => reader.cursor = None /\ listed = {} /\ shown = {}
  /\ NotAhead

\* While a page is on its way, what may be shown has been seen: rows that were
\* visible, and rows younger than the request.
Watched ==
  /\ reader.pc \in {"granted", "scoped"} =>
       fresh \subseteq seen /\ Visible(reader.kind, reader.statuses) \subseteq seen
  /\ reader.pc = "scoped" =>
       /\ reader.where.form = "all" => Statuses \subseteq reader.statuses
       /\ reader.where.form = "except" => RowsOf(reader.kind) \ reader.where.ids \subseteq seen
       /\ reader.where.form = "only" =>
            /\ RowsOf(reader.kind) \cap reader.where.ids \subseteq seen
            /\ reader.where.wish => reader.kind = "nodes" /\ "WISHLIST" \in reader.statuses

\* A row that has been visible since the traversal began still is, and was
\* listed or comes after the row the next page starts from, unless that row was
\* lost; the filter, once it is resolved, lets it through.
Ahead(x) == reader.pc # "done" /\ (reader.cursor = None \/ Before(reader.cursor, x))
Selects(w, e) ==
  CASE w.form = "all"    -> TRUE
    [] w.form = "except" -> e[1] \notin w.ids
    [] w.form = "only"   -> \/ e[2] = "item" /\ e[1] \in w.ids
                            \/ e[2] = "wish" /\ w.wish
NoneMissed ==
  reader.pc # "idle" /\ ~lost => \A e \in steady : e[1] \in listed \cup shown \/ Ahead(e[1])
Steady ==
  /\ reader.pc = "idle" => steady = {}
  /\ steady \subseteq StandingNow
  /\ reader.pc = "scoped" => \A e \in steady : Selects(reader.where, e)

\* A PATCH is of a row that was there, and what it read of it still stands
\* unless another one was written.
Current ==
  \A p \in Patchers : patch[p] # None =>
    /\ patch[p].item \notin fresh
    /\ patch[p].alone => patch[p].read = userData[patch[p].item]

\* The inductive invariant.
Inv == TypeOK /\ Placed /\ Behind /\ NoRowTwice /\ Watched /\ OnlyVisibleShown
\* With what the two last theorems need.
IInv == Inv /\ Steady /\ NoneMissed /\ Current

USE IdsAssumption, StatusesAssumption, SameAssumption, BoundsAssumption, LibrariesAssumption

-----------------------------------------------------------------------------
(* The order of a list.                                                    *)

LEMMA LeastNat ==
  ASSUME NEW N, N \subseteq Nat, N # {}
  PROVE  \E n \in N : \A m \in N : n <= m
<1> DEFINE R == OpToRel(<, Nat)
<1>1. IsWellFoundedOn(R, Nat)
  BY NatLessThanWellFounded
<1>2. \A m, n \in Nat : m < n => <<m, n>> \in R
  BY DEF OpToRel
<1> HIDE DEF R
<1>3. PICK n \in N : \A m \in N : ~ (<<m, n>> \in R)
  BY <1>1, WFMin
<1>4. ASSUME NEW m \in N PROVE n <= m
  <2>1. m \in Nat /\ n \in Nat
    OBVIOUS
  <2>2. ~ (<<m, n>> \in R)
    BY <1>3
  <2>3. ~ (m < n)
    BY <1>2, <2>1, <2>2
  <2> QED BY <2>1, <2>3
<1> QED BY <1>4

LEMMA BeforeIsOrder ==
  ASSUME stamp \in [Ids -> Stamps], NEW x \in Ids, NEW y \in Ids
  PROVE  /\ ~Before(x, x)
         /\ Before(x, y) => ~Before(y, x)
         /\ x = y \/ Before(x, y) \/ Before(y, x)
         /\ \A z \in Ids : Before(x, y) /\ Before(y, z) => Before(x, z)
<1>1. \A u \in Ids : u \in Int /\ stamp[u] \in Nat
  OBVIOUS
<1> QED BY <1>1 DEF Before

\* Rows in any number have a first one, and a last one.
LEMMA FirstAndLast ==
  ASSUME stamp \in [Ids -> Stamps], NEW T \in SUBSET Ids, T # {}
  PROVE  /\ \E x \in T : \A y \in T : ~Before(y, x)
         /\ \E x \in T : \A y \in T : ~Before(x, y)
<1>1. IsFiniteSet(T)
  BY FS_Subset
<1>2. \E x \in T : \A y \in T : ~Before(x, y)
  <2> DEFINE after(x) == {y \in T : Before(x, y)}
  <2>1. \A x \in T : IsFiniteSet(after(x)) /\ Cardinality(after(x)) \in Nat
    BY <1>1, FS_Subset, FS_CardinalityType
  <2>2. PICK x \in T : \A y \in T : Cardinality(after(x)) <= Cardinality(after(y))
    <3> DEFINE size(x) == Cardinality(after(x))
               N == {size(x) : x \in T}
    <3>1. \A x \in T : size(x) \in Nat
      BY <2>1
    <3> HIDE DEF size
    <3>2. N \subseteq Nat /\ N # {}
      <4>1. PICK t \in T : TRUE
        OBVIOUS
      <4>2. size(t) \in N
        OBVIOUS
      <4>3. \A n \in N : n \in Nat
        BY <3>1
      <4> HIDE DEF N
      <4> QED BY <4>2, <4>3
    <3>3. \E n \in N : \A m \in N : n <= m
      <4> HIDE DEF N
      <4> QED BY <3>2, LeastNat
    <3>4. PICK x \in T : \A y \in T : size(x) <= size(y)
      BY <3>3
    <3> QED BY <3>4 DEF size
  <2>3. ASSUME NEW y \in T, Before(x, y) PROVE FALSE
    <3>1. after(y) \subseteq after(x) /\ y \in after(x) /\ y \notin after(y)
      BY <2>3, BeforeIsOrder
    <3>2. Cardinality(after(y)) <= Cardinality(after(x)) /\ Cardinality(after(y)) # Cardinality(after(x))
      BY <2>1, <3>1, FS_Subset
    <3> QED BY <2>1, <2>2, <3>2
  <2> QED BY <2>3
<1>3. \E x \in T : \A y \in T : ~Before(y, x)
  <2> DEFINE ahead(x) == {y \in T : Before(y, x)}
  <2>1. \A x \in T : IsFiniteSet(ahead(x)) /\ Cardinality(ahead(x)) \in Nat
    BY <1>1, FS_Subset, FS_CardinalityType
  <2>2. PICK x \in T : \A y \in T : Cardinality(ahead(x)) <= Cardinality(ahead(y))
    <3> DEFINE size(x) == Cardinality(ahead(x))
               N == {size(x) : x \in T}
    <3>1. \A x \in T : size(x) \in Nat
      BY <2>1
    <3> HIDE DEF size
    <3>2. N \subseteq Nat /\ N # {}
      <4>1. PICK t \in T : TRUE
        OBVIOUS
      <4>2. size(t) \in N
        OBVIOUS
      <4>3. \A n \in N : n \in Nat
        BY <3>1
      <4> HIDE DEF N
      <4> QED BY <4>2, <4>3
    <3>3. \E n \in N : \A m \in N : n <= m
      <4> HIDE DEF N
      <4> QED BY <3>2, LeastNat
    <3>4. PICK x \in T : \A y \in T : size(x) <= size(y)
      BY <3>3
    <3> QED BY <3>4 DEF size
  <2>3. ASSUME NEW y \in T, Before(y, x) PROVE FALSE
    <3>1. ahead(y) \subseteq ahead(x) /\ y \in ahead(x) /\ y \notin ahead(y)
      BY <2>3, BeforeIsOrder
    <3>2. Cardinality(ahead(y)) <= Cardinality(ahead(x)) /\ Cardinality(ahead(y)) # Cardinality(ahead(x))
      BY <2>1, <3>1, FS_Subset
    <3> QED BY <2>1, <2>2, <3>2
  <2> QED BY <2>3
<1> QED BY <1>2, <1>3

\* A page of some rows holds one of them, and has a last row.
LEMMA PageHasLast ==
  ASSUME stamp \in [Ids -> Stamps], NEW T \in SUBSET Ids, T # {}
  PROVE  LET data == First(Limit, T)
             last == CHOOSE x \in data : \A y \in data \ {x} : Before(y, x)
         IN  /\ data \subseteq T /\ last \in data
             /\ \A y \in data : y = last \/ Before(y, last)
<1> DEFINE data == First(Limit, T)
           last == CHOOSE x \in data : \A y \in data \ {x} : Before(y, x)
<1>1. data \subseteq T
  BY DEF First
<1>2. PICK x \in T : \A y \in T : ~Before(y, x)
  BY FirstAndLast
<1>3. {y \in T : Before(y, x)} = {}
  BY <1>2
<1>4. x \in data
  BY <1>3, FS_EmptySet DEF First
<1>5. PICK z \in data : \A y \in data : ~Before(z, y)
  BY <1>1, <1>4, FirstAndLast
<1>6. \A y \in data \ {z} : Before(y, z)
  BY <1>1, <1>5, BeforeIsOrder
<1>7. last \in data /\ \A y \in data \ {last} : Before(y, last)
  BY <1>6
<1> QED BY <1>1, <1>7

\* A page that goes on from a row starts after it.
LEMMA FromIsAfter ==
  ASSUME stamp \in [Ids -> Stamps], NEW matching \in SUBSET Ids, reader.cursor \in Ids
  PROVE  From(matching) \subseteq {x \in matching : Before(reader.cursor, x)}
<1> DEFINE c == reader.cursor
           at == {x \in matching : x = c \/ Before(c, x)}
<1>1. From(matching) \subseteq at \ First(1, at)
  BY DEF From
<1>2. ASSUME c \in at PROVE c \in First(1, at)
  <2>1. {y \in at : Before(y, c)} = {}
    BY BeforeIsOrder
  <2> QED BY <1>2, <2>1, FS_EmptySet DEF First
<1> QED BY <1>1, <1>2

-----------------------------------------------------------------------------
(* The writes.                                                             *)

TablesOK ==
  /\ rows \subseteq Ids /\ fresh \subseteq Ids \ rows
  /\ stamp \in [Ids -> Stamps]
  /\ userData \in [Items -> UserData]
  /\ nodeOf \in [Items -> Nodes \cup {None}]
  /\ wished \subseteq Nodes
  /\ exposed \subseteq Statuses
  /\ patch \in [Patchers -> Patch \cup {None}]
  /\ writes \in 0..MaxWrites

\* What a write does to a reader: rows come from the ids not given yet, and a
\* row keeps its stamp.
Written ==
  /\ TablesOK' /\ Placed'
  /\ rows' \ rows \subseteq fresh /\ fresh' \subseteq fresh
  /\ \A x \in Ids \ fresh : stamp'[x] = stamp[x]
  /\ UNCHANGED pages

LEMMA WriteCounts ==
  ASSUME writes \in 0..MaxWrites, Write
  PROVE  writes' \in 0..MaxWrites
BY DEF Write

LEMMA CreateItemWrites ==
  ASSUME TablesOK, Placed, NEW i \in Items, NEW s \in Stamps, NEW st \in Stored,
         NEW n \in Nodes \cup {None}, CreateItem(i, s, st, n)
  PROVE  Written
<1>1. /\ rows' = rows \cup {i} /\ fresh' = fresh \ {i} /\ stamp' = [stamp EXCEPT ![i] = s]
      /\ nodeOf' = [nodeOf EXCEPT ![i] = n] /\ userData' = [userData EXCEPT ![i].status = st]
      /\ UNCHANGED <<wished, exposed, patch, pages>> /\ i \in fresh /\ (n # None => n \in rows)
  BY DEF CreateItem, Born
<1>2. userData' \in [Items -> UserData]
  BY <1>1 DEF TablesOK, UserData
<1>3. TablesOK'
  BY <1>1, <1>2, WriteCounts DEF TablesOK, CreateItem, Ids
<1>4. Placed'
  BY <1>1 DEF TablesOK, Placed, RowsOf
<1>5. \A x \in Ids \ fresh : stamp'[x] = stamp[x]
  BY <1>1 DEF TablesOK
<1> QED BY <1>1, <1>3, <1>4, <1>5 DEF Written

LEMMA CreateNodeWrites ==
  ASSUME TablesOK, Placed, NEW n \in Nodes, NEW s \in Stamps, NEW w \in BOOLEAN,
         CreateNode(n, s, w)
  PROVE  Written
<1>1. /\ rows' = rows \cup {n} /\ fresh' = fresh \ {n} /\ stamp' = [stamp EXCEPT ![n] = s]
      /\ wished' \subseteq wished \cup {n}
      /\ UNCHANGED <<userData, nodeOf, exposed, patch, pages>> /\ n \in fresh
  BY DEF CreateNode, Born
<1>2. TablesOK'
  BY <1>1, WriteCounts DEF TablesOK, CreateNode, Ids
<1>3. Placed'
  BY <1>1 DEF TablesOK, Placed, RowsOf
<1>4. \A x \in Ids \ fresh : stamp'[x] = stamp[x]
  BY <1>1 DEF TablesOK
<1> QED BY <1>1, <1>2, <1>3, <1>4 DEF Written

\* A series that is purged has no volume left.
LEMMA PurgeIsOfEmpty ==
  ASSUME NEW n, NEW left
  PROVE  Purged(n, left) \subseteq Nodes \cap {n} /\ (left # {} => Purged(n, left) = {})
BY DEF Purged

LEMMA RemoveItemWrites ==
  ASSUME TablesOK, Placed, NEW i \in Items, RemoveItem(i)
  PROVE  Written
<1> DEFINE left == {j \in RowsOf("items") \ {i} : nodeOf[j] = nodeOf[i]}
           gone == Purged(nodeOf[i], left)
<1>1. /\ rows' = (rows \ {i}) \ gone
      /\ UNCHANGED <<fresh, stamp, userData, nodeOf, wished, exposed, patch, pages>>
  BY DEF RemoveItem
<1>2. gone \subseteq Nodes \cap {nodeOf[i]} /\ (left # {} => gone = {})
  BY PurgeIsOfEmpty
<1>3. \A j \in RowsOf("items") \ {i} : nodeOf[j] \notin gone
  BY <1>2
<1>4. TablesOK'
  BY <1>1, WriteCounts DEF TablesOK, RemoveItem
<1> HIDE DEF gone, left
<1>5. Placed'
  BY <1>1, <1>2, <1>3 DEF TablesOK, Placed, RowsOf, Ids
<1> QED BY <1>1, <1>4, <1>5 DEF Written

LEMMA UpdateNodeWrites ==
  ASSUME TablesOK, Placed, NEW n \in Nodes, NEW w \in BOOLEAN, UpdateNode(n, w)
  PROVE  Written
<1>1. UNCHANGED <<fresh, stamp, userData, nodeOf, exposed, patch, pages>> /\ Write
  BY DEF UpdateNode
<1>2. CASE rows' = rows /\ wished' \subseteq wished \cup {n}
  BY <1>1, <1>2, WriteCounts DEF TablesOK, Placed, RowsOf, Written
<1>3. CASE rows' = rows \ {n} /\ wished' = wished /\ \A i \in RowsOf("items") : nodeOf[i] # n
  <2>1. TablesOK'
    BY <1>1, <1>3, WriteCounts DEF TablesOK
  <2>2. Placed'
    BY <1>1, <1>3 DEF Placed, RowsOf
  <2> QED BY <1>1, <1>3, <2>1, <2>2 DEF Written
<1> QED BY <1>2, <1>3 DEF UpdateNode

LEMMA PatchFields ==
  ASSUME TablesOK, NEW p \in Patchers, patch[p] # None
  PROVE  /\ patch[p] \in Patch
         /\ patch[p].item \in Items
         /\ patch[p].sent \in Sent /\ patch[p].read \in UserData
         /\ patch[p].from \in Nodes \cup {None}
BY DEF TablesOK, Patch

LEMMA MergedIsUserData ==
  ASSUME NEW old \in UserData, NEW sent \in Sent
  PROVE  Merged(old, sent) \in UserData
BY DEF Merged, UserData, Sent

LEMMA BeginPatchWrites ==
  ASSUME TablesOK, Placed, NEW p \in Patchers, NEW i \in Items, NEW sent \in Sent,
         BeginPatch(p, i, sent)
  PROVE  Written
<1> DEFINE new == [item |-> i, sent |-> sent, read |-> userData[i], from |-> nodeOf[i],
                   alone |-> TRUE]
<1>1. new \in Patch
  BY DEF TablesOK, Patch
<1>2. patch' = [patch EXCEPT ![p] = new] /\ UNCHANGED <<tables, exposed, pages>> /\ Write
  BY DEF BeginPatch
<1> HIDE DEF new
<1>3. TablesOK'
  BY <1>1, <1>2, WriteCounts DEF TablesOK, tables
<1> QED BY <1>2, <1>3 DEF Written, tables, Placed, RowsOf

\* The series the item leaves goes only if no other volume is in it.
LEMMA CommitPatchWrites ==
  ASSUME TablesOK, Placed, NEW p \in Patchers, CommitPatch(p)
  PROVE  Written
<1> DEFINE q == patch[p]
           target == IF q.sent.node = Same THEN nodeOf[q.item] ELSE q.sent.node
<1>1. /\ q \in Patch /\ q.item \in Items /\ q.sent \in Sent /\ q.read \in UserData
      /\ q.from \in Nodes \cup {None}
  BY PatchFields DEF CommitPatch
<1>2. PICK i \in Items : i = q.item
  BY <1>1
<1>3. PICK n \in Nodes \cup {None} : n = target
  BY <1>1 DEF TablesOK, Sent
<1>4. PICK m \in Nodes \cup {None} : m = q.from
  BY <1>1
<1> DEFINE left == {j \in RowsOf("items") \ {i} : nodeOf[j] = m}
           gone == IF m = n THEN {} ELSE Purged(m, left)
<1>5. /\ i \in rows /\ (n # None => n \in rows)
      /\ nodeOf' = [nodeOf EXCEPT ![i] = n]
      /\ rows' = rows \ gone
      /\ UNCHANGED <<fresh, stamp, wished, exposed, pages, writes>>
  BY <1>2, <1>3, <1>4 DEF CommitPatch
<1>6. userData' \in [Items -> UserData]
  BY <1>1, MergedIsUserData DEF CommitPatch, TablesOK
<1>7. patch' \in [Patchers -> Patch \cup {None}]
  <2>1. \A o \in Patchers : patch[o] # None => [patch[o] EXCEPT !.alone = FALSE] \in Patch
    <3>1. ASSUME NEW w \in Patch PROVE [w EXCEPT !.alone = FALSE] \in Patch
      BY <3>1 DEF Patch
    <3>2. \A o \in Patchers : patch[o] # None => patch[o] \in Patch
      BY DEF TablesOK
    <3> QED BY <3>1, <3>2
  <2> QED BY <2>1 DEF CommitPatch, TablesOK
<1>8. gone \subseteq Nodes \cap {m} /\ n \notin gone /\ \A j \in RowsOf("items") \ {i} : nodeOf[j] \notin gone
  BY PurgeIsOfEmpty
<1> HIDE DEF gone, left, q, target
<1>9. TablesOK'
  BY <1>5, <1>6, <1>7 DEF TablesOK
<1>10. Placed'
  BY <1>5, <1>8 DEF TablesOK, Placed, RowsOf
<1> QED BY <1>5, <1>9, <1>10 DEF Written

LEMMA OwnerWrites ==
  ASSUME TablesOK, Placed, Owner
  PROVE  Written
<1>1. ASSUME NEW S \in SUBSET Statuses, Regrant(S) PROVE Written
  BY <1>1, WriteCounts DEF Regrant, TablesOK, Placed, RowsOf, Written, tables
<1>2. ASSUME NEW p \in Patchers, FailPatch(p) PROVE Written
  BY <1>2 DEF FailPatch, TablesOK, Placed, RowsOf, Written, tables
<1> QED BY <1>1, <1>2, CreateItemWrites, CreateNodeWrites, RemoveItemWrites, UpdateNodeWrites,
           BeginPatchWrites, CommitPatchWrites DEF Owner

-----------------------------------------------------------------------------
(* What is matched and what is visible.                                    *)

LEMMA StatusIsKnown == \A i : EffectiveStatus(i) \in Statuses
BY DEF EffectiveStatus, DEFAULT_ITEM_STATUS

\* A series is counted some visible volume when it has one.
LEMMA OwnedWhenUnder ==
  ASSUME TablesOK, NEW S, NEW n \in Nodes
  PROVE  OwnedCount(S, n) > 0 <=> n \in NodesUnder(S)
<1> DEFINE owned == {i \in ItemsUnder(S) : nodeOf[i] = n}
<1>1. owned \subseteq Ids
  BY DEF ItemsUnder, RowsOf, TablesOK
<1>2. IsFiniteSet(owned)
  BY <1>1, FS_Subset
<1>3. Cardinality(owned) \in Nat /\ (Cardinality(owned) = 0 <=> owned = {})
  BY <1>2, FS_CardinalityType, FS_EmptySet
<1>4. owned # {} <=> n \in NodesUnder(S)
  BY DEF NodesUnder, Ids
<1> QED BY <1>3, <1>4 DEF OwnedCount

\* The rows a list matches are those the unit reads show.
LEMMA MatchedIsVisible ==
  ASSUME TablesOK, NEW kind \in Kinds, NEW S \in SUBSET Statuses
  PROVE  {x \in RowsOf(kind) : Matches(WhereOf(kind, S), x)} = Visible(kind, S)
<1>1. CASE Statuses \subseteq S
  <2>1. \A x : Matches(WhereOf(kind, S), x)
    BY <1>1 DEF WhereOf, Everything, Matches
  <2>2. \A i \in RowsOf("items") : VisibleItem(S, i)
    BY <1>1, StatusIsKnown DEF VisibleItem
  <2>3. \A n \in RowsOf("nodes") : VisibleNode(S, n)
    BY <1>1 DEF VisibleNode
  <2> QED BY <2>1, <2>2, <2>3 DEF Kinds, Visible, VisibleItem, VisibleNode, RowsOf
<1>2. CASE ~(Statuses \subseteq S) /\ kind = "items"
  <2>1. \A x \in RowsOf("items") : (Matches(WhereOf(kind, S), x) <=> x \in ItemsUnder(S))
    BY <1>2 DEF WhereOf, ItemWhere, Matches
  <2>2. \A x \in RowsOf("items") : (VisibleItem(S, x) <=> x \in ItemsUnder(S))
    BY DEF VisibleItem, ItemsUnder
  <2> QED BY <1>2, <2>1, <2>2 DEF Visible, VisibleItem, RowsOf
<1>3. CASE ~(Statuses \subseteq S) /\ kind = "nodes"
  <2>1. \A x \in RowsOf("nodes") :
          (Matches(WhereOf(kind, S), x) <=> x \in NodesUnder(S) \/ ("WISHLIST" \in S /\ x \in wished))
    BY <1>3 DEF WhereOf, NodeWhere, Matches
  <2>2. \A x \in RowsOf("nodes") :
          (VisibleNode(S, x) <=> x \in NodesUnder(S) \/ ("WISHLIST" \in S /\ x \in wished))
    BY <1>3, OwnedWhenUnder DEF VisibleNode, RowsOf
  <2> QED BY <1>3, <2>1, <2>2 DEF Visible, VisibleNode, RowsOf
<1> QED BY <1>1, <1>2, <1>3 DEF Kinds

\* A volume that is shown is in a series that is shown.
LEMMA SeriesOfVisible ==
  ASSUME TablesOK, Placed, NEW S \in SUBSET Statuses, NEW i \in Visible("items", S)
  PROVE  nodeOf[i] \in Visible("nodes", S) \cup {None}
<1>1. i \in RowsOf("items") /\ i \in ItemsUnder(S) /\ i \in Items
  BY DEF Visible, VisibleItem, ItemsUnder, RowsOf
<1>2. CASE nodeOf[i] = None
  BY <1>2
<1>3. CASE nodeOf[i] # None
  <2>1. PICK n \in Nodes : n = nodeOf[i]
    BY <1>1, <1>3 DEF TablesOK
  <2>2. n \in RowsOf("nodes")
    BY <1>1, <2>1 DEF Placed, RowsOf, Ids
  <2>3. n \in NodesUnder(S)
    BY <1>1, <1>3, <2>1 DEF NodesUnder
  <2>4. VisibleNode(S, n)
    BY <2>2, <2>3, OwnedWhenUnder DEF VisibleNode
  <2> QED BY <2>1, <2>4 DEF Visible
<1> QED BY <1>2, <1>3

-----------------------------------------------------------------------------
(* The histories.                                                          *)

ReaderOK == reader \in Reader /\ listed \subseteq Ids /\ shown \subseteq Ids /\ lost \in BOOLEAN
HistoryOK == steady \subseteq Ids \X Reasons /\ seen \subseteq Ids

LEMMA TypeParts == TypeOK <=> TablesOK /\ ReaderOK /\ HistoryOK
BY DEF TypeOK, TablesOK, ReaderOK, HistoryOK

LEMMA ReaderFields ==
  ASSUME ReaderOK
  PROVE  /\ reader.pc \in {"idle", "granted", "scoped", "between", "done"}
         /\ reader.kind \in Kinds /\ reader.statuses \in SUBSET Statuses
         /\ reader.cursor \in Ids \cup {None} /\ reader.where \in Where
BY DEF ReaderOK, Reader

\* What a step adds to what was seen.
LEMMA SeenNow ==
  ASSUME Watch
  PROVE  /\ reader'.pc = "idle" => seen' = {}
         /\ reader'.pc \in {"between", "done"} => seen' = seen
         /\ reader'.pc \in {"granted", "scoped"} =>
              seen' = (IF reader.pc \in {"idle", "between"} THEN Ids \ rows' ELSE seen)
                        \cup Visible(reader.kind, reader.statuses)'
BY DEF Watch

LEMMA WatchTypes ==
  ASSUME HistoryOK, Watch, ReaderOK'
  PROVE  HistoryOK'
<1>1. steady' \subseteq Ids \X Reasons
  BY DEF Watch, HistoryOK
<1>2. Visible(reader.kind, reader.statuses)' \subseteq Ids
  BY DEF Visible, Ids
<1>3. reader'.pc \in {"idle", "granted", "scoped", "between", "done"}
  BY DEF ReaderOK, Reader
<1>4. seen' \subseteq Ids
  BY <1>2, <1>3, SeenNow DEF HistoryOK
<1> QED BY <1>1, <1>4 DEF HistoryOK

-----------------------------------------------------------------------------
(* The steps.                                                              *)

LEMMA InitInv == Init => Inv
<1> SUFFICES ASSUME Init PROVE Inv
  OBVIOUS
<1>1. PICK l \in Libraries : /\ rows = l.rows /\ fresh = Ids \ l.rows /\ stamp = l.stamp
                             /\ userData = l.userData /\ nodeOf = l.nodeOf /\ wished = l.wished
  BY DEF Init
<1>2. l \in Library
  OBVIOUS
<1>3. TablesOK
  BY <1>1, <1>2 DEF Init, TablesOK, Library
<1>4. Placed
  BY <1>1, <1>2 DEF Placed, RowsOf
<1>5. ReaderOK /\ HistoryOK
  BY DEF Init, Idle, ReaderOK, Reader, HistoryOK, Where, Everything, Kinds
<1>6. Behind /\ NoRowTwice /\ Watched /\ OnlyVisibleShown
  BY DEF Init, Idle, Behind, NotAhead, NoRowTwice, Watched, OnlyVisibleShown
<1> QED BY <1>3, <1>4, <1>5, <1>6, TypeParts DEF Inv

\* A write leaves the pages as they are, and what it adds is younger than the
\* request.
LEMMA OwnerKeeps ==
  ASSUME Inv, Owner, Watch
  PROVE  Inv'
<1>1. TablesOK /\ ReaderOK /\ HistoryOK /\ Placed
  BY TypeParts DEF Inv
<1>2. Written
  BY <1>1, OwnerWrites
<1>3. /\ UNCHANGED <<reader, listed, shown, lost>> /\ fresh' \subseteq fresh
      /\ rows' \ rows \subseteq fresh /\ \A x \in Ids \ fresh : stamp'[x] = stamp[x]
  BY <1>2 DEF Written, pages
<1>4. ReaderOK' /\ HistoryOK'
  BY <1>1, <1>3, WatchTypes DEF ReaderOK
<1>5. NotAhead'
  BY <1>1, <1>3 DEF Inv, Behind, NotAhead, Before, ReaderOK
<1>6. Behind' /\ NoRowTwice'
  BY <1>3, <1>5 DEF Inv, Behind, NoRowTwice
<1>7. reader.pc \in {"granted", "scoped"} => seen' = seen \cup Visible(reader.kind, reader.statuses)'
  BY <1>3, SeenNow
<1>8. Watched'
  <2>1. reader.pc \in {"granted", "scoped"} =>
          fresh' \subseteq seen' /\ Visible(reader.kind, reader.statuses)' \subseteq seen' /\ fresh \subseteq seen'
    BY <1>3, <1>7 DEF Inv, Watched
  <2>2. \A kind : RowsOf(kind)' \ RowsOf(kind) \subseteq fresh
    BY <1>3 DEF RowsOf
  <2>3. reader.pc = "scoped" => seen \subseteq seen'
    BY <1>7
  <2>4. ASSUME reader.pc = "scoped"
        PROVE  /\ reader.where.form = "except" => RowsOf(reader.kind)' \ reader.where.ids \subseteq seen'
               /\ reader.where.form = "only" => RowsOf(reader.kind)' \cap reader.where.ids \subseteq seen'
    <3> DEFINE R == RowsOf(reader.kind)
               ids == reader.where.ids
    <3>1. R' \subseteq R \cup seen'
      BY <1>3, <2>1, <2>2, <2>4
    <3>2. /\ reader.where.form = "except" => R \ ids \subseteq seen
          /\ reader.where.form = "only" => R \cap ids \subseteq seen
      BY <2>4 DEF Inv, Watched
    <3> QED BY <1>3, <2>3, <2>4, <3>1, <3>2
  <2> QED BY <1>3, <2>1, <2>4 DEF Inv, Watched
<1>9. OnlyVisibleShown'
  BY <1>1, <1>3, SeenNow, ReaderFields DEF Inv, OnlyVisibleShown, Behind
<1>10. TypeOK'
  BY <1>2, <1>4 DEF Written, TypeOK, TablesOK, ReaderOK, HistoryOK
<1> QED BY <1>2, <1>6, <1>8, <1>9, <1>10 DEF Inv, Written

LEMMA TablesStay ==
  ASSUME TablesOK, Placed, UNCHANGED <<tables, exposed, patch, writes>>
  PROVE  TablesOK' /\ Placed' /\ \A kind : RowsOf(kind)' = RowsOf(kind)
BY DEF TablesOK, Placed, RowsOf, tables

LEMMA RequestKeeps ==
  ASSUME Inv, NEW kind \in Kinds, Request(kind), Watch
  PROVE  Inv'
<1>1. TablesOK /\ ReaderOK /\ HistoryOK /\ Placed
  BY TypeParts DEF Inv
<1>2. /\ reader' = [reader EXCEPT !.pc = "granted", !.kind = kind, !.statuses = exposed]
      /\ listed' = listed \cup shown /\ shown' = {}
      /\ UNCHANGED <<tables, exposed, patch, lost, writes>>
      /\ reader.pc \in {"idle", "between"}
  BY DEF Request
<1>3. reader' \in Reader /\ reader'.pc = "granted" /\ reader'.cursor = reader.cursor
  BY <1>1, <1>2 DEF ReaderOK, Reader, TablesOK
<1>4. ReaderOK' /\ HistoryOK'
  BY <1>1, <1>2, <1>3, WatchTypes DEF ReaderOK
<1>5. TablesOK' /\ Placed'
  BY <1>1, <1>2, TablesStay
<1>6. seen' = (Ids \ rows') \cup Visible(reader.kind, reader.statuses)'
  BY <1>2, <1>3, SeenNow
<1>7. Watched'
  BY <1>3, <1>5, <1>6 DEF Watched, TablesOK
<1>8. NotAhead'
  BY <1>2, <1>3 DEF Inv, Behind, NotAhead, Before, tables
<1>9. Behind' /\ NoRowTwice' /\ OnlyVisibleShown'
  BY <1>2, <1>3, <1>8 DEF Inv, Behind, NoRowTwice, OnlyVisibleShown, tables
<1>10. TypeOK'
  BY <1>4, <1>5 DEF TypeOK, TablesOK, ReaderOK, HistoryOK
<1> QED BY <1>5, <1>7, <1>9, <1>10 DEF Inv

\* What the filter lets through at its moment is visible at that moment.
LEMMA ScopeKeeps ==
  ASSUME Inv, Scope, Watch
  PROVE  Inv'
<1>1. TablesOK /\ ReaderOK /\ HistoryOK /\ Placed
  BY TypeParts DEF Inv
<1> DEFINE w == WhereOf(reader.kind, reader.statuses)
<1>2. /\ reader' = [reader EXCEPT !.pc = "scoped", !.where = w] /\ reader.pc = "granted"
      /\ UNCHANGED <<tables, exposed, patch, listed, shown, lost, writes>>
  BY DEF Scope
<1>3. reader.kind \in Kinds /\ reader.statuses \in SUBSET Statuses
  BY <1>1, ReaderFields
<1>4. w \in Where
  <2>1. ItemsUnder(reader.statuses) \subseteq Ids /\ RowsOf("items") \subseteq Ids
    BY <1>1 DEF ItemsUnder, RowsOf, TablesOK
  <2>2. NodesUnder(reader.statuses) \subseteq Ids
    BY <1>1 DEF NodesUnder, ItemsUnder, RowsOf, TablesOK, Ids
  <2> QED BY <2>1, <2>2 DEF WhereOf, Everything, ItemWhere, NodeWhere, Where
<1>5. /\ reader' \in Reader /\ reader'.pc = "scoped" /\ reader'.cursor = reader.cursor
      /\ reader'.kind = reader.kind /\ reader'.statuses = reader.statuses /\ reader'.where = w
  BY <1>1, <1>2, <1>4 DEF ReaderOK, Reader
<1>6. ReaderOK' /\ HistoryOK'
  BY <1>1, <1>2, <1>5, WatchTypes DEF ReaderOK
<1>7. TablesOK' /\ Placed' /\ \A kind : RowsOf(kind)' = RowsOf(kind)
  BY <1>1, <1>2, TablesStay
<1>8. seen' = seen \cup Visible(reader.kind, reader.statuses)'
  BY <1>2, <1>5, SeenNow
<1>9. {x \in RowsOf(reader.kind) : Matches(w, x)} \subseteq seen
  BY <1>1, <1>2, <1>3, MatchedIsVisible DEF Inv, Watched
<1>10. ASSUME Statuses \subseteq reader.statuses PROVE Watched'
  <2>1. w.form = "all"
    BY <1>10 DEF WhereOf, Everything
  <2>2. Watched'
    BY <1>2, <1>5, <1>8, <1>10, <2>1 DEF Inv, Watched, tables
  <2> QED BY <1>10, <2>2
<1>11. ASSUME ~(Statuses \subseteq reader.statuses), reader.kind = "items" PROVE Watched'
  <2>1. w = ItemWhere(reader.statuses)
    BY <1>11 DEF WhereOf
  <2>2. \/ w.form = "except" /\ \A x : (x \notin w.ids => Matches(w, x))
        \/ w.form = "only" /\ w.wish = FALSE /\ \A x : (x \in w.ids => Matches(w, x))
    <3>1. CASE DEFAULT_ITEM_STATUS \in reader.statuses
      BY <2>1, <3>1 DEF ItemWhere, Matches
    <3>2. CASE DEFAULT_ITEM_STATUS \notin reader.statuses
      BY <2>1, <3>2 DEF ItemWhere, Matches
    <3> QED BY <3>1, <3>2
  <2> HIDE DEF w
  <2>3. Watched'
    BY <1>2, <1>5, <1>7, <1>8, <1>9, <1>11, <2>2 DEF Inv, Watched, tables
  <2> QED BY <2>3
<1>12. ASSUME ~(Statuses \subseteq reader.statuses), reader.kind = "nodes" PROVE Watched'
  <2>1. /\ w.form = "only" /\ (w.wish => "WISHLIST" \in reader.statuses)
        /\ \A x \in w.ids : Matches(w, x)
    BY <1>12 DEF WhereOf, NodeWhere, Matches
  <2> HIDE DEF w
  <2>2. Watched'
    BY <1>2, <1>5, <1>7, <1>8, <1>9, <1>12, <2>1 DEF Inv, Watched, tables
  <2> QED BY <2>2
<1>13. Watched'
  BY <1>3, <1>10, <1>11, <1>12 DEF Kinds
<1>14. NotAhead'
  BY <1>2, <1>5 DEF Inv, Behind, NotAhead, Before, tables
<1>15. Behind' /\ NoRowTwice' /\ OnlyVisibleShown'
  BY <1>2, <1>5, <1>14 DEF Inv, Behind, NoRowTwice, OnlyVisibleShown, tables
<1>16. TypeOK'
  BY <1>6, <1>7 DEF TypeOK, TablesOK, ReaderOK, HistoryOK
<1> QED BY <1>7, <1>13, <1>15, <1>16 DEF Inv

\* The page: what the filter lets through, after the cursor, and up to its last.
LEMMA FetchKeeps ==
  ASSUME Inv, Fetch, Watch
  PROVE  Inv'
<1>1. TablesOK /\ ReaderOK /\ HistoryOK /\ Placed
  BY TypeParts DEF Inv
<1> DEFINE matching == {x \in RowsOf(reader.kind) : Matches(reader.where, x)}
           found == From(matching)
           data == First(Limit, found)
           more == Cardinality(found) > Limit
           last == CHOOSE x \in data : \A y \in data \ {x} : Before(y, x)
           next == IF more THEN last ELSE None
           step == IF more THEN "between" ELSE "done"
<1>2. /\ reader.pc = "scoped" /\ shown' = data /\ lost' \in BOOLEAN
      /\ reader' = [reader EXCEPT !.pc = step, !.cursor = next, !.where = Everything, !.statuses = {}]
      /\ UNCHANGED <<tables, exposed, patch, listed, writes>>
  BY <1>1 DEF Fetch, ReaderOK
<1>3. matching \subseteq rows /\ found \subseteq matching /\ data \subseteq found /\ found \in SUBSET Ids
  <2>1. matching \subseteq rows /\ matching \subseteq Ids
    BY <1>1 DEF RowsOf, TablesOK
  <2>2. found \subseteq matching
    BY DEF From
  <2>3. data \subseteq found
    BY DEF First
  <2> QED BY <2>1, <2>2, <2>3
<1>4. more => last \in data /\ \A y \in data : y = last \/ Before(y, last)
  <2> SUFFICES ASSUME more PROVE last \in data /\ \A y \in data : y = last \/ Before(y, last)
    OBVIOUS
  <2>1. found # {}
    BY FS_EmptySet
  <2>2. stamp \in [Ids -> Stamps]
    BY <1>1 DEF TablesOK
  <2> HIDE DEF found
  <2> QED BY <1>3, <2>1, <2>2, PageHasLast
<1>5. reader.cursor # None => \A x \in data : Before(reader.cursor, x)
  <2> SUFFICES ASSUME reader.cursor # None PROVE \A x \in data : Before(reader.cursor, x)
    OBVIOUS
  <2>1. reader.cursor \in Ids /\ stamp \in [Ids -> Stamps]
    BY <1>1, ReaderFields DEF TablesOK
  <2>2. matching \in SUBSET Ids
    BY <1>1, <1>3 DEF TablesOK
  <2> HIDE DEF matching
  <2>3. found \subseteq {x \in matching : Before(reader.cursor, x)}
    BY <2>1, <2>2, FromIsAfter
  <2> QED BY <1>3, <2>3
<1>6. matching \subseteq seen
  <2>1. Visible(reader.kind, reader.statuses) \subseteq seen
    BY <1>2 DEF Inv, Watched
  <2>2. reader.kind \in Kinds /\ reader.where.form \in {"all", "except", "only"}
    BY <1>1, ReaderFields DEF Where
  <2>3. CASE reader.where.form = "all"
    <3>1. Statuses \subseteq reader.statuses
      BY <1>2, <2>3 DEF Inv, Watched
    <3>2. \A x \in RowsOf(reader.kind) : x \in Visible(reader.kind, reader.statuses)
      BY <2>2, <3>1, StatusIsKnown DEF Kinds, Visible, VisibleItem, VisibleNode, RowsOf
    <3> QED BY <2>1, <3>2
  <2>4. CASE reader.where.form = "except"
    <3>1. RowsOf(reader.kind) \ reader.where.ids \subseteq seen
      BY <1>2, <2>4 DEF Inv, Watched
    <3> QED BY <2>4, <3>1 DEF Matches
  <2>5. CASE reader.where.form = "only"
    <3>1. /\ RowsOf(reader.kind) \cap reader.where.ids \subseteq seen
          /\ reader.where.wish => reader.kind = "nodes" /\ "WISHLIST" \in reader.statuses
      BY <1>2, <2>5 DEF Inv, Watched
    <3>2. \A x \in matching : x \in reader.where.ids \/ (reader.where.wish /\ x \in wished)
      BY <2>5 DEF Matches
    <3>3. \A x \in RowsOf("nodes") : "WISHLIST" \in reader.statuses /\ x \in wished =>
            x \in Visible("nodes", reader.statuses)
      BY DEF Visible, VisibleNode, RowsOf
    <3> QED BY <2>1, <3>1, <3>2, <3>3
  <2> QED BY <2>2, <2>3, <2>4, <2>5
<1>7. next \in Ids \cup {None} /\ step \in {"between", "done"} /\ (step = "between" => next = last /\ more)
      /\ (next # None => more)
  BY <1>3, <1>4
<1> HIDE DEF matching, found, data, more, last, next, step
<1>8. /\ reader' \in Reader /\ reader'.pc = step /\ reader'.cursor = next
  BY <1>1, <1>2, <1>7 DEF ReaderOK, Reader, Where, Everything
<1>9. ReaderOK' /\ HistoryOK'
  BY <1>1, <1>2, <1>3, <1>8, WatchTypes DEF ReaderOK
<1>10. TablesOK' /\ Placed'
  BY <1>1, <1>2, TablesStay
<1>11. TypeOK'
  BY <1>9, <1>10 DEF TypeOK, TablesOK, ReaderOK, HistoryOK
<1>12. Watched'
  BY <1>7, <1>8 DEF Watched
<1>13. OnlyVisibleShown'
  BY <1>2, <1>3, <1>6, <1>7, <1>8, SeenNow DEF OnlyVisibleShown
<1>14. /\ \A x \in listed : reader.cursor # None /\ (x = reader.cursor \/ Before(x, reader.cursor))
       /\ listed \subseteq Ids /\ listed \cap fresh = {} /\ data \cap fresh = {}
       /\ reader.cursor \in Ids \cup {None} /\ stamp \in [Ids -> Stamps]
  BY <1>1, <1>2, <1>3, ReaderFields DEF Inv, Behind, NotAhead, TablesOK, ReaderOK
<1>15. \A x \in listed, y \in data : Before(x, y)
  <2> SUFFICES ASSUME NEW x \in listed, NEW y \in data PROVE Before(x, y)
    OBVIOUS
  <2>1. x \in Ids /\ y \in Ids /\ reader.cursor \in Ids
    BY <1>3, <1>14
  <2>2. Before(reader.cursor, y)
    BY <1>5, <1>14
  <2>3. x = reader.cursor \/ Before(x, reader.cursor)
    BY <1>14
  <2> QED BY <1>14, <2>1, <2>2, <2>3, BeforeIsOrder
<1>16. NoRowTwice'
  <2>1. \A x \in Ids : ~Before(x, x)
    BY <1>14, BeforeIsOrder
  <2> QED BY <1>2, <1>14, <1>15, <2>1 DEF NoRowTwice
<1>17. more => /\ last \in Ids \ fresh
               /\ \A x \in listed \cup data : x = last \/ Before(x, last)
  BY <1>3, <1>4, <1>14, <1>15
<1>18. NotAhead'
  <2>1. next # None => next = last
    BY <1>7 DEF next
  <2>2. fresh' = fresh /\ \A x, y : Before(x, y)' = Before(x, y)
    BY <1>2 DEF tables, Before
  <2> QED BY <1>2, <1>7, <1>8, <1>17, <2>1, <2>2 DEF NotAhead
<1>19. next # None \/ step # "between"
  BY <1>3, <1>4, <1>7
<1>20. Behind'
  BY <1>2, <1>7, <1>8, <1>14, <1>18, <1>19 DEF Behind, tables
<1> QED BY <1>10, <1>11, <1>12, <1>13, <1>16, <1>20 DEF Inv

LEMMA LeaveKeeps ==
  ASSUME Inv, Leave, Watch
  PROVE  Inv'
<1>1. TablesOK /\ ReaderOK /\ HistoryOK /\ Placed
  BY TypeParts DEF Inv
<1>2. /\ reader' = Idle /\ listed' = {} /\ shown' = {} /\ lost' = FALSE
      /\ UNCHANGED <<tables, exposed, patch, writes>>
  BY DEF Leave
<1>3. Idle \in Reader /\ Idle.pc = "idle" /\ Idle.cursor = None
  BY DEF Idle, Reader, Where, Everything, Kinds
<1>4. ReaderOK' /\ HistoryOK'
  BY <1>1, <1>2, <1>3, WatchTypes DEF ReaderOK
<1>5. TablesOK' /\ Placed'
  BY <1>1, <1>2, TablesStay
<1>6. TypeOK'
  BY <1>4, <1>5 DEF TypeOK, TablesOK, ReaderOK, HistoryOK
<1>7. Behind' /\ NoRowTwice' /\ Watched' /\ OnlyVisibleShown'
  BY <1>2, <1>3 DEF Behind, NotAhead, NoRowTwice, Watched, OnlyVisibleShown
<1> QED BY <1>5, <1>6, <1>7 DEF Inv

LEMMA NextKeeps == Inv /\ [Next]_vars => Inv'
<1> SUFFICES ASSUME Inv, [Next]_vars PROVE Inv'
  OBVIOUS
<1>1. CASE Next
  BY <1>1, OwnerKeeps, RequestKeeps, ScopeKeeps, FetchKeeps, LeaveKeeps DEF Next, Read
<1>2. CASE UNCHANGED vars
  <2>1. UNCHANGED <<tables, exposed, patch, writes>> /\ UNCHANGED <<reader, listed, shown, lost, steady, seen>>
    BY <1>2 DEF vars, pages
  <2>2. TablesOK /\ Placed /\ ReaderOK /\ HistoryOK
    BY TypeParts DEF Inv
  <2>3. TablesOK' /\ Placed' /\ \A kind : RowsOf(kind)' = RowsOf(kind)
    BY <2>1, <2>2, TablesStay
  <2>4. TypeOK'
    BY <2>1, <2>2, <2>3 DEF TypeOK, TablesOK, ReaderOK, HistoryOK
  <2>5. Behind' /\ NoRowTwice' /\ OnlyVisibleShown'
    BY <2>1 DEF Inv, Behind, NotAhead, Before, NoRowTwice, OnlyVisibleShown, tables
  <2>6. Visible(reader.kind, reader.statuses)' = Visible(reader.kind, reader.statuses)
    BY <2>1 DEF tables, Visible, VisibleItem, VisibleNode, RowsOf, EffectiveStatus, OwnedCount, ItemsUnder
  <2>7. Watched'
    BY <2>1, <2>3, <2>6 DEF Inv, Watched, tables
  <2> QED BY <2>3, <2>4, <2>5, <2>7 DEF Inv
<1> QED BY <1>1, <1>2

LEMMA AlwaysInv == Spec => []Inv
BY InitInv, NextKeeps, PTL DEF Spec

-----------------------------------------------------------------------------
(* No steady row is missed.                                                *)

\* What is steady stands now, and was steady unless the traversal just began.
LEMMA SteadyNow ==
  ASSUME Watch
  PROVE  /\ reader'.pc = "idle" => steady' = {}
         /\ steady' \subseteq StandingNow'
         /\ reader.pc # "idle" => steady' \subseteq steady
BY DEF Watch

LEMMA StandingRows ==
  ASSUME NEW e \in StandingNow
  PROVE  /\ e[1] \in RowsOf(reader.kind) /\ e[1] \in rows /\ e[2] \in Reasons
         /\ e \in Standing(reader.kind, exposed)
         /\ reader.pc \in {"granted", "scoped"} => e \in Standing(reader.kind, reader.statuses)
BY DEF StandingNow, Standing, RowsOf

\* For each reason a row is there, the filter of its kind selects it.
LEMMA StandingIsSelected ==
  ASSUME NEW kind \in Kinds, NEW S, NEW e \in Standing(kind, S)
  PROVE  Selects(WhereOf(kind, S), e)
<1> DEFINE w == WhereOf(kind, S)
<1>1. e[2] \in {"item", "wish", "all"} /\ kind \in {"items", "nodes"}
  BY DEF Standing, Reasons, Kinds
<1>2. /\ e[2] = "item" => e[1] \in (IF kind = "items" THEN ItemsUnder(S) ELSE NodesUnder(S))
      /\ e[2] = "wish" => kind = "nodes" /\ "WISHLIST" \in S
      /\ e[2] = "all" => kind = "nodes" /\ Statuses \subseteq S
  BY <1>1 DEF Standing
<1>3. CASE Statuses \subseteq S
  BY <1>3 DEF WhereOf, Everything, Selects
<1>4. CASE ~(Statuses \subseteq S) /\ kind = "items"
  <2>1. e[2] = "item" /\ e[1] \in ItemsUnder(S)
    BY <1>1, <1>2, <1>4
  <2>2. CASE DEFAULT_ITEM_STATUS \in S
    <3>1. w.form = "except" /\ w.ids = RowsOf("items") \ ItemsUnder(S)
      BY <1>4, <2>2 DEF WhereOf, ItemWhere
    <3> QED BY <2>1, <3>1 DEF Selects
  <2>3. CASE DEFAULT_ITEM_STATUS \notin S
    <3>1. w.form = "only" /\ w.ids = ItemsUnder(S)
      BY <1>4, <2>3 DEF WhereOf, ItemWhere
    <3> QED BY <2>1, <3>1 DEF Selects
  <2> QED BY <2>2, <2>3
<1>5. CASE ~(Statuses \subseteq S) /\ kind = "nodes"
  <2>1. w.form = "only" /\ w.ids = NodesUnder(S) /\ w.wish = ("WISHLIST" \in S)
    BY <1>5 DEF WhereOf, NodeWhere
  <2> QED BY <1>1, <1>2, <1>5, <2>1 DEF Selects
<1> QED BY <1>1, <1>3, <1>4, <1>5

\* A row of some set that a page of the set leaves out comes after the page,
\* which is then full.
LEMMA LeftOutComesAfter ==
  ASSUME stamp \in [Ids -> Stamps], NEW T \in SUBSET Ids, NEW x \in T \ First(Limit, T)
  PROVE  /\ Cardinality(T) > Limit
         /\ \A y \in First(Limit, T) : Before(y, x)
<1> DEFINE ahead(y) == {z \in T : Before(z, y)}
<1>1. IsFiniteSet(T) /\ Cardinality(T) \in Nat
  BY FS_Subset, FS_CardinalityType
<1>2. \A y \in T : IsFiniteSet(ahead(y)) /\ Cardinality(ahead(y)) \in Nat
  BY <1>1, FS_Subset, FS_CardinalityType
<1>3. Cardinality(ahead(x)) >= Limit
  <2>1. ~(Cardinality(ahead(x)) < Limit)
    BY DEF First
  <2> QED BY <1>2, <2>1
<1>4. Cardinality(ahead(x)) < Cardinality(T)
  <2>1. ahead(x) \subseteq T /\ x \notin ahead(x)
    BY BeforeIsOrder
  <2>2. ahead(x) # T
    BY <2>1
  <2> HIDE DEF ahead
  <2>3. Cardinality(ahead(x)) <= Cardinality(T) /\ Cardinality(ahead(x)) # Cardinality(T)
    BY <1>1, <2>1, <2>2, FS_Subset
  <2> QED BY <1>1, <1>2, <2>3
<1>5. ASSUME NEW y \in First(Limit, T), ~Before(y, x) PROVE FALSE
  <2>1. y \in T /\ Cardinality(ahead(y)) < Limit /\ y # x
    BY <1>5 DEF First
  <2>2. Before(x, y)
    BY <1>5, <2>1, BeforeIsOrder
  <2>3. ahead(x) \subseteq ahead(y)
    BY <2>1, <2>2, BeforeIsOrder
  <2>4. Cardinality(ahead(x)) <= Cardinality(ahead(y))
    BY <1>2, <2>1, <2>3, FS_Subset
  <2> HIDE DEF ahead
  <2> QED BY <1>2, <1>3, <2>1, <2>4
<1> QED BY <1>1, <1>2, <1>3, <1>4, <1>5

\* A page that goes on from a row that still matches skips that row alone.
LEMMA FromSkipsOne ==
  ASSUME stamp \in [Ids -> Stamps], NEW matching \in SUBSET rows, rows \subseteq Ids,
         reader.cursor \in matching, None \notin matching
  PROVE  From(matching) = {x \in matching : Before(reader.cursor, x)}
<1> DEFINE c == reader.cursor
           at == {x \in matching : x = c \/ Before(c, x)}
<1>1. From(matching) = at \ First(1, at)
  BY DEF From
<1>2. c \in First(1, at)
  <2>1. c \in at /\ {y \in at : Before(y, c)} = {}
    BY ZenonT(60), BeforeIsOrder
  <2>2. Cardinality({y \in at : Before(y, c)}) < 1
    BY <2>1, FS_EmptySet
  <2> HIDE DEF at
  <2> QED BY <2>1, <2>2 DEF First
<1>3. ASSUME NEW x \in First(1, at) PROVE x = c
  <2> SUFFICES ASSUME x # c PROVE FALSE
    OBVIOUS
  <2> DEFINE ahead == {y \in at : Before(y, x)}
  <2>1. x \in at /\ Before(c, x) /\ Cardinality(ahead) < 1
    BY DEF First
  <2>2. c \in ahead
    BY <2>1
  <2>3. IsFiniteSet(ahead)
    BY FS_Subset
  <2>4. Cardinality(ahead) \in Nat /\ (Cardinality(ahead) = 0 <=> ahead = {})
    BY <2>3, FS_CardinalityType, FS_EmptySet
  <2> HIDE DEF ahead
  <2> QED BY <2>1, <2>2, <2>4
<1>4. First(1, at) = {c}
  BY <1>2, <1>3
<1>5. ~Before(c, c)
  BY BeforeIsOrder
<1> QED BY <1>1, <1>4, <1>5

LEMMA OwnerMissesNone ==
  ASSUME Inv, Steady, NoneMissed, Owner, Watch
  PROVE  Steady' /\ NoneMissed'
<1>1. TablesOK /\ Placed /\ ReaderOK
  BY TypeParts DEF Inv
<1>2. /\ UNCHANGED <<reader, listed, shown, lost>>
      /\ \A x \in Ids \ fresh : stamp'[x] = stamp[x]
  BY <1>1, OwnerWrites DEF Written, pages
<1>3. \A e \in steady : e[1] \in Ids \ fresh
  BY <1>1, StandingRows DEF Steady, TablesOK
<1>4. reader.cursor \in (Ids \ fresh) \cup {None}
  BY <1>1, ReaderFields DEF Inv, Behind, NotAhead
<1>5. reader.pc # "idle" => steady' \subseteq steady
  BY SteadyNow
<1>6. \A e \in steady : Ahead(e[1]) => Ahead(e[1])'
  BY <1>2, <1>3, <1>4 DEF Ahead, Before
<1>7. NoneMissed'
  BY <1>2, <1>5, <1>6 DEF NoneMissed
<1>8. reader.pc = "scoped" => \A e \in steady' : Selects(reader.where, e)
  BY <1>5 DEF Steady
<1> QED BY <1>2, <1>7, <1>8, SteadyNow DEF Steady

LEMMA RequestMissesNone ==
  ASSUME Inv, Steady, NoneMissed, NEW kind \in Kinds, Request(kind), Watch
  PROVE  Steady' /\ NoneMissed'
<1>1. ReaderOK
  BY TypeParts DEF Inv
<1>2. /\ listed' \cup shown' = listed \cup shown /\ lost' = lost /\ stamp' = stamp
      /\ reader.pc \in {"idle", "between"}
      /\ reader' = [reader EXCEPT !.pc = "granted", !.kind = kind, !.statuses = exposed]
  BY DEF Request, tables
<1>3. reader'.pc = "granted" /\ reader'.cursor = reader.cursor
  BY <1>1, <1>2 DEF ReaderOK, Reader
<1>4. reader.pc = "idle" => NoneMissed'
  BY <1>3 DEF Inv, Behind, NoneMissed, Ahead
<1>5. reader.pc = "between" => NoneMissed'
  BY <1>2, <1>3, SteadyNow DEF NoneMissed, Ahead, Before
<1> QED BY <1>2, <1>3, <1>4, <1>5, SteadyNow DEF Steady

LEMMA ScopeMissesNone ==
  ASSUME Inv, Steady, NoneMissed, Scope, Watch
  PROVE  Steady' /\ NoneMissed'
<1>1. ReaderOK
  BY TypeParts DEF Inv
<1>2. /\ UNCHANGED <<listed, shown, lost, stamp, rows, userData, nodeOf, wished>>
      /\ reader.pc = "granted"
      /\ reader' = [reader EXCEPT !.pc = "scoped", !.where = WhereOf(reader.kind, reader.statuses)]
  BY DEF Scope, tables
<1>3. /\ reader'.pc = "scoped" /\ reader'.cursor = reader.cursor /\ reader'.kind = reader.kind
      /\ reader'.statuses = reader.statuses
      /\ reader'.where = WhereOf(reader.kind, reader.statuses)
  BY <1>1, <1>2 DEF ReaderOK, Reader
<1>4. NoneMissed'
  BY <1>2, <1>3, SteadyNow DEF NoneMissed, Ahead, Before
<1>5. ASSUME NEW e \in steady' PROVE Selects(reader'.where, e)
  <2>1. e \in steady
    BY <1>2, <1>5, SteadyNow
  <2>2. e \in Standing(reader.kind, reader.statuses)
    BY <1>2, <2>1, StandingRows DEF Steady
  <2>3. reader.kind \in Kinds
    BY <1>1, ReaderFields
  <2> QED BY <1>3, <2>2, <2>3, StandingIsSelected
<1> QED BY <1>3, <1>4, <1>5, SteadyNow DEF Steady

\* The page holds the rows that are steady, up to a last one after which the
\* others come.
LEMMA FetchMissesNone ==
  ASSUME Inv, Steady, NoneMissed, Fetch, Watch
  PROVE  Steady' /\ NoneMissed'
<1>1. TablesOK /\ ReaderOK
  BY TypeParts DEF Inv
<1> DEFINE matching == {x \in RowsOf(reader.kind) : Matches(reader.where, x)}
           found == From(matching)
           data == First(Limit, found)
           more == Cardinality(found) > Limit
           last == CHOOSE x \in data : \A y \in data \ {x} : Before(y, x)
           next == IF more THEN last ELSE None
           step == IF more THEN "between" ELSE "done"
<1>2. /\ reader.pc = "scoped" /\ shown' = data
      /\ lost' = (lost \/ (reader.cursor # None /\ reader.cursor \notin matching))
      /\ reader' = [reader EXCEPT !.pc = step, !.cursor = next, !.where = Everything, !.statuses = {}]
      /\ UNCHANGED <<stamp, listed, rows, wished, exposed>>
  BY DEF Fetch, tables
<1>3. stamp \in [Ids -> Stamps] /\ rows \subseteq Ids /\ None \notin rows
  BY <1>1 DEF TablesOK
<1>4. matching \in SUBSET rows /\ found \in SUBSET Ids /\ found \subseteq matching
  <2>1. matching \in SUBSET rows
    BY DEF RowsOf
  <2> HIDE DEF matching
  <2> QED BY <1>3, <2>1 DEF From
<1>5. \A e \in steady : e[1] \in matching
  <2>1. SUFFICES ASSUME NEW e \in steady PROVE e[1] \in matching
    OBVIOUS
  <2>2. e[1] \in RowsOf(reader.kind) /\ e \in Standing(reader.kind, exposed)
    BY StandingRows DEF Steady
  <2>3. Selects(reader.where, e)
    BY <1>2 DEF Steady
  <2>4. e[2] = "wish" => e[1] \in wished
    BY <2>2 DEF Standing
  <2>5. reader.where.form \in {"all", "except", "only"}
    BY <1>1, ReaderFields DEF Where
  <2> QED BY <2>2, <2>3, <2>4, <2>5 DEF Selects, Matches
<1>6. ~lost' => found = {x \in matching : reader.cursor = None \/ Before(reader.cursor, x)}
  <2> SUFFICES ASSUME ~lost'
               PROVE  found = {x \in matching : reader.cursor = None \/ Before(reader.cursor, x)}
    OBVIOUS
  <2>1. CASE reader.cursor = None
    BY <2>1 DEF From
  <2>2. CASE reader.cursor # None
    <3>1. reader.cursor \in matching
      BY <1>2, <2>2
    <3> HIDE DEF matching
    <3> QED BY <1>3, <1>4, <2>2, <3>1, FromSkipsOne
  <2> QED BY <2>1, <2>2
<1>7. \A x \in found \ data : more /\ \A y \in data : Before(y, x)
  <2> HIDE DEF found
  <2> QED BY <1>3, <1>4, LeftOutComesAfter
<1>8. more => last \in data
  <2> SUFFICES ASSUME more PROVE last \in data
    OBVIOUS
  <2>1. found # {}
    BY FS_EmptySet
  <2> HIDE DEF found
  <2> QED BY <1>3, <1>4, <2>1, PageHasLast
<1> HIDE DEF matching, found, data, more, last
<1>9. /\ reader'.pc = step /\ reader'.cursor = next
  BY <1>1, <1>2 DEF ReaderOK, Reader
<1>10. ASSUME ~lost', NEW e \in steady' PROVE e[1] \in listed' \cup shown' \/ Ahead(e[1])'
  <2>1. e \in steady
    BY <1>2, <1>10, SteadyNow
  <2>2. shown = {}
    BY <1>2 DEF Inv, Behind
  <2>3. e[1] \in listed \/ Ahead(e[1])
    BY <1>2, <1>10, <2>1, <2>2 DEF NoneMissed
  <2>4. CASE e[1] \in listed \/ e[1] \in data
    BY <1>2, <2>4
  <2>5. CASE e[1] \notin listed /\ e[1] \notin data
    <3>1. e[1] \in found
      BY <1>5, <1>6, <1>10, <2>1, <2>3, <2>5 DEF Ahead
    <3>2. more /\ Before(last, e[1])
      BY <1>7, <1>8, <2>5, <3>1
    <3> QED BY <1>2, <1>9, <3>2 DEF Ahead, Before
  <2> QED BY <2>4, <2>5
<1>11. NoneMissed'
  BY <1>10 DEF NoneMissed
<1> QED BY <1>9, <1>11, SteadyNow DEF Steady

LEMMA LeaveMissesNone ==
  ASSUME Leave, Watch
  PROVE  Steady' /\ NoneMissed'
<1>1. reader'.pc = "idle"
  BY DEF Leave, Idle
<1> QED BY <1>1, SteadyNow DEF Steady, NoneMissed

-----------------------------------------------------------------------------
(* What a PATCH read.                                                      *)

LEMMA WritesKeepCurrent ==
  ASSUME Inv, Current, Owner
  PROVE  Current'
<1>1. TablesOK /\ Placed
  BY TypeParts DEF Inv
<1>2. fresh' \subseteq fresh
  BY <1>1, OwnerWrites DEF Written
<1>3. ASSUME patch' = patch, \A i \in Items \ fresh : userData'[i] = userData[i]
      PROVE  Current'
  BY <1>1, <1>2, <1>3, PatchFields DEF Current
<1>4. ASSUME NEW i \in Items, NEW s \in Stamps, NEW st \in Stored, NEW n \in Nodes \cup {None},
             CreateItem(i, s, st, n)
      PROVE  Current'
  <2>1. i \in fresh /\ patch' = patch /\ userData' = [userData EXCEPT ![i].status = st]
    BY <1>4 DEF CreateItem, Born
  <2>2. \A j \in Items \ fresh : userData'[j] = userData[j]
    BY <1>1, <2>1 DEF TablesOK
  <2> QED BY <1>3, <2>1, <2>2
<1>5. ASSUME NEW p \in Patchers, NEW i \in Items, NEW sent \in Sent, BeginPatch(p, i, sent)
      PROVE  Current'
  <2> DEFINE new == [item |-> i, sent |-> sent, read |-> userData[i], from |-> nodeOf[i],
                     alone |-> TRUE]
  <2>1. /\ i \in rows /\ patch' = [patch EXCEPT ![p] = new] /\ userData' = userData
    BY <1>5 DEF BeginPatch, tables
  <2>2. i \notin fresh /\ new.item = i /\ new.read = userData[i]
    BY <1>1, <2>1 DEF TablesOK
  <2> HIDE DEF new
  <2>3. \A o \in Patchers : patch'[o] = IF o = p THEN new ELSE patch[o]
    BY <1>1, <2>1 DEF TablesOK
  <2> QED BY <1>2, <2>1, <2>2, <2>3 DEF Current
<1>6. ASSUME NEW p \in Patchers, CommitPatch(p) PROVE Current'
  <2>1. PICK i \in Items : i = patch[p].item /\ patch[p] # None
    BY <1>1, <1>6, PatchFields DEF CommitPatch
  <2>2. \A j \in Items : j # i => userData'[j] = userData[j]
    BY <1>1, <1>6, <2>1 DEF CommitPatch, TablesOK
  <2>3. \A o \in Patchers :
          patch'[o] = IF o = p THEN None
                      ELSE IF patch[o] # None /\ patch[o].item = i
                           THEN [patch[o] EXCEPT !.alone = FALSE] ELSE patch[o]
    BY <1>6, <2>1 DEF CommitPatch
  <2>4. ASSUME NEW w \in Patch
        PROVE  [w EXCEPT !.alone = FALSE].item = w.item /\ [w EXCEPT !.alone = FALSE].alone = FALSE
    BY DEF Patch
  <2>5. ASSUME NEW o \in Patchers, patch'[o] # None
        PROVE  patch'[o].item \notin fresh' /\ (patch'[o].alone => patch'[o].read = userData'[patch'[o].item])
    <3>1. patch[o] # None /\ patch[o] \in Patch /\ patch[o].item \in Items
      BY <1>1, <2>3, <2>5, PatchFields
    <3>2. CASE patch[o].item = i
      <4>1. patch'[o].item = i /\ patch'[o].alone = FALSE
        BY <2>3, <2>4, <2>5, <3>1, <3>2
      <4> QED BY <1>2, <3>1, <3>2, <4>1 DEF Current
    <3>3. CASE patch[o].item # i
      <4>1. patch'[o] = patch[o]
        BY <2>3, <2>5, <3>3
      <4> QED BY <1>2, <2>2, <3>1, <3>3, <4>1 DEF Current
    <3> QED BY <3>2, <3>3
  <2> QED BY <2>5 DEF Current
<1>7. ASSUME NEW p \in Patchers, FailPatch(p) PROVE Current'
  <2>1. /\ userData' = userData /\ \A o \in Patchers : patch'[o] = IF o = p THEN None ELSE patch[o]
    BY <1>1, <1>7 DEF FailPatch, tables, TablesOK
  <2> QED BY <1>2, <2>1 DEF Current
<1>8. ASSUME NEW n \in Nodes, NEW s \in Stamps, NEW w \in BOOLEAN, CreateNode(n, s, w) PROVE Current'
  BY <1>3, <1>8 DEF CreateNode
<1>9. ASSUME NEW i \in Items, RemoveItem(i) PROVE Current'
  BY <1>3, <1>9 DEF RemoveItem
<1>10. ASSUME NEW n \in Nodes, NEW w \in BOOLEAN, UpdateNode(n, w) PROVE Current'
  BY <1>3, <1>10 DEF UpdateNode
<1>11. ASSUME NEW S \in SUBSET Statuses, Regrant(S) PROVE Current'
  BY <1>3, <1>11 DEF Regrant, tables
<1> QED BY <1>4, <1>5, <1>6, <1>7, <1>8, <1>9, <1>10, <1>11 DEF Owner

LEMMA InitIInv == Init => IInv
<1> SUFFICES ASSUME Init PROVE IInv
  OBVIOUS
<1>1. Inv
  BY InitInv
<1>2. Steady /\ NoneMissed /\ Current
  BY DEF Init, Idle, Steady, NoneMissed, Current
<1> QED BY <1>1, <1>2 DEF IInv

LEMMA NextKeepsIInv == IInv /\ [Next]_vars => IInv'
<1> SUFFICES ASSUME IInv, [Next]_vars PROVE IInv'
  OBVIOUS
<1>1. Inv'
  BY NextKeeps DEF IInv
<1>2. CASE Owner /\ Watch
  BY <1>1, <1>2, OwnerMissesNone, WritesKeepCurrent DEF IInv
<1>3. CASE Read /\ Watch
  <2>1. Steady' /\ NoneMissed'
    BY <1>3, RequestMissesNone, ScopeMissesNone, FetchMissesNone, LeaveMissesNone DEF Read, IInv
  <2>2. fresh' = fresh /\ patch' = patch /\ userData' = userData
    BY <1>3 DEF Read, Request, Scope, Fetch, Leave, tables
  <2> QED BY <1>1, <2>1, <2>2 DEF IInv, Current
<1>4. CASE UNCHANGED vars
  <2>1. UNCHANGED <<rows, fresh, stamp, userData, nodeOf, wished, exposed, patch, reader, listed, shown, lost, steady>>
    BY <1>4 DEF vars, tables, pages
  <2>2. StandingNow' = StandingNow
    BY <2>1 DEF StandingNow, Standing, RowsOf, ItemsUnder, NodesUnder, EffectiveStatus
  <2>3. Steady' /\ NoneMissed' /\ Current'
    BY <2>1, <2>2 DEF IInv, Steady, NoneMissed, Ahead, Before, Current
  <2> QED BY <1>1, <2>3 DEF IInv
<1> QED BY <1>2, <1>3, <1>4 DEF Next

LEMMA AlwaysIInv == Spec => []IInv
BY InitIInv, NextKeepsIInv, PTL DEF Spec

-----------------------------------------------------------------------------
(* The theorems.                                                           *)

\* Type correctness.
THEOREM TypesHold == Spec => []TypeOK
<1>1. Inv => TypeOK
  BY DEF Inv
<1> QED BY <1>1, AlwaysInv, PTL

\* Whatever is written between two pages, no row is on both.
THEOREM PagesAreDisjoint == Spec => []NoRowTwice
<1>1. Inv => NoRowTwice
  BY DEF Inv
<1> QED BY <1>1, AlwaysInv, PTL

\* A member is shown no row that was hidden from him all along his request,
\* though the filter, its ids and the page are read at three moments.
THEOREM HiddenStaysHidden == Spec => []OnlyVisibleShown
<1>1. Inv => OnlyVisibleShown
  BY DEF Inv
<1> QED BY <1>1, AlwaysInv, PTL

\* The two forms of a filter agree with the reads of one row.
THEOREM ListsAgreeWithDetail == Spec => []ListAgreesWithDetail
<1>1. Inv => ListAgreesWithDetail
  <2> SUFFICES ASSUME Inv PROVE ListAgreesWithDetail
    OBVIOUS
  <2>1. TablesOK
    BY TypeParts DEF Inv
  <2>2. exposed \in SUBSET Statuses
    BY <2>1 DEF TablesOK
  <2> QED BY <2>1, <2>2, MatchedIsVisible DEF ListAgreesWithDetail
<1> QED BY <1>1, AlwaysInv, PTL

\* The numbers a requester is told are of what he is shown, and the volumes he
\* is shown are in series he is shown.
THEOREM CountsAreShown == Spec => []CountsAreOfWhatIsShown
<1>1. Inv => CountsAreOfWhatIsShown
  <2> SUFFICES ASSUME Inv PROVE CountsAreOfWhatIsShown
    OBVIOUS
  <2>1. TablesOK /\ Placed
    BY TypeParts DEF Inv
  <2>2. exposed \in SUBSET Statuses
    BY <2>1 DEF TablesOK
  <2>3. CountItems(exposed) = Cardinality(Visible("items", exposed))
    BY <2>1, <2>2, MatchedIsVisible DEF CountItems, Kinds
  <2>4. CountNodes(exposed) = Cardinality(Visible("nodes", exposed))
    BY <2>1, <2>2, MatchedIsVisible DEF CountNodes, Kinds
  <2>5. \A i \in Visible("items", exposed) : nodeOf[i] \in Visible("nodes", exposed) \cup {None}
    BY <2>1, <2>2, SeriesOfVisible
  <2> QED BY <2>3, <2>4, <2>5 DEF CountsAreOfWhatIsShown
<1> QED BY <1>1, AlwaysInv, PTL

\* A row is listed, counted and opened alike by whoever may read it.
THEOREM ViewsAlwaysAgree == Spec => []ViewsAgree
BY ListsAgreeWithDetail, CountsAreShown, PTL DEF ViewsAgree

\* A traversal that came to its end listed every row that was visible from its
\* first request on, unless the row a page was asked from was lost: whatever
\* was written meanwhile, and however the share moved.
THEOREM NoSteadyRowIsMissed == Spec => []SteadyRowsListed
<1>1. IInv => SteadyRowsListed
  BY DEF IInv, NoneMissed, Ahead, SteadyRowsListed
<1> QED BY <1>1, AlwaysIInv, PTL

\* A PATCH no other PATCH of the item overtook leaves the keys it does not name.
THEOREM LonePatchesKeepOthers == Spec => LonePatchKeepsOthers
<1> DEFINE Keeps(p) ==
      patch[p] # None /\ patch'[p] = None /\ patch[p].alone =>
        LET i == patch[p].item
            sent == patch[p].sent
        IN  /\ sent.status = Same => userData'[i].status = userData[i].status
            /\ sent.rating = Same => userData'[i].rating = userData[i].rating
<1>1. ASSUME IInv, [Next]_vars, NEW p \in Patchers PROVE Keeps(p)
  <2> SUFFICES ASSUME patch[p] # None, patch'[p] = None, patch[p].alone
               PROVE  LET i == patch[p].item
                          sent == patch[p].sent
                      IN  /\ sent.status = Same => userData'[i].status = userData[i].status
                          /\ sent.rating = Same => userData'[i].rating = userData[i].rating
    OBVIOUS
  <2>1. TablesOK
    BY <1>1, TypeParts DEF IInv, Inv
  <2>2. patch[p].item \in Items /\ patch[p].read = userData[patch[p].item] /\ patch[p] \in Patch
    BY <1>1, <2>1, PatchFields DEF IInv, Current
  <2>3. CASE userData' = userData
    BY <2>3
  <2>4. CASE CommitPatch(p)
    <3>1. \/ userData' = userData
          \/ userData' = [userData EXCEPT ![patch[p].item] = Merged(patch[p].read, patch[p].sent)]
      BY <2>4 DEF CommitPatch
    <3> QED BY <2>1, <2>2, <3>1 DEF Merged, TablesOK
  <2>5. ASSUME NEW o \in Patchers, CommitPatch(o), o # p PROVE FALSE
    <3>1. ASSUME NEW w \in Patch PROVE [w EXCEPT !.alone = FALSE] \in Patch
      BY DEF Patch
    <3>2. patch'[p] \in Patch
      BY <2>2, <2>5, <3>1 DEF CommitPatch
    <3> QED BY <3>2, NoneAssumption
  <2>6. ASSUME patch' = patch PROVE FALSE
    BY <2>6
  <2>7. ASSUME NEW o \in Patchers, NEW i \in Items, NEW sent \in Sent, BeginPatch(o, i, sent)
        PROVE  userData' = userData
    BY <2>7 DEF BeginPatch, tables
  <2>8. ASSUME NEW o \in Patchers, FailPatch(o) PROVE userData' = userData
    BY <2>8 DEF FailPatch, tables
  <2>9. CASE Owner
    <3>1. ASSUME NEW i \in Items, NEW s \in Stamps, NEW st \in Stored, NEW n \in Nodes \cup {None},
                 CreateItem(i, s, st, n)
          PROVE  patch' = patch
      BY <3>1 DEF CreateItem
    <3>2. ASSUME NEW n \in Nodes, NEW s \in Stamps, NEW w \in BOOLEAN, CreateNode(n, s, w)
          PROVE  patch' = patch
      BY <3>2 DEF CreateNode
    <3>3. ASSUME NEW i \in Items, RemoveItem(i) PROVE patch' = patch
      BY <3>3 DEF RemoveItem
    <3>4. ASSUME NEW n \in Nodes, NEW w \in BOOLEAN, UpdateNode(n, w) PROVE patch' = patch
      BY <3>4 DEF UpdateNode
    <3>5. ASSUME NEW S \in SUBSET Statuses, Regrant(S) PROVE patch' = patch
      BY <3>5 DEF Regrant
    <3> QED BY <2>3, <2>4, <2>5, <2>6, <2>7, <2>8, <2>9, <3>1, <3>2, <3>3, <3>4, <3>5 DEF Owner
  <2>10. CASE Read
    BY <2>6, <2>10 DEF Read, Request, Scope, Fetch, Leave
  <2>11. CASE UNCHANGED vars
    BY <2>6, <2>11 DEF vars
  <2> QED BY <1>1, <2>9, <2>10, <2>11 DEF Next
<1>2. IInv /\ [Next]_vars => \A p \in Patchers : Keeps(p)
  BY <1>1
<1>3. (\A p \in Patchers : Keeps(p)) => [\A p \in Patchers : Keeps(p)]_vars
  OBVIOUS
<1> QED BY <1>2, <1>3, AlwaysIInv, PTL DEF Spec, LonePatchKeepsOthers
=============================================================================
