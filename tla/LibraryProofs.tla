---------------------------- MODULE LibraryProofs ----------------------------
(***************************************************************************)
(* Theorems about Library, for any number of collections, nodes, items and *)
(* requests in flight, and any limits.                                     *)
(***************************************************************************)
EXTENDS Library, FiniteSetTheorems, WellFoundedInduction, TLAPS

\* A request in flight may speak of rows that are gone, never of rows that
\* have become something else: ids do not come back while it runs.
RequestsAgree ==
  \A q \in inflight :
    /\ q.op = "createNode" => q.collection \notin Flat
    /\ q.op = "createItem" =>
         /\ q.ref # Null => q.node = Null /\ q.collection \notin Flat
         /\ q.node \in NodeRows => nodeCollection[q.node] = q.collection
    /\ q.op = "updateItem" /\ q.item \in ItemRows /\ q.to \in NodeRows =>
         nodeCollection[q.to] = itemCollection[q.item]
    /\ q.op = "removeItem" /\ q.item \in ItemRows =>
         itemCollection[q.item] = q.collection

\* The inductive invariant.
Inv == TypeOK /\ ItemsStayInTheirCollection /\ ItemCountCoversItems /\ RequestsAgree

-----------------------------------------------------------------------------
LEMMA ItemsOfFinite == \A c \in Collections : IsFiniteSet(ItemsOf(c))
BY ItemsAssumption, FS_Subset DEF ItemsOf

\* Rows may go, and items may move between nodes, without disturbing the count.
LEMMA FewerItems ==
  ASSUME ItemCountCoversItems, UNCHANGED itemCount, TypeOK,
         \A c \in Collections : ItemsOf(c)' \subseteq ItemsOf(c)
  PROVE  ItemCountCoversItems'
<1> SUFFICES ASSUME NEW c \in Collections
             PROVE  Cardinality(ItemsOf(c)') <= itemCount'[c]
  BY DEF ItemCountCoversItems
<1>1. /\ IsFiniteSet(ItemsOf(c)) /\ IsFiniteSet(ItemsOf(c)')
      /\ Cardinality(ItemsOf(c)') <= Cardinality(ItemsOf(c))
  BY ItemsOfFinite, FS_Subset
<1>2. Cardinality(ItemsOf(c)) \in Nat /\ Cardinality(ItemsOf(c)') \in Nat
  BY <1>1, FS_CardinalityType
<1>3. Cardinality(ItemsOf(c)) <= itemCount[c] /\ itemCount[c] \in Nat
  BY DEF ItemCountCoversItems, TypeOK
<1> QED BY <1>1, <1>2, <1>3

LEMMA InitInv == Init => Inv
<1> SUFFICES ASSUME Init PROVE Inv
  OBVIOUS
<1>1. TypeOK /\ ItemsStayInTheirCollection /\ RequestsAgree
  BY DEF Init, TypeOK, ItemsStayInTheirCollection, RequestsAgree, ItemRows, NodeRows
<1>2. \A c \in Collections : ItemsOf(c) = {}
  BY NullAssumption DEF Init, ItemsOf
<1> QED BY <1>1, <1>2, FS_EmptySet DEF Inv, ItemCountCoversItems, Init

\* The types of the requests, one kind at a time.
LEMMA RequestTypes ==
  ASSUME TypeOK, NEW q \in inflight
  PROVE  /\ q.op = "createNode" => /\ q.collection \in Collections
                                   /\ q.ref \in Refs \cup {Null}
         /\ q.op = "updateNode" => q.node \in Nodes
         /\ q.op = "attachSource" => q.node \in Nodes /\ q.refs \in SUBSET Refs
         /\ q.op = "createItem" => /\ q.collection \in Collections
                                   /\ q.node \in Nodes \cup {Null}
                                   /\ q.ref \in Refs \cup {Null}
                                   /\ q.volume \in Volumes \cup {Null}
         /\ q.op = "updateItem" => /\ q.item \in Items
                                   /\ q.node \in Nodes \cup {Null}
                                   /\ q.to \in Nodes \cup {Null, Same}
                                   /\ q.volume \in Volumes \cup {Null, Same}
         /\ q.op = "removeItem" => /\ q.item \in Items
                                   /\ q.collection \in Collections
                                   /\ q.node \in Nodes \cup {Null}
BY DEF TypeOK, Request

-----------------------------------------------------------------------------
(***************************************************************************)
(* Steps that write no row.                                                *)
(***************************************************************************)
LEMMA NoWrite ==
  ASSUME Inv, UNCHANGED rows, inflight' \subseteq Request, RequestsAgree'
  PROVE  Inv'
<1>1. \A c \in Collections : ItemsOf(c)' = ItemsOf(c)
  BY DEF rows, itemVars, ItemsOf
<1>2. ItemCountCoversItems'
  BY <1>1, FewerItems DEF Inv, rows
<1>3. TypeOK'
  BY DEF Inv, TypeOK, rows, nodeVars, itemVars
<1>4. ItemsStayInTheirCollection'
  BY DEF Inv, ItemsStayInTheirCollection, rows, nodeVars, itemVars, ItemRows, NodeRows
<1> QED BY <1>2, <1>3, <1>4 DEF Inv

LEMMA OpenCreateCollectionInv ==
  ASSUME Inv, NEW r \in Requests, OpenCreateCollection(r) PROVE Inv'
<1> DEFINE q == [id |-> r, op |-> "createCollection"]
<1>1. UNCHANGED rows /\ inflight' = inflight \cup {q}
  BY DEF OpenCreateCollection, Check
<1>2. q \in Request
  BY DEF Request
<1>3. RequestsAgree'
  BY <1>1 DEF Inv, RequestsAgree, rows, nodeVars, itemVars, ItemRows, NodeRows
<1> QED BY <1>1, <1>2, <1>3, NoWrite DEF Inv, TypeOK

LEMMA CheckCreateNodeInv ==
  ASSUME Inv, NEW r \in Requests, NEW c \in Collections, NEW ref \in Refs \cup {Null},
         NEW wish \in BOOLEAN, CheckCreateNode(r, c, ref, wish)
  PROVE  Inv'
<1> DEFINE q == [id |-> r, op |-> "createNode", open |-> FALSE,
                 collection |-> c, ref |-> ref, wish |-> wish]
<1>1. UNCHANGED rows /\ inflight' = inflight \cup {q} /\ c \notin Flat
  BY DEF CheckCreateNode, Check
<1>2. q \in Request
  BY DEF Request
<1>3. RequestsAgree'
  BY <1>1 DEF Inv, RequestsAgree, rows, nodeVars, itemVars, ItemRows, NodeRows
<1> QED BY <1>1, <1>2, <1>3, NoWrite DEF Inv, TypeOK

LEMMA CheckUpdateNodeInv ==
  ASSUME Inv, NEW r \in Requests, NEW n \in Nodes, NEW wish \in BOOLEAN \cup {Same},
         CheckUpdateNode(r, n, wish)
  PROVE  Inv'
<1> DEFINE q == [id |-> r, op |-> "updateNode", node |-> n, wish |-> wish,
                 purge |-> wish = FALSE /\ ItemsIn(n) = {}]
<1>1. UNCHANGED rows /\ inflight' = inflight \cup {q}
  BY DEF CheckUpdateNode, Check
<1>2. q \in Request
  <2>1. (wish = FALSE /\ ItemsIn(n) = {}) \in BOOLEAN
    OBVIOUS
  <2> QED BY <2>1 DEF Request
<1>3. RequestsAgree'
  BY <1>1 DEF Inv, RequestsAgree, rows, nodeVars, itemVars, ItemRows, NodeRows
<1> QED BY <1>1, <1>2, <1>3, NoWrite DEF Inv, TypeOK

LEMMA CheckAttachSourceInv ==
  ASSUME Inv, NEW r \in Requests, NEW n \in Nodes, NEW ref \in Refs,
         CheckAttachSource(r, n, ref)
  PROVE  Inv'
<1> DEFINE q == [id |-> r, op |-> "attachSource", node |-> n, refs |-> sources[n] \cup {ref}]
<1>1. UNCHANGED rows /\ inflight' = inflight \cup {q}
  BY DEF CheckAttachSource, Check
<1>2. q \in Request
  BY DEF Request, Inv, TypeOK
<1>3. RequestsAgree'
  BY <1>1 DEF Inv, RequestsAgree, rows, nodeVars, itemVars, ItemRows, NodeRows
<1> QED BY <1>1, <1>2, <1>3, NoWrite DEF Inv, TypeOK

LEMMA CheckCreateItemInv ==
  ASSUME Inv, NEW r \in Requests, NEW c \in Collections, NEW n \in Nodes \cup {Null},
         NEW ref \in Refs \cup {Null}, NEW v \in Volumes \cup {Null},
         CheckCreateItem(r, c, n, ref, v)
  PROVE  Inv'
<1> DEFINE q == [id |-> r, op |-> "createItem", open |-> FALSE, collection |-> c,
                 node |-> n, ref |-> ref, volume |-> v]
<1>1. UNCHANGED rows /\ inflight' = inflight \cup {q}
  BY DEF CheckCreateItem, Check
<1>2. q \in Request
  BY DEF Request
<1>3. /\ ref # Null => n = Null /\ c \notin Flat
      /\ n \in NodeRows => nodeCollection[n] = c
  BY NullAssumption DEF CheckCreateItem, NodeOwned, NodeRows
<1>4. RequestsAgree'
  BY <1>1, <1>3 DEF Inv, RequestsAgree, rows, nodeVars, itemVars, ItemRows, NodeRows
<1> QED BY <1>1, <1>2, <1>4, NoWrite DEF Inv, TypeOK

LEMMA CheckUpdateItemInv ==
  ASSUME Inv, NEW r \in Requests, NEW i \in Items, NEW to \in Nodes \cup {Null, Same},
         NEW v \in Volumes \cup {Null, Same}, CheckUpdateItem(r, i, to, v)
  PROVE  Inv'
<1> DEFINE q == [id |-> r, op |-> "updateItem", open |-> FALSE, item |-> i,
                 node |-> itemNode[i], to |-> to, volume |-> v, purge |-> FALSE]
<1>1. UNCHANGED rows /\ inflight' = inflight \cup {q}
  BY DEF CheckUpdateItem, Check
<1>2. q \in Request
  BY DEF Request, Inv, TypeOK
<1>3. to \in NodeRows => nodeCollection[to] = itemCollection[i]
  BY DEF CheckUpdateItem, NodeOwned, NodeRows
<1>4. RequestsAgree'
  BY <1>1, <1>3 DEF Inv, RequestsAgree, rows, nodeVars, itemVars, ItemRows, NodeRows
<1> QED BY <1>1, <1>2, <1>4, NoWrite DEF Inv, TypeOK

LEMMA CheckRemoveItemInv ==
  ASSUME Inv, NEW r \in Requests, NEW i \in Items, CheckRemoveItem(r, i)
  PROVE  Inv'
<1> DEFINE q == [id |-> r, op |-> "removeItem", open |-> FALSE, item |-> i,
                 collection |-> itemCollection[i], node |-> itemNode[i], purge |-> FALSE]
<1>1. UNCHANGED rows /\ inflight' = inflight \cup {q} /\ i \in ItemRows
  BY DEF CheckRemoveItem, Check
<1>2. q \in Request
  BY <1>1 DEF Request, Inv, TypeOK, ItemRows
<1>3. RequestsAgree'
  BY <1>1 DEF Inv, RequestsAgree, rows, nodeVars, itemVars, ItemRows, NodeRows
<1> QED BY <1>1, <1>2, <1>3, NoWrite DEF Inv, TypeOK

\* Opening the transaction keeps what the request was about.
LEMMA OpenCreationInv ==
  ASSUME Inv, NEW q \in inflight, OpenCreateNode(q) \/ OpenCreateItem(q)
  PROVE  Inv'
<1> DEFINE o == [q EXCEPT !.open = TRUE]
<1>1. /\ UNCHANGED rows /\ inflight' = (inflight \ {q}) \cup {o}
      /\ q.op = "createNode" \/ q.op = "createItem"
  BY DEF OpenCreateNode, OpenCreateItem, Open
<1>2. q \in Request
  BY DEF Inv, TypeOK
<1>3. /\ o \in Request /\ o.op = q.op /\ o.collection = q.collection /\ o.ref = q.ref
      /\ q.op = "createItem" => o.node = q.node
  <2>1. CASE q.op = "createNode"
    BY <1>2, <2>1 DEF Request
  <2>2. CASE q.op = "createItem"
    BY <1>2, <2>2 DEF Request
  <2> QED BY <1>1, <2>1, <2>2
<1> HIDE DEF o
<1>4. RequestsAgree'
  BY <1>1, <1>3 DEF Inv, RequestsAgree, rows, nodeVars, itemVars, ItemRows, NodeRows
<1> QED BY <1>1, <1>3, <1>4, NoWrite DEF Inv, TypeOK

LEMMA OpenRemovalInv ==
  ASSUME Inv, NEW q \in inflight, OpenUpdateItem(q) \/ OpenRemoveItem(q)
  PROVE  Inv'
<1> DEFINE b == NodeIsEmpty(q.node, {q.item})
           o == [q EXCEPT !.open = TRUE, !.purge = b]
<1>1. /\ UNCHANGED rows /\ inflight' = (inflight \ {q}) \cup {o}
      /\ q.op = "updateItem" \/ q.op = "removeItem"
  BY DEF OpenUpdateItem, OpenRemoveItem, Open
<1>2. q \in Request /\ b \in BOOLEAN
  BY DEF Inv, TypeOK, NodeIsEmpty
<1> HIDE DEF b
<1>3. /\ o \in Request /\ o.op = q.op /\ o.item = q.item
      /\ q.op = "updateItem" => o.to = q.to
      /\ q.op = "removeItem" => o.collection = q.collection
  <2>1. CASE q.op = "updateItem"
    BY <1>2, <2>1 DEF Request
  <2>2. CASE q.op = "removeItem"
    BY <1>2, <2>2 DEF Request
  <2> QED BY <1>1, <2>1, <2>2
<1> HIDE DEF o
<1>4. RequestsAgree'
  BY <1>1, <1>3 DEF Inv, RequestsAgree, rows, nodeVars, itemVars, ItemRows, NodeRows
<1> QED BY <1>1, <1>3, <1>4, NoWrite DEF Inv, TypeOK

LEMMA RollbackInv == ASSUME Inv, NEW q \in inflight, Rollback(q) PROVE Inv'
<1>1. UNCHANGED rows /\ inflight' \subseteq inflight
  BY DEF Rollback, Finish
<1>2. RequestsAgree'
  BY <1>1 DEF Inv, RequestsAgree, rows, nodeVars, itemVars, ItemRows, NodeRows
<1> QED BY <1>1, <1>2, NoWrite DEF Inv, TypeOK
-----------------------------------------------------------------------------
(***************************************************************************)
(* Steps that delete or move rows.                                         *)
(***************************************************************************)
LEMMA FewerRows ==
  ASSUME RequestsAgree, inflight' \subseteq inflight,
         \A n \in Nodes : nodeCollection'[n] \in {nodeCollection[n], Null},
         \A i \in Items : itemCollection'[i] \in {itemCollection[i], Null}
  PROVE  /\ RequestsAgree'
         /\ \A c \in Collections : ItemsOf(c)' \subseteq ItemsOf(c)
<1>1. RequestsAgree'
  BY DEF RequestsAgree, ItemRows, NodeRows
<1>2. \A c \in Collections : ItemsOf(c)' \subseteq ItemsOf(c)
  BY NullAssumption DEF ItemsOf
<1> QED BY <1>1, <1>2

LEMMA CommitCreateCollectionInv ==
  ASSUME Inv, NEW q \in inflight, NEW c \in Collections, CommitCreateCollection(q, c)
  PROVE  Inv'
<1>1. /\ UNCHANGED <<itemCount, nodeVars, itemVars>> /\ inflight' \subseteq inflight
      /\ collections' = collections \cup {c}
  BY DEF CommitCreateCollection, Finish
<1>2. TypeOK'
  BY <1>1 DEF Inv, TypeOK, nodeVars, itemVars
<1>3. ItemsStayInTheirCollection'
  <2>1. \A n \in NodeRows : nodeCollection[n] \in collections \ Flat
    BY DEF Inv, ItemsStayInTheirCollection
  <2> QED BY <1>1, <2>1
      DEF Inv, ItemsStayInTheirCollection, nodeVars, itemVars, NodeRows, ItemRows
<1>4. RequestsAgree' /\ \A d \in Collections : ItemsOf(d)' \subseteq ItemsOf(d)
  BY <1>1, FewerRows DEF Inv, nodeVars, itemVars
<1> QED BY <1>1, <1>2, <1>3, <1>4, FewerItems DEF Inv

LEMMA RemoveCollectionInv ==
  ASSUME Inv, NEW c \in Collections, RemoveCollection(c) PROVE Inv'
<1> DEFINE N == {n \in Nodes : nodeCollection[n] = c}
           I == ItemsOf(c)
<1>1. /\ \A n \in Nodes : nodeCollection'[n] = IF n \in N THEN Null ELSE nodeCollection[n]
      /\ \A i \in Items : itemCollection'[i] = IF i \in I THEN Null ELSE itemCollection[i]
      /\ \A i \in Items : itemNode'[i] = IF i \in I THEN Null ELSE itemNode[i]
      /\ \A i \in Items : volume'[i] = IF i \in I THEN Null ELSE volume[i]
      /\ collections' = collections \ {c} /\ inflight' = inflight
      /\ itemCount' = [itemCount EXCEPT ![c] = 0]
  BY DEF RemoveCollection, DropNodes, DropItems, Without, Inv, TypeOK
<1>2. TypeOK'
  BY <1>1 DEF RemoveCollection, DropNodes, DropItems, Without, Inv, TypeOK
<1>3. RequestsAgree' /\ \A d \in Collections : ItemsOf(d)' \subseteq ItemsOf(d)
  BY <1>1, FewerRows DEF Inv
<1>4. ItemsStayInTheirCollection'
  <2>1. ASSUME NEW i \in ItemRows', itemNode'[i] # Null
        PROVE  itemNode'[i] \in NodeRows' /\ nodeCollection'[itemNode'[i]] = itemCollection'[i]
    <3>1. /\ i \in ItemRows \ I /\ itemNode'[i] = itemNode[i]
          /\ itemCollection'[i] = itemCollection[i]
      BY <1>1, <2>1 DEF ItemRows
    <3>2. itemNode[i] \in NodeRows /\ nodeCollection[itemNode[i]] = itemCollection[i]
      BY <2>1, <3>1 DEF Inv, ItemsStayInTheirCollection
    <3>3. itemNode[i] \notin N
      BY <3>1, <3>2 DEF ItemsOf, ItemRows
    <3> QED BY <1>1, <3>1, <3>2, <3>3 DEF NodeRows
  <2>2. \A i \in Items \ ItemRows' : itemNode'[i] = Null /\ volume'[i] = Null
    BY <1>1 DEF Inv, ItemsStayInTheirCollection, ItemRows
  <2>3. /\ \A i \in ItemRows' : itemCollection'[i] \in collections'
        /\ \A n \in NodeRows' : nodeCollection'[n] \in collections' \ Flat
    BY <1>1 DEF Inv, ItemsStayInTheirCollection, ItemRows, NodeRows, ItemsOf
  <2> QED BY <2>1, <2>2, <2>3 DEF ItemsStayInTheirCollection
<1>5. ItemCountCoversItems'
  <2> SUFFICES ASSUME NEW d \in Collections
               PROVE  Cardinality(ItemsOf(d)') <= itemCount'[d]
    BY DEF ItemCountCoversItems
  <2>1. CASE d = c
    <3>1. ItemsOf(d)' = {}
      BY <1>1, <2>1, NullAssumption DEF ItemsOf
    <3> QED BY <1>1, <2>1, <3>1, FS_EmptySet DEF Inv, TypeOK
  <2>2. CASE d # c
    <3>1. ItemsOf(d)' = ItemsOf(d) /\ itemCount'[d] = itemCount[d]
      BY <1>1, <2>2, NullAssumption DEF ItemsOf, Inv, TypeOK
    <3> QED BY <3>1 DEF Inv, ItemCountCoversItems
  <2> QED BY <2>1, <2>2
<1> QED BY <1>2, <1>3, <1>4, <1>5 DEF Inv

\* The node goes with the items the cascade finds in it, or its flag changes.
LEMMA CommitUpdateNodeInv ==
  ASSUME Inv, NEW q \in inflight, CommitUpdateNode(q) PROVE Inv'
<1>0. q.node \in Nodes /\ q.node \in NodeRows /\ inflight' \subseteq inflight
      /\ UNCHANGED <<collections, itemCount>>
  BY DEF CommitUpdateNode, Finish, NodeRows
<1>1. CASE q.purge
  <2> DEFINE m == q.node
             I == ItemsIn(m)
  <2>1. /\ \A n \in Nodes : nodeCollection'[n] = IF n = m THEN Null ELSE nodeCollection[n]
        /\ \A i \in Items : itemCollection'[i] = IF i \in I THEN Null ELSE itemCollection[i]
        /\ \A i \in Items : itemNode'[i] = IF i \in I THEN Null ELSE itemNode[i]
        /\ \A i \in Items : volume'[i] = IF i \in I THEN Null ELSE volume[i]
    BY <1>1 DEF CommitUpdateNode, DropNodes, DropItems, Without, Inv, TypeOK
  <2>2. TypeOK'
    BY <1>0, <1>1 DEF CommitUpdateNode, DropNodes, DropItems, Without, Inv, TypeOK
  <2>3. RequestsAgree' /\ \A d \in Collections : ItemsOf(d)' \subseteq ItemsOf(d)
    BY <1>0, <2>1, FewerRows DEF Inv
  <2>4. ItemsStayInTheirCollection'
    BY <1>0, <2>1 DEF Inv, ItemsStayInTheirCollection, ItemRows, NodeRows, ItemsIn
  <2> QED BY <1>0, <2>2, <2>3, <2>4, FewerItems DEF Inv
<1>2. CASE ~q.purge
  <2>1. UNCHANGED <<nodeCollection, sources, itemVars>> /\ isWishlist' \subseteq Nodes
    BY <1>0, <1>2 DEF CommitUpdateNode, Inv, TypeOK
  <2>2. TypeOK'
    BY <1>0, <2>1 DEF Inv, TypeOK, itemVars
  <2>3. RequestsAgree' /\ \A d \in Collections : ItemsOf(d)' \subseteq ItemsOf(d)
    BY <1>0, <2>1, FewerRows DEF Inv, itemVars
  <2>4. ItemsStayInTheirCollection'
    BY <1>0, <2>1 DEF Inv, ItemsStayInTheirCollection, ItemRows, NodeRows, itemVars
  <2> QED BY <1>0, <2>2, <2>3, <2>4, FewerItems DEF Inv
<1> QED BY <1>1, <1>2

LEMMA CommitAttachSourceInv ==
  ASSUME Inv, NEW q \in inflight, CommitAttachSource(q) PROVE Inv'
<1>1. /\ UNCHANGED <<collections, itemCount, nodeCollection, isWishlist, itemVars>>
      /\ inflight' \subseteq inflight
  BY DEF CommitAttachSource, Finish
<1>2. TypeOK'
  BY <1>1, RequestTypes DEF CommitAttachSource, Inv, TypeOK, itemVars
<1>3. RequestsAgree' /\ \A d \in Collections : ItemsOf(d)' \subseteq ItemsOf(d)
  BY <1>1, FewerRows DEF Inv, itemVars
<1>4. ItemsStayInTheirCollection'
  BY <1>1 DEF Inv, ItemsStayInTheirCollection, ItemRows, NodeRows, itemVars
<1> QED BY <1>1, <1>2, <1>3, <1>4, FewerItems DEF Inv
LEMMA CommitUpdateItemInv ==
  ASSUME Inv, NEW q \in inflight, CommitUpdateItem(q) PROVE Inv'
<1> DEFINE i == q.item
           m == IF q.to = Same THEN itemNode[i] ELSE q.to
           v == IF q.volume = Same THEN volume[i] ELSE q.volume
           D == IF q.purge /\ q.node # m THEN {q.node} ELSE {}
           L == Cascade(D) \ {i}
<1>0. q.op = "updateItem" /\ inflight' \subseteq inflight
  BY DEF CommitUpdateItem, Finish
<1>1. /\ UNCHANGED <<collections, itemCount>>
      /\ i \in ItemRows /\ D \subseteq NodeRows
      /\ m # Null => m \in NodeRows
      /\ DropNodes(D)
      /\ itemCollection' = Without(itemCollection, L)
      /\ itemNode' = Without([itemNode EXCEPT ![i] = m], L)
      /\ volume' = Without([volume EXCEPT ![i] = v], L)
  BY DEF CommitUpdateItem
<1>2. /\ m \in Nodes \cup {Null} /\ v \in Volumes \cup {Null} /\ m \notin D
      /\ i \in Items /\ i \notin L
  BY <1>0, <1>1, RequestTypes DEF Inv, TypeOK
<1>3. m # Null => nodeCollection[m] = itemCollection[i]
  BY <1>0, <1>1, SameAssumption DEF Inv, RequestsAgree, ItemsStayInTheirCollection
<1>4. L = {j \in ItemRows : itemNode[j] \in D} \ {i}
  BY DEF Cascade, ItemsIn
<1> HIDE DEF i, m, v, D, L
<1>5. /\ \A n \in Nodes : nodeCollection'[n] = IF n \in D THEN Null ELSE nodeCollection[n]
      /\ \A j \in Items : itemCollection'[j] = IF j \in L THEN Null ELSE itemCollection[j]
      /\ \A j \in Items : itemNode'[j] = IF j \in L THEN Null ELSE IF j = i THEN m ELSE itemNode[j]
      /\ \A j \in Items : volume'[j] = IF j \in L THEN Null ELSE IF j = i THEN v ELSE volume[j]
  BY <1>1, <1>2 DEF DropNodes, Without, Inv, TypeOK
<1>6. TypeOK'
  BY <1>0, <1>1, <1>2 DEF DropNodes, Without, Inv, TypeOK
<1>7. RequestsAgree' /\ \A d \in Collections : ItemsOf(d)' \subseteq ItemsOf(d)
  BY <1>0, <1>5, FewerRows DEF Inv
<1>8. ItemsStayInTheirCollection'
  <2>1. ASSUME NEW j \in ItemRows', itemNode'[j] # Null
        PROVE  itemNode'[j] \in NodeRows' /\ nodeCollection'[itemNode'[j]] = itemCollection'[j]
    <3>1. j \in ItemRows \ L /\ itemCollection'[j] = itemCollection[j]
      BY <1>5, <2>1 DEF ItemRows
    <3>2. CASE j = i
      BY <1>1, <1>2, <1>3, <1>5, <2>1, <3>1, <3>2 DEF NodeRows
    <3>3. CASE j # i
      <4>1. itemNode'[j] = itemNode[j] /\ itemNode[j] \notin D
        BY <1>4, <1>5, <3>1, <3>3 DEF ItemRows
      <4>2. itemNode[j] \in NodeRows /\ nodeCollection[itemNode[j]] = itemCollection[j]
        BY <2>1, <3>1, <4>1 DEF Inv, ItemsStayInTheirCollection
      <4> QED BY <1>5, <3>1, <4>1, <4>2 DEF NodeRows
    <3> QED BY <3>2, <3>3
  <2>2. \A j \in Items \ ItemRows' : itemNode'[j] = Null /\ volume'[j] = Null
    BY <1>1, <1>5 DEF Inv, ItemsStayInTheirCollection, ItemRows
  <2>3. /\ \A j \in ItemRows' : itemCollection'[j] \in collections'
        /\ \A n \in NodeRows' : nodeCollection'[n] \in collections' \ Flat
    BY <1>1, <1>5 DEF Inv, ItemsStayInTheirCollection, ItemRows, NodeRows
  <2> QED BY <2>1, <2>2, <2>3 DEF ItemsStayInTheirCollection
<1> QED BY <1>1, <1>6, <1>7, <1>8, FewerItems DEF Inv

LEMMA CommitRemoveItemInv ==
  ASSUME Inv, NEW q \in inflight, CommitRemoveItem(q) PROVE Inv'
<1> DEFINE i == q.item
           c == q.collection
           D == IF q.purge THEN {q.node} ELSE {}
           L == {i} \cup Cascade(D)
<1>0. q.op = "removeItem" /\ inflight' \subseteq inflight
  BY DEF CommitRemoveItem, Finish
<1>1. /\ UNCHANGED collections /\ itemCount' = [itemCount EXCEPT ![c] = @ - 1]
      /\ i \in ItemRows /\ D \subseteq NodeRows
      /\ DropNodes(D) /\ DropItems(L)
  BY DEF CommitRemoveItem, ItemStillThere, CountOneLess
<1>2. i \in Items /\ c \in Collections /\ itemCollection[i] = c
  BY <1>0, <1>1, RequestTypes DEF Inv, RequestsAgree
<1>4. L = {i} \cup {j \in ItemRows : itemNode[j] \in D}
  BY DEF Cascade, ItemsIn
<1> HIDE DEF i, c, D, L
<1>5. /\ \A n \in Nodes : nodeCollection'[n] = IF n \in D THEN Null ELSE nodeCollection[n]
      /\ \A j \in Items : itemCollection'[j] = IF j \in L THEN Null ELSE itemCollection[j]
      /\ \A j \in Items : itemNode'[j] = IF j \in L THEN Null ELSE itemNode[j]
      /\ \A j \in Items : volume'[j] = IF j \in L THEN Null ELSE volume[j]
  BY <1>1 DEF DropNodes, DropItems, Without, Inv, TypeOK
<1>6. RequestsAgree' /\ \A d \in Collections : ItemsOf(d)' \subseteq ItemsOf(d)
  BY <1>0, <1>5, FewerRows DEF Inv
<1>7. ItemCountCoversItems' /\ itemCount'[c] \in Nat
  <2>1. ItemsOf(c)' \subseteq ItemsOf(c) \ {i} /\ i \in ItemsOf(c)
    BY <1>2, <1>4, <1>5, <1>6, NullAssumption DEF ItemsOf
  <2>2. /\ IsFiniteSet(ItemsOf(c)) /\ IsFiniteSet(ItemsOf(c) \ {i})
        /\ IsFiniteSet(ItemsOf(c)')
        /\ Cardinality(ItemsOf(c)') <= Cardinality(ItemsOf(c) \ {i})
        /\ Cardinality(ItemsOf(c) \ {i}) = Cardinality(ItemsOf(c)) - 1
    BY <1>2, <2>1, ItemsOfFinite, FS_Subset, FS_RemoveElement
  <2>3. /\ Cardinality(ItemsOf(c)) \in Nat /\ Cardinality(ItemsOf(c)') \in Nat
        /\ itemCount[c] \in Nat /\ Cardinality(ItemsOf(c)) <= itemCount[c]
        /\ itemCount'[c] = itemCount[c] - 1
    BY <1>1, <1>2, <2>2, FS_CardinalityType DEF Inv, TypeOK, ItemCountCoversItems
  <2>4. Cardinality(ItemsOf(c)') <= itemCount'[c] /\ itemCount'[c] \in Nat
    BY <2>2, <2>3
  <2>5. ASSUME NEW d \in Collections, d # c
        PROVE  Cardinality(ItemsOf(d)') <= itemCount'[d]
    <3>1. /\ IsFiniteSet(ItemsOf(d)) /\ IsFiniteSet(ItemsOf(d)')
          /\ Cardinality(ItemsOf(d)') <= Cardinality(ItemsOf(d))
      BY <1>6, ItemsOfFinite, FS_Subset
    <3>2. /\ Cardinality(ItemsOf(d)) \in Nat /\ Cardinality(ItemsOf(d)') \in Nat
          /\ itemCount[d] \in Nat /\ Cardinality(ItemsOf(d)) <= itemCount[d]
          /\ itemCount'[d] = itemCount[d]
      BY <1>1, <2>5, <3>1, FS_CardinalityType DEF Inv, TypeOK, ItemCountCoversItems
    <3> QED BY <3>1, <3>2
  <2> QED BY <2>4, <2>5 DEF ItemCountCoversItems
<1>8. TypeOK'
  <2>1. itemCount' \in [Collections -> Nat]
    BY <1>1, <1>2, <1>7 DEF Inv, TypeOK
  <2> QED BY <1>0, <1>1, <2>1 DEF DropNodes, DropItems, Without, Inv, TypeOK
<1>9. ItemsStayInTheirCollection'
  <2>1. ASSUME NEW j \in ItemRows', itemNode'[j] # Null
        PROVE  itemNode'[j] \in NodeRows' /\ nodeCollection'[itemNode'[j]] = itemCollection'[j]
    <3>1. /\ j \in ItemRows \ L /\ itemCollection'[j] = itemCollection[j]
          /\ itemNode'[j] = itemNode[j] /\ itemNode[j] \notin D
      BY <1>4, <1>5, <2>1 DEF ItemRows
    <3>2. itemNode[j] \in NodeRows /\ nodeCollection[itemNode[j]] = itemCollection[j]
      BY <2>1, <3>1 DEF Inv, ItemsStayInTheirCollection
    <3> QED BY <1>5, <3>1, <3>2 DEF NodeRows
  <2>2. \A j \in Items \ ItemRows' : itemNode'[j] = Null /\ volume'[j] = Null
    BY <1>5 DEF Inv, ItemsStayInTheirCollection, ItemRows
  <2>3. /\ \A j \in ItemRows' : itemCollection'[j] \in collections'
        /\ \A n \in NodeRows' : nodeCollection'[n] \in collections' \ Flat
    BY <1>1, <1>5 DEF Inv, ItemsStayInTheirCollection, ItemRows, NodeRows
  <2> QED BY <2>1, <2>2, <2>3 DEF ItemsStayInTheirCollection
<1> QED BY <1>6, <1>7, <1>8, <1>9 DEF Inv
-----------------------------------------------------------------------------
(***************************************************************************)
(* Steps that insert rows.                                                 *)
(***************************************************************************)
\* A node no request knows of disturbs none.
LEMMA OneMoreNode ==
  ASSUME RequestsAgree, NEW n \in Nodes, NEW c \in Collections, NewNode(n), TypeOK,
         nodeCollection' = [nodeCollection EXCEPT ![n] = c],
         UNCHANGED itemCollection, inflight' \subseteq inflight
  PROVE  RequestsAgree'
<1>1. \A m \in Nodes : m # n => nodeCollection'[m] = nodeCollection[m]
  BY DEF TypeOK
<1>2. \A q \in inflight : /\ q.op = "createItem" => q.node # n
                          /\ q.op = "updateItem" => q.to # n
  BY DEF NewNode
<1> QED BY <1>1, <1>2 DEF RequestsAgree, ItemRows, NodeRows

LEMMA CommitCreateNodeInv ==
  ASSUME Inv, NEW q \in inflight, NEW n \in Nodes, CommitCreateNode(q, n)
  PROVE  Inv'
<1> DEFINE c == q.collection
<1>1. /\ UNCHANGED <<collections, itemCount, itemVars>> /\ inflight' \subseteq inflight
      /\ q.op = "createNode" /\ c \in collections /\ NewNode(n) /\ n \notin NodeRows
      /\ InsertNode(n, c, q.ref, q.wish)
  BY DEF CommitCreateNode, Finish, NewNode
<1>2. c \in Collections \ Flat /\ q.ref \in Refs \cup {Null}
  BY <1>1, RequestTypes DEF Inv, RequestsAgree
<1> HIDE DEF c
<1>3. TypeOK'
  BY <1>1, <1>2 DEF InsertNode, Inv, TypeOK, itemVars
<1>4. RequestsAgree'
  BY <1>1, <1>2, OneMoreNode DEF InsertNode, Inv, itemVars
<1>5. \A d \in Collections : ItemsOf(d)' \subseteq ItemsOf(d)
  BY <1>1 DEF ItemsOf, itemVars
<1>6. ItemsStayInTheirCollection'
  <2>1. \A m \in Nodes : nodeCollection'[m] = IF m = n THEN c ELSE nodeCollection[m]
    BY <1>1 DEF InsertNode, Inv, TypeOK
  <2>2. NodeRows \subseteq NodeRows' /\ ItemRows' = ItemRows
    BY <1>1, <2>1 DEF NodeRows, ItemRows, itemVars
  <2>3. \A i \in ItemRows : itemNode[i] # Null =>
           /\ itemNode[i] \in NodeRows /\ itemNode[i] # n
           /\ nodeCollection[itemNode[i]] = itemCollection[i]
    BY <1>1 DEF Inv, ItemsStayInTheirCollection
  <2>4. \A m \in NodeRows' : nodeCollection'[m] \in collections' \ Flat
    BY <1>1, <1>2, <2>1 DEF Inv, ItemsStayInTheirCollection, NodeRows
  <2> QED BY <1>1, <2>1, <2>2, <2>3, <2>4
          DEF Inv, ItemsStayInTheirCollection, itemVars, NodeRows
<1> QED BY <1>1, <1>3, <1>4, <1>5, <1>6, FewerItems DEF Inv

LEMMA CommitCreateItemInv ==
  ASSUME Inv, NEW q \in inflight, NEW i \in Items, NEW n \in Nodes \cup {Null},
         CommitCreateItem(q, i, n)
  PROVE  Inv'
<1> DEFINE c == q.collection
<1>1. /\ UNCHANGED collections /\ inflight' \subseteq inflight
      /\ q.op = "createItem" /\ c \in collections
      /\ NewItem(i) /\ i \notin ItemRows
      /\ itemCollection' = [itemCollection EXCEPT ![i] = c]
      /\ itemNode' = [itemNode EXCEPT ![i] = n]
      /\ volume' = [volume EXCEPT ![i] = q.volume]
      /\ itemCount' = [itemCount EXCEPT ![c] = @ + 1]
  BY DEF CommitCreateItem, Finish, NewItem, CountOneMore
<1>2. /\ c \in Collections /\ c # Null /\ q.volume \in Volumes \cup {Null}
      /\ q.ref \in Refs \cup {Null} /\ q.node \in Nodes \cup {Null}
  BY <1>1, RequestTypes, NullAssumption DEF Inv
<1>3. \/ /\ UNCHANGED nodeVars
         /\ n # Null => n \in NodeRows /\ nodeCollection[n] = c
      \/ /\ n \in Nodes /\ n \notin NodeRows /\ NewNode(n) /\ c \notin Flat
         /\ InsertNode(n, c, q.ref, FALSE)
  BY <1>1 DEF CommitCreateItem, Inv, RequestsAgree, NewNode
<1> HIDE DEF c
<1>4. \A j \in Items : /\ itemCollection'[j] = IF j = i THEN c ELSE itemCollection[j]
                       /\ itemNode'[j] = IF j = i THEN n ELSE itemNode[j]
                       /\ volume'[j] = IF j = i THEN q.volume ELSE volume[j]
  BY <1>1 DEF Inv, TypeOK
<1>5. /\ \A m \in NodeRows : m \in NodeRows' /\ nodeCollection'[m] = nodeCollection[m]
      /\ n # Null => n \in NodeRows' /\ nodeCollection'[n] = c
      /\ \A m \in NodeRows' : m \in NodeRows \/ (m = n /\ c \notin Flat)
  BY <1>2, <1>3 DEF NodeRows, InsertNode, nodeVars, Inv, TypeOK
<1>6. TypeOK'
  <2>1. /\ itemCount' \in [Collections -> Nat]
        /\ itemCollection' \in [Items -> Collections \cup {Null}]
        /\ itemNode' \in [Items -> Nodes \cup {Null}]
        /\ volume' \in [Items -> Volumes \cup {Null}]
    BY <1>1, <1>2 DEF Inv, TypeOK
  <2>2. /\ nodeCollection' \in [Nodes -> Collections \cup {Null}]
        /\ isWishlist' \subseteq Nodes
        /\ sources' \in [Nodes -> SUBSET Refs]
    BY <1>2, <1>3 DEF Inv, TypeOK, nodeVars, InsertNode
  <2> QED BY <1>1, <2>1, <2>2 DEF Inv, TypeOK
<1>7. RequestsAgree'
  <2>1. \A j \in ItemRows : itemCollection'[j] = itemCollection[j]
    BY <1>1, <1>4
  <2>2. \A p \in inflight : p.op \in {"updateItem", "removeItem"} => p.item # i
    BY <1>1 DEF NewItem
  <2>3. \A p \in inflight :
          p.op \in {"updateItem", "removeItem"} /\ p.item \in ItemRows' =>
            p.item \in ItemRows /\ itemCollection'[p.item] = itemCollection[p.item]
    BY <1>4, <2>1, <2>2 DEF ItemRows
  <2>4. \A p \in inflight :
          /\ p.op = "createItem" /\ p.node \in NodeRows' =>
               (p.node \in NodeRows /\ nodeCollection'[p.node] = nodeCollection[p.node])
          /\ p.op = "updateItem" /\ p.to \in NodeRows' =>
               (p.to \in NodeRows /\ nodeCollection'[p.to] = nodeCollection[p.to])
    <3>1. CASE UNCHANGED nodeVars
      BY <3>1 DEF nodeVars, NodeRows
    <3>2. CASE NewNode(n)
      BY <1>5, <3>2 DEF NewNode
    <3> QED BY <1>3, <3>1, <3>2
  <2> QED BY <1>1, <2>3, <2>4 DEF Inv, RequestsAgree
<1>8. ItemsStayInTheirCollection'
  <2>1. \A j \in ItemRows : itemNode[j] # Null =>
           itemNode[j] \in NodeRows /\ nodeCollection[itemNode[j]] = itemCollection[j]
    BY DEF Inv, ItemsStayInTheirCollection
  <2>2. ASSUME NEW j \in ItemRows', itemNode'[j] # Null
        PROVE  itemNode'[j] \in NodeRows' /\ nodeCollection'[itemNode'[j]] = itemCollection'[j]
    <3>1. CASE j = i
      BY <1>4, <1>5, <2>2, <3>1
    <3>2. CASE j # i
      <4>1. j \in ItemRows /\ itemNode'[j] = itemNode[j] /\ itemCollection'[j] = itemCollection[j]
        BY <1>4, <3>2 DEF ItemRows
      <4> QED BY <1>5, <2>1, <2>2, <4>1
    <3> QED BY <3>1, <3>2
  <2>3. \A j \in Items \ ItemRows' : itemNode'[j] = Null /\ volume'[j] = Null
    BY <1>2, <1>4 DEF Inv, ItemsStayInTheirCollection, ItemRows
  <2>4. \A j \in ItemRows' : itemCollection'[j] \in collections'
    BY <1>1, <1>4 DEF Inv, ItemsStayInTheirCollection, ItemRows
  <2>5. \A m \in NodeRows' : nodeCollection'[m] \in collections' \ Flat
    <3>1. \A m \in NodeRows' : m \in Nodes /\ m # Null
      BY NullAssumption DEF NodeRows
    <3>2. \A m \in NodeRows : nodeCollection[m] \in collections \ Flat
      BY DEF Inv, ItemsStayInTheirCollection
    <3> QED BY <1>1, <1>5, <3>1, <3>2
  <2> QED BY <2>2, <2>3, <2>4, <2>5 DEF ItemsStayInTheirCollection
<1>9. ItemCountCoversItems'
  <2> SUFFICES ASSUME NEW d \in Collections
               PROVE  Cardinality(ItemsOf(d)') <= itemCount'[d]
    BY DEF ItemCountCoversItems
  <2>1. /\ IsFiniteSet(ItemsOf(d)) /\ Cardinality(ItemsOf(d)) \in Nat
        /\ itemCount[d] \in Nat /\ Cardinality(ItemsOf(d)) <= itemCount[d]
    BY ItemsOfFinite, FS_CardinalityType DEF Inv, TypeOK, ItemCountCoversItems
  <2>2. CASE d = c
    <3>1. ItemsOf(d)' = ItemsOf(d) \cup {i} /\ i \notin ItemsOf(d)
      BY <1>1, <1>2, <1>4, <2>2 DEF ItemsOf, ItemRows
    <3>2. Cardinality(ItemsOf(d)') = Cardinality(ItemsOf(d)) + 1
      BY <2>1, <3>1, FS_AddElement
    <3>3. itemCount'[d] = itemCount[d] + 1
      BY <1>1, <1>2, <2>2 DEF Inv, TypeOK
    <3> QED BY <2>1, <3>2, <3>3
  <2>3. CASE d # c
    <3>1. ItemsOf(d)' = ItemsOf(d)
      BY <1>1, <1>4, <2>3, NullAssumption DEF ItemsOf, ItemRows
    <3>2. itemCount'[d] = itemCount[d]
      BY <1>1, <1>2, <2>3 DEF Inv, TypeOK
    <3> QED BY <2>1, <3>1, <3>2
  <2> QED BY <2>2, <2>3
<1> QED BY <1>6, <1>7, <1>8, <1>9 DEF Inv

-----------------------------------------------------------------------------
LEMMA NextInv == ASSUME Inv, [Next]_vars PROVE Inv'
<1>1. CASE Next
  BY <1>1, OpenCreateCollectionInv, CommitCreateCollectionInv, RemoveCollectionInv,
     CheckCreateNodeInv, CommitCreateNodeInv, CheckUpdateNodeInv, CommitUpdateNodeInv,
     CheckAttachSourceInv, CommitAttachSourceInv, CheckCreateItemInv,
     CommitCreateItemInv, CheckUpdateItemInv, CommitUpdateItemInv,
     CheckRemoveItemInv, CommitRemoveItemInv, OpenCreationInv, OpenRemovalInv, RollbackInv
     DEF Next
<1>2. CASE UNCHANGED vars
  <2>1. RequestsAgree'
    BY <1>2 DEF vars, rows, nodeVars, itemVars, Inv, RequestsAgree, ItemRows, NodeRows
  <2> QED BY <1>2, <2>1, NoWrite DEF vars, Inv, TypeOK
<1> QED BY <1>1, <1>2

\* Requests that overtake one another leave the rows consistent.
THEOREM InvInvariant == Spec => []Inv
BY InitInv, NextInv, PTL DEF Spec

\* Every variable keeps its type, itemCount in particular stays a natural
\* number although remove decrements it after a read made long before.
THEOREM TypeCorrect == Spec => []TypeOK
BY InvInvariant, PTL DEF Inv

\* itemCount is never below the number of items, for any number of requests.
THEOREM CountCovers == Spec => []ItemCountCoversItems
BY InvInvariant, PTL DEF Inv

\* No volume ever sits in a series of another collection, or in one deleted.
THEOREM NoStrayItem == Spec => []ItemsStayInTheirCollection
BY InvInvariant, PTL DEF Inv

-----------------------------------------------------------------------------
(***************************************************************************)
(* The sum of the counts.  It is a fold, hence a recursive function over   *)
(* the subsets of a set: what it computes is shown on a smallest set of    *)
(* those it would fail for.                                                *)
(***************************************************************************)
Pick(s) == CHOOSE c \in s : TRUE
Sums(f, S, g) ==
  g = [s \in SUBSET S |-> IF s = {} THEN 0 ELSE f[Pick(s)] + g[s \ {Pick(s)}]]
Total(f, S) == (CHOOSE g : Sums(f, S, g))[S]

LEMMA UsedIsTotal == UsedItems = Total(itemCount, collections)
BY DEF UsedItems, MapThenSumSet, MapThenFoldSet, Total, Sums, Pick

LEMMA SmallestSet ==
  ASSUME NEW S, IsFiniteSet(S), NEW B \in SUBSET (SUBSET S), B # {}
  PROVE  \E T \in B : \A U \in SUBSET T : U # T => U \notin B
<1> DEFINE R == StrictSubsetOrdering(S)
<1>1. IsWellFoundedOn(R, SUBSET S)
  BY FS_StrictSubsetOrderingWellFounded, FS_FiniteSubsetsOfFinite
<1>2. \A T, U \in SUBSET S : U \subseteq T /\ U # T => <<U, T>> \in R
  BY DEF StrictSubsetOrdering
<1> HIDE DEF R
<1>3. PICK T \in B : \A U \in B : ~(<<U, T>> \in R)
  BY <1>1, WFMin
<1>4. ASSUME NEW U \in SUBSET T, U # T, U \in B PROVE FALSE
  BY <1>2, <1>3, <1>4
<1> QED BY <1>4

LEMMA PickIsElement == ASSUME NEW s, s # {} PROVE Pick(s) \in s
BY DEF Pick

\* The sums over two sets agree on what both sum.
LEMMA SumsAgree ==
  ASSUME NEW f, NEW S, IsFiniteSet(S), NEW T \in SUBSET S, NEW g, NEW h,
         Sums(f, S, g), Sums(f, T, h)
  PROVE  \A s \in SUBSET T : g[s] = h[s]
<1> DEFINE B == {s \in SUBSET T : g[s] # h[s]}
<1> SUFFICES ASSUME B # {} PROVE FALSE
  OBVIOUS
<1>1. PICK s \in B : \A u \in SUBSET s : u # s => u \notin B
  <2>1. B \in SUBSET (SUBSET T) /\ IsFiniteSet(T)
    BY FS_Subset
  <2> HIDE DEF B
  <2> QED BY <2>1, SmallestSet
<1>2. s \in SUBSET T /\ s \in SUBSET S /\ g[s] # h[s]
  OBVIOUS
<1>3. /\ g[s] = IF s = {} THEN 0 ELSE f[Pick(s)] + g[s \ {Pick(s)}]
      /\ h[s] = IF s = {} THEN 0 ELSE f[Pick(s)] + h[s \ {Pick(s)}]
  BY <1>2 DEF Sums
<1>4. s # {} => g[s \ {Pick(s)}] = h[s \ {Pick(s)}]
  BY <1>1, <1>2, PickIsElement
<1> QED BY <1>2, <1>3, <1>4

LEMMA TotalUnfolds ==
  ASSUME NEW f, NEW S, IsFiniteSet(S), NEW g, Sums(f, S, g)
  PROVE  /\ \A s \in SUBSET S : g[s] = Total(f, s)
         /\ Total(f, S) = IF S = {} THEN 0 ELSE f[Pick(S)] + Total(f, S \ {Pick(S)})
<1>1. ASSUME NEW s \in SUBSET S PROVE g[s] = Total(f, s)
  <2> DEFINE r == [u \in SUBSET s |-> g[u]]
  <2>1. \A u \in SUBSET s : r[u] = IF u = {} THEN 0 ELSE f[Pick(u)] + r[u \ {Pick(u)}]
    BY DEF Sums
  <2>2. Sums(f, s, r)
    BY <2>1 DEF Sums
  <2> DEFINE h == CHOOSE x : Sums(f, s, x)
  <2>3. Sums(f, s, h)
    BY <2>2
  <2>4. Total(f, s) = h[s]
    BY DEF Total
  <2> HIDE DEF h
  <2>5. g[s] = h[s]
    BY <2>3, SumsAgree
  <2> QED BY <2>4, <2>5
<1>2. g[S] = IF S = {} THEN 0 ELSE f[Pick(S)] + g[S \ {Pick(S)}]
  BY DEF Sums
<1> QED BY <1>1, <1>2, PickIsElement

LEMMA SumsExist ==
  ASSUME NEW f, NEW S, IsFiniteSet(S)
  PROVE  \E g : Sums(f, S, g)
<1> DEFINE B == {T \in SUBSET S : ~ \E g : Sums(f, T, g)}
<1> SUFFICES ASSUME B # {} PROVE FALSE
  OBVIOUS
<1>1. PICK T \in B : \A U \in SUBSET T : U # T => U \notin B
  <2>1. B \in SUBSET (SUBSET S)
    OBVIOUS
  <2> HIDE DEF B
  <2> QED BY <2>1, SmallestSet
<1>2. T \in SUBSET S /\ ~ \E g : Sums(f, T, g)
  OBVIOUS
<1>3. \A U \in SUBSET T : U # T => IsFiniteSet(U) /\ \E g : Sums(f, U, g)
  BY <1>1, <1>2, FS_Subset
<1>4. \A U \in SUBSET T : U # T =>
        Total(f, U) = IF U = {} THEN 0 ELSE f[Pick(U)] + Total(f, U \ {Pick(U)})
  BY <1>3, TotalUnfolds
<1> DEFINE step(s) == IF s = {} THEN 0 ELSE f[Pick(s)] + Total(f, s \ {Pick(s)})
           g == [s \in SUBSET T |-> step(s)]
<1>5. \A s \in SUBSET T : g[s] = IF s = {} THEN 0 ELSE f[Pick(s)] + g[s \ {Pick(s)}]
  <2> SUFFICES ASSUME NEW s \in SUBSET T, s # {}
               PROVE  g[s] = f[Pick(s)] + g[s \ {Pick(s)}]
    OBVIOUS
  <2>1. s \ {Pick(s)} \in SUBSET T /\ s \ {Pick(s)} # T
    BY PickIsElement
  <2>2. g[s \ {Pick(s)}] = Total(f, s \ {Pick(s)})
    BY <1>4, <2>1
  <2> QED BY <2>2
<1>6. Sums(f, T, g)
  BY <1>5 DEF Sums
<1> QED BY <1>2, <1>6

LEMMA TotalStep ==
  ASSUME NEW f, NEW S, IsFiniteSet(S)
  PROVE  Total(f, S) = IF S = {} THEN 0 ELSE f[Pick(S)] + Total(f, S \ {Pick(S)})
BY SumsExist, TotalUnfolds

LEMMA TotalIsNat ==
  ASSUME NEW S, IsFiniteSet(S), NEW f, \A c \in S : f[c] \in Nat
  PROVE  Total(f, S) \in Nat
<1> DEFINE B == {T \in SUBSET S : Total(f, T) \notin Nat}
<1> SUFFICES ASSUME B # {} PROVE FALSE
  OBVIOUS
<1>1. PICK T \in B : \A U \in SUBSET T : U # T => U \notin B
  <2>1. B \in SUBSET (SUBSET S)
    OBVIOUS
  <2> HIDE DEF B
  <2> QED BY <2>1, SmallestSet
<1>2. T \in SUBSET S /\ IsFiniteSet(T) /\ Total(f, T) \notin Nat
  BY FS_Subset
<1>3. Total(f, T) = IF T = {} THEN 0 ELSE f[Pick(T)] + Total(f, T \ {Pick(T)})
  BY <1>2, TotalStep
<1>4. T # {} => Total(f, T \ {Pick(T)}) \in Nat /\ f[Pick(T)] \in Nat
  BY <1>1, <1>2, PickIsElement
<1> QED BY <1>2, <1>3, <1>4

\* The order of the sum does not matter.
LEMMA TotalOfRest ==
  ASSUME NEW S, IsFiniteSet(S), NEW f, \A c \in S : f[c] \in Nat, NEW x \in S
  PROVE  Total(f, S) = f[x] + Total(f, S \ {x})
<1> DEFINE B == {T \in SUBSET S : \E c \in T : Total(f, T) # f[c] + Total(f, T \ {c})}
<1> SUFFICES ASSUME B # {} PROVE FALSE
  OBVIOUS
<1>1. PICK T \in B : \A U \in SUBSET T : U # T => U \notin B
  <2>1. B \in SUBSET (SUBSET S)
    OBVIOUS
  <2> HIDE DEF B
  <2> QED BY <2>1, SmallestSet
<1>2. PICK c \in T : Total(f, T) # f[c] + Total(f, T \ {c})
  OBVIOUS
<1>3. T \in SUBSET S /\ T # {} /\ IsFiniteSet(T) /\ IsFiniteSet(T \ {c})
  BY FS_Subset
<1> HIDE DEF B
<1>4. PICK p \in T : p = Pick(T)
  BY <1>3, PickIsElement
<1>5. Total(f, T) = f[p] + Total(f, T \ {p})
  BY <1>3, <1>4, TotalStep
<1>6. p # c
  BY <1>2, <1>5
<1>7. Total(f, T \ {p}) = f[c] + Total(f, (T \ {p}) \ {c})
  <2>1. T \ {p} \in SUBSET S /\ T \ {p} \notin B /\ c \in T \ {p}
    BY <1>1, <1>3, <1>6
  <2> QED BY <2>1 DEF B
<1>8. Total(f, T \ {c}) = f[p] + Total(f, (T \ {c}) \ {p})
  <2>1. T \ {c} \in SUBSET S /\ T \ {c} \notin B /\ p \in T \ {c}
    BY <1>1, <1>3, <1>6
  <2> QED BY <2>1 DEF B
<1>9. (T \ {p}) \ {c} = (T \ {c}) \ {p} /\ IsFiniteSet((T \ {c}) \ {p})
  BY <1>3, FS_Subset
<1>10. f[p] \in Nat /\ f[c] \in Nat /\ Total(f, (T \ {c}) \ {p}) \in Nat
  <2>1. \A d \in (T \ {c}) \ {p} : f[d] \in Nat
    BY <1>3
  <2> QED BY <1>3, <1>9, <2>1, TotalIsNat
<1> QED BY <1>2, <1>5, <1>7, <1>8, <1>9, <1>10

LEMMA TotalOfSame ==
  ASSUME NEW S, IsFiniteSet(S), NEW f, NEW h, \A c \in S : f[c] = h[c]
  PROVE  Total(f, S) = Total(h, S)
<1> DEFINE B == {T \in SUBSET S : Total(f, T) # Total(h, T)}
<1> SUFFICES ASSUME B # {} PROVE FALSE
  OBVIOUS
<1>1. PICK T \in B : \A U \in SUBSET T : U # T => U \notin B
  <2>1. B \in SUBSET (SUBSET S)
    OBVIOUS
  <2> HIDE DEF B
  <2> QED BY <2>1, SmallestSet
<1>2. T \in SUBSET S /\ IsFiniteSet(T) /\ Total(f, T) # Total(h, T)
  BY FS_Subset
<1>3. /\ Total(f, T) = IF T = {} THEN 0 ELSE f[Pick(T)] + Total(f, T \ {Pick(T)})
      /\ Total(h, T) = IF T = {} THEN 0 ELSE h[Pick(T)] + Total(h, T \ {Pick(T)})
  BY <1>2, TotalStep
<1>4. T # {} => f[Pick(T)] = h[Pick(T)] /\ Total(f, T \ {Pick(T)}) = Total(h, T \ {Pick(T)})
  BY <1>1, <1>2, PickIsElement
<1> QED BY <1>2, <1>3, <1>4

-----------------------------------------------------------------------------
(***************************************************************************)
(* The limit of items.  A request that found room in its transaction keeps *)
(* a place, which it may take however late it commits: the places kept and *)
(* the items counted never add up to the limit and all the requests.       *)
(***************************************************************************)
OneIdEach == \A p, q \in inflight : p.id = q.id => p = q
Opened == {q \in inflight : q.op = "createItem" /\ q.open}
CountsAtRest ==
  IsFiniteSet(collections) /\ \A c \in Collections \ collections : itemCount[c] = 0
Reserved == UsedItems + Cardinality(Opened) < MaxItems + Cardinality(Requests)

\* The inductive invariant.
LimitInv == Inv /\ OneIdEach /\ CountsAtRest /\ Reserved

LEMMA UsedIsTotalNext == UsedItems' = Total(itemCount', collections')
BY DEF UsedItems, MapThenSumSet, MapThenFoldSet, Total, Sums, Pick

\* A step writes nothing, or commits a request, or removes a collection.
LEMMA NextIsAWrite ==
  ASSUME Next
  PROVE  \/ UNCHANGED rows
         \/ \E c \in Collections : RemoveCollection(c)
         \/ \E q \in inflight :
              \/ \E c \in Collections : CommitCreateCollection(q, c)
              \/ \E n \in Nodes : CommitCreateNode(q, n)
              \/ CommitUpdateNode(q) \/ CommitAttachSource(q)
              \/ \E i \in Items, n \in Nodes \cup {Null} : CommitCreateItem(q, i, n)
              \/ CommitUpdateItem(q) \/ CommitRemoveItem(q)
<1>1. ASSUME NEW q \in inflight,
             OpenCreateNode(q) \/ OpenCreateItem(q) \/ OpenUpdateItem(q) \/ OpenRemoveItem(q)
      PROVE  UNCHANGED rows
  BY <1>1 DEF OpenCreateNode, OpenCreateItem, OpenUpdateItem, OpenRemoveItem, Open
<1>2. ASSUME NEW q, Check(q) PROVE UNCHANGED rows
  BY <1>2 DEF Check
<1>3. ASSUME NEW r \in Requests,
             \/ OpenCreateCollection(r)
             \/ \E c \in Collections, ref \in Refs \cup {Null}, wish \in BOOLEAN :
                  CheckCreateNode(r, c, ref, wish)
             \/ \E n \in Nodes, wish \in BOOLEAN \cup {Same} : CheckUpdateNode(r, n, wish)
             \/ \E n \in Nodes, ref \in Refs : CheckAttachSource(r, n, ref)
             \/ \E c \in Collections, n \in Nodes \cup {Null}, ref \in Refs \cup {Null},
                   v \in Volumes \cup {Null} : CheckCreateItem(r, c, n, ref, v)
             \/ \E i \in Items, to \in Nodes \cup {Null, Same}, v \in Volumes \cup {Null, Same} :
                  CheckUpdateItem(r, i, to, v)
             \/ \E i \in Items : CheckRemoveItem(r, i)
      PROVE  UNCHANGED rows
  BY <1>2, <1>3 DEF OpenCreateCollection, CheckCreateNode, CheckUpdateNode, CheckAttachSource,
     CheckCreateItem, CheckUpdateItem, CheckRemoveItem
<1>4. ASSUME NEW q \in inflight, Rollback(q) PROVE UNCHANGED rows
  BY <1>4 DEF Rollback
<1> QED BY <1>1, <1>3, <1>4 DEF Next

\* A step ends a request, or begins one, or takes one to its transaction.
LEMMA RequestsMove ==
  ASSUME Inv, Next
  PROVE  \/ inflight' \subseteq inflight
         \/ /\ UNCHANGED rows
            /\ \E q \in inflight' : /\ inflight' = inflight \cup {q}
                                    /\ \A p \in inflight : p.id # q.id
                                    /\ ~(q.op = "createItem" /\ q.open)
         \/ /\ UNCHANGED rows
            /\ \E q \in inflight, o \in inflight' :
                 /\ inflight' = (inflight \ {q}) \cup {o}
                 /\ o.id = q.id /\ o.op = q.op
                 /\ o.op = "createItem" => UnderItemLimit
<1> DEFINE Ends == inflight' \subseteq inflight
           Begins == /\ UNCHANGED rows
                     /\ \E q \in inflight' : /\ inflight' = inflight \cup {q}
                                             /\ \A p \in inflight : p.id # q.id
                                             /\ ~(q.op = "createItem" /\ q.open)
           Opens == /\ UNCHANGED rows
                    /\ \E q \in inflight, o \in inflight' :
                         /\ inflight' = (inflight \ {q}) \cup {o}
                         /\ o.id = q.id /\ o.op = q.op
                         /\ o.op = "createItem" => UnderItemLimit
<1>1. ASSUME NEW q, Check(q), ~(q.op = "createItem" /\ q.open) PROVE Begins
  BY <1>1 DEF Check
<1>2. ASSUME NEW r \in Requests, OpenCreateCollection(r) PROVE Begins
  BY <1>1, <1>2 DEF OpenCreateCollection
<1>3. ASSUME NEW r \in Requests, NEW c \in Collections, NEW ref \in Refs \cup {Null},
             NEW wish \in BOOLEAN, CheckCreateNode(r, c, ref, wish)
      PROVE  Begins
  BY <1>1, <1>3 DEF CheckCreateNode
<1>4. ASSUME NEW r \in Requests, NEW n \in Nodes, NEW wish \in BOOLEAN \cup {Same},
             CheckUpdateNode(r, n, wish)
      PROVE  Begins
  BY <1>1, <1>4 DEF CheckUpdateNode
<1>5. ASSUME NEW r \in Requests, NEW n \in Nodes, NEW ref \in Refs, CheckAttachSource(r, n, ref)
      PROVE  Begins
  BY <1>1, <1>5 DEF CheckAttachSource
<1>6. ASSUME NEW r \in Requests, NEW c \in Collections, NEW n \in Nodes \cup {Null},
             NEW ref \in Refs \cup {Null}, NEW v \in Volumes \cup {Null},
             CheckCreateItem(r, c, n, ref, v)
      PROVE  Begins
  BY <1>1, <1>6 DEF CheckCreateItem
<1>7. ASSUME NEW r \in Requests, NEW i \in Items, NEW to \in Nodes \cup {Null, Same},
             NEW v \in Volumes \cup {Null, Same}, CheckUpdateItem(r, i, to, v)
      PROVE  Begins
  BY <1>1, <1>7 DEF CheckUpdateItem
<1>8. ASSUME NEW r \in Requests, NEW i \in Items, CheckRemoveItem(r, i) PROVE Begins
  BY <1>1, <1>8 DEF CheckRemoveItem
<1>9. ASSUME NEW q \in inflight, OpenCreateNode(q) \/ OpenCreateItem(q) PROVE Opens
  <2> DEFINE o == [q EXCEPT !.open = TRUE]
  <2>1. /\ UNCHANGED rows /\ inflight' = (inflight \ {q}) \cup {o}
        /\ q.op = "createNode" \/ q.op = "createItem"
        /\ q.op = "createItem" => UnderItemLimit
    BY <1>9 DEF OpenCreateNode, OpenCreateItem, Open
  <2>2. q \in Request
    BY DEF Inv, TypeOK
  <2>3. o.id = q.id /\ o.op = q.op
    <3>1. CASE q.op = "createNode"
      BY <2>2, <3>1 DEF Request
    <3>2. CASE q.op = "createItem"
      BY <2>2, <3>2 DEF Request
    <3> QED BY <2>1, <3>1, <3>2
  <2> HIDE DEF o
  <2> QED BY <2>1, <2>3
<1>10. ASSUME NEW q \in inflight, OpenUpdateItem(q) \/ OpenRemoveItem(q) PROVE Opens
  <2> DEFINE b == NodeIsEmpty(q.node, {q.item})
             o == [q EXCEPT !.open = TRUE, !.purge = b]
  <2>1. /\ UNCHANGED rows /\ inflight' = (inflight \ {q}) \cup {o}
        /\ q.op = "updateItem" \/ q.op = "removeItem"
    BY <1>10 DEF OpenUpdateItem, OpenRemoveItem, Open
  <2>2. q \in Request
    BY DEF Inv, TypeOK
  <2> HIDE DEF b
  <2>3. o.id = q.id /\ o.op = q.op
    <3>1. CASE q.op = "updateItem"
      BY <2>2, <3>1 DEF Request
    <3>2. CASE q.op = "removeItem"
      BY <2>2, <3>2 DEF Request
    <3> QED BY <2>1, <3>1, <3>2
  <2> HIDE DEF o
  <2> QED BY <2>1, <2>3
<1>11. ASSUME NEW q \in inflight, Finish(q) PROVE Ends
  BY <1>11 DEF Finish
<1>12. ASSUME NEW q \in inflight,
              \/ \E c \in Collections : CommitCreateCollection(q, c)
              \/ \E n \in Nodes : CommitCreateNode(q, n)
              \/ CommitUpdateNode(q) \/ CommitAttachSource(q)
              \/ \E i \in Items, n \in Nodes \cup {Null} : CommitCreateItem(q, i, n)
              \/ CommitUpdateItem(q) \/ CommitRemoveItem(q) \/ Rollback(q)
       PROVE  Ends
  BY <1>11, <1>12 DEF CommitCreateCollection, CommitCreateNode, CommitUpdateNode,
     CommitAttachSource, CommitCreateItem, CommitUpdateItem, CommitRemoveItem, Rollback
<1>13. ASSUME NEW c \in Collections, RemoveCollection(c) PROVE Ends
  BY <1>13 DEF RemoveCollection
<1> HIDE DEF Ends, Begins, Opens
<1>14. Ends \/ Begins \/ Opens
  BY <1>2, <1>3, <1>4, <1>5, <1>6, <1>7, <1>8, <1>9, <1>10, <1>12, <1>13 DEF Next
<1> QED BY <1>14 DEF Ends, Begins, Opens

LEMMA IdsStayDistinct ==
  ASSUME Inv, OneIdEach, Next
  PROVE  OneIdEach'
BY RequestsMove DEF OneIdEach

\* There are no more requests than slots.
LEMMA OpenedFitSlots ==
  ASSUME inflight \subseteq Request, OneIdEach
  PROVE  /\ IsFiniteSet(Opened) /\ Cardinality(Opened) \in Nat /\ Cardinality(Requests) \in Nat
         /\ Cardinality(Opened) <= Cardinality(Requests)
<1> DEFINE f == [q \in Opened |-> q.id]
<1>1. \A q \in Opened : q.id \in Requests
  BY DEF Opened, Request
<1>2. f \in Injection(Opened, Requests)
  BY <1>1 DEF OneIdEach, Opened, Injection, IsInjective
<1>3. IsFiniteSet(Opened) /\ Cardinality(Opened) <= Cardinality(Requests)
  BY <1>2, RequestsAssumption, FS_Injection
<1> QED BY <1>3, RequestsAssumption, FS_CardinalityType

\* One count moves, and the sum moves as much.
LEMMA OneCountMoves ==
  ASSUME NEW S, IsFiniteSet(S), NEW f, NEW h, NEW x \in S, \A c \in S : f[c] \in Nat /\ h[c] \in Nat,
         \A c \in S \ {x} : h[c] = f[c]
  PROVE  Total(f, S) \in Nat /\ Total(h, S) \in Nat /\ Total(h, S) + f[x] = Total(f, S) + h[x]
<1> DEFINE R == S \ {x}
<1>1. IsFiniteSet(R)
  BY FS_Subset
<1>2. Total(f, S) = f[x] + Total(f, R) /\ Total(h, S) = h[x] + Total(h, R)
  BY TotalOfRest
<1>3. Total(h, R) = Total(f, R) /\ Total(f, R) \in Nat
  BY <1>1, TotalOfSame, TotalIsNat
<1> QED BY <1>2, <1>3

LEMMA UsedIsNat ==
  ASSUME TypeOK, IsFiniteSet(collections)
  PROVE  UsedItems \in Nat
BY UsedIsTotal, TotalIsNat DEF TypeOK

\* The sum grows with a creation that had found room, and with nothing else.
LEMMA UsedMoves ==
  ASSUME Inv, CountsAtRest, Next
  PROVE  /\ CountsAtRest'
         /\ \/ UsedItems' <= UsedItems
            \/ \E q \in Opened : inflight' = inflight \ {q} /\ UsedItems' = UsedItems + 1
<1> DEFINE Goal == /\ CountsAtRest'
                   /\ \/ UsedItems' <= UsedItems
                      \/ \E q \in Opened : inflight' = inflight \ {q} /\ UsedItems' = UsedItems + 1
<1>1. /\ UsedItems = Total(itemCount, collections) /\ UsedItems' = Total(itemCount', collections')
      /\ UsedItems \in Nat /\ TypeOK /\ TypeOK'
      /\ collections \subseteq Collections /\ IsFiniteSet(collections)
      /\ \A c \in Collections : itemCount[c] \in Nat
  BY NextInv, UsedIsTotal, UsedIsTotalNext, UsedIsNat DEF Inv, TypeOK, CountsAtRest
<1>2. ASSUME UNCHANGED <<collections, itemCount>> PROVE Goal
  BY <1>1, <1>2 DEF CountsAtRest
<1>3. ASSUME NEW q \in inflight, NEW c \in Collections, CommitCreateCollection(q, c) PROVE Goal
  <2>1. c \notin collections /\ collections' = collections \cup {c} /\ itemCount' = itemCount
    BY <1>3 DEF CommitCreateCollection, NewCollection
  <2>2. IsFiniteSet(collections') /\ itemCount[c] = 0
    BY <1>1, <2>1, FS_AddElement DEF CountsAtRest
  <2>3. Total(itemCount, collections') = itemCount[c] + Total(itemCount, collections' \ {c})
    BY <1>1, <2>1, <2>2, TotalOfRest
  <2>4. collections' \ {c} = collections
    BY <2>1
  <2>5. UsedItems' = UsedItems
    <3>1. UsedItems' = Total(itemCount, collections')
      BY <1>1, <2>1
    <3>2. Total(itemCount, collections') = 0 + UsedItems
      BY <1>1, <2>2, <2>3, <2>4
    <3> QED BY <1>1, <3>1, <3>2
  <2>6. CountsAtRest'
    BY <2>1, <2>2 DEF CountsAtRest
  <2> QED BY <1>1, <2>5, <2>6
<1>4. ASSUME NEW c \in Collections, RemoveCollection(c) PROVE Goal
  <2>1. c \in collections /\ collections' = collections \ {c} /\ itemCount' = [itemCount EXCEPT ![c] = 0]
    BY <1>4 DEF RemoveCollection
  <2>2. IsFiniteSet(collections')
    BY <1>1, <2>1, FS_Subset
  <2>3. \A d \in Collections : itemCount'[d] = IF d = c THEN 0 ELSE itemCount[d]
    BY <1>1, <2>1 DEF TypeOK
  <2>4. Total(itemCount, collections) = itemCount[c] + Total(itemCount, collections')
    BY <1>1, <2>1, TotalOfRest
  <2>5. Total(itemCount', collections') = Total(itemCount, collections')
    <3>1. \A d \in collections' : itemCount'[d] = itemCount[d]
      BY <1>1, <2>1, <2>3
    <3> QED BY <2>2, <3>1, TotalOfSame
  <2>6. Total(itemCount, collections') \in Nat
    <3>1. \A d \in collections' : itemCount[d] \in Nat
      BY <1>1, <2>1
    <3> QED BY <2>2, <3>1, TotalIsNat
  <2>7. UsedItems' <= UsedItems
    BY <1>1, <2>4, <2>5, <2>6
  <2>8. CountsAtRest'
    BY <2>1, <2>2, <2>3 DEF CountsAtRest
  <2> QED BY <2>7, <2>8
<1>5. ASSUME NEW c \in collections, collections' = collections,
             \A d \in Collections \ {c} : itemCount'[d] = itemCount[d]
      PROVE  CountsAtRest' /\ UsedItems' + itemCount[c] = UsedItems + itemCount'[c]
  <2>1. \A d \in collections : itemCount[d] \in Nat /\ itemCount'[d] \in Nat
    BY <1>1, <1>5 DEF TypeOK
  <2>2. \A d \in collections \ {c} : itemCount'[d] = itemCount[d]
    BY <1>1, <1>5
  <2>3. Total(itemCount', collections) + itemCount[c] = Total(itemCount, collections) + itemCount'[c]
    BY <1>1, <2>1, <2>2, OneCountMoves
  <2> QED BY <1>1, <1>5, <2>3 DEF CountsAtRest
<1>6. ASSUME NEW q \in inflight, NEW i \in Items, NEW n \in Nodes \cup {Null}, CommitCreateItem(q, i, n)
      PROVE  Goal
  <2>1. PICK c \in collections : c = q.collection
    BY <1>6 DEF CommitCreateItem
  <2>2. /\ collections' = collections /\ itemCount' = [itemCount EXCEPT ![c] = itemCount[c] + 1]
        /\ inflight' = inflight \ {q} /\ q \in Opened
    BY <1>6, <2>1 DEF CommitCreateItem, CountOneMore, Finish, Opened
  <2>3. itemCount'[c] = itemCount[c] + 1 /\ \A d \in Collections \ {c} : itemCount'[d] = itemCount[d]
    BY <1>1, <2>2 DEF TypeOK
  <2>4. CountsAtRest' /\ UsedItems' + itemCount[c] = UsedItems + itemCount'[c]
    BY <1>5, <2>2, <2>3
  <2>5. UsedItems' \in Nat
    BY <1>1, <2>4, TotalIsNat DEF TypeOK, CountsAtRest
  <2>6. itemCount[c] \in Nat
    BY <1>1
  <2>7. UsedItems' = UsedItems + 1
    BY <1>1, <2>3, <2>4, <2>5, <2>6
  <2> QED BY <2>2, <2>4, <2>7
<1>7. ASSUME NEW q \in inflight, CommitRemoveItem(q) PROVE Goal
  <2>1. q.op = "removeItem" /\ q.item \in ItemRows
    BY <1>7 DEF CommitRemoveItem, ItemStillThere
  <2>2. itemCollection[q.item] = q.collection /\ itemCollection[q.item] \in collections
    BY <2>1 DEF Inv, RequestsAgree, ItemsStayInTheirCollection
  <2>3. PICK c \in collections : c = q.collection
    BY <2>2
  <2>4. collections' = collections /\ itemCount' = [itemCount EXCEPT ![c] = itemCount[c] - 1]
    BY <1>7, <2>3 DEF CommitRemoveItem, CountOneLess
  <2>5. itemCount'[c] = itemCount[c] - 1 /\ \A d \in Collections \ {c} : itemCount'[d] = itemCount[d]
    BY <1>1, <2>4 DEF TypeOK
  <2>6. CountsAtRest' /\ UsedItems' + itemCount[c] = UsedItems + itemCount'[c]
    BY <1>5, <2>4, <2>5
  <2>7. UsedItems' \in Nat
    BY <1>1, <2>6, TotalIsNat DEF TypeOK, CountsAtRest
  <2>8. itemCount[c] \in Nat
    BY <1>1
  <2>9. UsedItems' <= UsedItems
    BY <1>1, <2>5, <2>6, <2>7, <2>8
  <2> QED BY <2>6, <2>9
<1> HIDE DEF Goal
<1>8. Goal
  <2>1. ASSUME UNCHANGED rows PROVE Goal
    BY <1>2, <2>1 DEF rows
  <2>2. ASSUME NEW q \in inflight,
               \/ \E n \in Nodes : CommitCreateNode(q, n)
               \/ CommitUpdateNode(q) \/ CommitAttachSource(q) \/ CommitUpdateItem(q)
        PROVE  Goal
    BY <1>2, <2>2 DEF CommitCreateNode, CommitUpdateNode, CommitAttachSource, CommitUpdateItem
  <2> QED BY <1>3, <1>4, <1>6, <1>7, <2>1, <2>2, NextIsAWrite
<1> QED BY <1>8 DEF Goal

LEMMA ReservedKept ==
  ASSUME LimitInv, Next
  PROVE  Reserved'
<1>1. /\ Inv' /\ OneIdEach' /\ CountsAtRest'
      /\ \/ UsedItems' <= UsedItems
         \/ \E q \in Opened : inflight' = inflight \ {q} /\ UsedItems' = UsedItems + 1
  BY NextInv, IdsStayDistinct, UsedMoves DEF LimitInv
<1>2. /\ UsedItems \in Nat /\ UsedItems' \in Nat /\ MaxItems \in Nat
      /\ IsFiniteSet(Opened) /\ IsFiniteSet(Opened')
      /\ Cardinality(Opened) \in Nat /\ Cardinality(Opened') \in Nat /\ Cardinality(Requests) \in Nat
      /\ Cardinality(Opened') <= Cardinality(Requests)
  <2>1. inflight \subseteq Request /\ TypeOK /\ OneIdEach /\ IsFiniteSet(collections)
    BY DEF LimitInv, Inv, TypeOK, CountsAtRest
  <2>2. (inflight \subseteq Request /\ TypeOK /\ OneIdEach /\ IsFiniteSet(collections))'
    BY <1>1 DEF LimitInv, Inv, TypeOK, CountsAtRest
  <2>3. UsedItems' \in Nat
    BY <2>2, UsedIsTotalNext, TotalIsNat DEF TypeOK
  <2>4. IsFiniteSet(Opened') /\ Cardinality(Opened') \in Nat /\ Cardinality(Opened') <= Cardinality(Requests)
    <3> DEFINE f == [q \in Opened' |-> q.id]
    <3>1. \A q \in Opened' : q.id \in Requests
      BY <2>2 DEF Opened, Request
    <3>2. f \in Injection(Opened', Requests)
      BY <2>2, <3>1 DEF OneIdEach, Opened, Injection, IsInjective
    <3>3. IsFiniteSet(Opened') /\ Cardinality(Opened') <= Cardinality(Requests)
      BY <3>2, RequestsAssumption, FS_Injection
    <3> QED BY <3>3, FS_CardinalityType
  <2> QED BY <2>1, <2>3, <2>4, UsedIsNat, OpenedFitSlots, LimitsAssumption
<1>3. UsedItems + Cardinality(Opened) < MaxItems + Cardinality(Requests)
  BY DEF LimitInv, Reserved
<1>4. CASE \E q \in Opened : inflight' = inflight \ {q} /\ UsedItems' = UsedItems + 1
  <2>1. PICK q \in Opened : inflight' = inflight \ {q} /\ UsedItems' = UsedItems + 1
    BY <1>4
  <2>2. Opened' = Opened \ {q}
    BY <2>1 DEF Opened
  <2>3. Cardinality(Opened') = Cardinality(Opened) - 1
    BY <1>2, <2>2, FS_RemoveElement
  <2> QED BY <1>2, <1>3, <2>1, <2>3 DEF Reserved
<1>5. CASE UsedItems' <= UsedItems /\ Opened' \subseteq Opened
  <2>1. Cardinality(Opened') <= Cardinality(Opened)
    BY <1>2, <1>5, FS_Subset
  <2> QED BY <1>2, <1>3, <1>5, <2>1 DEF Reserved
<1>6. CASE UsedItems' <= UsedItems /\ UnderItemLimit
  BY <1>2, <1>6 DEF UnderItemLimit, Reserved
<1>7. Opened' \subseteq Opened \/ UnderItemLimit
  BY RequestsMove DEF LimitInv, Opened
<1> QED BY <1>1, <1>4, <1>5, <1>6, <1>7

LEMMA InitLimitInv == Init => LimitInv
<1> SUFFICES ASSUME Init PROVE LimitInv
  OBVIOUS
<1>1. Inv /\ OneIdEach /\ CountsAtRest
  BY InitInv, FS_EmptySet DEF Init, OneIdEach, CountsAtRest
<1>2. UsedItems = 0
  BY UsedIsTotal, TotalStep, FS_EmptySet DEF Init
<1>3. Opened = {}
  BY DEF Init, Opened
<1>4. Cardinality(Opened) = 0 /\ Cardinality(Requests) \in Nat
  BY <1>3, FS_EmptySet, FS_CardinalityType, RequestsAssumption
<1> QED BY <1>1, <1>2, <1>4, LimitsAssumption DEF LimitInv, Reserved

LEMMA NextLimitInv == LimitInv /\ [Next]_vars => LimitInv'
<1> SUFFICES ASSUME LimitInv, [Next]_vars PROVE LimitInv'
  OBVIOUS
<1>1. CASE Next
  BY <1>1, NextInv, IdsStayDistinct, UsedMoves, ReservedKept DEF LimitInv
<1>2. CASE UNCHANGED vars
  <2>1. Inv'
    BY NextInv DEF LimitInv
  <2>2. UNCHANGED <<collections, itemCount, inflight>>
    BY <1>2 DEF vars, rows
  <2>3. UsedItems' = UsedItems /\ Opened' = Opened
    BY <2>2, UsedIsTotal, UsedIsTotalNext DEF Opened
  <2> QED BY <2>1, <2>2, <2>3 DEF LimitInv, OneIdEach, CountsAtRest, Reserved
<1> QED BY <1>1, <1>2

\* Creations that read the sum together pass the limit together, by less than
\* there are requests in flight.
THEOREM OvershootIsBounded == Spec => []LimitOvershootBounded
<1>1. LimitInv => LimitOvershootBounded
  <2> SUFFICES ASSUME LimitInv PROVE LimitOvershootBounded
    OBVIOUS
  <2>1. inflight \subseteq Request /\ OneIdEach /\ IsFiniteSet(collections) /\ TypeOK
    BY DEF LimitInv, Inv, TypeOK, CountsAtRest
  <2>2. UsedItems \in Nat /\ Cardinality(Opened) \in Nat /\ Cardinality(Requests) \in Nat /\ MaxItems \in Nat
    BY <2>1, UsedIsNat, OpenedFitSlots, LimitsAssumption
  <2> QED BY <2>2 DEF LimitInv, Reserved, LimitOvershootBounded
<1> QED BY <1>1, InitLimitInv, NextLimitInv, PTL DEF Spec

-----------------------------------------------------------------------------
(***************************************************************************)
(* One request at a time.  What a request has read is still so when it     *)
(* writes: only the removal of a whole collection, which is one statement, *)
(* may come between.  So the counts are exact, and a series that is purged *)
(* was empty.                                                              *)
(***************************************************************************)
OneAtATime == \A r, s \in Requests : r = s

WishesHaveRows == isWishlist \subseteq NodeRows

StillSo ==
  \A q \in inflight :
    /\ q.op = "updateNode" /\ q.purge => q.wish = FALSE /\ ItemsIn(q.node) = {}
    /\ q.op \in {"updateItem", "removeItem"} =>
         /\ q.item \in ItemRows => itemNode[q.item] = q.node
         /\ q.purge => ItemsIn(q.node) \subseteq {q.item} /\ q.node \notin isWishlist
         /\ q.open /\ ~q.purge /\ q.item \in ItemRows /\ q.node \in NodeRows =>
              ItemsIn(q.node) \ {q.item} # {} \/ q.node \in isWishlist

\* The inductive invariant.
OneInv == Inv /\ OneIdEach /\ ItemCountExact /\ WishesHaveRows /\ StillSo

LEMMA NobodyElse ==
  ASSUME OneAtATime, OneInv, NEW q \in inflight
  PROVE  inflight = {q}
BY DEF OneAtATime, OneInv, Inv, TypeOK, Request, OneIdEach

\* What each write does to the rows.
LEMMA RemoveCollectionAlone ==
  ASSUME Inv, NEW c \in Collections, RemoveCollection(c)
  PROVE  /\ \A n \in Nodes : nodeCollection'[n] = IF nodeCollection[n] = c THEN Null ELSE nodeCollection[n]
         /\ \A i \in Items : itemCollection'[i] = IF itemCollection[i] = c THEN Null ELSE itemCollection[i]
         /\ \A i \in Items : itemCollection[i] # c => itemNode'[i] = itemNode[i]
         /\ isWishlist' = {n \in isWishlist : nodeCollection[n] # c}
         /\ c \notin collections' /\ c # Null /\ inflight' = inflight
         /\ \A d \in Collections : itemCount'[d] = IF d = c THEN 0 ELSE itemCount[d]
         /\ \A n \in NodeRows' : n \in NodeRows /\ nodeCollection[n] # c /\ ItemsIn(n)' = ItemsIn(n)
<1>1. /\ \A n \in Nodes : nodeCollection'[n] = IF nodeCollection[n] = c THEN Null ELSE nodeCollection[n]
      /\ \A i \in Items : itemCollection'[i] = IF itemCollection[i] = c THEN Null ELSE itemCollection[i]
      /\ \A i \in Items : itemCollection[i] # c => itemNode'[i] = itemNode[i]
      /\ c \notin collections' /\ inflight' = inflight
      /\ \A d \in Collections : itemCount'[d] = IF d = c THEN 0 ELSE itemCount[d]
  BY DEF RemoveCollection, DropNodes, DropItems, Without, ItemsOf, Inv, TypeOK
<1>2. isWishlist' = {n \in isWishlist : nodeCollection[n] # c}
  BY DEF RemoveCollection, DropNodes, Inv, TypeOK
<1>3. c # Null
  BY NullAssumption
<1>4. ASSUME NEW n \in NodeRows'
      PROVE  n \in NodeRows /\ nodeCollection[n] # c /\ ItemsIn(n)' = ItemsIn(n)
  <2>1. n \in NodeRows /\ nodeCollection[n] # c /\ n # Null
    BY <1>1, <1>4, NullAssumption DEF NodeRows
  <2>2. \A i \in ItemRows : itemNode[i] = n => itemCollection[i] # c
    BY <2>1 DEF Inv, ItemsStayInTheirCollection
  <2>3. \A i \in Items : i \in ItemsIn(n)' <=> i \in ItemsIn(n)
    <3> TAKE i \in Items
    <3>1. CASE itemCollection[i] = c
      BY <1>1, <1>3, <2>2, <3>1 DEF ItemsIn, ItemRows
    <3>2. CASE itemCollection[i] # c
      BY <1>1, <3>2 DEF ItemsIn, ItemRows
    <3> QED BY <3>1, <3>2
  <2> QED BY <2>1, <2>3 DEF ItemsIn, ItemRows
<1> QED BY <1>1, <1>2, <1>3, <1>4

LEMMA CommitCreateItemAlone ==
  ASSUME Inv, NEW q \in inflight, NEW i \in Items, NEW n \in Nodes \cup {Null},
         CommitCreateItem(q, i, n)
  PROVE  /\ q.collection \in Collections /\ i \notin ItemRows
         /\ \A j \in Items : /\ itemCollection'[j] = IF j = i THEN q.collection ELSE itemCollection[j]
                             /\ itemNode'[j] = IF j = i THEN n ELSE itemNode[j]
         /\ \A d \in Collections :
              itemCount'[d] = IF d = q.collection THEN itemCount[d] + 1 ELSE itemCount[d]
         /\ isWishlist' = isWishlist /\ inflight' = inflight \ {q} /\ NodeRows \subseteq NodeRows'
<1>1. q.op = "createItem" /\ i \notin ItemRows /\ inflight' = inflight \ {q}
      /\ itemCollection' = [itemCollection EXCEPT ![i] = q.collection]
      /\ itemNode' = [itemNode EXCEPT ![i] = n]
      /\ itemCount' = [itemCount EXCEPT ![q.collection] = @ + 1]
  BY DEF CommitCreateItem, Finish, NewItem, CountOneMore
<1>2. q.collection \in Collections /\ q.collection # Null
  BY <1>1, RequestTypes, NullAssumption DEF Inv
<1>3. isWishlist' = isWishlist /\ NodeRows \subseteq NodeRows'
  <2>1. CASE UNCHANGED nodeVars
    BY <2>1 DEF nodeVars, NodeRows
  <2>2. CASE InsertNode(n, q.collection, q.ref, FALSE)
    BY <1>2, <2>2 DEF InsertNode, NodeRows, Inv, TypeOK
  <2> QED BY <2>1, <2>2 DEF CommitCreateItem
<1> QED BY <1>1, <1>2, <1>3 DEF Inv, TypeOK

LEMMA CommitUpdateItemAlone ==
  ASSUME OneInv, NEW q \in inflight, CommitUpdateItem(q)
  PROVE  LET m == IF q.to = Same THEN itemNode[q.item] ELSE q.to
             D == IF q.purge /\ q.node # m THEN {q.node} ELSE {}
         IN  /\ q.op = "updateItem" /\ q.open /\ q.item \in ItemRows /\ m \notin D
             /\ \A n \in Nodes : nodeCollection'[n] = IF n \in D THEN Null ELSE nodeCollection[n]
             /\ itemCollection' = itemCollection
             /\ \A j \in Items : itemNode'[j] = IF j = q.item THEN m ELSE itemNode[j]
             /\ isWishlist' = isWishlist \ D
             /\ UNCHANGED <<collections, itemCount>> /\ inflight' = inflight \ {q}
<1> DEFINE i == q.item
           m == IF q.to = Same THEN itemNode[i] ELSE q.to
           v == IF q.volume = Same THEN volume[i] ELSE q.volume
           D == IF q.purge /\ q.node # m THEN {q.node} ELSE {}
           L == Cascade(D) \ {i}
<1>1. /\ q.op = "updateItem" /\ q.open /\ i \in ItemRows /\ m \notin D
      /\ UNCHANGED <<collections, itemCount>> /\ inflight' = inflight \ {q}
      /\ DropNodes(D)
      /\ itemCollection' = Without(itemCollection, L)
      /\ itemNode' = Without([itemNode EXCEPT ![i] = m], L)
  BY DEF CommitUpdateItem, Finish
<1>2. L = {}
  BY <1>1 DEF Cascade, OneInv, StillSo
<1> HIDE DEF i, m, v, D, L
<1>3. /\ \A n \in Nodes : nodeCollection'[n] = IF n \in D THEN Null ELSE nodeCollection[n]
      /\ isWishlist' = isWishlist \ D
  BY <1>1 DEF DropNodes, Without, OneInv, Inv, TypeOK
<1>4. /\ itemCollection' = itemCollection
      /\ \A j \in Items : itemNode'[j] = IF j = i THEN m ELSE itemNode[j]
  BY <1>1, <1>2 DEF Without, OneInv, Inv, TypeOK
<1> QED BY <1>1, <1>3, <1>4 DEF i, m, D

LEMMA CommitRemoveItemAlone ==
  ASSUME OneInv, NEW q \in inflight, CommitRemoveItem(q)
  PROVE  LET D == IF q.purge THEN {q.node} ELSE {}
         IN  /\ q.op = "removeItem" /\ q.open /\ q.item \in ItemRows
             /\ q.item \in Items /\ q.collection \in Collections
             /\ itemCollection[q.item] = q.collection
             /\ \A n \in Nodes : nodeCollection'[n] = IF n \in D THEN Null ELSE nodeCollection[n]
             /\ \A j \in Items : /\ itemCollection'[j] = IF j = q.item THEN Null ELSE itemCollection[j]
                                 /\ itemNode'[j] = IF j = q.item THEN Null ELSE itemNode[j]
             /\ isWishlist' = isWishlist \ D
             /\ \A d \in Collections :
                  itemCount'[d] = IF d = q.collection THEN itemCount[d] - 1 ELSE itemCount[d]
             /\ UNCHANGED collections /\ inflight' = inflight \ {q}
<1> DEFINE i == q.item
           D == IF q.purge THEN {q.node} ELSE {}
           L == {i} \cup Cascade(D)
<1>1. /\ q.op = "removeItem" /\ q.open /\ i \in ItemRows
      /\ UNCHANGED collections /\ itemCount' = [itemCount EXCEPT ![q.collection] = @ - 1]
      /\ inflight' = inflight \ {q}
      /\ DropNodes(D) /\ DropItems(L)
  BY DEF CommitRemoveItem, ItemStillThere, CountOneLess, Finish
<1>2. i \in Items /\ q.collection \in Collections /\ itemCollection[i] = q.collection
  BY <1>1, RequestTypes DEF OneInv, Inv, RequestsAgree
<1>3. L = {i}
  BY <1>1 DEF Cascade, OneInv, StillSo
<1> HIDE DEF i, D, L
<1>4. /\ \A n \in Nodes : nodeCollection'[n] = IF n \in D THEN Null ELSE nodeCollection[n]
      /\ isWishlist' = isWishlist \ D
  BY <1>1 DEF DropNodes, Without, OneInv, Inv, TypeOK
<1>5. /\ \A j \in Items : itemCollection'[j] = IF j = i THEN Null ELSE itemCollection[j]
      /\ \A j \in Items : itemNode'[j] = IF j = i THEN Null ELSE itemNode[j]
  BY <1>1, <1>3 DEF DropItems, Without, OneInv, Inv, TypeOK
<1>6. \A d \in Collections :
        itemCount'[d] = IF d = q.collection THEN itemCount[d] - 1 ELSE itemCount[d]
  BY <1>1, <1>2 DEF OneInv, Inv, TypeOK
<1> QED BY <1>1, <1>2, <1>4, <1>5, <1>6 DEF i, D

\* A node deleted by an update was empty: its items are untouched.
LEMMA CommitUpdateNodeAlone ==
  ASSUME OneInv, NEW q \in inflight, CommitUpdateNode(q)
  PROVE  LET D == IF q.purge THEN {q.node} ELSE {}
         IN  /\ q.op = "updateNode" /\ q.node \in NodeRows
             /\ q.purge => q.wish = FALSE
             /\ \A n \in Nodes : nodeCollection'[n] = IF n \in D THEN Null ELSE nodeCollection[n]
             /\ UNCHANGED <<itemCollection, itemNode, collections, itemCount>>
             /\ isWishlist' \subseteq (isWishlist \cup {q.node}) \ D
             /\ inflight' = inflight \ {q}
<1> DEFINE D == IF q.purge THEN {q.node} ELSE {}
<1>1. /\ q.op = "updateNode" /\ q.node \in NodeRows
      /\ UNCHANGED <<collections, itemCount>> /\ inflight' = inflight \ {q}
  BY DEF CommitUpdateNode, Finish
<1>2. q.purge => q.wish = FALSE /\ ItemsIn(q.node) = {}
  BY <1>1 DEF OneInv, StillSo
<1>3. CASE q.purge
  <2>1. DropNodes({q.node}) /\ DropItems({})
    BY <1>2, <1>3 DEF CommitUpdateNode
  <2>2. UNCHANGED <<itemCollection, itemNode>>
    BY <2>1 DEF DropItems, Without, OneInv, Inv, TypeOK
  <2>3. \A n \in Nodes : nodeCollection'[n] = IF n = q.node THEN Null ELSE nodeCollection[n]
    BY <2>1 DEF DropNodes, Without, OneInv, Inv, TypeOK
  <2> QED BY <1>1, <1>2, <1>3, <2>1, <2>2, <2>3 DEF DropNodes
<1>4. CASE ~q.purge
  <2>1. UNCHANGED <<nodeCollection, sources, itemVars>>
    BY <1>4 DEF CommitUpdateNode
  <2>2. isWishlist' \subseteq isWishlist \cup {q.node}
    BY <1>4 DEF CommitUpdateNode
  <2> QED BY <1>1, <1>4, <2>1, <2>2 DEF itemVars
<1> QED BY <1>3, <1>4

-----------------------------------------------------------------------------
LEMMA ExactWhenSame ==
  ASSUME ItemCountExact, UNCHANGED <<itemCollection, itemCount>>
  PROVE  ItemCountExact'
BY DEF ItemCountExact, ItemsOf

LEMMA CountStaysExact ==
  ASSUME OneAtATime, OneInv, Next
  PROVE  ItemCountExact'
<1>1. ItemCountExact /\ Inv
  BY DEF OneInv
<1>2. ASSUME UNCHANGED rows PROVE ItemCountExact'
  BY <1>1, <1>2, ExactWhenSame DEF rows, itemVars
<1>3. ASSUME NEW c \in Collections, RemoveCollection(c) PROVE ItemCountExact'
  <2> SUFFICES ASSUME NEW d \in Collections PROVE Cardinality(ItemsOf(d)') = itemCount'[d]
    BY DEF ItemCountExact
  <2>1. /\ \A i \in Items : itemCollection'[i] = IF itemCollection[i] = c THEN Null ELSE itemCollection[i]
        /\ itemCount'[d] = IF d = c THEN 0 ELSE itemCount[d]
        /\ d # Null
    BY <1>1, <1>3, RemoveCollectionAlone, NullAssumption
  <2>2. ItemsOf(d)' = IF d = c THEN {} ELSE ItemsOf(d)
    BY <2>1 DEF ItemsOf
  <2> QED BY <1>1, <2>1, <2>2, FS_EmptySet DEF ItemCountExact
<1>4. ASSUME NEW q \in inflight, NEW i \in Items, NEW n \in Nodes \cup {Null}, CommitCreateItem(q, i, n)
      PROVE  ItemCountExact'
  <2> SUFFICES ASSUME NEW d \in Collections PROVE Cardinality(ItemsOf(d)') = itemCount'[d]
    BY DEF ItemCountExact
  <2> DEFINE c == q.collection
  <2>1. /\ i \notin ItemRows
        /\ \A j \in Items : itemCollection'[j] = IF j = i THEN c ELSE itemCollection[j]
        /\ itemCount'[d] = IF d = c THEN itemCount[d] + 1 ELSE itemCount[d]
    BY <1>1, <1>4, CommitCreateItemAlone
  <2>2. i \notin ItemsOf(d) /\ IsFiniteSet(ItemsOf(d)) /\ Cardinality(ItemsOf(d)) = itemCount[d]
    BY <1>1, <2>1, ItemsOfFinite, NullAssumption DEF ItemsOf, ItemRows, ItemCountExact
  <2>3. ItemsOf(d)' = IF d = c THEN ItemsOf(d) \cup {i} ELSE ItemsOf(d)
    BY <2>1, <2>2 DEF ItemsOf
  <2> QED BY ZenonT(60), <2>1, <2>2, <2>3, FS_AddElement
<1>5. ASSUME NEW q \in inflight, CommitRemoveItem(q) PROVE ItemCountExact'
  <2> SUFFICES ASSUME NEW d \in Collections PROVE Cardinality(ItemsOf(d)') = itemCount'[d]
    BY DEF ItemCountExact
  <2> DEFINE c == q.collection
             i == q.item
  <2>1. /\ i \in Items /\ itemCollection[i] = c /\ c # Null /\ d # Null
        /\ \A j \in Items : itemCollection'[j] = IF j = i THEN Null ELSE itemCollection[j]
        /\ itemCount'[d] = IF d = c THEN itemCount[d] - 1 ELSE itemCount[d]
    BY <1>5, CommitRemoveItemAlone, NullAssumption
  <2>2. IsFiniteSet(ItemsOf(d)) /\ Cardinality(ItemsOf(d)) = itemCount[d]
    BY <1>1, ItemsOfFinite DEF ItemCountExact
  <2>3. ItemsOf(d)' = ItemsOf(d) \ {i} /\ (i \in ItemsOf(d) <=> d = c)
    BY <2>1 DEF ItemsOf
  <2>4. d # c => ItemsOf(d)' = ItemsOf(d)
    BY <2>3
  <2>5. d = c => Cardinality(ItemsOf(d) \ {i}) = Cardinality(ItemsOf(d)) - 1
    BY <2>2, <2>3, FS_RemoveElement
  <2> QED BY <2>1, <2>2, <2>3, <2>4, <2>5
<1>6. ASSUME NEW q \in inflight,
             \/ \E c \in Collections : CommitCreateCollection(q, c)
             \/ \E n \in Nodes : CommitCreateNode(q, n)
             \/ CommitAttachSource(q)
      PROVE  UNCHANGED <<itemCollection, itemCount>>
  BY <1>6 DEF CommitCreateCollection, CommitCreateNode, CommitAttachSource, itemVars
<1>7. ASSUME NEW q \in inflight, CommitUpdateNode(q) \/ CommitUpdateItem(q)
      PROVE  UNCHANGED <<itemCollection, itemCount>>
  BY <1>7, CommitUpdateNodeAlone, CommitUpdateItemAlone
<1> QED BY <1>1, <1>2, <1>3, <1>4, <1>5, <1>6, <1>7, NextIsAWrite, ExactWhenSame

LEMMA WishesKeepRows ==
  ASSUME OneAtATime, OneInv, Next
  PROVE  WishesHaveRows'
<1>1. WishesHaveRows /\ Inv
  BY DEF OneInv
<1>2. ASSUME UNCHANGED <<isWishlist, nodeCollection>> PROVE WishesHaveRows'
  BY <1>1, <1>2 DEF WishesHaveRows, NodeRows
<1>3. ASSUME NEW c \in Collections, RemoveCollection(c) PROVE WishesHaveRows'
  BY <1>1, <1>3, RemoveCollectionAlone DEF WishesHaveRows, NodeRows
<1>4. ASSUME NEW q \in inflight, NEW i \in Items, NEW n \in Nodes \cup {Null}, CommitCreateItem(q, i, n)
      PROVE  WishesHaveRows'
  BY <1>1, <1>4, CommitCreateItemAlone DEF WishesHaveRows
<1>5. ASSUME NEW D, isWishlist' \subseteq NodeRows \ D,
             \A n \in Nodes : nodeCollection'[n] = IF n \in D THEN Null ELSE nodeCollection[n]
      PROVE  WishesHaveRows'
  BY <1>5 DEF WishesHaveRows, NodeRows
<1>6. ASSUME NEW q \in inflight, CommitRemoveItem(q) PROVE WishesHaveRows'
  <2> DEFINE D == IF q.purge THEN {q.node} ELSE {}
  <2>1. /\ isWishlist' = isWishlist \ D
        /\ \A n \in Nodes : nodeCollection'[n] = IF n \in D THEN Null ELSE nodeCollection[n]
    BY <1>6, CommitRemoveItemAlone
  <2> HIDE DEF D
  <2> QED BY <1>1, <1>5, <2>1 DEF WishesHaveRows
<1>7. ASSUME NEW q \in inflight, CommitUpdateItem(q) PROVE WishesHaveRows'
  <2> DEFINE m == IF q.to = Same THEN itemNode[q.item] ELSE q.to
             D == IF q.purge /\ q.node # m THEN {q.node} ELSE {}
  <2>1. /\ isWishlist' = isWishlist \ D
        /\ \A n \in Nodes : nodeCollection'[n] = IF n \in D THEN Null ELSE nodeCollection[n]
    BY <1>7, CommitUpdateItemAlone
  <2> HIDE DEF D
  <2> QED BY <1>1, <1>5, <2>1 DEF WishesHaveRows
<1>8. ASSUME NEW q \in inflight, CommitUpdateNode(q) PROVE WishesHaveRows'
  <2> DEFINE D == IF q.purge THEN {q.node} ELSE {}
  <2>1. /\ isWishlist' \subseteq (isWishlist \cup {q.node}) \ D /\ q.node \in NodeRows
        /\ \A n \in Nodes : nodeCollection'[n] = IF n \in D THEN Null ELSE nodeCollection[n]
    BY <1>8, CommitUpdateNodeAlone
  <2> HIDE DEF D
  <2> QED BY <1>1, <1>5, <2>1 DEF WishesHaveRows
<1>9. ASSUME NEW q \in inflight, NEW n \in Nodes, CommitCreateNode(q, n) PROVE WishesHaveRows'
  <2>1. q.op = "createNode" /\ InsertNode(n, q.collection, q.ref, q.wish)
    BY <1>9 DEF CommitCreateNode
  <2>2. q.collection \in Collections /\ q.collection # Null
    BY <1>1, <2>1, RequestTypes, NullAssumption DEF Inv
  <2> QED BY <1>1, <2>1, <2>2 DEF InsertNode, WishesHaveRows, NodeRows, Inv, TypeOK
<1>10. ASSUME NEW q \in inflight, CommitAttachSource(q) \/ \E c \in Collections : CommitCreateCollection(q, c)
       PROVE  UNCHANGED <<isWishlist, nodeCollection>>
  BY <1>10 DEF CommitAttachSource, CommitCreateCollection, nodeVars
<1>11. ASSUME UNCHANGED rows PROVE UNCHANGED <<isWishlist, nodeCollection>>
  BY <1>11 DEF rows, nodeVars
<1> QED BY <1>2, <1>3, <1>4, <1>6, <1>7, <1>8, <1>9, <1>10, <1>11, NextIsAWrite


\* A request that begins or opens speaks of the rows of that moment; the one
\* that ends was alone.
LEMMA RequestsStaySo ==
  ASSUME OneAtATime, OneInv, Next
  PROVE  StillSo'
<1>1. StillSo /\ Inv /\ SameAssumption
  BY SameAssumption DEF OneInv
<1>2. ASSUME UNCHANGED rows
      PROVE  /\ \A n : ItemsIn(n)' = ItemsIn(n)
             /\ ItemRows' = ItemRows /\ NodeRows' = NodeRows
             /\ isWishlist' = isWishlist /\ itemNode' = itemNode
  BY <1>2 DEF rows, nodeVars, itemVars, ItemsIn, ItemRows, NodeRows
<1> DEFINE So(q) ==
      /\ q.op = "updateNode" /\ q.purge => q.wish = FALSE /\ ItemsIn(q.node) = {}
      /\ q.op \in {"updateItem", "removeItem"} =>
           /\ q.item \in ItemRows => itemNode[q.item] = q.node
           /\ q.purge => ItemsIn(q.node) \subseteq {q.item} /\ q.node \notin isWishlist
           /\ q.open /\ ~q.purge /\ q.item \in ItemRows /\ q.node \in NodeRows =>
                ItemsIn(q.node) \ {q.item} # {} \/ q.node \in isWishlist
<1>3. \A q \in inflight : So(q)
  BY <1>1 DEF StillSo
<1>4. ASSUME UNCHANGED rows, \A q \in inflight' : q \in inflight \/ So(q) PROVE StillSo'
  <2>1. \A q \in inflight' : So(q)
    BY <1>3, <1>4
  <2> QED BY <1>2, <1>4, <2>1 DEF StillSo
<1>5. ASSUME NEW q, Check(q), So(q) PROVE StillSo'
  BY <1>4, <1>5 DEF Check
<1>6. ASSUME NEW q \in inflight, NEW o, Open(q, o), So(o) PROVE StillSo'
  BY <1>4, <1>6 DEF Open
<1>7. ASSUME NEW q \in inflight, inflight' = inflight \ {q} PROVE StillSo'
  <2>1. inflight' = {}
    BY <1>7, NobodyElse
  <2> QED BY <2>1 DEF StillSo
<1> HIDE DEF So
<1>8. ASSUME NEW r \in Requests, OpenCreateCollection(r) PROVE StillSo'
  BY <1>5, <1>8 DEF OpenCreateCollection, So
<1>9. ASSUME NEW r \in Requests, NEW c \in Collections, NEW ref \in Refs \cup {Null},
             NEW wish \in BOOLEAN, CheckCreateNode(r, c, ref, wish)
      PROVE  StillSo'
  BY <1>5, <1>9 DEF CheckCreateNode, So
<1>10. ASSUME NEW r \in Requests, NEW n \in Nodes, NEW wish \in BOOLEAN \cup {Same},
              CheckUpdateNode(r, n, wish)
       PROVE  StillSo'
  BY <1>5, <1>10 DEF CheckUpdateNode, So
<1>11. ASSUME NEW r \in Requests, NEW n \in Nodes, NEW ref \in Refs, CheckAttachSource(r, n, ref)
       PROVE  StillSo'
  BY <1>5, <1>11 DEF CheckAttachSource, So
<1>12. ASSUME NEW r \in Requests, NEW c \in Collections, NEW n \in Nodes \cup {Null},
              NEW ref \in Refs \cup {Null}, NEW v \in Volumes \cup {Null},
              CheckCreateItem(r, c, n, ref, v)
       PROVE  StillSo'
  BY <1>5, <1>12 DEF CheckCreateItem, So
<1>13. ASSUME NEW r \in Requests, NEW i \in Items, NEW to \in Nodes \cup {Null, Same},
              NEW v \in Volumes \cup {Null, Same}, CheckUpdateItem(r, i, to, v)
       PROVE  StillSo'
  BY <1>5, <1>13 DEF CheckUpdateItem, So
<1>14. ASSUME NEW r \in Requests, NEW i \in Items, CheckRemoveItem(r, i) PROVE StillSo'
  BY <1>5, <1>14 DEF CheckRemoveItem, So
<1>15. ASSUME NEW q \in inflight, OpenCreateNode(q) \/ OpenCreateItem(q) PROVE StillSo'
  <2> DEFINE o == [q EXCEPT !.open = TRUE]
  <2>1. Open(q, o) /\ (q.op = "createNode" \/ q.op = "createItem")
    BY <1>15 DEF OpenCreateNode, OpenCreateItem
  <2>2. q \in Request
    BY <1>1 DEF Inv, TypeOK
  <2>3. o.op = q.op
    <3>1. CASE q.op = "createNode"
      BY <2>2, <3>1 DEF Request
    <3>2. CASE q.op = "createItem"
      BY <2>2, <3>2 DEF Request
    <3> QED BY <2>1, <3>1, <3>2
  <2> HIDE DEF o
  <2> QED BY <1>6, <2>1, <2>3 DEF So
<1>16. ASSUME NEW q \in inflight, OpenUpdateItem(q) \/ OpenRemoveItem(q) PROVE StillSo'
  <2> DEFINE b == NodeIsEmpty(q.node, {q.item})
             o == [q EXCEPT !.open = TRUE, !.purge = b]
  <2>1. Open(q, o) /\ (q.op = "updateItem" \/ q.op = "removeItem")
    BY <1>16 DEF OpenUpdateItem, OpenRemoveItem
  <2>2. q \in Request
    BY <1>1 DEF Inv, TypeOK
  <2> HIDE DEF b
  <2>3. o.op = q.op /\ o.item = q.item /\ o.node = q.node /\ o.purge = b
    <3>1. CASE q.op = "updateItem"
      BY <2>2, <3>1 DEF Request
    <3>2. CASE q.op = "removeItem"
      BY <2>2, <3>2 DEF Request
    <3> QED BY <2>1, <3>1, <3>2
  <2> HIDE DEF o
  <2>4. q.item \in ItemRows => itemNode[q.item] = q.node
    BY <1>3, <2>1 DEF So
  <2>5. /\ b => ItemsIn(q.node) \subseteq {q.item} /\ q.node \notin isWishlist
        /\ ~b /\ q.node \in NodeRows => ItemsIn(q.node) \ {q.item} # {} \/ q.node \in isWishlist
    BY DEF b, NodeIsEmpty
  <2>6. So(o)
    BY <2>1, <2>3, <2>4, <2>5 DEF So
  <2> QED BY <1>6, <2>1, <2>6
<1>17. ASSUME NEW c \in Collections, RemoveCollection(c) PROVE StillSo'
  <2>1. /\ \A i \in Items : itemCollection'[i] = IF itemCollection[i] = c THEN Null ELSE itemCollection[i]
        /\ \A i \in Items : itemCollection[i] # c => itemNode'[i] = itemNode[i]
        /\ isWishlist' = {n \in isWishlist : nodeCollection[n] # c}
        /\ inflight' = inflight
        /\ \A n \in NodeRows' : n \in NodeRows /\ nodeCollection[n] # c /\ ItemsIn(n)' = ItemsIn(n)
    BY <1>1, <1>17, RemoveCollectionAlone
  <2>2. \A i \in ItemRows' : i \in ItemRows /\ itemNode'[i] = itemNode[i]
    BY <2>1 DEF ItemRows
  <2>3. \A n : ItemsIn(n)' \subseteq ItemsIn(n)
    BY <2>2 DEF ItemsIn
  <2>4. ASSUME NEW q \in inflight
        PROVE  /\ q.op = "updateNode" /\ q.purge => q.wish = FALSE /\ ItemsIn(q.node)' = {}
               /\ q.op \in {"updateItem", "removeItem"} =>
                    /\ q.item \in ItemRows' => itemNode'[q.item] = q.node
                    /\ q.purge => ItemsIn(q.node)' \subseteq {q.item} /\ q.node \notin isWishlist'
                    /\ q.open /\ ~q.purge /\ q.item \in ItemRows' /\ q.node \in NodeRows' =>
                         ItemsIn(q.node)' \ {q.item} # {} \/ q.node \in isWishlist'
    BY <1>3, <2>1, <2>2, <2>3 DEF So
  <2> QED BY <2>1, <2>4 DEF StillSo
<1>18. ASSUME NEW q \in inflight, Finish(q) PROVE StillSo'
  BY <1>7, <1>18 DEF Finish
<1>19. ASSUME NEW q \in inflight,
              \/ \E c \in Collections : CommitCreateCollection(q, c)
              \/ \E n \in Nodes : CommitCreateNode(q, n)
              \/ CommitUpdateNode(q) \/ CommitAttachSource(q)
              \/ \E i \in Items, n \in Nodes \cup {Null} : CommitCreateItem(q, i, n)
              \/ CommitUpdateItem(q) \/ CommitRemoveItem(q) \/ Rollback(q)
       PROVE  StillSo'
  BY <1>18, <1>19 DEF CommitCreateCollection, CommitCreateNode, CommitUpdateNode,
     CommitAttachSource, CommitCreateItem, CommitUpdateItem, CommitRemoveItem, Rollback
<1> QED BY <1>8, <1>9, <1>10, <1>11, <1>12, <1>13, <1>14, <1>15, <1>16, <1>17, <1>19 DEF Next

LEMMA InitOneInv == Init => OneInv
<1> SUFFICES ASSUME Init PROVE OneInv
  OBVIOUS
<1>1. \A c \in Collections : ItemsOf(c) = {}
  BY NullAssumption DEF Init, ItemsOf
<1>2. ItemCountExact
  BY <1>1, FS_EmptySet DEF Init, ItemCountExact
<1> QED BY <1>2, InitInv DEF Init, OneInv, OneIdEach, WishesHaveRows, StillSo

LEMMA NextOneInv ==
  ASSUME OneAtATime, OneInv, [Next]_vars
  PROVE  OneInv'
<1>1. CASE Next
  <2>1. Inv'
    BY NextInv DEF OneInv
  <2>2. OneIdEach'
    BY <1>1, IdsStayDistinct DEF OneInv
  <2> QED BY <1>1, <2>1, <2>2, CountStaysExact, WishesKeepRows, RequestsStaySo DEF OneInv
<1>2. CASE UNCHANGED vars
  <2>1. Inv'
    BY NextInv DEF OneInv
  <2>2. /\ UNCHANGED <<itemCollection, itemCount, isWishlist, inflight, itemNode>>
        /\ NodeRows' = NodeRows /\ ItemRows' = ItemRows /\ \A n : ItemsIn(n)' = ItemsIn(n)
    BY <1>2 DEF vars, rows, nodeVars, itemVars, NodeRows, ItemRows, ItemsIn
  <2> QED BY <2>1, <2>2, ExactWhenSame DEF OneInv, OneIdEach, WishesHaveRows, StillSo
<1> QED BY <1>1, <1>2

\* With one request at a time, itemCount is the number of items.
THEOREM CountIsExactAlone == OneAtATime => (Spec => []ItemCountExact)
<1> SUFFICES ASSUME OneAtATime PROVE Spec => []ItemCountExact
  OBVIOUS
<1>1. OneInv /\ [Next]_vars => OneInv'
  BY NextOneInv
<1>2. OneInv => ItemCountExact
  BY DEF OneInv
<1> QED BY <1>1, <1>2, InitOneInv, PTL DEF Spec

-----------------------------------------------------------------------------
\* Why a series is there after a step, and why it is not.
Survives(n) == n \in NodeRows' \/ Unwished(n) \/ nodeCollection[n] \notin collections'
Emptied(n) ==
  (\E i \in ItemsIn(n) : i \notin ItemsIn(n)') /\ n \in NodeRows'
    => ItemsIn(n)' # {} \/ n \in isWishlist'

\* Rows added, or none: nothing goes and nothing is emptied.
LEMMA MoreRows ==
  ASSUME WishesHaveRows, NodeRows \subseteq NodeRows', \A n : ItemsIn(n) \subseteq ItemsIn(n)'
  PROVE  /\ \A n \in isWishlist : Survives(n)
         /\ \A n \in NodeRows : Emptied(n)
BY DEF WishesHaveRows, Survives, Emptied

\* The item an update moves, or a removal takes away, is the only one to leave
\* its series, which is then purged if that emptied it.
LEMMA UpdateItemReasons ==
  ASSUME OneInv, NEW q \in inflight, CommitUpdateItem(q)
  PROVE  /\ \A n \in isWishlist : Survives(n)
         /\ \A n \in NodeRows : Emptied(n)
<1> DEFINE i == q.item
           m == IF q.to = Same THEN itemNode[i] ELSE q.to
           D == IF q.purge /\ q.node # m THEN {q.node} ELSE {}
<1>1. /\ q.op = "updateItem" /\ q.open /\ i \in ItemRows /\ m \notin D
      /\ \A n \in Nodes : nodeCollection'[n] = IF n \in D THEN Null ELSE nodeCollection[n]
      /\ itemCollection' = itemCollection
      /\ \A j \in Items : itemNode'[j] = IF j = i THEN m ELSE itemNode[j]
      /\ isWishlist' = isWishlist \ D
  BY CommitUpdateItemAlone
<1>2. /\ itemNode[i] = q.node
      /\ q.purge => q.node \notin isWishlist
      /\ ~q.purge /\ q.node \in NodeRows => ItemsIn(q.node) \ {i} # {} \/ q.node \in isWishlist
  BY <1>1 DEF OneInv, StillSo
<1>3. D \subseteq {q.node} /\ (q.purge /\ q.node # m => q.node \in D) /\ (~q.purge => D = {})
  OBVIOUS
<1>4. \A n : D # {} => q.purge
  OBVIOUS
<1> HIDE DEF i, m, D
<1>5. ASSUME NEW n \in isWishlist PROVE Survives(n)
  <2>1. n \in NodeRows /\ n \notin D
    BY <1>2, <1>3, <1>4 DEF OneInv, WishesHaveRows
  <2> QED BY <1>1, <2>1 DEF NodeRows, Survives
<1>6. ASSUME NEW n \in NodeRows, NEW j \in ItemsIn(n), j \notin ItemsIn(n)', n \in NodeRows'
      PROVE  ItemsIn(n)' # {} \/ n \in isWishlist'
  <2>1. j = i /\ m # n /\ n = q.node /\ n \in Nodes
    BY <1>1, <1>2, <1>6 DEF ItemsIn, ItemRows, NodeRows
  <2>2. n \notin D
    BY <1>1, <1>6 DEF NodeRows
  <2>3. ~q.purge
    BY <1>3, <2>1, <2>2
  <2>4. ItemsIn(n) \ {i} \subseteq ItemsIn(n)'
    BY <1>1 DEF ItemsIn, ItemRows
  <2> QED BY <1>1, <1>2, <1>6, <2>1, <2>2, <2>3, <2>4
<1> QED BY <1>5, <1>6 DEF Emptied

LEMMA RemoveItemReasons ==
  ASSUME OneInv, NEW q \in inflight, CommitRemoveItem(q)
  PROVE  /\ \A n \in isWishlist : Survives(n)
         /\ \A n \in NodeRows : Emptied(n)
<1> DEFINE i == q.item
           D == IF q.purge THEN {q.node} ELSE {}
<1>1. /\ q.op = "removeItem" /\ q.open /\ i \in ItemRows
      /\ \A n \in Nodes : nodeCollection'[n] = IF n \in D THEN Null ELSE nodeCollection[n]
      /\ \A j \in Items : /\ itemCollection'[j] = IF j = i THEN Null ELSE itemCollection[j]
                          /\ itemNode'[j] = IF j = i THEN Null ELSE itemNode[j]
      /\ isWishlist' = isWishlist \ D
  BY CommitRemoveItemAlone
<1>2. /\ itemNode[i] = q.node
      /\ q.purge => q.node \notin isWishlist
      /\ ~q.purge /\ q.node \in NodeRows => ItemsIn(q.node) \ {i} # {} \/ q.node \in isWishlist
  BY <1>1 DEF OneInv, StillSo
<1>3. D \subseteq {q.node} /\ (q.purge => q.node \in D) /\ (D # {} => q.purge)
  OBVIOUS
<1> HIDE DEF i, D
<1>4. ASSUME NEW n \in isWishlist PROVE Survives(n)
  <2>1. n \in NodeRows /\ n \notin D
    BY <1>2, <1>3 DEF OneInv, WishesHaveRows
  <2> QED BY <1>1, <2>1 DEF NodeRows, Survives
<1>5. ASSUME NEW n \in NodeRows, NEW j \in ItemsIn(n), j \notin ItemsIn(n)', n \in NodeRows'
      PROVE  ItemsIn(n)' # {} \/ n \in isWishlist'
  <2>1. j = i /\ n = q.node /\ n \in Nodes
    BY <1>1, <1>2, <1>5 DEF ItemsIn, ItemRows, NodeRows
  <2>2. n \notin D
    BY <1>1, <1>5, <2>1 DEF NodeRows
  <2>3. ~q.purge
    BY <1>3, <2>1, <2>2
  <2>4. ItemsIn(n) \ {i} \subseteq ItemsIn(n)'
    BY <1>1 DEF ItemsIn, ItemRows
  <2> QED BY <1>1, <1>2, <1>5, <2>1, <2>2, <2>3, <2>4
<1> QED BY <1>4, <1>5 DEF Emptied

LEMMA StepsHaveReasons ==
  ASSUME OneAtATime, OneInv, Next
  PROVE  /\ \A n \in isWishlist : Survives(n)
         /\ \A n \in NodeRows : Emptied(n)
<1> DEFINE Goal == /\ \A n \in isWishlist : Survives(n)
                   /\ \A n \in NodeRows : Emptied(n)
<1>1. Inv /\ WishesHaveRows
  BY DEF OneInv
<1>2. ASSUME UNCHANGED <<nodeCollection, itemVars>> PROVE Goal
  <2>1. NodeRows' = NodeRows /\ \A n : ItemsIn(n)' = ItemsIn(n)
    BY <1>2 DEF NodeRows, ItemsIn, ItemRows, itemVars
  <2> QED BY <1>1, <2>1, MoreRows
<1>3. ASSUME NEW c \in Collections, RemoveCollection(c) PROVE Goal
  <2>1. /\ c \notin collections'
        /\ \A n \in Nodes : nodeCollection'[n] = IF nodeCollection[n] = c THEN Null ELSE nodeCollection[n]
        /\ \A n \in NodeRows' : ItemsIn(n)' = ItemsIn(n)
    BY <1>1, <1>3, RemoveCollectionAlone
  <2>2. \A n \in isWishlist : n \in NodeRows' \/ nodeCollection[n] = c
    BY <1>1, <2>1 DEF WishesHaveRows, NodeRows
  <2> QED BY <2>1, <2>2 DEF Survives, Emptied
<1>4. ASSUME NEW q \in inflight, NEW n \in Nodes, CommitCreateNode(q, n) PROVE Goal
  <2>1. q.op = "createNode" /\ InsertNode(n, q.collection, q.ref, q.wish) /\ UNCHANGED itemVars
    BY <1>4 DEF CommitCreateNode
  <2>2. q.collection \in Collections /\ q.collection # Null
    BY <1>1, <2>1, RequestTypes, NullAssumption DEF Inv
  <2>3. NodeRows \subseteq NodeRows'
    BY <1>1, <2>1, <2>2 DEF InsertNode, NodeRows, Inv, TypeOK
  <2>4. \A m : ItemsIn(m)' = ItemsIn(m)
    BY <2>1 DEF itemVars, ItemsIn, ItemRows
  <2> QED BY <1>1, <2>3, <2>4, MoreRows
<1>5. ASSUME NEW q \in inflight, NEW i \in Items, NEW n \in Nodes \cup {Null}, CommitCreateItem(q, i, n)
      PROVE  Goal
  <2>1. /\ i \notin ItemRows /\ NodeRows \subseteq NodeRows'
        /\ \A j \in Items : /\ itemCollection'[j] = IF j = i THEN q.collection ELSE itemCollection[j]
                            /\ itemNode'[j] = IF j = i THEN n ELSE itemNode[j]
    BY <1>1, <1>5, CommitCreateItemAlone
  <2>2. \A m : ItemsIn(m) \subseteq ItemsIn(m)'
    BY <2>1 DEF ItemsIn, ItemRows
  <2> QED BY <1>1, <2>1, <2>2, MoreRows
<1>6. ASSUME NEW q \in inflight, CommitUpdateNode(q) PROVE Goal
  <2> DEFINE D == IF q.purge THEN {q.node} ELSE {}
  <2>1. /\ q.op = "updateNode"
        /\ q.purge => q.wish = FALSE
        /\ \A n \in Nodes : nodeCollection'[n] = IF n \in D THEN Null ELSE nodeCollection[n]
        /\ UNCHANGED <<itemCollection, itemNode>>
        /\ inflight' = inflight \ {q}
    BY <1>6, CommitUpdateNodeAlone
  <2>2. \A n \in D : Unwished(n)
    BY <2>1 DEF Unwished
  <2> HIDE DEF D
  <2>3. \A n \in isWishlist : Survives(n)
    BY <1>1, <2>1, <2>2 DEF Survives, WishesHaveRows, NodeRows
  <2>4. \A n : ItemsIn(n)' = ItemsIn(n)
    BY <2>1 DEF ItemsIn, ItemRows
  <2> QED BY <2>3, <2>4 DEF Emptied
<1>7. ASSUME NEW q \in inflight, CommitUpdateItem(q) \/ CommitRemoveItem(q) PROVE Goal
  BY <1>7, UpdateItemReasons, RemoveItemReasons
<1>8. ASSUME NEW q \in inflight, CommitAttachSource(q) \/ \E c \in Collections : CommitCreateCollection(q, c)
      PROVE  UNCHANGED <<nodeCollection, itemVars>>
  BY <1>8 DEF CommitAttachSource, CommitCreateCollection, nodeVars
<1>9. ASSUME UNCHANGED rows PROVE UNCHANGED <<nodeCollection, itemVars>>
  BY <1>9 DEF rows, nodeVars
<1> HIDE DEF Goal
<1>10. Goal
  BY <1>2, <1>3, <1>4, <1>5, <1>6, <1>7, <1>8, <1>9, NextIsAWrite
<1> QED BY <1>10 DEF Goal

\* With one request at a time, a series goes with its last volume, and only
\* then, unless it is wished for.
THEOREM SeriesStayAlone == OneAtATime => (Spec => SeriesStayForAReason)
<1> SUFFICES ASSUME OneAtATime PROVE Spec => SeriesStayForAReason
  OBVIOUS
<1>1. OneInv /\ [Next]_vars => OneInv'
  BY NextOneInv
<1>2. OneInv /\ [Next]_vars =>
        [\A n \in isWishlist :
           \/ n \in NodeRows' \/ Unwished(n) \/ nodeCollection[n] \notin collections']_vars
  BY StepsHaveReasons DEF Survives
<1>3. OneInv /\ [Next]_vars =>
        [\A n \in NodeRows :
           (\E i \in ItemsIn(n) : i \notin ItemsIn(n)') /\ n \in NodeRows'
             => ItemsIn(n)' # {} \/ n \in isWishlist']_vars
  BY StepsHaveReasons DEF Emptied
<1>4. Spec => WishlistSurvives
  BY <1>1, <1>2, InitOneInv, PTL DEF Spec, WishlistSurvives
<1>5. Spec => EmptiedSeriesGoes
  BY <1>1, <1>3, InitOneInv, PTL DEF Spec, EmptiedSeriesGoes
<1> QED BY <1>4, <1>5, PTL DEF SeriesStayForAReason
=============================================================================
