------------------------------- MODULE Library -------------------------------
(***************************************************************************)
(* The library of one account: CollectionsService, NodesService (series),  *)
(* ItemsService (volumes) and LimitsService.  Every query of the three     *)
(* services is scoped by userId, so accounts do not meet here.             *)
(*                                                                         *)
(* A request goes through up to three moments, and other requests run in   *)
(* between: Check does the reads made before the transaction (ownership,   *)
(* the series, the item's present place; it ends before any provider is    *)
(* awaited), Open the first read of the transaction, which fixes its       *)
(* snapshot (REPEATABLE READ), and Commit all its writes.  Plain reads in  *)
(* the transaction see the snapshot and its own writes; writes, foreign    *)
(* keys, cascades and unique keys act on the current rows.  Rollback is    *)
(* every end without effect: a refused write, a deadlock, a crash.         *)
(*                                                                         *)
(* Ids are uuids.  The model uses an id again once no row and no request   *)
(* mentions it, which nothing can tell from a new one.                     *)
(***************************************************************************)
EXTENDS Integers, FiniteSets, FiniteSetsExt

CONSTANTS
  Collections,     \* collection ids
  Flat,            \* those whose type has no hierarchy
  Nodes,           \* node ids (a node is a series)
  Items,           \* item ids
  Volumes,         \* volume numbers
  Refs,            \* (provider, externalId) of a series
  Requests,        \* slots for requests in flight
  MaxCollections,  \* TECHNICAL_LIMITS.collections
  MaxNodes,        \* TECHNICAL_LIMITS.nodes
  MaxItems,        \* TECHNICAL_LIMITS.items
  Null,            \* SQL NULL, no such row
  Same             \* field absent from a PATCH

ASSUME ItemsAssumption == IsFiniteSet(Items)
ASSUME RequestsAssumption == IsFiniteSet(Requests)
ASSUME FlatAssumption == Flat \subseteq Collections
ASSUME LimitsAssumption == MaxCollections \in Nat /\ MaxNodes \in Nat /\ MaxItems \in Nat \ {0}
ASSUME NullAssumption == \A S \in {Collections, Nodes, Volumes, Refs} : Null \notin S
ASSUME SameAssumption == Same # Null /\ \A S \in {Nodes, Volumes, BOOLEAN} : Same \notin S

VARIABLES
  collections,     \* rows of collections
  itemCount,       \* collections.item_count
  nodeCollection,  \* collection_nodes.collection_id, Null without a row
  isWishlist,      \* nodes with is_wishlist
  sources,         \* collection_nodes.sources, as a set of references
  itemCollection,  \* items.collection_id, Null without a row
  itemNode,        \* items.node_id
  volume,          \* items.volume
  inflight         \* requests between two of their moments

nodeVars == <<nodeCollection, isWishlist, sources>>
itemVars == <<itemCollection, itemNode, volume>>
rows == <<collections, itemCount, nodeVars, itemVars>>
vars == <<rows, inflight>>

Request ==
  [id : Requests, op : {"createCollection"}]
  \cup [id : Requests, op : {"createNode"}, open : BOOLEAN,
        collection : Collections, ref : Refs \cup {Null}, wish : BOOLEAN]
  \cup [id : Requests, op : {"updateNode"}, node : Nodes,
        wish : BOOLEAN \cup {Same}, purge : BOOLEAN]
  \cup [id : Requests, op : {"attachSource"}, node : Nodes, refs : SUBSET Refs]
  \cup [id : Requests, op : {"createItem"}, open : BOOLEAN,
        collection : Collections, node : Nodes \cup {Null},
        ref : Refs \cup {Null}, volume : Volumes \cup {Null}]
  \cup [id : Requests, op : {"updateItem"}, open : BOOLEAN, item : Items,
        node : Nodes \cup {Null}, to : Nodes \cup {Null, Same},
        volume : Volumes \cup {Null, Same}, purge : BOOLEAN]
  \cup [id : Requests, op : {"removeItem"}, open : BOOLEAN, item : Items,
        collection : Collections, node : Nodes \cup {Null}, purge : BOOLEAN]

TypeOK ==
  /\ collections \subseteq Collections
  /\ itemCount \in [Collections -> Nat]
  /\ nodeCollection \in [Nodes -> Collections \cup {Null}]
  /\ isWishlist \subseteq Nodes
  /\ sources \in [Nodes -> SUBSET Refs]
  /\ itemCollection \in [Items -> Collections \cup {Null}]
  /\ itemNode \in [Items -> Nodes \cup {Null}]
  /\ volume \in [Items -> Volumes \cup {Null}]
  /\ inflight \subseteq Request

Init ==
  /\ collections = {}
  /\ itemCount = [c \in Collections |-> 0]
  /\ nodeCollection = [n \in Nodes |-> Null]
  /\ isWishlist = {}
  /\ sources = [n \in Nodes |-> {}]
  /\ itemCollection = [i \in Items |-> Null]
  /\ itemNode = [i \in Items |-> Null]
  /\ volume = [i \in Items |-> Null]
  /\ inflight = {}

NodeRows         == {n \in Nodes : nodeCollection[n] # Null}
ItemRows         == {i \in Items : itemCollection[i] # Null}
ItemsOf(c)       == {i \in Items : itemCollection[i] = c}
ItemsIn(n)       == {i \in ItemRows : itemNode[i] = n}
Matching(c, ref) == {n \in NodeRows : nodeCollection[n] = c /\ ref \in sources[n]}

\* An id no row and no request mentions: a new uuid.
NewCollection(c) ==
  /\ c \notin collections
  /\ \A q \in inflight : q.op \in {"createNode", "createItem", "removeItem"} => q.collection # c
NewNode(n) ==
  /\ n \notin NodeRows
  /\ \A q \in inflight :
       /\ q.op \in {"updateNode", "attachSource", "createItem", "updateItem", "removeItem"} => q.node # n
       /\ q.op = "updateItem" => q.to # n
NewItem(i) ==
  /\ i \notin ItemRows
  /\ \A q \in inflight : q.op \in {"updateItem", "removeItem"} => q.item # i

(***************************************************************************)
(* Requests in flight                                                      *)
(***************************************************************************)
Check(q) ==
  /\ \A p \in inflight : p.id # q.id
  /\ inflight' = inflight \cup {q}
  /\ UNCHANGED rows

Open(q, opened) ==
  /\ ~q.open
  /\ inflight' = (inflight \ {q}) \cup {opened}
  /\ UNCHANGED rows

Finish(q) == inflight' = inflight \ {q}

Rollback(q) == Finish(q) /\ UNCHANGED rows

(***************************************************************************)
(* Collections.  The limit is counted in the transaction's snapshot.       *)
(***************************************************************************)
OpenCreateCollection(r) ==
  /\ Cardinality(collections) < MaxCollections
  /\ Check([id |-> r, op |-> "createCollection"])

CommitCreateCollection(q, c) ==
  /\ q.op = "createCollection"
  /\ NewCollection(c)
  /\ collections' = collections \cup {c}
  /\ Finish(q)
  /\ UNCHANGED <<itemCount, nodeVars, itemVars>>

\* Rows deleted, here or by a cascade.
Without(f, gone) == [x \in DOMAIN f |-> IF x \in gone THEN Null ELSE f[x]]

DropNodes(gone) ==
  /\ nodeCollection' = Without(nodeCollection, gone)
  /\ isWishlist' = isWishlist \ gone
  /\ sources' = [n \in Nodes |-> IF n \in gone THEN {} ELSE sources[n]]

DropItems(gone) ==
  /\ itemCollection' = Without(itemCollection, gone)
  /\ itemNode' = Without(itemNode, gone)
  /\ volume' = Without(volume, gone)

\* remove, and users.deleteMe for each collection.
RemoveCollection(c) ==
  /\ c \in collections
  /\ collections' = collections \ {c}
  /\ itemCount' = [itemCount EXCEPT ![c] = 0]
  /\ DropNodes({n \in Nodes : nodeCollection[n] = c})
  /\ DropItems(ItemsOf(c))
  /\ UNCHANGED inflight

InsertNode(n, c, ref, wish) ==
  /\ nodeCollection' = [nodeCollection EXCEPT ![n] = c]
  /\ isWishlist' = IF wish THEN isWishlist \cup {n} ELSE isWishlist
  /\ sources' = [sources EXCEPT ![n] = IF ref = Null THEN {} ELSE {ref}]

(***************************************************************************)
(* Nodes                                                                   *)
(***************************************************************************)
\* A node of the collection that already has the source is used, and no other
\* is created for it.
NewSource(c, ref) == ref # Null => Matching(c, ref) = {}

\* create: for a source that is not new, nothing is written.
CheckCreateNode(r, c, ref, wish) ==
  /\ c \in collections \ Flat
  /\ NewSource(c, ref)
  /\ Check([id |-> r, op |-> "createNode", open |-> FALSE,
            collection |-> c, ref |-> ref, wish |-> wish])

OpenCreateNode(q) ==
  /\ q.op = "createNode"
  /\ Cardinality(NodeRows) < MaxNodes
  /\ Open(q, [q EXCEPT !.open = TRUE])

CommitCreateNode(q, n) ==
  /\ q.op = "createNode" /\ q.open
  /\ q.collection \in collections
  /\ NewNode(n)
  /\ InsertNode(n, q.collection, q.ref, q.wish)
  /\ Finish(q)
  /\ UNCHANGED <<collections, itemCount, itemVars>>

\* update: no transaction, each statement is its own.  The count is read,
\* then the node is deleted or updated.
CheckUpdateNode(r, n, wish) ==
  /\ n \in NodeRows
  /\ Check([id |-> r, op |-> "updateNode", node |-> n, wish |-> wish,
            purge |-> wish = FALSE /\ ItemsIn(n) = {}])

CommitUpdateNode(q) ==
  /\ q.op = "updateNode"
  /\ q.node \in NodeRows
  /\ IF q.purge THEN DropNodes({q.node}) /\ DropItems(ItemsIn(q.node))
     ELSE /\ isWishlist' = CASE q.wish = TRUE -> isWishlist \cup {q.node}
                             [] q.wish = FALSE -> isWishlist \ {q.node}
                             [] OTHER -> isWishlist
          /\ UNCHANGED <<nodeCollection, sources, itemVars>>
  /\ Finish(q)
  /\ UNCHANGED <<collections, itemCount>>

\* attachSource: the sources are read, the provider is awaited, and what was
\* read is written back with the new entry.
CheckAttachSource(r, n, ref) ==
  /\ n \in NodeRows
  /\ Check([id |-> r, op |-> "attachSource", node |-> n, refs |-> sources[n] \cup {ref}])

CommitAttachSource(q) ==
  /\ q.op = "attachSource"
  /\ q.node \in NodeRows
  /\ sources' = [sources EXCEPT ![q.node] = q.refs]
  /\ Finish(q)
  /\ UNCHANGED <<collections, itemCount, nodeCollection, isWishlist, itemVars>>

(***************************************************************************)
(* Items                                                                   *)
(***************************************************************************)
\* assertNodeOwned, or a node found by its source: one of this collection.
NodeOwnedAnywhere(n, c) == n \in NodeRows        \* mutant of NodeOwned
NodeOwned(n, c)         == n \in NodeRows /\ nodeCollection[n] = c

\* The unique key (userId, nodeId, volume): a Null in it compares with nothing.
VolumeTaken(n, v, own) ==
  v # Null /\ \E i \in Items \ own : itemNode[i] = n /\ volume[i] = v /\ n # Null

UsedItems == MapThenSumSet(LAMBDA c : itemCount[c], collections)

LimitOffByOne == UsedItems <= MaxItems           \* mutant of UnderItemLimit
UnderItemLimit == UsedItems < MaxItems

\* Collection.itemCount moves with the rows.
CountKept(c)    == UNCHANGED itemCount           \* mutant of the two below
CountOneMore(c) == itemCount' = [itemCount EXCEPT ![c] = @ + 1]
CountOneLess(c) == itemCount' = [itemCount EXCEPT ![c] = @ - 1]

\* create: in node n, in none, or in a new node for ref when no node matches.
CheckCreateItem(r, c, n, ref, v) ==
  /\ c \in collections
  /\ c \in Flat => n = Null /\ ref = Null /\ v = Null
  /\ n # Null => NodeOwned(n, c)
  /\ ref # Null => n = Null
  /\ NewSource(c, ref)
  /\ Check([id |-> r, op |-> "createItem", open |-> FALSE, collection |-> c,
            node |-> n, ref |-> ref, volume |-> v])

OpenCreateItem(q) ==
  /\ q.op = "createItem"
  /\ UnderItemLimit
  /\ Open(q, [q EXCEPT !.open = TRUE])

CommitCreateItem(q, i, n) ==
  /\ q.op = "createItem" /\ q.open
  /\ q.collection \in collections
  /\ NewItem(i)
  /\ \/ /\ q.ref = Null /\ n = q.node
        /\ n # Null => n \in NodeRows
        /\ ~VolumeTaken(n, q.volume, {})
        /\ UNCHANGED nodeVars
     \/ /\ q.ref # Null /\ n # Null /\ NewNode(n)
        /\ InsertNode(n, q.collection, q.ref, FALSE)
  /\ itemCollection' = [itemCollection EXCEPT ![i] = q.collection]
  /\ itemNode' = [itemNode EXCEPT ![i] = n]
  /\ volume' = [volume EXCEPT ![i] = q.volume]
  /\ CountOneMore(q.collection)
  /\ Finish(q)
  /\ UNCHANGED collections

\* purgeNodeIfEmpty, as the snapshot answers it: no item but the request's own
\* is left in n, and n is there and not wished for.
NeverPurge(n, own)  == FALSE                                     \* mutant
NodeIsEmpty(n, own) == n \in NodeRows /\ ItemsIn(n) \ own = {} /\ n \notin isWishlist

\* The items a deleted node takes along are those in it at that moment.
Cascade(drop) == UNION {ItemsIn(n) : n \in drop}

\* update: to and v are Same when the PATCH leaves them out.
CheckUpdateItem(r, i, to, v) ==
  /\ i \in ItemRows
  /\ itemCollection[i] \in Flat => to = Same /\ v = Same
  /\ to \in Nodes => NodeOwned(to, itemCollection[i])
  /\ Check([id |-> r, op |-> "updateItem", open |-> FALSE, item |-> i,
            node |-> itemNode[i], to |-> to, volume |-> v, purge |-> FALSE])

OpenUpdateItem(q) ==
  /\ q.op = "updateItem"
  /\ q.item \in ItemRows
  /\ Open(q, [q EXCEPT !.open = TRUE, !.purge = NodeIsEmpty(q.node, {q.item})])

\* The node left is purged when the row, as updated, is elsewhere.
CommitUpdateItem(q) ==
  LET i    == q.item
      n    == IF q.to = Same THEN itemNode[i] ELSE q.to
      v    == IF q.volume = Same THEN volume[i] ELSE q.volume
      drop == IF q.purge /\ q.node # n THEN {q.node} ELSE {}
      lost == Cascade(drop) \ {i}
  IN  /\ q.op = "updateItem" /\ q.open
      /\ i \in ItemRows
      /\ n # Null => n \in NodeRows
      /\ ~VolumeTaken(n, v, {i})
      /\ drop \subseteq NodeRows
      /\ DropNodes(drop)
      /\ itemCollection' = Without(itemCollection, lost)
      /\ itemNode' = Without([itemNode EXCEPT ![i] = n], lost)
      /\ volume' = Without([volume EXCEPT ![i] = v], lost)
      /\ Finish(q)
      /\ UNCHANGED <<collections, itemCount>>

\* remove: the item goes, its collection counts one less, and the node it was
\* read in is purged if that left it empty.
CheckRemoveItem(r, i) ==
  /\ i \in ItemRows
  /\ Check([id |-> r, op |-> "removeItem", open |-> FALSE, item |-> i,
            collection |-> itemCollection[i], node |-> itemNode[i], purge |-> FALSE])

OpenRemoveItem(q) ==
  /\ q.op = "removeItem"
  /\ q.item \in ItemRows
  /\ Open(q, [q EXCEPT !.open = TRUE, !.purge = NodeIsEmpty(q.node, {q.item})])

\* The delete of a row that is gone fails (Prisma's P2025) and undoes the rest.
ItemStillThere(q) == q.item \in ItemRows

CommitRemoveItem(q) ==
  LET drop == IF q.purge THEN {q.node} ELSE {}
  IN  /\ q.op = "removeItem" /\ q.open
      /\ ItemStillThere(q)
      /\ drop \subseteq NodeRows
      /\ DropNodes(drop)
      /\ DropItems({q.item} \cup Cascade(drop))
      /\ CountOneLess(q.collection)
      /\ Finish(q)
      /\ UNCHANGED collections

Next ==
  \/ \E r \in Requests : OpenCreateCollection(r)
  \/ \E q \in inflight, c \in Collections : CommitCreateCollection(q, c)
  \/ \E c \in Collections : RemoveCollection(c)
  \/ \E r \in Requests, c \in Collections, ref \in Refs \cup {Null}, wish \in BOOLEAN :
       CheckCreateNode(r, c, ref, wish)
  \/ \E q \in inflight : OpenCreateNode(q)
  \/ \E q \in inflight, n \in Nodes : CommitCreateNode(q, n)
  \/ \E r \in Requests, n \in Nodes, wish \in BOOLEAN \cup {Same} : CheckUpdateNode(r, n, wish)
  \/ \E q \in inflight : CommitUpdateNode(q)
  \/ \E r \in Requests, n \in Nodes, ref \in Refs : CheckAttachSource(r, n, ref)
  \/ \E q \in inflight : CommitAttachSource(q)
  \/ \E r \in Requests, c \in Collections, n \in Nodes \cup {Null},
        ref \in Refs \cup {Null}, v \in Volumes \cup {Null} : CheckCreateItem(r, c, n, ref, v)
  \/ \E q \in inflight : OpenCreateItem(q)
  \/ \E q \in inflight, i \in Items, n \in Nodes \cup {Null} : CommitCreateItem(q, i, n)
  \/ \E r \in Requests, i \in Items, to \in Nodes \cup {Null, Same},
        v \in Volumes \cup {Null, Same} : CheckUpdateItem(r, i, to, v)
  \/ \E q \in inflight : OpenUpdateItem(q)
  \/ \E q \in inflight : CommitUpdateItem(q)
  \/ \E r \in Requests, i \in Items : CheckRemoveItem(r, i)
  \/ \E q \in inflight : OpenRemoveItem(q)
  \/ \E q \in inflight : CommitRemoveItem(q)
  \/ \E q \in inflight : Rollback(q)

Spec == Init /\ [][Next]_vars
-----------------------------------------------------------------------------
(***************************************************************************)
(* Properties                                                              *)
(***************************************************************************)

\* Whatever interleaves, itemCount never falls below the items there are, so
\* the limit that sums it is never more generous than it says, and no removal
\* can bring it below zero (create and remove move the count with the row; a
\* purge that cascades only takes rows away).
ItemCountCoversItems ==
  \A c \in Collections : Cardinality(ItemsOf(c)) <= itemCount[c]

\* A volume is always in a series of its own collection, and no row or request
\* outlives its parent: moves, purges and deletions that overtake one another
\* leave no dangling or stray reference (assertNodeOwned, the foreign keys).
ItemsStayInTheirCollection ==
  /\ \A i \in ItemRows : itemNode[i] # Null =>
       /\ itemNode[i] \in NodeRows
       /\ nodeCollection[itemNode[i]] = itemCollection[i]
  /\ \A i \in Items \ ItemRows : itemNode[i] = Null /\ volume[i] = Null
  /\ \A i \in ItemRows : itemCollection[i] \in collections
  /\ \A n \in NodeRows : nodeCollection[n] \in collections \ Flat

\* The comment of the limits admits that concurrent creations may pass the
\* limit together; by how much is bounded by the requests in flight
\* (assertCanCreateItem reads the sum in the creating transaction).
LimitOvershootBounded == UsedItems < MaxItems + Cardinality(Requests)

\* itemCount is the number of items of the whole collection.
ItemCountExact ==
  \A c \in Collections : Cardinality(ItemsOf(c)) = itemCount[c]

\* A series wished for survives its last volume: it goes only with its
\* collection or when the user stops wishing for it.
Unwished(n) == \E q \in inflight \ inflight' : q.op = "updateNode" /\ q.node = n /\ q.wish = FALSE

WishlistSurvives ==
  [][\A n \in isWishlist :
       \/ n \in NodeRows' \/ Unwished(n) \/ nodeCollection[n] \notin collections']_vars

\* A series an item has just left (moved or removed) is empty only if wished for.
EmptiedSeriesGoes ==
  [][\A n \in NodeRows :
       (\E i \in ItemsIn(n) : i \notin ItemsIn(n)') /\ n \in NodeRows'
         => ItemsIn(n)' # {} \/ n \in isWishlist']_vars

\* A series goes with its last volume, and only then, unless it is wished for.
SeriesStayForAReason == WishlistSurvives /\ EmptiedSeriesGoes

(* What does not hold of the code with two requests, and is checked by no run. *)

\* No node is created for a source that a node of the collection already has
\* (nodes.service.ts:160 looks for it before the creating transaction).
NoSecondNodeForSource ==
  [][\A n \in NodeRows' \ NodeRows : \A ref \in sources'[n] :
       Matching(nodeCollection'[n], ref) = {}]_vars
=============================================================================
