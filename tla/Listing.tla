------------------------------- MODULE Listing -------------------------------
(***************************************************************************)
(* Reading a collection page by page while it is written: paginate, the    *)
(* `list` of ItemsService and of NodesService, ShareFilterService, the     *)
(* unit reads that mirror them, and the PATCH of an item.                  *)
(*                                                                         *)
(* A page is three moments, and anyone may write between two of them: the  *)
(* guard resolves the statuses the requester may see (Request), the filter *)
(* turns them into ids (Scope), the page is read under those ids (Fetch).  *)
(* The next page is a new request, which carries only a cursor.            *)
(*                                                                         *)
(* One collection of a type with series.  The limits, the uniqueness of a  *)
(* volume and the snapshots of the transactions that write are in Library: *)
(* here a write is its effect when it is accepted.                         *)
(***************************************************************************)
EXTENDS Integers, FiniteSets

CONSTANTS
  Items, Nodes,   \* ids of volumes and of series (integers: uuids are ordered)
  Statuses,       \* ITEM_STATUSES
  Ratings,        \* values of another key of userData
  Patchers,       \* slots for PATCH requests in flight
  Limit,          \* rows of a page
  Stamps,         \* values of created_at
  Libraries,      \* tables a behaviour may start from
  MaxWrites,      \* bound on writes
  None,           \* no cursor, no series, no request
  Same            \* field absent from a PATCH

Ids == Items \cup Nodes
DEFAULT_ITEM_STATUS == "OWNED"
Stored == Statuses \cup {"none"}      \* "none": absent, null or unknown
UserData == [status : Stored, rating : Ratings]
Library == [rows : SUBSET Ids, stamp : [Ids -> Stamps], userData : [Items -> UserData],
            nodeOf : [Items -> Nodes \cup {None}], wished : SUBSET Nodes]

ASSUME IdsAssumption ==
  /\ Ids \subseteq Int /\ IsFiniteSet(Ids) /\ Items \cap Nodes = {}
  /\ None \notin Ids
\* A volume is in a series of its collection (foreign key), or in none.
ASSUME LibrariesAssumption ==
  \A l \in Libraries : \A i \in l.rows \cap Items : l.nodeOf[i] \in l.rows \cup {None}
ASSUME StatusesAssumption == {DEFAULT_ITEM_STATUS, "WISHLIST"} \subseteq Statuses
ASSUME SameAssumption == Same # None /\ Same \notin Nodes /\ Same \notin Stored /\ Same \notin Ratings
ASSUME BoundsAssumption ==
  Limit \in Nat \ {0} /\ MaxWrites \in Nat /\ Stamps \subseteq Nat /\ Libraries \subseteq Library

VARIABLES
  rows,       \* ids with a row
  fresh,      \* ids not given yet
  stamp,      \* created_at, which no write changes
  userData,   \* items.user_data
  nodeOf,     \* items.node_id
  wished,     \* nodes with is_wishlist
  exposed,    \* statuses the requester may see now: {} is no access
  patch,      \* PATCH requests between their read and their write
  reader,     \* the traversal: the request for a page and what it has read
  listed,     \* history: rows of the pages before the last
  shown,      \* rows of the last page
  lost,       \* history: a page was asked for from a row the filter no longer matched
  steady,     \* history: rows visible since the traversal began, each with the reason
  seen,       \* history: rows visible at some moment of the request, or younger than it
  writes
tables == <<rows, fresh, stamp, userData, nodeOf, wished>>
pages == <<reader, listed, shown, lost>>
vars == <<tables, exposed, patch, pages, steady, seen, writes>>

Where == [form : {"all", "except", "only"}, ids : SUBSET Ids, wish : BOOLEAN]
Everything == [form |-> "all", ids |-> {}, wish |-> FALSE]
Sent == [status : Stored \cup {Same}, rating : Ratings \cup {Same}, node : Nodes \cup {None, Same}]
Patch == [item : Items, sent : Sent, read : UserData, from : Nodes \cup {None}, alone : BOOLEAN]
ASSUME NoneAssumption == None \notin Patch
Kinds == {"items", "nodes"}
Reader == [pc : {"idle", "granted", "scoped", "between", "done"}, kind : Kinds,
           statuses : SUBSET Statuses, cursor : Ids \cup {None}, where : Where]
Reasons == {"item", "wish", "all"}

TypeOK ==
  /\ rows \subseteq Ids /\ fresh \subseteq Ids \ rows
  /\ stamp \in [Ids -> Stamps]
  /\ userData \in [Items -> UserData]
  /\ nodeOf \in [Items -> Nodes \cup {None}]
  /\ wished \subseteq Nodes
  /\ exposed \subseteq Statuses
  /\ patch \in [Patchers -> Patch \cup {None}]
  /\ reader \in Reader
  /\ listed \subseteq Ids /\ shown \subseteq Ids /\ lost \in BOOLEAN
  /\ steady \subseteq Ids \X Reasons /\ seen \subseteq Ids
  /\ writes \in 0..MaxWrites

Idle == [pc |-> "idle", kind |-> "items", statuses |-> {}, cursor |-> None, where |-> Everything]

Init ==
  /\ \E l \in Libraries :
       /\ rows = l.rows /\ fresh = Ids \ l.rows /\ stamp = l.stamp
       /\ userData = l.userData /\ nodeOf = l.nodeOf /\ wished = l.wished
  /\ exposed \in SUBSET Statuses
  /\ patch = [p \in Patchers |-> None]
  /\ reader = Idle
  /\ listed = {} /\ shown = {} /\ lost = FALSE
  /\ steady = {} /\ seen = {}
  /\ writes = 0

-----------------------------------------------------------------------------
(* What statuses show.                                                     *)

RowsOf(kind) == rows \cap (IF kind = "items" THEN Items ELSE Nodes)

\* resolveItemStatus, and its mirror in SQL.
EffectiveStatus(i) ==
  IF userData[i].status \in Statuses THEN userData[i].status ELSE DEFAULT_ITEM_STATUS

ItemsUnder(S) == {i \in RowsOf("items") : EffectiveStatus(i) \in S}
NodesUnder(S) == {nodeOf[i] : i \in ItemsUnder(S)} \ {None}

Swapped(S) ==                             \* mutant of ItemWhere
  IF DEFAULT_ITEM_STATUS \in S
  THEN [form |-> "except", ids |-> ItemsUnder(S), wish |-> FALSE]
  ELSE [form |-> "only", ids |-> ItemsUnder(S), wish |-> FALSE]

\* ShareFilterService.itemWhere: the hidden ids are excluded when the default
\* status is shown, the visible ones are listed otherwise.
ItemWhere(S) ==
  IF DEFAULT_ITEM_STATUS \in S
  THEN [form |-> "except", ids |-> RowsOf("items") \ ItemsUnder(S), wish |-> FALSE]
  ELSE [form |-> "only", ids |-> ItemsUnder(S), wish |-> FALSE]

VolumesOnly(S) == [form |-> "only", ids |-> NodesUnder(S), wish |-> FALSE]  \* mutant

\* ShareFilterService.nodeWhere: a series is there by its visible volumes, or
\* because it is wished for, which is read later, with the page.
NodeWhere(S) == [form |-> "only", ids |-> NodesUnder(S), wish |-> "WISHLIST" \in S]

\* A share of every status, and the owner, filter nothing.
WhereOf(kind, S) ==
  IF Statuses \subseteq S THEN Everything
  ELSE IF kind = "items" THEN ItemWhere(S) ELSE NodeWhere(S)

Matches(w, x) ==
  CASE w.form = "all"    -> TRUE
    [] w.form = "except" -> x \notin w.ids
    [] w.form = "only"   -> x \in w.ids \/ (w.wish /\ x \in wished)

\* ItemsService.visibleItem and NodesService.visibleNode, for one row.
VisibleItem(S, i) == i \in RowsOf("items") /\ EffectiveStatus(i) \in S
OwnedCount(S, n) == Cardinality({i \in ItemsUnder(S) : nodeOf[i] = n})
VisibleNode(S, n) ==
  /\ n \in RowsOf("nodes")
  /\ \/ Statuses \subseteq S
     \/ OwnedCount(S, n) > 0
     \/ "WISHLIST" \in S /\ n \in wished
Visible(kind, S) ==
  IF kind = "items" THEN {i \in Items : VisibleItem(S, i)} ELSE {n \in Nodes : VisibleNode(S, n)}

\* ShareFilterService.countItems: the item_count of the collection, which counts
\* every volume, is for its owner only.
CountItems(S) == Cardinality({x \in RowsOf("items") : Matches(WhereOf("items", S), x)})

\* The series counted by CollectionsService.findOne.
CountNodes(S) == Cardinality({x \in RowsOf("nodes") : Matches(WhereOf("nodes", S), x)})

-----------------------------------------------------------------------------
(* The writes of the owner, and the shares of the requester.               *)

Write == writes < MaxWrites /\ writes' = writes + 1
Born(x, s) ==
  /\ x \in fresh
  /\ rows' = rows \cup {x} /\ fresh' = fresh \ {x}
  /\ stamp' = [stamp EXCEPT ![x] = s]

\* An insert may commit after those of later stamps.
CreateItem(i, s, st, n) ==
  /\ Write
  /\ n # None => n \in rows
  /\ Born(i, s)
  /\ userData' = [userData EXCEPT ![i].status = st]
  /\ nodeOf' = [nodeOf EXCEPT ![i] = n]
  /\ UNCHANGED <<wished, exposed, patch, pages>>

CreateNode(n, s, w) ==
  /\ Write
  /\ Born(n, s)
  /\ wished' = IF w THEN wished \cup {n} ELSE wished \ {n}
  /\ UNCHANGED <<userData, nodeOf, exposed, patch, pages>>

\* purgeNodeIfEmpty: a series left without volume goes, unless wished for.
Purged(n, left) == IF left # {} \/ n \in wished THEN {} ELSE {n} \cap Nodes

RemoveItem(i) ==
  /\ Write
  /\ i \in rows
  /\ rows' = (rows \ {i}) \ Purged(nodeOf[i], {j \in RowsOf("items") \ {i} : nodeOf[j] = nodeOf[i]})
  /\ UNCHANGED <<fresh, stamp, userData, nodeOf, wished, exposed, patch, pages>>

\* NodesService.update: a series no longer wished for goes if it has no volume.
UpdateNode(n, w) ==
  /\ Write
  /\ n \in rows
  /\ IF ~w /\ \A i \in RowsOf("items") : nodeOf[i] # n
     THEN rows' = rows \ {n} /\ UNCHANGED wished
     ELSE /\ wished' = IF w THEN wished \cup {n} ELSE wished \ {n}
          /\ UNCHANGED rows
  /\ UNCHANGED <<fresh, stamp, userData, nodeOf, exposed, patch, pages>>

\* The requester joins another share, is ejected, the owner's premium lapses.
Regrant(S) ==
  /\ Write
  /\ S # exposed
  /\ exposed' = S
  /\ UNCHANGED <<tables, patch, pages>>

\* ItemsService.update: the row is read, merged with what was sent, and
\* written later; no lock is held in between.
BeginPatch(p, i, sent) ==
  /\ Write
  /\ patch[p] = None
  /\ i \in rows
  /\ patch' = [patch EXCEPT ![p] = [item |-> i, sent |-> sent, read |-> userData[i],
                                    from |-> nodeOf[i], alone |-> TRUE]]
  /\ UNCHANGED <<tables, exposed, pages>>

Replaced(old, sent) ==                                                 \* mutant of Merged
  [status |-> IF sent.status = Same THEN "none" ELSE sent.status,
   rating |-> IF sent.rating = Same THEN old.rating ELSE sent.rating]
Merged(old, sent) ==
  [status |-> IF sent.status = Same THEN old.status ELSE sent.status,
   rating |-> IF sent.rating = Same THEN old.rating ELSE sent.rating]

\* The merge is of what was read, not of what the row now holds.  A series
\* the item is no longer in is purged if that left it empty.
CommitPatch(p) ==
  LET q == patch[p]
      i == q.item
      n == IF q.sent.node = Same THEN nodeOf[i] ELSE q.sent.node
      left == {j \in RowsOf("items") \ {i} : nodeOf[j] = q.from}
  IN  /\ q # None
      /\ i \in rows
      /\ n # None => n \in rows
      /\ userData' = IF q.sent.status = Same /\ q.sent.rating = Same THEN userData
                     ELSE [userData EXCEPT ![i] = Merged(q.read, q.sent)]
      /\ nodeOf' = [nodeOf EXCEPT ![i] = n]
      /\ rows' = IF q.from = n THEN rows ELSE rows \ Purged(q.from, left)
      /\ patch' = [o \in Patchers |->
                     IF o = p THEN None
                     ELSE IF patch[o] # None /\ patch[o].item = i
                          THEN [patch[o] EXCEPT !.alone = FALSE] ELSE patch[o]]
      /\ UNCHANGED <<fresh, stamp, wished, exposed, pages, writes>>

\* The item or the series is gone: the write fails, and nothing changes.
FailPatch(p) ==
  /\ patch[p] # None
  /\ patch' = [patch EXCEPT ![p] = None]
  /\ UNCHANGED <<tables, exposed, pages, writes>>

Owner ==
  \/ \E i \in Items, s \in Stamps, st \in Stored, n \in Nodes \cup {None} : CreateItem(i, s, st, n)
  \/ \E n \in Nodes, s \in Stamps, w \in BOOLEAN : CreateNode(n, s, w)
  \/ \E i \in Items : RemoveItem(i)
  \/ \E n \in Nodes, w \in BOOLEAN : UpdateNode(n, w)
  \/ \E S \in SUBSET Statuses : Regrant(S)
  \/ \E p \in Patchers, i \in Items, sent \in Sent : BeginPatch(p, i, sent)
  \/ \E p \in Patchers : CommitPatch(p) \/ FailPatch(p)

-----------------------------------------------------------------------------
(* The traversal.                                                          *)

\* The guard of a page.  Without access it answers 404 or 402: nothing is read.
Request(kind) ==
  /\ reader.pc \in {"idle", "between"}
  /\ reader.pc = "between" => reader.kind = kind
  /\ exposed # {}
  /\ reader' = [reader EXCEPT !.pc = "granted", !.kind = kind, !.statuses = exposed]
  /\ listed' = listed \cup shown
  /\ shown' = {}
  /\ UNCHANGED <<tables, exposed, patch, lost, writes>>

Scope ==
  /\ reader.pc = "granted"
  /\ reader' = [reader EXCEPT !.pc = "scoped", !.where = WhereOf(reader.kind, reader.statuses)]
  /\ UNCHANGED <<tables, exposed, patch, listed, shown, lost, writes>>

\* orderBy created_at desc, id desc.
Before(x, y) == stamp[x] > stamp[y] \/ (stamp[x] = stamp[y] /\ x > y)
First(n, S) == {x \in S : Cardinality({y \in S : Before(y, x)}) < n}

NoSkip(matching) ==                           \* mutant of From
  IF reader.cursor = None THEN matching
  ELSE {x \in matching : reader.cursor \in rows /\ (x = reader.cursor \/ Before(reader.cursor, x))}

PastTies(matching) ==                         \* mutant of From
  IF reader.cursor = None THEN matching
  ELSE {x \in matching : reader.cursor \in rows /\ stamp[x] < stamp[reader.cursor]}

\* What Prisma reads from a cursor: the matching rows at or after the row of
\* that id, none if it is gone; `skip: 1` drops the first of them, which is the
\* cursor's only if it still matches.
From(matching) ==
  LET at == {x \in matching : x = reader.cursor \/ Before(reader.cursor, x)}
  IN  IF reader.cursor = None THEN matching
      ELSE IF reader.cursor \in rows THEN at \ First(1, at) ELSE {}

\* paginate: one row more than the page is asked for, and tells there is more.
Fetch ==
  LET matching == {x \in RowsOf(reader.kind) : Matches(reader.where, x)}
      found == From(matching)
      data == First(Limit, found)
      more == Cardinality(found) > Limit
  IN  /\ reader.pc = "scoped"
      /\ shown' = data
      /\ lost' = (lost \/ (reader.cursor # None /\ reader.cursor \notin matching))
      /\ reader' = [reader EXCEPT
                      !.pc = IF more THEN "between" ELSE "done",
                      !.cursor = IF more THEN CHOOSE x \in data : \A y \in data \ {x} : Before(y, x)
                                 ELSE None,
                      !.where = Everything, !.statuses = {}]
      /\ UNCHANGED <<tables, exposed, patch, listed, writes>>

\* The client has all the pages, gives up, or is refused the next one.
Leave ==
  /\ reader.pc # "idle"
  /\ reader' = Idle
  /\ listed' = {} /\ shown' = {} /\ lost' = FALSE
  /\ UNCHANGED <<tables, exposed, patch, writes>>

Read == (\E kind \in Kinds : Request(kind)) \/ Scope \/ Fetch \/ Leave

\* The histories, after each step.  A series may be there for several reasons,
\* each of which the filter reads at a moment of its own.
Standing(kind, S) ==
  {e \in RowsOf(kind) \X Reasons :
     CASE e[2] = "item" -> e[1] \in (IF kind = "items" THEN ItemsUnder(S) ELSE NodesUnder(S))
       [] e[2] = "wish" -> kind = "nodes" /\ "WISHLIST" \in S /\ e[1] \in wished
       [] e[2] = "all"  -> kind = "nodes" /\ Statuses \subseteq S}

\* What stands under the present exposure and under the request's.
StandingNow ==
  Standing(reader.kind, exposed)
    \cap (IF reader.pc \in {"granted", "scoped"} THEN Standing(reader.kind, reader.statuses)
          ELSE Standing(reader.kind, exposed))

Watch ==
  /\ steady' = IF reader'.pc = "idle" THEN {}
               ELSE (IF reader.pc = "idle" THEN Ids \X Reasons ELSE steady) \cap StandingNow'
  /\ seen' = CASE reader'.pc \in {"idle", "between", "done"} -> IF reader'.pc = "idle" THEN {} ELSE seen
               [] OTHER -> (IF reader.pc \in {"idle", "between"} THEN Ids \ rows' ELSE seen)
                             \cup Visible(reader.kind, reader.statuses)'

Next == (Owner \/ Read) /\ Watch
Spec == Init /\ [][Next]_vars

-----------------------------------------------------------------------------
(* Properties.                                                             *)

\* No row is on two pages of a traversal, whatever is written between the
\* pages (the order is total and the cursor is passed over).
NoRowTwice == listed \cap shown = {}

\* A traversal that came to its end listed every row that was visible from its
\* first request on, unless the row a page was asked from had by then been
\* removed or hidden from the requester.
SteadyRowsListed ==
  reader.pc = "done" /\ ~lost => \A e \in steady : e[1] \in listed \cup shown

\* A page shows no row that was there before its request and was at no moment
\* of the request visible to the requester.
OnlyVisibleShown == shown \subseteq seen

\* Under any share, the rows a list matches are those the unit read shows.
ListAgreesWithDetail ==
  exposed # {} =>
    \A kind \in Kinds :
      {x \in RowsOf(kind) : Matches(WhereOf(kind, exposed), x)} = Visible(kind, exposed)

\* The numbers the requester is told are those of what he can open: of the
\* volumes and of the series he is shown one by one; and each volume he is
\* shown is in a series he is shown, or in none.
CountsAreOfWhatIsShown ==
  exposed # {} =>
    LET items == Visible("items", exposed)
        nodes == Visible("nodes", exposed)
    IN  /\ CountItems(exposed) = Cardinality(items)
        /\ CountNodes(exposed) = Cardinality(nodes)
        /\ \A i \in items : nodeOf[i] \in nodes \cup {None}

\* Whatever its status and userData, a row is listed, counted and opened alike.
ViewsAgree == ListAgreesWithDetail /\ CountsAreOfWhatIsShown

\* A PATCH no other PATCH of the item overtook leaves the keys it does not name.
LonePatchKeepsOthers ==
  [][\A p \in Patchers : patch[p] # None /\ patch'[p] = None /\ patch[p].alone =>
       LET i == patch[p].item
           sent == patch[p].sent
       IN  /\ sent.status = Same => userData'[i].status = userData[i].status
           /\ sent.rating = Same => userData'[i].rating = userData[i].rating]_vars

(* What does not hold of the code, and is checked by no run.               *)

\* ItemUserDataSchema: "seules les clés envoyées sont mises à jour".
PatchKeepsOthers ==
  [][\A p \in Patchers : patch[p] # None /\ patch'[p] = None =>
       LET i == patch[p].item
           sent == patch[p].sent
       IN  /\ sent.status = Same => userData'[i].status = userData[i].status
           /\ sent.rating = Same => userData'[i].rating = userData[i].rating]_vars
=============================================================================
