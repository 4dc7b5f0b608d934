------------------------------ MODULE MCListing ------------------------------
(***************************************************************************)
(* Listing on a small instance for TLC.                                    *)
(***************************************************************************)
EXTENDS Listing, TLC

\* Volumes 1 and 2 have one stamp, 3 is not there yet; series 11 and 12.
Table(r, s, n, w) ==
  [rows |-> r, stamp |-> [x \in Ids |-> IF x \in {1, 2} THEN 1 ELSE 0],
   userData |-> [i \in Items |-> [status |-> IF i \in {1, 2} THEN s[i] ELSE "none", rating |-> "low"]],
   nodeOf |-> [i \in Items |-> IF i \in {1, 2} THEN n[i] ELSE None], wished |-> w]

MCLibraries ==
  {Table({1, 2}, s, <<None, None>>, {}) : s \in Stored \X Stored}
  \cup {Table({1, 2, 11, 12}, s, <<11, 12>>, {}) : s \in {<<"OWNED", "WISHLIST">>, <<"WISHLIST", "OWNED">>}}
  \cup {Table({1, 11}, <<"OWNED", "none">>, <<11, None>>, {11})}

Symmetry == Permutations(Patchers)

\* A PATCH sends one key, and while a page is read only what may show or hide
\* a row; series are listed where there are some, volumes where there are none.
Keys(sent) == {k \in {"status", "rating", "node"} : sent[k] # Same}
Small ==
  /\ \A p \in Patchers : patch[p] # None => Cardinality(Keys(patch[p].sent)) = 1
  /\ reader.pc # "idle" =>
       /\ (reader.kind = "nodes") = (11 \notin fresh)
       /\ Cardinality({p \in Patchers : patch[p] # None}) <= 1
       /\ \A p \in Patchers : patch[p] # None => patch[p].sent.rating = Same
=============================================================================
