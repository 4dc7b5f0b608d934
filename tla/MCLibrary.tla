------------------------------ MODULE MCLibrary ------------------------------
(***************************************************************************)
(* Library on small instances for TLC.                                     *)
(***************************************************************************)
EXTENDS Library, TLC

\* Items, nodes and slots are interchangeable.
Symmetry == Permutations(Items) \cup Permutations(Nodes) \cup Permutations(Requests)
=============================================================================
