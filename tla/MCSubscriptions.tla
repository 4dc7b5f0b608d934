--------------------------- MODULE MCSubscriptions ---------------------------
(***************************************************************************)
(* Subscriptions on small instances for TLC.                               *)
(***************************************************************************)
EXTENDS Subscriptions, TLC

\* Accounts, tokens and slots are interchangeable.
Symmetry == Permutations(Users) \cup Permutations(Tokens) \cup Permutations(Requests)
=============================================================================
