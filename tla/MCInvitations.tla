---------------------------- MODULE MCInvitations ----------------------------
(***************************************************************************)
(* Invitations on small instances for TLC.                                 *)
(***************************************************************************)
EXTENDS Invitations, TLC

\* Accounts, codes and slots are interchangeable.
Symmetry == Permutations(Users) \cup Permutations(Codes) \cup Permutations(Requests)
=============================================================================
