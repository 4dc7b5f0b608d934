------------------------------ MODULE MCSharing ------------------------------
(***************************************************************************)
(* Sharing and SharedReading on small instances for TLC.                   *)
(***************************************************************************)
EXTENDS SharedReading, TLC

\* Accounts are interchangeable, and so are shares, slots and statuses.
Symmetry == Permutations(Users) \cup Permutations(Shares)
            \cup Permutations(Requests) \cup Permutations(Statuses)
            \cup Permutations(Collections)

\* A share of two seats is looked at alone: shares do not count each other's
\* seats. With one seat each, two shares expose one collection to one reader.
SeatsApart == (\E s \in Shares : maxUses[s] > 1) => \A s, t \in issued : s = t
=============================================================================
