---------------------------- MODULE MCTokenSources ----------------------------
(***************************************************************************)
(* TokenSources on a small instance for TLC.                               *)
(***************************************************************************)
EXTENDS TokenSources, TLC, Folds

Symmetry ==
  Permutations(Subjects) \cup Permutations(Users) \cup Permutations(Logins)
    \cup Permutations(Flows) \cup Permutations(Callbacks) \cup Permutations(Fetchers)

\* Logins race before any flow, flows before the source is asked, and JWTs
\* expire before either.  While the source is asked, what is left of the flows
\* is one flow at most, whose callback has its token.
Flowing == \E f \in Flows : starter[f] # None
Asking == premium # {} \/ release # [k \in Keys |-> 0] \/ \E f \in Fetchers : fetch[f] # None
InFlight == {c \in Callbacks : callback[c] # None}
Approved == MapThenFoldSet(+, 0, LAMBDA f : approvals[f], LAMBDA S : CHOOSE f \in S : TRUE, Flows)
Phases ==
  /\ (Flowing \/ Asking) => sessions = given /\ \A l \in Logins : login[l] = None
  /\ Approved <= 2
  /\ Asking => /\ Cardinality(InFlight) <= 1
               /\ \A c \in InFlight : callback[c].pc = "exchanged"
               /\ Cardinality({f \in Flows : starter[f] # None}) <= 1
               /\ \A f \in Flows : pending[f] # None => \E c \in InFlight : callback[c].flow = f
               /\ Cardinality(premium) + Cardinality(withdrawn) <= 1
               /\ \A f \in Flows : codes[f] = 0
=============================================================================
