----------------------------- MODULE ShareGrants -----------------------------
(***************************************************************************)
(* What collection sharing promises, without the requests, the tables or   *)
(* the transactions that keep the promise.                                 *)
(*                                                                         *)
(* A share is an offer with a number of seats.  While it is open, a user   *)
(* takes a seat once; an ejected user is barred from that share for good;  *)
(* closing the offer takes every seat back and nobody sits down again.  A  *)
(* user who has left the service holds nothing.  Sharing.tla refines this  *)
(* module.                                                                 *)
(***************************************************************************)
EXTENDS Naturals

CONSTANTS
  Users,
  Shares,
  MaxSeats      \* the largest number of seats an offer may have

VARIABLES
  offer,        \* offer[s] : "none", "open" or "closed"
  seats,        \* seats[s] : seats still free while s is open, else 0
  holders,      \* holders[s] : who reads through s
  barred,       \* barred[s] : who was ejected from s
  departed      \* users who deleted their account

vars == <<offer, seats, holders, barred, departed>>

Init ==
  /\ offer    = [s \in Shares |-> "none"]
  /\ seats    = [s \in Shares |-> 0]
  /\ holders  = [s \in Shares |-> {}]
  /\ barred   = [s \in Shares |-> {}]
  /\ departed = {}

Issue(s, n) ==
  /\ offer[s] = "none"
  /\ offer' = [offer EXCEPT ![s] = "open"]
  /\ seats' = [seats EXCEPT ![s] = n]
  /\ UNCHANGED <<holders, barred, departed>>

Join(s, u) ==
  /\ offer[s] = "open"
  /\ seats[s] > 0
  /\ u \notin holders[s] \cup barred[s] \cup departed
  /\ seats'   = [seats EXCEPT ![s] = @ - 1]
  /\ holders' = [holders EXCEPT ![s] = @ \cup {u}]
  /\ UNCHANGED <<offer, barred, departed>>

Eject(s, u) ==
  /\ offer[s] = "open"
  /\ u \in holders[s]
  /\ holders' = [holders EXCEPT ![s] = @ \ {u}]
  /\ barred'  = [barred EXCEPT ![s] = @ \cup {u}]
  /\ UNCHANGED <<offer, seats, departed>>

Close(s) ==
  /\ offer[s] = "open"
  /\ offer'   = [offer EXCEPT ![s] = "closed"]
  /\ seats'   = [seats EXCEPT ![s] = 0]
  /\ holders' = [holders EXCEPT ![s] = {}]
  /\ barred'  = [barred EXCEPT ![s] = {}]
  /\ UNCHANGED departed

\* A departing user closes the offers S (its own) and leaves every other one.
Depart(u, S) ==
  /\ u \notin departed
  /\ \A s \in S : offer[s] = "open"
  /\ offer'    = [s \in Shares |-> IF s \in S THEN "closed" ELSE offer[s]]
  /\ seats'    = [s \in Shares |-> IF s \in S THEN 0 ELSE seats[s]]
  /\ holders'  = [s \in Shares |-> IF s \in S THEN {} ELSE holders[s] \ {u}]
  /\ barred'   = [s \in Shares |-> IF s \in S THEN {} ELSE barred[s] \ {u}]
  /\ departed' = departed \cup {u}

Next ==
  \/ \E s \in Shares, n \in 1..MaxSeats : Issue(s, n)
  \/ \E s \in Shares, u \in Users : Join(s, u) \/ Eject(s, u)
  \/ \E s \in Shares : Close(s)
  \/ \E u \in Users, S \in SUBSET Shares : Depart(u, S)

Spec == Init /\ [][Next]_vars
=============================================================================
