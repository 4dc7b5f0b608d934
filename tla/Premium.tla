------------------------------- MODULE Premium -------------------------------
(***************************************************************************)
(* PremiumService.getStatus: who is premium, from the row of               *)
(* premium_grants and the row of subscriptions.  Dates are numbers of the  *)
(* clock; an absent row, and an expires_at without a date, are Null.       *)
(***************************************************************************)
EXTENDS Naturals

CONSTANT Null

ActiveSubStatuses == {"active", "grace_period", "cancelled"}

\* A date of 0 is falsy, as Null is.
GrantActive(grant, now) ==
  /\ grant # Null
  /\ \/ grant.expiresAt \in {Null, 0}
     \/ grant.expiresAt > now

SubActive(sub, now) ==
  /\ sub # Null
  /\ sub.status \in ActiveSubStatuses
  /\ sub.expiresAt > now

IsPremium(grant, sub, now) == GrantActive(grant, now) \/ SubActive(sub, now)
=============================================================================
