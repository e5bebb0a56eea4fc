-------------------------- MODULE OrganizationLife --------------------------
(***************************************************************************)
(* What the deletion of an organization promises everyone else: it ends    *)
(* work before it begins, lets nothing in afterwards, and does not finish  *)
(* before everything the organization had outside the database is gone.    *)
(* Nobody sees the request, its ledger, its claims or who does the work.   *)
(*                                                                         *)
(* OrganizationDeletion implements it.                                     *)
(***************************************************************************)
CONSTANTS Runs, Things

VARIABLES
  organization, \* "active", "disabled" or "gone"
  work,         \* runs that are at work
  kept          \* objects and jobs of the organization that were put there in time

life == <<organization, work, kept>>

Init == organization = "active" /\ work = {} /\ kept = {}

StartRun(r) ==
  /\ organization = "active"
  /\ work' = work \cup {r}
  /\ UNCHANGED <<organization, kept>>

EndRun(r) ==
  /\ work' = work \ {r}
  /\ UNCHANGED <<organization, kept>>

Keep(k) ==
  /\ organization = "active"
  /\ kept' = kept \cup {k}
  /\ UNCHANGED <<organization, work>>

LetGo(k) ==
  /\ kept' = kept \ {k}
  /\ UNCHANGED <<organization, work>>

Disable ==
  /\ organization = "active" /\ work = {}
  /\ organization' = "disabled"
  /\ UNCHANGED <<work, kept>>

Delete ==
  /\ organization = "disabled" /\ kept = {}
  /\ organization' = "gone"
  /\ UNCHANGED <<work, kept>>

Next ==
  \/ \E r \in Runs : StartRun(r) \/ EndRun(r)
  \/ \E k \in Things : Keep(k) \/ LetGo(k)
  \/ Disable \/ Delete

Spec == Init /\ [][Next]_life

=============================================================================
