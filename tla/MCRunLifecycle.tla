--------------------------- MODULE MCRunLifecycle ---------------------------
(* Small instances of RunLifecycle for TLC. *)
EXTENDS RunLifecycle

CONSTANTS r1, acme

\* Every run belongs to one organization.
OneOrg == [r \in Runs |-> acme]

=============================================================================
