---------------------- MODULE MCOrganizationDeletion ----------------------
(* Small instances of OrganizationDeletion for TLC. *)
EXTENDS OrganizationDeletion, TLC

CONSTANTS a1, h1, h2, r1, o1, d1, d2

\* Handlers are alike, and so are reconcilers.
ActorSymmetry == Permutations(Handlers) \cup Permutations(Reconcilers)

=============================================================================
