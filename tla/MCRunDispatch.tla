--------------------------- MODULE MCRunDispatch ---------------------------
(* Small instances of RunDispatch for TLC. *)
EXTENDS RunDispatch, TLC

CONSTANTS r1, r2, acme, d1, d2, w1, w2

\* Every run belongs to one organization.
OneOrg == [r \in Runs |-> acme]

\* Dispatchers are alike, and so are workers and runs.
ProcessSymmetry == Permutations(Dispatchers) \cup Permutations(Workers)
Symmetry == ProcessSymmetry \cup Permutations(Runs)

=============================================================================
