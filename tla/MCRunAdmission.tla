--------------------------- MODULE MCRunAdmission ---------------------------
(* RunAdmission for TLC: two keys in two projects of one organization. *)
EXTENDS RunAdmission, TLC

CONSTANTS k1, k2, p1, p2, h1, h2, c1

TwoProjects == (k1 :> p1) @@ (k2 :> p2)

=============================================================================
