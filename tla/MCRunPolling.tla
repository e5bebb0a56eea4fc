---------------------------- MODULE MCRunPolling ----------------------------
(* RunPolling for TLC: two views, a poller and its successor. *)
EXTENDS RunPolling

CONSTANTS v1, v2, p1, p2

=============================================================================
