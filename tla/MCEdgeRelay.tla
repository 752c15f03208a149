---------------------------- MODULE MCEdgeRelay ----------------------------
(* A small instance of EdgeRelay for TLC.  No symmetry: the run has liveness. *)
EXTENDS EdgeRelay

CONSTANTS c1, c2, s1, s2

Clients  == {c1, c2}
SessionObjects == {s1, s2}
=============================================================================
