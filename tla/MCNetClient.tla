---------------------------- MODULE MCNetClient ----------------------------
(* Small instances of NetClient for TLC. *)
EXTENDS NetClient

CONSTANTS p1, p2

TwoPeers == {p1, p2}
=============================================================================
