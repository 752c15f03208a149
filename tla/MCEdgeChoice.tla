---------------------------- MODULE MCEdgeChoice ----------------------------
(* Small instances of EdgeChoice for TLC. *)
EXTENDS EdgeChoice

CONSTANTS relay, direct

TwoEdges  == {relay, direct}
OneRelay  == {relay}
Dummy     == <<relay, direct>>
Lists     == {<<>>, <<direct, relay>>, <<direct, direct>>}
Others    == {"PREDICTION", "text"}
Nobody    == {}
FastSlow  == {1, 2}
=============================================================================
