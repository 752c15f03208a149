------------------------------ MODULE MCArena ------------------------------
(* Small instances of Arena for TLC. *)
EXTENDS Arena

CONSTANTS p1, p2

TwoPlayers   == {p1, p2}
OneCrate     == {0}
Plain        == {"none"}
PlainAndRail == {"none", "rail"}
NoSpecial    == {}
NoCrate      == {}
Symmetry     == Permutations(Player)
=============================================================================
