------------------------------ MODULE MCBattle ------------------------------
(* A small instance of Battle for TLC: a weapon of each special. *)
EXTENDS Battle

Gun(rate, damage, ammo, count, special) ==
  [rate |-> rate, damage |-> damage, ammo |-> ammo, count |-> count, special |-> special]

Arsenal ==
  <<Gun(1, 1, 1, 1, "none"), Gun(2, 1, 1, 1, "pierce"), Gun(2, 2, 1, 1, "explode"), Gun(1, 1, 1, 2, "rail")>>
=============================================================================
