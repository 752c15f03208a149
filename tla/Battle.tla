------------------------------- MODULE Battle -------------------------------
(***************************************************************************)
(* The fight of one player of arena_game.py with the enemies its process   *)
(* runs for itself: weapons and ammunition, the shots, and what the        *)
(* bullets do to the enemies, up to the victory.                           *)
(*                                                                         *)
(* Arena leaves this to choice; here it is the network that is a choice.   *)
(* Positions are left out: which enemies a bullet meets, and which its     *)
(* explosion reaches, are choices at each meeting.  So are the bullets     *)
(* that end in a wall or of age, and the moment the player is killed.      *)
(***************************************************************************)
EXTENDS Integers, Sequences, FiniteSets

CONSTANTS
  Weapon,             \* WEAPONS: [rate, damage, ammo, count, special], at their slots
  Enemies,            \* how many enemies spawn_enemies found room for
  MaxHp,              \* Enemy.MAX_HP
  Crates,             \* how many weapon crates there are
  MaxDt,              \* bound on the time a frame takes, in the unit of the rates
  MaxBullets          \* bound on the bullets flying

Enemy == 1..Enemies

ASSUME BattleAssumption ==
  /\ Enemies \in Nat /\ MaxHp \in Nat \ {0} /\ Crates \in Nat /\ MaxDt \in Nat /\ MaxBullets \in Nat
  /\ 1 \in DOMAIN Weapon
  /\ \A w \in DOMAIN Weapon :
       Weapon[w] \in [rate : Nat, damage : Nat, ammo : Nat, count : Nat,
                     special : {"none", "pierce", "explode", "rail"}]

VARIABLES
  stage,              \* where the main loop is: "events" or "meet"
  weapons, cur,       \* the weapons carried, with their ammunition; the one in hand
  fireCd,             \* fire_cd
  crates,             \* crates still there
  hp,                 \* of each enemy; it is alive above 0
  kills,
  bullets,            \* the local bullets: [weapon, pierced, alive]
  at,                 \* the bullet and the enemy the loops are at
  dead, over, victory,\* not player.alive, game_over, victory
  rest                \* history: the time since the last shot, and what it must be

hand   == <<weapons, cur, fireCd, crates>>
outcome == <<dead, over, victory>>
vars   == <<stage, hand, hp, kills, bullets, at, outcome, rest>>

Full(w) == [weapon |-> w, ammo |-> Weapon[w].ammo]

Init ==
  /\ stage = "events" /\ weapons = <<Full(1)>> /\ cur = 1 /\ fireCd = 0 /\ crates = Crates
  /\ hp = [e \in Enemy |-> MaxHp] /\ kills = 0 /\ bullets = <<>> /\ at = <<1, 1>>
  /\ dead = FALSE /\ over = FALSE /\ victory = FALSE /\ rest = [since |-> 0, due |-> 0]
-----------------------------------------------------------------------------
(* The player's hands *)

FaultyIndex(w) == {}
\* Where the weapon is carried.
Index(w) == {i \in DOMAIN weapons : weapons[i].weapon = w}

Reload ==
  /\ stage = "events" /\ ~over
  /\ weapons' = [weapons EXCEPT ![cur] = Full(@.weapon)]
  /\ UNCHANGED <<stage, cur, fireCd, crates, hp, kills, bullets, at, outcome, rest>>

\* The crate's weapon is refilled if it is carried already, and taken in hand.
PickUp(w) ==
  /\ stage = "events" /\ ~over /\ crates > 0 /\ crates' = crates - 1
  /\ \/ \E i \in Index(w) : weapons' = [weapons EXCEPT ![i] = Full(w)] /\ cur' = i
     \/ Index(w) = {} /\ weapons' = Append(weapons, Full(w)) /\ cur' = Len(weapons) + 1
  /\ UNCHANGED <<stage, fireCd, hp, kills, bullets, at, outcome, rest>>

FaultyKeptCd == 0
\* Another weapon is not ready earlier than the one just fired.
KeptCd == fireCd

SwitchWeapon(slot) ==
  /\ stage = "events" /\ ~over /\ cur' \in Index(slot) /\ fireCd' = KeptCd
  /\ UNCHANGED <<stage, weapons, crates, hp, kills, bullets, at, outcome, rest>>
-----------------------------------------------------------------------------
(* The first half of a frame: time passes, the player may fire, bullets fly *)

Cooled(dt) == IF dt < fireCd THEN fireCd - dt ELSE 0

Ready(dt) == Cooled(dt) = 0 /\ weapons[cur].ammo > 0

Shot(w) == [i \in 1..Weapon[w].count |-> [weapon |-> w, pierced |-> 0, alive |-> TRUE]]

\* The bullets of a list that are alive and not in the set, in their order: the k-th
\* of them is the one up to which there are k.
Left(flying, ended) ==
  LET kept == {i \in DOMAIN flying : flying[i].alive /\ i \notin ended} IN
  [k \in 1..Cardinality(kept) |->
     flying[CHOOSE i \in kept : Cardinality({j \in kept : j <= i}) = k]]

Elapsed(dt) == IF rest.since + dt < rest.due THEN rest.since + dt ELSE rest.due

Update(dt, trigger, ended, killed) ==
  LET w == weapons[cur].weapon  fires == trigger /\ Ready(dt)
      flying == IF fires THEN bullets \o Shot(w) ELSE bullets IN
  /\ stage = "events" /\ ~over /\ stage' = "meet" /\ at' = <<1, 1>>
  /\ Len(flying) <= MaxBullets /\ ended \subseteq DOMAIN flying
  /\ bullets' = Left(flying, ended)
  /\ weapons' = IF fires THEN [weapons EXCEPT ![cur].ammo = @ - 1] ELSE weapons
  /\ fireCd' = IF fires THEN Weapon[w].rate ELSE Cooled(dt)
  /\ rest' = IF fires THEN [since |-> 0, due |-> Weapon[w].rate]
                      ELSE [rest EXCEPT !.since = Elapsed(dt)]
  /\ dead' = (dead \/ killed) /\ over' = (over \/ killed)
  /\ UNCHANGED <<cur, crates, hp, kills, victory>>
-----------------------------------------------------------------------------
(* The meeting of bullets and enemies, bullet by bullet, enemy by enemy *)

Meeting    == stage = "meet" /\ at[1] \in DOMAIN bullets /\ at[2] \in Enemy
Bullet     == bullets[at[1]]
NextEnemy  == IF at[2] < Enemies THEN <<at[1], at[2] + 1>> ELSE <<at[1] + 1, 1>>
NextBullet == <<at[1] + 1, 1>>
Living     == {e \in Enemy : hp[e] > 0}

\* The two do not meet, or the enemy is dead.
Miss ==
  /\ Meeting /\ at' = NextEnemy
  /\ UNCHANGED <<stage, hand, hp, kills, bullets, outcome, rest>>

\* take_hit, which an enemy is dead after without health, and the count of those.
Hurt(struck, damage)   == [e \in Enemy |-> IF e \in struck THEN hp[e] - damage ELSE hp[e]]
Killed(struck, damage) == Cardinality({e \in struck : hp[e] - damage <= 0})

\* A bullet of weapon w meets an enemy who is alive.
Meets(w, special) ==
  Meeting /\ at[2] \in Living /\ Bullet.weapon = w /\ Weapon[w].special = special

\* It hits the enemy; what becomes of it, and whom it meets next.
Strike(w, special, now, next) ==
  LET damage == Weapon[w].damage IN
  /\ Meets(w, special)
  /\ hp' = Hurt({at[2]}, damage) /\ kills' = kills + Killed({at[2]}, damage)
  /\ bullets' = [bullets EXCEPT ![at[1]] = now] /\ at' = next
  /\ UNCHANGED <<stage, hand, outcome, rest>>

\* Of the other specials, "flame" has no effect of its own here.
Spend(w)     == Strike(w, "none", [Bullet EXCEPT !.alive = FALSE], NextBullet)
GoThrough(w) == Strike(w, "rail", Bullet, NextEnemy)

\* It goes on to the next enemy, also when this was its third.
Pierce(w) ==
  Strike(w, "pierce",
         [Bullet EXCEPT !.pierced = @ + 1, !.alive = @ /\ Bullet.pierced + 1 < 3], NextEnemy)

FaultyReached(blast) == blast \ {at[2]}
\* Whom else the explosion hurts: those around who are alive, not the enemy itself.
Reached(blast) == (blast \cap Living) \ {at[2]}

Explode(w, blast) ==
  LET damage == Weapon[w].damage IN
  /\ Meets(w, "explode")
  /\ hp' = [Hurt(Reached(blast), damage \div 2) EXCEPT ![at[2]] = hp[at[2]] - damage]
  /\ kills' = kills + Killed(Reached(blast), damage \div 2) + Killed({at[2]}, damage)
  /\ bullets' = [bullets EXCEPT ![at[1]].alive = FALSE] /\ at' = NextBullet
  /\ UNCHANGED <<stage, hand, outcome, rest>>
-----------------------------------------------------------------------------
FaultyWon == kills > Enemies /\ Enemies > 0
Won       == kills >= Enemies /\ Enemies > 0

\* The rest of the frame: bullets that met other players, the victory, and what
\* the network brings: hits, and crates that others took.
EndFrame(met, killed) ==
  /\ stage = "meet" /\ ~Meeting /\ stage' = "events"
  /\ met \subseteq DOMAIN bullets /\ bullets' = Left(bullets, met) /\ at' = <<1, 1>>
  /\ victory' = (victory \/ Won) /\ dead' = (dead \/ killed) /\ over' = (over \/ Won \/ killed)
  /\ crates' \in 0..crates /\ UNCHANGED <<weapons, cur, fireCd, hp, kills, rest>>

\* R after the game is over: main() once more.
Restart ==
  /\ stage = "events" /\ over /\ UNCHANGED <<stage, at>>
  /\ weapons' = <<Full(1)>> /\ cur' = 1 /\ fireCd' = 0 /\ crates' = Crates
  /\ hp' = [e \in Enemy |-> MaxHp] /\ kills' = 0 /\ bullets' = <<>>
  /\ dead' = FALSE /\ over' = FALSE /\ victory' = FALSE /\ rest' = [since |-> 0, due |-> 0]
-----------------------------------------------------------------------------
Updates ==
  \E dt \in 0..MaxDt, trigger \in BOOLEAN, ended \in SUBSET (1..MaxBullets), killed \in BOOLEAN :
    Update(dt, trigger, ended, killed)

Next ==
  \/ Reload \/ (\E w \in DOMAIN Weapon \ {1} : PickUp(w)) \/ (\E slot \in DOMAIN Weapon : SwitchWeapon(slot))
  \/ Updates \/ Miss
  \/ \E w \in DOMAIN Weapon :
       Spend(w) \/ GoThrough(w) \/ Pierce(w) \/ \E blast \in SUBSET Enemy : Explode(w, blast)
  \/ (\E met \in SUBSET DOMAIN bullets, killed \in BOOLEAN : EndFrame(met, killed))
  \/ Restart

Spec == Init /\ [][Next]_vars
-----------------------------------------------------------------------------
(* Properties *)

\* Every variable has its type: the hand holds a weapon, none is carried twice,
\* and none has more ammunition than it takes.
TypeOK ==
  /\ stage \in {"events", "meet"}
  /\ weapons \in Seq([weapon : DOMAIN Weapon, ammo : Nat]) /\ cur \in DOMAIN weapons
  /\ \A i, j \in DOMAIN weapons : weapons[i].weapon = weapons[j].weapon => i = j
  /\ \A i \in DOMAIN weapons : weapons[i].ammo <= Weapon[weapons[i].weapon].ammo
  /\ fireCd \in Nat /\ crates \in 0..Crates /\ hp \in [Enemy -> Int] /\ kills \in Nat
  /\ bullets \in Seq([weapon : DOMAIN Weapon, pierced : Nat, alive : BOOLEAN])
  /\ at \in (Nat \ {0}) \X (Nat \ {0})
  /\ dead \in BOOLEAN /\ over \in BOOLEAN /\ victory \in BOOLEAN
  /\ rest \in [since : Nat, due : Nat]

\* kills counts every enemy that died, and counts it once, however it died: by a
\* bullet, by one that goes on, by an explosion that kills several, after another
\* bullet of the same frame has hit it.
KillsAreDeaths == kills = Cardinality({e \in Enemy : hp[e] <= 0})

\* Between two frames, the game is over if and only if the player is dead or there
\* were enemies and none lives; and that last is the victory.
OverWhenDecided ==
  stage = "events" =>
    /\ victory <=> (Enemies > 0 /\ Living = {})
    /\ over <=> (dead \/ victory)

\* Whatever the player did since his last shot, with the weapons, the crates and
\* the reload key, he is not ready before the time of the weapon he fired.
CooldownHolds == fireCd >= rest.due - rest.since
=============================================================================
