---------------------------- MODULE BattleProofs ----------------------------
(***************************************************************************)
(* What holds of a player's fight with the enemies for any weapons and any *)
(* number of enemies: every death is counted once, the game ends when it   *)
(* is decided, and no handling of weapons shortens the time between shots. *)
(***************************************************************************)
EXTENDS Battle, OrderLemmas, FiniteSetTheorems, SequenceTheorems, TLAPS

Dead == {e \in Enemy : hp[e] <= 0}

\* The enemies and the count of those that died.
Counted ==
  /\ hp \in [Enemy -> Int] /\ kills \in Nat
  /\ KillsAreDeaths

\* A frame begins when nothing is decided, but for the player's death in it.
Decided ==
  /\ stage \in {"events", "meet"} /\ dead \in BOOLEAN /\ over \in BOOLEAN /\ victory \in BOOLEAN
  /\ stage = "meet" => ~victory /\ over = dead
  /\ OverWhenDecided
-----------------------------------------------------------------------------
\* The assumption on the constants, as the steps below need it.
LEMMA Constants ==
  /\ Enemies \in Nat /\ MaxHp \in Nat /\ MaxHp > 0 /\ MaxDt \in Nat
  /\ \A w \in DOMAIN Weapon : Weapon[w].rate \in Nat /\ Weapon[w].damage \in Nat /\ Weapon[w].ammo \in Nat
<1>1. Enemies \in Nat /\ MaxHp \in Nat /\ MaxHp > 0 /\ MaxDt \in Nat
  BY BattleAssumption
<1>2. ASSUME NEW w \in DOMAIN Weapon PROVE Weapon[w].rate \in Nat /\ Weapon[w].damage \in Nat /\ Weapon[w].ammo \in Nat
  BY BattleAssumption
<1> QED
  BY <1>1, <1>2

\* Sets of enemies are finite, and all of them are as many as there are enemies.
LEMMA EnemiesAreFinite ==
  /\ \A S \in SUBSET Enemy : IsFiniteSet(S) /\ Cardinality(S) \in 0..Enemies
  /\ \A S \in SUBSET Enemy : Cardinality(S) = Enemies <=> S = Enemy
<1>1. IsFiniteSet(Enemy) /\ Cardinality(Enemy) = Enemies
  BY FS_Interval, Constants DEF Enemy
<1>2. ASSUME NEW S \in SUBSET Enemy
      PROVE  /\ IsFiniteSet(S) /\ Cardinality(S) \in 0..Enemies
             /\ Cardinality(S) = Enemies <=> S = Enemy
  BY <1>1, FS_Subset, FS_CardinalityType, Constants
<1> QED
  BY <1>2

\* When the enemies that were struck dead are counted, kills is right again.
LEMMA CountIsRight ==
  ASSUME Counted, NEW K \in SUBSET Living, hp' \in [Enemy -> Int],
         Dead' = Dead \cup K, kills' = kills + Cardinality(K)
  PROVE  Counted'
<1>1. Dead \in SUBSET Enemy /\ K \in SUBSET Enemy /\ Dead \cap K = {}
  BY DEF Dead, Living, Counted
<1>2. /\ IsFiniteSet(Dead) /\ IsFiniteSet(K)
      /\ Cardinality(Dead) \in Nat /\ Cardinality(K) \in Nat
  BY <1>1, EnemiesAreFinite
<1>3. Cardinality(Dead \cup K) = Cardinality(Dead) + Cardinality(K)
  BY <1>1, <1>2, FS_Union, FS_EmptySet
<1> QED
  BY <1>2, <1>3 DEF Counted, KillsAreDeaths, Dead

\* A bullet that hits one enemy keeps the count right.
LEMMA StrikeCounts ==
  ASSUME Counted, NEW w \in DOMAIN Weapon, NEW special, NEW now, NEW next, Strike(w, special, now, next)
  PROVE  Counted'
<1> DEFINE damage == Weapon[w].damage
           K == {e \in {at[2]} : hp[e] - damage <= 0}
<1>1. damage \in Nat /\ at[2] \in Living /\ at[2] \in Enemy
  BY Constants DEF Strike, Meets, Living
<1>2. hp' = Hurt({at[2]}, damage) /\ kills' = kills + Cardinality(K)
  BY DEF Strike, Killed
<1>3. hp' \in [Enemy -> Int] /\ K \in SUBSET Living /\ Dead' = Dead \cup K
  BY <1>1, <1>2 DEF Hurt, Dead, Living, Counted
<1> QED
  BY <1>2, <1>3, CountIsRight

\* So does one that explodes and hits those around too.
LEMMA ExplosionCounts ==
  ASSUME Counted, NEW w \in DOMAIN Weapon, NEW blast \in SUBSET Enemy, Explode(w, blast)
  PROVE  Counted'
<1> DEFINE damage == Weapon[w].damage
           half   == damage \div 2
           K1 == {e \in Reached(blast) : hp[e] - half <= 0}
           K2 == {e \in {at[2]} : hp[e] - damage <= 0}
<1>1. /\ damage \in Nat /\ half \in Nat /\ at[2] \in Living /\ at[2] \in Enemy
      /\ Reached(blast) \in SUBSET Living /\ at[2] \notin Reached(blast)
  BY Constants DEF Explode, Meets, Living, Reached
<1>2. hp' = [Hurt(Reached(blast), half) EXCEPT ![at[2]] = hp[at[2]] - damage]
      /\ kills' = kills + Cardinality(K1) + Cardinality(K2)
  BY DEF Explode, Killed
<1> HIDE DEF damage, half
<1>3. hp' = [e \in Enemy |-> IF e = at[2] THEN hp[e] - damage
                             ELSE IF e \in Reached(blast) THEN hp[e] - half ELSE hp[e]]
  BY <1>1, <1>2 DEF Hurt
<1>4. hp' \in [Enemy -> Int] /\ K1 \cup K2 \in SUBSET Living /\ Dead' = Dead \cup (K1 \cup K2)
  BY <1>1, <1>3 DEF Dead, Living, Counted
<1>5. K1 \in SUBSET Enemy /\ K2 \in SUBSET Enemy /\ K1 \cap K2 = {}
  BY <1>1 DEF Living
<1> HIDE DEF K1, K2
<1>6. Cardinality(K1 \cup K2) = Cardinality(K1) + Cardinality(K2)
      /\ Cardinality(K1) \in Nat /\ Cardinality(K2) \in Nat
  <2>1. IsFiniteSet(K1) /\ IsFiniteSet(K2) /\ Cardinality(K1) \in Nat /\ Cardinality(K2) \in Nat
    BY <1>5, EnemiesAreFinite
  <2>2. Cardinality(K1 \cap K2) = 0
    BY <1>5, FS_EmptySet
  <2>3. Cardinality(K1 \cup K2) = Cardinality(K1) + Cardinality(K2) - Cardinality(K1 \cap K2)
    BY <2>1, FS_Union
  <2> QED
    BY <2>1, <2>2, <2>3
<1>7. kills' = kills + Cardinality(K1 \cup K2)
  BY <1>2, <1>6 DEF Counted
<1> QED
  BY <1>4, <1>7, CountIsRight

\* arena_game.py:961-978: kills counts each enemy that died, once.
THEOREM DeathsAreCounted == Spec => []Counted
<1>1. ASSUME hp = [e \in Enemy |-> MaxHp], kills = 0 PROVE Counted
  <2>1. Dead = {}
    BY <1>1, Constants DEF Dead
  <2> QED
    BY <1>1, <2>1, FS_EmptySet, Constants DEF Counted, KillsAreDeaths, Dead
<1>2. Init => Counted
  BY <1>1 DEF Init
<1>3. Counted /\ [Next]_vars => Counted'
  <2> SUFFICES ASSUME Counted, [Next]_vars PROVE Counted'
    OBVIOUS
  <2>1. CASE UNCHANGED <<hp, kills>>
    BY <2>1 DEF Counted, KillsAreDeaths
  <2>2. CASE Restart
    <3>1. Dead' = {}
      BY <2>2, Constants DEF Restart, Dead
    <3>2. hp' \in [Enemy -> Int] /\ kills' = 0
      BY <2>2, Constants DEF Restart
    <3> QED
      BY <3>1, <3>2, FS_EmptySet DEF Counted, KillsAreDeaths, Dead
  <2>3. ASSUME NEW w \in DOMAIN Weapon, NEW blast \in SUBSET Enemy,
               Spend(w) \/ GoThrough(w) \/ Pierce(w) \/ Explode(w, blast)
        PROVE  Counted'
    BY <2>3, StrikeCounts, ExplosionCounts DEF Spend, GoThrough, Pierce
  <2> QED
    BY <2>1, <2>2, <2>3
    DEF Next, vars, Reload, PickUp, SwitchWeapon, Updates, Update, Miss, EndFrame
<1> QED
  BY <1>2, <1>3, PTL DEF Spec

\* arena_game.py:974, 977: the number of kills is the number of enemies that died.
THEOREM KillsCorrect == Spec => []KillsAreDeaths
<1>1. Counted => KillsAreDeaths
  BY DEF Counted
<1> QED
  BY <1>1, DeathsAreCounted, PTL

\* A frame that begins undecided ends with the flags set as it was decided.
THEOREM DecidedCorrect == Spec => []Decided
<1>1. Init => Decided
  <2>1. Init /\ Enemies > 0 => 1 \in Living
    BY Constants DEF Init, Living, Enemy
  <2> QED
    BY <2>1, Constants DEF Init, Decided, OverWhenDecided
<1>2. Counted /\ Counted' /\ Decided /\ [Next]_vars => Decided'
  <2> SUFFICES ASSUME Counted, Counted', Decided, [Next]_vars PROVE Decided'
    OBVIOUS
  <2>1. ASSUME NEW met, NEW killed \in BOOLEAN, EndFrame(met, killed) PROVE Decided'
    <3>1. Won <=> Enemies > 0 /\ Living = {}
      <4>1. Dead = Enemy <=> Living = {}
        BY DEF Dead, Living, Counted
      <4>2. Dead \in SUBSET Enemy /\ kills = Cardinality(Dead)
        BY DEF Dead, Counted, KillsAreDeaths
      <4>3. Cardinality(Dead) \in 0..Enemies /\ (Cardinality(Dead) = Enemies <=> Dead = Enemy)
        BY <4>2, EnemiesAreFinite
      <4> QED
        BY <4>1, <4>2, <4>3, Constants DEF Won
    <3>2. victory' = Won /\ over' = (dead' \/ Won) /\ dead' \in BOOLEAN /\ stage' = "events" /\ hp' = hp
      BY <2>1 DEF EndFrame, Decided, Won
    <3> QED
      BY <3>1, <3>2 DEF Decided, OverWhenDecided, Living, Won
  <2>2. ASSUME NEW dt, NEW trigger, NEW ended, NEW killed \in BOOLEAN, Update(dt, trigger, ended, killed)
        PROVE  Decided'
    BY <2>2 DEF Update, Decided, OverWhenDecided
  <2>3. CASE Restart
    <3>1. Enemies > 0 => 1 \in Living'
      BY <2>3, Constants DEF Restart, Living, Enemy
    <3> QED
      BY <2>3, <3>1, Constants DEF Restart, Decided, OverWhenDecided
  <2>4. CASE stage = "meet" /\ UNCHANGED <<stage, outcome>>
    BY <2>4 DEF outcome, Decided, OverWhenDecided
  <2>5. CASE UNCHANGED <<stage, hp, outcome>>
    BY <2>5 DEF outcome, Decided, OverWhenDecided, Living
  <2>6. ASSUME NEW w \in DOMAIN Weapon, NEW blast \in SUBSET Enemy,
               Spend(w) \/ GoThrough(w) \/ Pierce(w) \/ Explode(w, blast)
        PROVE  Decided'
    BY <2>4, <2>6 DEF Spend, GoThrough, Pierce, Strike, Explode, Meets, Meeting
  <2> QED
    BY <2>1, <2>2, <2>3, <2>5, <2>6 DEF Next, vars, hand, Reload, PickUp, SwitchWeapon, Updates, Miss
<1> QED
  BY <1>1, <1>2, DeathsAreCounted, PTL DEF Spec

\* arena_game.py:958, 994, 1028: the game is over exactly when it is decided.
THEOREM EndsWhenDecided == Spec => []OverWhenDecided
<1>1. Decided => OverWhenDecided
  BY DEF Decided
<1> QED
  BY <1>1, DecidedCorrect, PTL

\* What the player carries: no weapon twice, none overfull, and one in hand.
Held == [weapon : DOMAIN Weapon, ammo : Nat]
Hands ==
  /\ weapons \in Seq(Held) /\ cur \in DOMAIN weapons
  /\ \A i, j \in DOMAIN weapons : weapons[i].weapon = weapons[j].weapon => i = j
  /\ \A i \in DOMAIN weapons : weapons[i].ammo <= Weapon[weapons[i].weapon].ammo

\* A full weapon is one a player may hold.
LEMMA FullIsHeld ==
  ASSUME NEW w \in DOMAIN Weapon
  PROVE  Full(w) \in Held /\ Full(w).weapon = w /\ Full(w).ammo = Weapon[w].ammo
BY Constants DEF Full, Held

\* Every weapon carried is a weapon, with its ammunition.
LEMMA CarriedIsHeld ==
  ASSUME Hands, NEW i \in DOMAIN weapons
  PROVE  weapons[i] \in Held /\ weapons[i].weapon \in DOMAIN Weapon /\ weapons[i].ammo \in Nat
<1>1. weapons \in Seq(Held) /\ i \in 1..Len(weapons)
  BY LenProperties DEF Hands
<1>2. weapons[i] \in Held
  BY <1>1, ElementOfSeq
<1> QED
  BY <1>2 DEF Held

\* Refilling or emptying a carried weapon, whichever is in hand then.
LEMMA OneChanged ==
  ASSUME Hands, NEW i \in DOMAIN weapons, NEW h \in Held,
         h.weapon = weapons[i].weapon, h.ammo <= Weapon[h.weapon].ammo,
         weapons' = [weapons EXCEPT ![i] = h], cur' \in DOMAIN weapons
  PROVE  Hands'
<1>1. weapons \in Seq(Held) /\ DOMAIN weapons' = DOMAIN weapons /\ i \in 1..Len(weapons)
  BY LenProperties DEF Hands
<1>2. weapons' \in Seq(Held)
  BY <1>1, ExceptSeq
<1>3. \A j \in DOMAIN weapons : weapons'[j].weapon = weapons[j].weapon
  BY DEF Hands
<1>4. \A j \in DOMAIN weapons : weapons'[j].ammo <= Weapon[weapons'[j].weapon].ammo
  BY DEF Hands
<1> QED
  BY <1>1, <1>2, <1>3, <1>4 DEF Hands

\* A weapon not carried before is put behind the others and taken in hand.
LEMMA OneMore ==
  ASSUME Hands, NEW w \in DOMAIN Weapon, Index(w) = {},
         weapons' = Append(weapons, Full(w)), cur' = Len(weapons) + 1
  PROVE  Hands'
<1> DEFINE n == Len(weapons)
<1>1. weapons \in Seq(Held) /\ n \in Nat /\ DOMAIN weapons = 1..n
  BY LenProperties DEF Hands
<1>2. /\ weapons' \in Seq(Held) /\ Len(weapons') = n + 1
      /\ \A i \in 1..n : weapons'[i] = weapons[i]
      /\ weapons'[n + 1] = Full(w)
  BY <1>1, FullIsHeld, AppendProperties
<1>3. DOMAIN weapons' = 1..(n + 1)
  BY <1>2, LenProperties
<1>4. \A i \in 1..n : weapons'[i].weapon # w
  BY <1>1, <1>2 DEF Index
<1>5. \A i \in 1..(n + 1) : i \in 1..n \/ i = n + 1
  BY <1>1
<1>6. \A i, j \in 1..(n + 1) : weapons'[i].weapon = weapons'[j].weapon => i = j
  BY <1>1, <1>2, <1>4, <1>5, FullIsHeld DEF Hands
<1>7. \A i \in 1..(n + 1) : weapons'[i].ammo <= Weapon[weapons'[i].weapon].ammo
  BY <1>1, <1>2, <1>5, FullIsHeld, Constants DEF Hands
<1> QED
  BY <1>1, <1>2, <1>3, <1>6, <1>7 DEF Hands

\* The pistol alone, as a player begins.
LEMMA OneWeapon ==
  ASSUME weapons' = <<Full(1)>>, cur' = 1
  PROVE  Hands'
<1>1. 1 \in DOMAIN Weapon
  BY BattleAssumption
<1>2. weapons' \in Seq(Held) /\ DOMAIN weapons' = {1} /\ weapons'[1] = Full(1)
  BY <1>1, FullIsHeld
<1> QED
  BY <1>1, <1>2, FullIsHeld, Constants DEF Hands

\* arena_game.py:415-435, 480: give_weapon, switch_weapon, reload and shoot keep it so.
THEOREM HandsCorrect == Spec => []Hands
<1>1. Init => Hands
  <2> SUFFICES ASSUME Init PROVE Hands
    OBVIOUS
  <2>1. 1 \in DOMAIN Weapon
    BY BattleAssumption
  <2>2. weapons \in Seq(Held) /\ DOMAIN weapons = {1} /\ weapons[1] = Full(1) /\ cur = 1
    BY <2>1, FullIsHeld DEF Init
  <2> QED
    BY <2>1, <2>2, FullIsHeld, Constants DEF Hands
<1>2. Hands /\ [Next]_vars => Hands'
  <2> SUFFICES ASSUME Hands, [Next]_vars PROVE Hands'
    OBVIOUS
  <2> DEFINE w0 == weapons[cur].weapon
  <2>1. cur \in DOMAIN weapons /\ w0 \in DOMAIN Weapon /\ weapons[cur] \in Held
        /\ weapons[cur].ammo \in Nat /\ weapons[cur].ammo <= Weapon[w0].ammo
    BY CarriedIsHeld DEF Hands
  <2>2. CASE Reload
    <3>1. weapons' = [weapons EXCEPT ![cur] = Full(w0)] /\ cur' = cur
      BY <2>2 DEF Reload
    <3>2. Full(w0) \in Held /\ Full(w0).weapon = w0 /\ Full(w0).ammo <= Weapon[Full(w0).weapon].ammo
      BY <2>1, FullIsHeld, Constants
    <3> QED
      BY <2>1, <3>1, <3>2, OneChanged
  <2>3. ASSUME NEW w \in DOMAIN Weapon, PickUp(w) PROVE Hands'
    <3>1. ASSUME NEW i \in Index(w), weapons' = [weapons EXCEPT ![i] = Full(w)], cur' = i
          PROVE  Hands'
      <4>1. i \in DOMAIN weapons /\ weapons[i].weapon = w
        BY DEF Index
      <4>2. Full(w) \in Held /\ Full(w).weapon = w /\ Full(w).ammo <= Weapon[Full(w).weapon].ammo
        BY FullIsHeld, Constants
      <4> QED
        BY <3>1, <4>1, <4>2, OneChanged
    <3>2. CASE Index(w) = {} /\ weapons' = Append(weapons, Full(w)) /\ cur' = Len(weapons) + 1
      BY <3>2, OneMore
    <3> QED
      BY <2>3, <3>1, <3>2 DEF PickUp
  <2>4. ASSUME NEW slot \in DOMAIN Weapon, SwitchWeapon(slot) PROVE Hands'
    BY <2>4 DEF SwitchWeapon, Index, Hands
  <2>5. ASSUME NEW dt \in 0..MaxDt, NEW trigger, NEW ended, NEW killed, Update(dt, trigger, ended, killed)
        PROVE  Hands'
    <3>1. CASE trigger /\ Ready(dt)
      <4> DEFINE h == [weapons[cur] EXCEPT !.ammo = @ - 1]
      <4>1. weapons' = [weapons EXCEPT ![cur].ammo = @ - 1] /\ cur' = cur /\ weapons[cur].ammo > 0
        BY <2>5, <3>1 DEF Update, Ready
      <4>2. h \in Held /\ h.weapon = w0 /\ h.ammo = weapons[cur].ammo - 1
        BY <2>1, <4>1 DEF Held
      <4>3. h.ammo <= Weapon[h.weapon].ammo
        BY <2>1, <4>2, Constants
      <4>4. weapons' = [weapons EXCEPT ![cur] = h]
        BY <4>1
      <4> QED
        BY <2>1, <4>1, <4>2, <4>3, <4>4, OneChanged
    <3>2. CASE ~(trigger /\ Ready(dt))
      BY <2>5, <3>2 DEF Update, Hands
    <3> QED
      BY <3>1, <3>2
  <2>6. CASE Restart
    BY <2>6, OneWeapon DEF Restart
  <2>7. CASE UNCHANGED <<weapons, cur>>
    BY <2>7 DEF Hands
  <2> QED
    BY <2>2, <2>3, <2>4, <2>5, <2>6, <2>7
    DEF Next, vars, hand, Updates, Miss, Spend, GoThrough, Pierce, Strike, Explode, EndFrame
<1> QED
  BY <1>1, <1>2, PTL DEF Spec

\* The cooldown and the time since the last shot.
Cooling == fireCd \in Nat /\ rest \in [since : Nat, due : Nat] /\ CooldownHolds

\* The time to wait covers what is left of the last shot's, in every step.
THEOREM CoolingCorrect == Spec => []Cooling
<1>1. Init => Cooling
  BY DEF Init, Cooling, CooldownHolds
<1>2. Hands /\ Cooling /\ [Next]_vars => Cooling'
  <2> SUFFICES ASSUME Hands, Cooling, [Next]_vars PROVE Cooling'
    OBVIOUS
  <2>1. ASSUME NEW dt \in 0..MaxDt, NEW trigger, NEW ended, NEW killed, Update(dt, trigger, ended, killed)
        PROVE  Cooling'
    <3> DEFINE rate == Weapon[weapons[cur].weapon].rate
    <3>1. dt \in Nat
      BY Constants
    <3>2. rate \in Nat
      BY CarriedIsHeld, Constants DEF Hands
    <3>3. CASE trigger /\ Ready(dt)
      <4>1. fireCd' = rate /\ rest' = [since |-> 0, due |-> rate]
        BY <2>1, <3>3 DEF Update
      <4> QED
        BY <3>2, <4>1 DEF Cooling, CooldownHolds
    <3>4. CASE ~(trigger /\ Ready(dt))
      <4>1. fireCd' = Cooled(dt) /\ rest' = [rest EXCEPT !.since = Elapsed(dt)]
        BY <2>1, <3>4 DEF Update
      <4>2. Cooled(dt) \in Int /\ Elapsed(dt) \in Nat /\ Cooled(dt) >= rest.due - Elapsed(dt)
        BY <3>1 DEF Cooling, CooldownHolds, Cooled, Elapsed
      <4>3. rest'.since = Elapsed(dt) /\ rest'.due = rest.due /\ rest' \in [since : Nat, due : Nat]
        BY <4>1, <4>2 DEF Cooling
      <4>4. Cooled(dt) \in Nat
        BY <3>1 DEF Cooling, Cooled
      <4> QED
        BY <4>1, <4>2, <4>3, <4>4 DEF Cooling, CooldownHolds
    <3> QED
      BY <3>3, <3>4
  <2>2. CASE UNCHANGED <<fireCd, rest>>
    BY <2>2 DEF Cooling, CooldownHolds
  <2>3. CASE Restart
    BY <2>3 DEF Restart, Cooling, CooldownHolds
  <2> QED
    BY <2>1, <2>2, <2>3 DEF Next, vars, hand, Reload, PickUp, SwitchWeapon, KeptCd, Updates, Miss,
      Spend, GoThrough, Pierce, Strike, Explode, EndFrame
<1> QED
  BY <1>1, <1>2, HandsCorrect, PTL DEF Spec

\* arena_game.py:456, 464, 472: no switch, crate or reload makes a player ready early.
THEOREM CooldownCorrect == Spec => []CooldownHolds
<1>1. Cooling => CooldownHolds
  BY DEF Cooling
<1> QED
  BY <1>1, CoolingCorrect, PTL
-----------------------------------------------------------------------------
(* The bullets and the loops over them *)

Flying == [weapon : DOMAIN Weapon, pierced : Nat, alive : BOOLEAN]
Placed ==
  /\ bullets \in Seq(Flying) /\ at \in (Nat \ {0}) \X (Nat \ {0})
  /\ crates \in 0..Crates

\* What is left of a list of bullets is a list of bullets.
LEMMA LeftIsFlying ==
  ASSUME NEW flying \in Seq(Flying), NEW ended
  PROVE  Left(flying, ended) \in Seq(Flying)
<1> DEFINE kept == {i \in DOMAIN flying : flying[i].alive /\ i \notin ended}
           n == Cardinality(kept)
           Kth(k) == CHOOSE i \in kept : Cardinality({j \in kept : j <= i}) = k
<1>1. Len(flying) \in Nat /\ DOMAIN flying = 1..Len(flying) /\ \A i \in DOMAIN flying : flying[i] \in Flying
  OBVIOUS
<1>2. kept \in SUBSET Nat /\ IsFiniteSet(kept) /\ n \in Nat
  <2>1. IsFiniteSet(DOMAIN flying)
    BY <1>1, FS_Interval
  <2>2. kept \subseteq DOMAIN flying
    OBVIOUS
  <2>3. kept \in SUBSET Nat
    BY <1>1
  <2> HIDE DEF kept
  <2> QED
    BY <2>1, <2>2, <2>3, FS_Subset, FS_CardinalityType
<1>3. ASSUME NEW k \in 1..n PROVE flying[Kth(k)] \in Flying
  <2>1. kept \subseteq DOMAIN flying
    OBVIOUS
  <2> HIDE DEF kept
  <2>2. \E i \in kept : Cardinality({j \in kept : j <= i}) = k
    BY <1>2, KthElement
  <2>3. Kth(k) \in kept
    BY <2>2
  <2> HIDE DEF Kth
  <2> QED
    BY <1>1, <2>1, <2>3
<1>4. Left(flying, ended) = [k \in 1..n |-> flying[Kth(k)]]
  BY DEF Left
<1> HIDE DEF n, Kth
<1> QED
  BY <1>2, <1>3, <1>4

\* A shot is a list of bullets.
LEMMA ShotIsFlying ==
  ASSUME NEW w \in DOMAIN Weapon
  PROVE  Shot(w) \in Seq(Flying)
<1> DEFINE bullet == [weapon |-> w, pierced |-> 0, alive |-> TRUE]
           count == Weapon[w].count
<1>1. count \in Nat
  BY BattleAssumption
<1>2. bullet \in Flying
  BY DEF Flying
<1>3. Shot(w) = [i \in 1..count |-> bullet]
  BY DEF Shot
<1> HIDE DEF bullet, count
<1> QED
  BY <1>1, <1>2, <1>3

\* The loops go on to the next enemy, or the first one of the next bullet.
LEMMA NextPlace ==
  ASSUME at \in (Nat \ {0}) \X (Nat \ {0})
  PROVE  NextEnemy \in (Nat \ {0}) \X (Nat \ {0}) /\ NextBullet \in (Nat \ {0}) \X (Nat \ {0})
<1>1. /\ at[1] \in Nat \ {0} /\ at[2] \in Nat \ {0}
      /\ at[1] + 1 \in Nat \ {0} /\ at[2] + 1 \in Nat \ {0}
  OBVIOUS
<1> QED
  BY <1>1 DEF NextEnemy, NextBullet

\* A bullet that hits is still a bullet, in its place.
LEMMA StrikePlaced ==
  ASSUME Placed, NEW w, NEW special, NEW now \in Flying, NEW next \in {NextEnemy, NextBullet},
         Strike(w, special, now, next)
  PROVE  Placed'
<1>1. /\ at[1] \in DOMAIN bullets /\ bullets' = [bullets EXCEPT ![at[1]] = now]
      /\ at' = next /\ crates' = crates
  BY DEF Strike, Meets, Meeting, hand
<1>2. bullets' \in Seq(Flying)
  BY <1>1 DEF Placed
<1>3. at' \in (Nat \ {0}) \X (Nat \ {0})
  BY <1>1, NextPlace DEF Placed
<1> QED
  BY <1>1, <1>2, <1>3 DEF Placed

\* What happens to a bullet that hits an enemy.
LEMMA BulletsPlaced ==
  ASSUME Placed, NEW w, NEW blast, Spend(w) \/ GoThrough(w) \/ Pierce(w) \/ Explode(w, blast)
  PROVE  Placed'
<1>1. at[1] \in DOMAIN bullets
  BY DEF Spend, GoThrough, Pierce, Strike, Explode, Meets, Meeting
<1>2. Bullet \in Flying
  BY <1>1 DEF Placed, Bullet
<1>3. [Bullet EXCEPT !.alive = FALSE] \in Flying
  BY <1>2 DEF Flying
<1>4. [Bullet EXCEPT !.pierced = @ + 1, !.alive = @ /\ Bullet.pierced + 1 < 3] \in Flying
  <2>1. Bullet.pierced + 1 \in Nat /\ Bullet.alive \in BOOLEAN
    BY <1>2 DEF Flying
  <2> QED
    BY <1>2, <2>1 DEF Flying
<1>5. CASE Spend(w) \/ GoThrough(w) \/ Pierce(w)
  BY <1>2, <1>3, <1>4, <1>5, StrikePlaced DEF Spend, GoThrough, Pierce
<1>6. CASE Explode(w, blast)
  <2>1. /\ bullets' = [bullets EXCEPT ![at[1]] = [Bullet EXCEPT !.alive = FALSE]]
        /\ at' = NextBullet /\ crates' = crates
    BY <1>6 DEF Explode, Bullet, hand
  <2>2. bullets' \in Seq(Flying)
    BY <1>1, <1>3, <2>1 DEF Placed
  <2> QED
    BY <2>1, <2>2, NextPlace DEF Placed
<1> QED
  BY <1>5, <1>6

\* The bullets are bullets in every step, and the loops stay in step with them.
THEOREM PlacedCorrect == Spec => []Placed
<1>1. Init => Placed
  <2>1. <<>> \in Seq(Flying) /\ <<1, 1>> \in (Nat \ {0}) \X (Nat \ {0}) /\ Crates \in 0..Crates
    BY BattleAssumption
  <2> QED
    BY <2>1 DEF Init, Placed
<1>2. Hands /\ Placed /\ [Next]_vars => Placed'
  <2> SUFFICES ASSUME Hands, Placed, [Next]_vars PROVE Placed'
    OBVIOUS
  <2>1. <<1, 1>> \in (Nat \ {0}) \X (Nat \ {0}) /\ crates \in Nat /\ Crates \in Nat /\ crates <= Crates
    BY BattleAssumption DEF Placed
  <2>2. ASSUME NEW w, PickUp(w) PROVE Placed'
    BY <2>1, <2>2 DEF PickUp, Placed
  <2>3. ASSUME NEW dt, NEW trigger, NEW ended, NEW killed, Update(dt, trigger, ended, killed)
        PROVE  Placed'
    <3> DEFINE w == weapons[cur].weapon
               flying == IF trigger /\ Ready(dt) THEN bullets \o Shot(w) ELSE bullets
    <3>1. w \in DOMAIN Weapon
      BY CarriedIsHeld DEF Hands
    <3>2. flying \in Seq(Flying)
      BY <3>1, ShotIsFlying, ConcatProperties DEF Placed
    <3>3. bullets' = Left(flying, ended) /\ at' = <<1, 1>> /\ crates' = crates
      BY <2>3 DEF Update
    <3> HIDE DEF flying
    <3> QED
      BY <2>1, <3>2, <3>3, LeftIsFlying DEF Placed
  <2>4. CASE Miss
    <3>1. at' = NextEnemy /\ UNCHANGED <<bullets, crates>>
      BY <2>4 DEF Miss, hand
    <3> QED
      BY <3>1, NextPlace DEF Placed
  <2>5. ASSUME NEW met, NEW killed, EndFrame(met, killed) PROVE Placed'
    <3>1. bullets' = Left(bullets, met) /\ at' = <<1, 1>> /\ crates' \in 0..crates
      BY <2>5 DEF EndFrame
    <3>2. crates' \in 0..Crates
      BY <2>1, <3>1
    <3> QED
      BY <2>1, <3>1, <3>2, LeftIsFlying DEF Placed
  <2>6. CASE Restart
    BY <1>1, <2>1, <2>6 DEF Restart, Placed
  <2>7. CASE UNCHANGED <<bullets, at, crates>>
    BY <2>7 DEF Placed
  <2> QED
    BY <2>2, <2>3, <2>4, <2>5, <2>6, <2>7, BulletsPlaced
    DEF Next, vars, hand, Reload, SwitchWeapon, Updates
<1> QED
  BY <1>1, <1>2, HandsCorrect, PTL DEF Spec

\* arena_game.py:895-901: every variable keeps its type through every frame.
THEOREM TypeCorrect == Spec => []TypeOK
<1>1. Counted /\ Decided /\ Hands /\ Cooling /\ Placed => TypeOK
  BY DEF Counted, Decided, Hands, Held, Cooling, Placed, Flying, TypeOK
<1> QED
  BY <1>1, DeathsAreCounted, DecidedCorrect, HandsCorrect, CoolingCorrect, PlacedCorrect, PTL
=============================================================================
