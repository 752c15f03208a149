--------------------------- MODULE TerrainProofs ---------------------------
(***************************************************************************)
(* What holds of the ground of arena_game.py for every size of the map and *)
(* of its blocks: its border stays, nobody starts or moves into a wall,    *)
(* and nobody gets through one.                                            *)
(***************************************************************************)
EXTENDS Terrain, TLAPS

\* What the places of things rest on: the generator writes into the map only, the
\* corner is clear from the end of the generation on, and a body is where it fits.
Placed ==
  /\ stage \in {"build", "spawn", "play"} /\ walls \subseteq Grid
  /\ stage \in {"spawn", "play"} => walls \cap Cleared = {}
  /\ stage = "play" =>
       /\ body.kind \in Kind /\ body.x \in Int /\ body.y \in Int
       /\ body = [kind |-> body.kind, x |-> body.x, y |-> body.y]
       /\ NobodyInAWall
-----------------------------------------------------------------------------
\* The generator's changes leave the border and stay in the map.
LEMMA ClipIsInside ==
  ASSUME NEW tiles
  PROVE  /\ Clip(tiles) \cap Border = {} /\ Clip(tiles) \subseteq Grid
         /\ Cleared \cap Border = {}
BY TerrainAssumption DEF Clip, Border, Grid, Interior, Cleared

\* gen_map: no door and no walk through the lava opens the border.
THEOREM BorderStays == Spec => []BorderIntact
<1>1. Init => BorderIntact
  BY DEF Init, BorderIntact, Border
<1>2. BorderIntact /\ [Next]_vars => BorderIntact'
  <2> SUFFICES ASSUME BorderIntact, [Next]_vars PROVE BorderIntact'
    OBVIOUS
  <2>1. ASSUME NEW r, NEW c, NEW widths, PlaceBlock(r, c, widths) PROVE BorderIntact'
    BY <2>1 DEF PlaceBlock, Build, BorderIntact, Border, Grid, Interior
  <2>2. ASSUME NEW r, NEW c, NEW h, NEW w, NEW side, PlaceHouse(r, c, h, w, side) PROVE BorderIntact'
    <3>1. Door(r, c, h, w, side) \cap Border = {}
      BY ClipIsInside DEF Door
    <3> QED
      BY <2>2, <3>1 DEF PlaceHouse, Build, BorderIntact, Border, Grid, Interior
  <2>3. ASSUME NEW dr, NEW dc, Walk(dr, dc) PROVE BorderIntact'
    <3>1. PICK gone : walls' = walls \ gone /\ gone \cap Border = {}
      BY <2>3, ClipIsInside DEF Walk, Build
    <3> QED
      BY <3>1 DEF BorderIntact, Border, Grid, Interior
  <2>4. CASE ClearCorner
    BY <2>4, ClipIsInside DEF ClearCorner, BorderIntact, Border, Grid, Interior
  <2>5. CASE UNCHANGED walls
    BY <2>5 DEF BorderIntact, Border, Grid, Interior
  <2> QED
    BY <2>1, <2>2, <2>3, <2>4, <2>5
    DEF Next, Builds, Moves, vars, StartWalk, SpawnPlayer, SpawnOther, Move
<1> QED
  BY <1>1, <1>2, PTL DEF Spec
-----------------------------------------------------------------------------
\* Tiles and pixels.
LEMMA Multiples ==
  ASSUME NEW a \in Int, NEW b \in Int, a * Tile < b * Tile
  PROVE  a < b
BY TerrainAssumption

\* Each tile begins a tile after the one before it.
LEMMA NextMultiple ==
  ASSUME NEW a \in Int
  PROVE  (a + 1) * Tile = a * Tile + Tile /\ (a - 1) * Tile = a * Tile - Tile /\ a * Tile \in Int
BY TerrainAssumption

\* A body at the corner of a tile reaches into it and the one before.
LEMMA CornerLines ==
  ASSUME NEW k \in Int, NEW h \in Nat, 2 * h < Tile, NEW t \in Int,
         Reaches(t, k * Tile - h, k * Tile + h)
  PROVE  t \in (k - 1)..k
<1>1. t * Tile < (k + 1) * Tile /\ (k - 1) * Tile < (t + 1) * Tile
  BY NextMultiple, TerrainAssumption DEF Reaches
<1>2. t < k + 1 /\ k - 1 < t + 1
  BY <1>1, Multiples
<1> QED
  BY <1>2

\* A body in the middle of a tile reaches into no other.
LEMMA MiddleLine ==
  ASSUME NEW k \in Int, NEW h \in Nat, 2 * h < Tile, NEW t \in Int,
         Reaches(t, k * Tile + Tile \div 2 - h, k * Tile + Tile \div 2 + h)
  PROVE  t = k
<1>1. Tile \div 2 \in Int /\ h <= Tile \div 2 /\ Tile \div 2 + h < Tile
  BY TerrainAssumption
<1>2. t * Tile < (k + 1) * Tile /\ k * Tile < (t + 1) * Tile
  BY <1>1, NextMultiple, TerrainAssumption DEF Reaches
<1>3. t < k + 1 /\ k < t + 1
  BY <1>2, Multiples
<1> QED
  BY <1>3

\* What a step shorter than a tile sweeps over, the body reaches at one of its ends.
LEMMA NothingBetween ==
  ASSUME NEW a \in Int, NEW b \in Int, High(a, b) - Low(a, b) < Tile, NEW h \in Nat, NEW t \in Int,
         Reaches(t, Low(a, b) - h, High(a, b) + h)
  PROVE  Reaches(t, a - h, a + h) \/ Reaches(t, b - h, b + h)
BY NextMultiple, TerrainAssumption DEF Reaches, Low, High

\* So a way along x is free if the body fits at both its ends.
LEMMA SweepX ==
  ASSUME NEW k \in Kind, NEW x \in Int, NEW x1 \in Int, NEW y \in Int,
         High(x, x1) - Low(x, x1) < Tile, Fits(k, x, y), Fits(k, x1, y)
  PROVE  Free(Low(x, x1), y, High(x, x1), y, Half[k])
BY NothingBetween, TerrainAssumption DEF Free, Fits, Lines

\* The same along y.
LEMMA SweepY ==
  ASSUME NEW k \in Kind, NEW x \in Int, NEW y \in Int, NEW y1 \in Int,
         High(y, y1) - Low(y, y1) < Tile, Fits(k, x, y), Fits(k, x, y1)
  PROVE  Free(x, Low(y, y1), x, High(y, y1), Half[k])
BY NothingBetween, TerrainAssumption DEF Free, Fits, Lines
-----------------------------------------------------------------------------
\* One step along each axis, each taken only if the body fits at its end.
LEMMA MoveFits ==
  ASSUME Placed, NEW dx \in (-Step)..Step, NEW dy \in (-Step)..Step, Move(dx, dy)
  PROVE  /\ body'.kind = body.kind /\ body'.x \in Int /\ body'.y \in Int
         /\ body' = [kind |-> body'.kind, x |-> body'.x, y |-> body'.y]
         /\ Fits(body.kind, body'.x, body.y) /\ Fits(body.kind, body'.x, body'.y)
         /\ body'.x - body.x \in (-MaxStep)..MaxStep /\ body'.y - body.y \in (-MaxStep)..MaxStep
<1> DEFINE k  == body.kind
           x1 == IF Fits(k, body.x + dx, body.y) THEN body.x + dx ELSE body.x
           y1 == IF Fits(k, x1, body.y + dy) THEN body.y + dy ELSE body.y
<1>1. stage = "play" /\ body' = [body EXCEPT !.x = x1, !.y = y1]
  BY DEF Move
<1>2. k \in Kind /\ body.x \in Int /\ body.y \in Int /\ Fits(k, body.x, body.y)
      /\ body = [kind |-> k, x |-> body.x, y |-> body.y]
  BY <1>1 DEF Placed, NobodyInAWall
<1>3. dx \in Int /\ dy \in Int /\ dx \in (-MaxStep)..MaxStep /\ dy \in (-MaxStep)..MaxStep
  BY TerrainAssumption DEF Step
<1>4. x1 \in Int /\ x1 - body.x \in (-MaxStep)..MaxStep /\ Fits(k, x1, body.y)
  BY <1>2, <1>3, TerrainAssumption
<1> HIDE DEF x1
<1>5. y1 \in Int /\ y1 - body.y \in (-MaxStep)..MaxStep /\ Fits(k, x1, y1)
  BY <1>2, <1>3, <1>4, TerrainAssumption
<1> HIDE DEF y1
<1>6. body' = [kind |-> k, x |-> x1, y |-> y1]
  BY <1>1, <1>2
<1> QED
  BY <1>2, <1>4, <1>5, <1>6

\* Where a player starts: the corner is clear as far as he reaches.
LEMMA PlayerSpawnFits ==
  ASSUME walls \cap Cleared = {}, NEW x \in Spawns, NEW y \in Spawns
  PROVE  Fits("player", x * Tile, y * Tile)
<1>1. x \in 2..ClearCols /\ y \in 2..ClearRows /\ x \in Int /\ y \in Int
      /\ Half["player"] \in Nat /\ 2 * Half["player"] < Tile
  BY TerrainAssumption
<1> SUFFICES ASSUME NEW r \in Lines, NEW c \in Lines,
                    Reaches(r, y * Tile - Half["player"], y * Tile + Half["player"]),
                    Reaches(c, x * Tile - Half["player"], x * Tile + Half["player"])
             PROVE  ~IsWall(<<r, c>>)
  BY DEF Fits, Free
<1>2. r \in (y - 1)..y /\ c \in (x - 1)..x
  BY <1>1, CornerLines, TerrainAssumption DEF Lines
<1>3. <<r, c>> \in Cleared /\ <<r, c>> \in Grid
  BY <1>1, <1>2, TerrainAssumption DEF Cleared, Grid
<1> QED
  BY <1>3 DEF IsWall

\* Where an enemy or a crate starts: it reaches no tile but the open one it is on.
LEMMA OtherSpawnFits ==
  ASSUME NEW k \in Kind, NEW t \in Interior, t \notin walls
  PROVE  Fits(k, t[2] * Tile + Tile \div 2, t[1] * Tile + Tile \div 2)
<1>1. t = <<t[1], t[2]>> /\ t[1] \in Int /\ t[2] \in Int /\ t \in Grid
      /\ Half[k] \in Nat /\ 2 * Half[k] < Tile
  BY TerrainAssumption DEF Interior, Grid
<1> DEFINE y == t[1] * Tile + Tile \div 2
           x == t[2] * Tile + Tile \div 2
<1>2. ASSUME NEW r \in Lines, NEW c \in Lines,
             Reaches(r, y - Half[k], y + Half[k]), Reaches(c, x - Half[k], x + Half[k])
      PROVE  ~IsWall(<<r, c>>)
  <2>1. r = t[1] /\ c = t[2]
    BY <1>1, <1>2, MiddleLine, TerrainAssumption DEF Lines
  <2> QED
    BY <1>1, <2>1 DEF IsWall
<1>3. Fits(k, x, y)
  <2> HIDE DEF x, y
  <2> QED
    BY <1>2 DEF Fits, Free
<1> QED
  BY <1>3

\* gen_map, the spawns and every step: bodies are where they fit.
THEOREM PlacedStays == Spec => []Placed
<1>1. Init => Placed
  BY DEF Init, Placed, Border
<1>2. Placed /\ [Next]_vars => Placed'
  <2> SUFFICES ASSUME Placed, [Next]_vars PROVE Placed'
    OBVIOUS
  <2>1. CASE Builds
    <3>1. walls' \subseteq Grid
      BY <2>1, ClipIsInside
      DEF Placed, Builds, PlaceBlock, PlaceHouse, StartWalk, Walk, Build, ClearCorner
    <3>2. stage = "build" /\ stage' \in {"build", "spawn"} /\ (stage' = "spawn" => walls' \cap Cleared = {})
      BY <2>1 DEF Builds, PlaceBlock, PlaceHouse, StartWalk, Walk, Build, ClearCorner
    <3> QED
      BY <3>1, <3>2 DEF Placed
  <2>2. ASSUME NEW x \in Spawns, NEW y \in Spawns, SpawnPlayer(x, y) PROVE Placed'
    <3>1. "player" \in Kind /\ x * Tile \in Int /\ y * Tile \in Int
      BY NextMultiple, TerrainAssumption
    <3>2. Fits("player", x * Tile, y * Tile)'
      BY <2>2, <3>1, PlayerSpawnFits DEF SpawnPlayer, Placed, Fits, Free, IsWall
    <3> QED
      BY <2>2, <3>1, <3>2 DEF SpawnPlayer, Placed, NobodyInAWall, Cleared
  <2>3. ASSUME NEW k \in Kind \ {"player"}, NEW t \in Interior, SpawnOther(k, t[1], t[2]) PROVE Placed'
    <3>1. t = <<t[1], t[2]>> /\ t[1] * Tile + Tile \div 2 \in Int /\ t[2] * Tile + Tile \div 2 \in Int
      BY TerrainAssumption DEF Interior
    <3>2. Fits(k, t[2] * Tile + Tile \div 2, t[1] * Tile + Tile \div 2)'
      BY <2>3, <3>1, OtherSpawnFits DEF SpawnOther, Fits, Free, IsWall
    <3> QED
      BY <2>3, <3>1, <3>2 DEF SpawnOther, Placed, NobodyInAWall, Cleared
  <2>4. ASSUME NEW dx \in (-Step)..Step, NEW dy \in (-Step)..Step, Move(dx, dy) PROVE Placed'
    <3>1. stage = "play" /\ stage' = "play" /\ walls' = walls
      BY <2>4 DEF Move
    <3>2. body'.kind = body.kind /\ body'.x \in Int /\ body'.y \in Int
          /\ body' = [kind |-> body'.kind, x |-> body'.x, y |-> body'.y]
          /\ Fits(body.kind, body'.x, body'.y)
      BY <2>4, MoveFits
    <3> QED
      BY <3>1, <3>2 DEF Placed, NobodyInAWall, Cleared, Fits, Free, IsWall, Grid
  <2>5. CASE UNCHANGED vars
    BY <2>5 DEF vars, Placed, NobodyInAWall, Fits, Free, IsWall, Cleared
  <2> QED
    BY <2>1, <2>2, <2>3, <2>4, <2>5 DEF Next, Moves
<1> QED
  BY <1>1, <1>2, PTL DEF Spec

\* Every reachable state is well typed: no wall outside the map.
THEOREM TypeCorrect == Spec => []TypeOK
<1>1. Init => TypeOK
  BY TerrainAssumption DEF Init, TypeOK, Border
<1>2. Placed /\ TypeOK /\ [Next]_vars /\ Placed' => TypeOK'
  <2> SUFFICES ASSUME Placed, TypeOK, [Next]_vars, Placed' PROVE TypeOK'
    OBVIOUS
  <2>1. walls' \subseteq Grid
    BY DEF Placed, Grid
  <2>2. ASSUME NEW r \in 2..(Rows - 3), NEW c \in 2..(Cols - 3), StartWalk(r, c) PROVE TypeOK'
    BY <2>1, <2>2, TerrainAssumption DEF StartWalk, TypeOK, Grid
  <2>3. ASSUME NEW dr \in Int, NEW dc \in Int, Walk(dr, dc) PROVE TypeOK'
    <3>1. walker[1] \in Int /\ walker[2] \in Int /\ work + 1 \in 0..MaxWork
      BY <2>3, TerrainAssumption DEF Walk, Build, TypeOK
    <3> QED
      BY <2>1, <2>3, <3>1 DEF Walk, Build, TypeOK, Grid
  <2>4. ASSUME NEW r, NEW c, NEW widths, PlaceBlock(r, c, widths) PROVE TypeOK'
    BY <2>1, <2>4, TerrainAssumption DEF PlaceBlock, Build, TypeOK, Grid
  <2>5. ASSUME NEW r, NEW c, NEW h, NEW w, NEW side, PlaceHouse(r, c, h, w, side) PROVE TypeOK'
    BY <2>1, <2>5, TerrainAssumption DEF PlaceHouse, Build, TypeOK, Grid
  <2>6. CASE ClearCorner
    BY <2>1, <2>6 DEF ClearCorner, TypeOK, Grid
  <2>7. ASSUME UNCHANGED <<terrain, walker, work>>, stage' = "play" PROVE TypeOK'
    BY <2>1, <2>7, TerrainAssumption DEF TypeOK, Placed, Nothing, Grid
  <2>8. CASE UNCHANGED vars
    BY <2>8 DEF vars, TypeOK
  <2>9. CASE Builds
    BY <2>2, <2>3, <2>4, <2>5, <2>6, <2>9 DEF Builds
  <2> QED
    BY <2>7, <2>8, <2>9 DEF Next, Moves, SpawnPlayer, SpawnOther, Move
<1> QED
  BY <1>1, <1>2, PlacedStays, PTL DEF Spec

\* Player.update, Enemy.update and the spawns: nobody is ever in a wall.
THEOREM NobodyIsInAWall == Spec => []NobodyInAWall
<1>1. Placed => NobodyInAWall
  BY DEF Placed, NobodyInAWall
<1> QED
  BY <1>1, PlacedStays, PTL

\* No step of a frame sweeps over a wall, because it is shorter than a tile.
THEOREM NobodyTunnels == Spec => NoTunnel
<1> DEFINE Ways ==
      stage = "play" =>
        LET h == Half[body.kind] IN
        /\ Free(Low(body.x, body'.x), body.y, High(body.x, body'.x), body.y, h)
        /\ Free(body'.x, Low(body.y, body'.y), body'.x, High(body.y, body'.y), h)
<1>1. Placed /\ [Next]_vars => [Ways]_vars
  <2> SUFFICES ASSUME Placed, Next, stage = "play" PROVE Ways
    BY DEF vars
  <2>1. PICK dx \in (-Step)..Step, dy \in (-Step)..Step : Move(dx, dy)
    BY DEF Next, Builds, Moves, PlaceBlock, PlaceHouse, StartWalk, Walk, ClearCorner, SpawnPlayer, SpawnOther
  <2>2. body.kind \in Kind /\ body.x \in Int /\ body.y \in Int /\ Fits(body.kind, body.x, body.y)
    BY DEF Placed, NobodyInAWall
  <2>3. body'.x \in Int /\ body'.y \in Int /\ Fits(body.kind, body'.x, body.y)
        /\ Fits(body.kind, body'.x, body'.y)
        /\ body'.x - body.x \in (-MaxStep)..MaxStep /\ body'.y - body.y \in (-MaxStep)..MaxStep
    BY <2>1, MoveFits
  <2>4. High(body.x, body'.x) - Low(body.x, body'.x) < Tile
        /\ High(body.y, body'.y) - Low(body.y, body'.y) < Tile
    BY <2>2, <2>3, TerrainAssumption DEF High, Low
  <2> QED
    BY <2>2, <2>3, <2>4, SweepX, SweepY
<1> QED
  BY <1>1, PlacedStays, PTL DEF Spec, NoTunnel
=============================================================================
