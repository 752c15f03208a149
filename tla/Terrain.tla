------------------------------ MODULE Terrain ------------------------------
(***************************************************************************)
(* The ground of arena_game.py: how gen_map builds the walls, where main   *)
(* and the spawn helpers put players, enemies and crates, and how the      *)
(* first two move between the walls.                                       *)
(*                                                                         *)
(* The random generator is a choice among what it may return.  A place is  *)
(* in pixels, as pygame.Rect truncates it.  Bodies do not collide with     *)
(* each other, so that one stands for all.  Speed and friction come down   *)
(* to how far a body may get along each axis in one frame.                 *)
(***************************************************************************)
EXTENDS Integers

CONSTANTS
  Rows, Cols, Tile,        \* ROWS, COLS, TILE
  Blocks,                  \* of each terrain of blocks: the heights, widths, and the margin below
  ClearRows, ClearCols,    \* how far the corner around the spawns is cleared
  Spawns,                  \* the corners of tiles a player may start at, on each axis
  Far,                     \* the squared distance, in half tiles, from which enemies and crates start
  Half,                    \* of each kind of body: half of what collides, RADIUS - margin
  MaxStep,                 \* MAX_SPEED times the longest dt, 0.05 s
  MaxWork                  \* bound on the blocks placed, or steps walked

Kind == DOMAIN Half        \* "player", "enemy", "crate"

ASSUME TerrainAssumption ==
  /\ Rows \in Nat /\ Cols \in Nat /\ Tile \in Nat \ {0} /\ MaxStep \in Nat /\ MaxWork \in Nat
  /\ ClearRows \in 1..(Rows - 2) /\ ClearCols \in 1..(Cols - 2)
  /\ Spawns \subseteq 2..ClearRows /\ Spawns \subseteq 2..ClearCols
  /\ \A t \in DOMAIN Blocks :
       /\ Blocks[t].heights \subseteq Nat \ {0} /\ Blocks[t].widths \subseteq Nat \ {0}
       /\ Blocks[t].margin \in Nat
  /\ "player" \in Kind /\ "none" \notin Kind /\ Far \in [Kind -> Nat] /\ Half \in [Kind -> Nat]
  /\ \A k \in Kind : 2 * Half[k] < Tile
  /\ MaxStep < Tile

VARIABLES
  terrain,            \* args.terrain
  stage,              \* "build", then "spawn", then "play"
  walls,              \* MAP: the tiles that are 1
  walker,             \* <<px, py>> of the walk through the lava; <<>> without one
  work,               \* blocks placed or steps walked
  body                \* what moves: its kind and place

vars == <<terrain, stage, walls, walker, work, body>>

Grid     == (0..(Rows - 1)) \X (0..(Cols - 1))
Interior == (1..(Rows - 2)) \X (1..(Cols - 2))
Border   == Grid \ Interior
Nothing  == [kind |-> "none", x |-> 0, y |-> 0]

Init ==
  /\ terrain \in DOMAIN Blocks \cup {"volcano"}
  /\ stage = "build" /\ walker = <<>> /\ work = 0 /\ body = Nothing
  /\ walls = IF terrain = "volcano" THEN Grid ELSE Border
-----------------------------------------------------------------------------
(* gen_map *)

FaultyClip(tiles) == tiles
\* What is changed of the map, blocks and lava alike, is clipped to the interior.
Clip(tiles) == tiles \cap Interior

\* Each row of a block has a width of its own.
Block(r, c, widths) == UNION {{r + d} \X (c..(c + widths[d] - 1)) : d \in DOMAIN widths}
House(r, c, h, w)   == Block(r, c, [d \in 0..(h - 1) |-> w])

FaultyDoor(r, c, h, w, side) ==
  CASE side = 0 -> {<<r, c + w \div 2>>}
    [] side = 1 -> {<<r + h - 1, c + w \div 2>>}
    [] side = 2 -> {<<r + h \div 2, c>>}
    [] OTHER    -> {<<r + h \div 2, c + w - 1>>}

\* The tile of a house that is opened again.  A lower side at the edge of the map
\* gets its door on the right, if there is room.
Door(r, c, h, w, side) ==
  Clip(CASE side = 0 -> {<<r, c + w \div 2>>}
         [] side = 1 /\ r + h < Rows - 1 -> {<<r + h - 1, c + w \div 2>>}
         [] side = 2 -> {<<r + h \div 2, c>>}
         [] OTHER -> IF c + w < Cols - 1 THEN {<<r + h \div 2, c + w - 1>>} ELSE {})

Build(tiles) == work < MaxWork /\ work' = work + 1 /\ walls' = tiles

PlaceBlock(r, c, widths) ==
  /\ stage = "build" /\ terrain \notin {"urban", "volcano"}
  /\ Build(walls \cup Clip(Block(r, c, widths)))
  /\ UNCHANGED <<terrain, stage, walker, body>>

PlaceHouse(r, c, h, w, side) ==
  /\ stage = "build" /\ terrain = "urban"
  /\ Build((walls \cup Clip(House(r, c, h, w))) \ Door(r, c, h, w, side))
  /\ UNCHANGED <<terrain, stage, walker, body>>

StartWalk(r, c) ==
  /\ stage = "build" /\ terrain = "volcano" /\ walker' = <<r, c>>
  /\ UNCHANGED <<terrain, stage, walls, work, body>>

Around(r, c) == ((r - 1)..(r + 1)) \X ((c - 1)..(c + 1))

\* The walk may leave the map; it opens nothing there.
Walk(dr, dc) ==
  LET r == walker[1]  c == walker[2] IN
  /\ stage = "build" /\ walker # <<>>
  /\ Build(walls \ (IF <<r, c>> \in Interior THEN Clip(Around(r, c)) ELSE {}))
  /\ walker' = <<r + dr, c + dc>> /\ UNCHANGED <<terrain, stage, body>>

FaultyCleared == (1..(ClearRows - 1)) \X (1..(ClearCols - 1))
Cleared       == (1..ClearRows) \X (1..ClearCols)

ClearCorner ==
  /\ stage = "build" /\ stage' = "spawn" /\ walls' = walls \ Cleared
  /\ UNCHANGED <<terrain, walker, work, body>>
-----------------------------------------------------------------------------
(* Walls and bodies *)

IsWall(t) == t \notin Grid \/ t \in walls

\* Row or column t has one of the pixels from a to b.
Reaches(t, a, b) == t * Tile <= b /\ a < (t + 1) * Tile

\* The rows and columns a body can come near, those outside the map too.
Lines == (-2)..(Rows + Cols)

\* No tile that the box reaches is a wall: not rect_hits_wall.
Free(x, y, x2, y2, h) ==
  \A r \in Lines : Reaches(r, y - h, y2 + h) =>
    \A c \in Lines : Reaches(c, x - h, x2 + h) => ~IsWall(<<r, c>>)

Fits(k, x, y) == Free(x, y, x, y, Half[k])

SpawnPlayer(x, y) ==
  /\ stage = "spawn" /\ stage' = "play"
  /\ body' = [kind |-> "player", x |-> x * Tile, y |-> y * Tile]
  /\ UNCHANGED <<terrain, walls, walker, work>>

\* spawn_enemies, spawn_crates: the middle of an open tile away from the corner.
SpawnOther(k, r, c) ==
  /\ stage = "spawn" /\ stage' = "play" /\ <<r, c>> \notin walls
  /\ (2 * c - 5)^2 + (2 * r - 5)^2 > Far[k]
  /\ body' = [kind |-> k, x |-> c * Tile + Tile \div 2, y |-> r * Tile + Tile \div 2]
  /\ UNCHANGED <<terrain, walls, walker, work>>

FaultyStep == 3 * Tile
Step       == MaxStep

\* Player.update, Enemy.update: along x, then along y, each only if it fits.
Move(dx, dy) ==
  LET k  == body.kind
      x1 == IF Fits(k, body.x + dx, body.y) THEN body.x + dx ELSE body.x
      y1 == IF Fits(k, x1, body.y + dy) THEN body.y + dy ELSE body.y IN
  /\ stage = "play" /\ k # "crate"
  /\ body' = [body EXCEPT !.x = x1, !.y = y1]
  /\ UNCHANGED <<terrain, stage, walls, walker, work>>
-----------------------------------------------------------------------------
Builds ==
  \/ \E t \in DOMAIN Blocks :
       /\ t = terrain
       /\ \E r \in 2..(Rows - Blocks[t].margin), c \in 2..(Cols - Blocks[t].margin),
             h \in Blocks[t].heights :
            \/ \E widths \in [0..(h - 1) -> Blocks[t].widths] : PlaceBlock(r, c, widths)
            \/ \E w \in Blocks[t].widths, side \in 0..3 : PlaceHouse(r, c, h, w, side)
  \/ \E r \in 2..(Rows - 3), c \in 2..(Cols - 3) : StartWalk(r, c)
  \/ \E d \in {<<0, 1>>, <<0, -1>>, <<1, 0>>, <<-1, 0>>} : Walk(d[1], d[2])
  \/ ClearCorner

Moves == \E dx \in (-Step)..Step, dy \in (-Step)..Step : Move(dx, dy)

Next ==
  \/ Builds
  \/ \E x \in Spawns, y \in Spawns : SpawnPlayer(x, y)
  \/ \E k \in Kind \ {"player"}, t \in Interior : SpawnOther(k, t[1], t[2])
  \/ Moves

Spec == Init /\ [][Next]_vars
-----------------------------------------------------------------------------
(* Properties *)

\* Every variable has its type: no wall is written outside the map.
TypeOK ==
  /\ terrain \in DOMAIN Blocks \cup {"volcano"} /\ stage \in {"build", "spawn", "play"}
  /\ walls \subseteq Grid /\ walker \in {<<>>} \cup (Int \X Int) /\ work \in 0..MaxWork
  /\ body \in {Nothing} \cup [kind : Kind, x : Int, y : Int]
  /\ body = Nothing <=> stage # "play"

\* The map is closed: no door, no walk through the lava and no clearing opens a
\* tile of its border.
BorderIntact == Border \subseteq walls

\* Nobody is ever in a wall, from where he starts on: he could not move again.
NobodyInAWall == stage = "play" => Fits(body.kind, body.x, body.y)

Low(a, b)  == IF a < b THEN a ELSE b
High(a, b) == IF a < b THEN b ELSE a

\* Nobody gets through a wall within a frame, though only the ends of a step are
\* looked at: the way along x is free, and from there the way along y.
NoTunnel ==
  [][stage = "play" =>
       LET h == Half[body.kind] IN
       /\ Free(Low(body.x, body'.x), body.y, High(body.x, body'.x), body.y, h)
       /\ Free(body'.x, Low(body.y, body'.y), body'.x, High(body.y, body'.y), h)]_vars
=============================================================================
