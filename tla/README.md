# WARZONE: models, checks and proofs

This directory describes, in TLA+, the program one directory up in `src/`: a
small multiplayer shooter played over UDP (`arena_game.py`), the Go relay
between players and a host (`edge/main.go`), and the Python networking code and
demo client around them (`python-client/`). TLC checks the modules on small
instances; TLAPS proves their safety properties for every value of the constants.

* [The system](#the-system)
* [Modules](#modules)
* [Runs](#runs)
* [Fairness](#fairness)
* [Proofs](#proofs)
* [Where code and documentation disagree](#where-code-and-documentation-disagree)
* [What is not modelled](#what-is-not-modelled)
* [Plan](#plan)

## The system

| Component | State | Operations | Talks to |
|---|---|---|---|
| Edge relay, `edge/main.go` | `sessions` (a `sync.Map` from client address to session), one host connection per session, armed timers | read a datagram, get or create the session, broadcast, pass on to the host after the delay; per session: read the host's answers, return them after the delay, drop the session on an error | game clients, demo clients, a host |
| Network client, `arena_game.py` 721-826, with `UdpTransport`, `net.py` 24-111 | `remote_states`, `remote_latencies`, `pending_actions` behind `_lock`; `_seq`; `_last_ping_seq`, `_last_ping_t`, `ping_ms`; the running flags and the socket | connect, send_state, drain_states, stop; handlers for PREDICTION and PONG; the ping loop | the game loop (same process, other thread), the edge |
| Game loop, `arena_game.py` 858-1046 | the player, game_over, its copies of crates and bullets, remote_players, net_tick, pending_shot | events, local update, drain, send every second frame, removal of silent players | the other players' processes, through PREDICTION messages only |
| Weapons, `arena_game.py` 383-482 | the weapons carried, their ammunition, the one in hand, the cooldown | give, switch, shoot, reload | game loop, bullets |
| Bullets and enemies, 336-362, 568-611, 945-994 | positions, life, hp, kills | update, collisions, victory | game loop |
| Map, 166-255 and 830-853 | the tile grid | generate, wall tests, spawning | everything that moves |
| Edge choice, `net.py` 114-164, `client.py` 62-121 | `_seq`, the socket and what is buffered in it, the results so far | discover, ping each endpoint, choose, register | main server, edges |
| Demo loops, `client.py` 124-248 | x, y, tick; the running flags and the socket | send loop, on_prediction, on_rollback, stop | edge |
| Launcher, `run_clients.py` | the list of clients it started | start all, wait, stop all | demo clients, by signals |

There is no server that owns the game. Every process simulates its own player
and its own copies of the crates and bullets, and tells the others what happened
in PREDICTION messages, which carry the sender's state and at most one action.
The relay sends every datagram to every client it knows but the one it comes from,
and the datagram's session passes it on to the host; UDP loses, delays and
reorders.

What is hard here:

* goroutines of the relay share the session map: readers delete keys while the
  main loop looks up, dials, stores and walks the map; timers use sessions that
  may be gone;
* three threads of a game process share the network client, only part of it
  under a lock; stop closes a socket two threads may be using;
* the players' copies are kept together by messages that may be lost, late,
  repeated or in another order; a bullet is simulated by its shooter and by its
  victim; sends happen every second frame, in frames split by receives;
* requests and answers of the demo client share one socket with everything
  else, one read per request, with timeouts and retries;
* a demo client ends by a SIGINT that may find its main thread anywhere, with
  two joins of at most a second each, while its launcher waits two seconds and
  kills; Ctrl+C reaches launcher and clients at once, and may come again;
* within a frame, bullets and enemies meet in nested loops that change what the
  later rounds see: who lives, which bullet flies on, the kills so far;
* the walls hold by numbers in different places of the code: how far the corner
  is cleared and where players start, the cap of a frame's time and the width of
  a tile, blocks and doors clipped at the border.

What makes each component correct:

* the relay: a session in the map is live and its client's own, one per client;
  the fan-out reaches everyone in order; an answer goes to the client that
  asked; nothing is lost but by an error of the host's socket; failed sessions go;
* the network client: a drain is atomic, gives each action once and never before
  its state; the latency shown is no lie; lock and threads cannot hang;
* the game: a shot hurts as often as the protocol means it to and never its
  owner; views never show a player weaker than he is; a crate taken stays taken;
  the end of a game is an end; players who left disappear; shots reach the others;
* the edge choice: a sample is the round trip of its own PING to its own
  endpoint; a slower endpoint never wins; the choice ends;
* the demo clients and their launcher: whoever was started is stopped, and in
  good order unless somebody is impatient; the shutdown ends;
* the fight: each death counts once, so that victory comes when and only when
  the last enemy is dead; no change of weapons beats the cooldown;
* the map: its border is closed; nobody starts in a wall, gets into one or
  through one.

`PROJECT.json` lists, under `hazards`, each place in the code where one of these
can go wrong, with the properties that watch it.

## Modules

| Module | What it is |
|---|---|
| `RelayService` | abstract: what the relay promises its clients, in terms of datagrams read, sent, passed on and answered |
| `EdgeRelay` | `edge/main.go`, one action per step of a goroutine that touches shared state; implements `RelayService` |
| `EdgeRelayProofs` | theorems about `EdgeRelay` |
| `Mailbox` | abstract: predictions go in one at a time, a drain takes all at once |
| `NetClient` | `NetworkClient` over `UdpTransport`, one action per statement that touches shared state; implements `Mailbox` |
| `NetClientProofs` | theorems about `NetClient` |
| `Arena` | the game loop of every player, and the messages between them |
| `ArenaProofs` | theorems about `Arena` |
| `EdgeChoice` | discovery, pings and choice of the demo client |
| `EdgeChoiceProofs` | theorems about `EdgeChoice` |
| `DemoClient` | the demo client after its registration: main thread, send loop, receiver, and how they end |
| `Launcher` | `run_clients.py`, composed with the `DemoClient` processes it starts |
| `LauncherProofs` | theorems about `Launcher` |
| `Battle` | weapons, shots and what they do to the enemies, of one player |
| `BattleProofs` | theorems about `Battle` |
| `Terrain` | the map generator, the wall tests, spawning and movement |
| `TerrainProofs` | theorems about `Terrain` |
| `OrderLemmas` | least and greatest of a set of numbers, and the k-th of a list, for the proofs |
| `MCEdgeRelay`, `MCNetClient`, `MCArena`, `MCEdgeChoice`, `MCLauncher`, `MCBattle`, `MCTerrain` | the small sets of the instances TLC checks |

Operators whose names begin with `Faulty` are variants of the operator next to
them with a plausible bug. Nothing uses them but runs that check whether a
property would notice the bug.

### EdgeRelay

The main loop's program counter `pc` is `read` (`ReadFromUDP`), `load` and
`store` (the two accesses of `getOrCreateSession`), `range` (the broadcast, one
client a step, since `sync.Map.Range` is no snapshot). A session's reader goes
from `reading` over `failed` and `deleted` to `closed`. `AfterFunc` timers are
members of two sets. When the dial fails there is no session, but
the broadcast and the timer go on (`BroadcastReachesAll` looks at the main loop's
next read too). The host, which is a program like `dummy_server.py` or
`test_server.py`, may stop and start again; what is written to it while it is
down may come back as an error on the session's socket (`icmp`), which the next
read or write of that socket reports. Datagrams are numbers in the order they
were read.

### NetClient

The game thread, the receiver and the pinger have a program counter each, and
`lock` names the holder of `_lock`. A prediction is its number, which stands for
its payload and for its latency, so that mixing those of two predictions shows.
The network delivers predictions, PONGs to any PING that left, and datagrams
that do not decode. The refinement reads the mailbox from the middle of the
receiver's critical section: a prediction is in the mailbox from the moment its
state is stored, its action included.

### Arena

A process is `off`, or at one of the two points of a frame at which it can be
seen from outside: `events`, before the key presses and the local update, and
`network`, before the drain. `PickUp` is the E key, `Fight` lines 936-994,
`Network` lines 996-1046, `Restart` the R key of a finished game, `Quit` ESC.
Positions are left out, so which bullet meets whom is a choice of `Fight`; what
follows from the meeting is not. One shot stands for one bullet and one point of
health. The network client's drain is one step, which `NetClient` justifies.

`boxStates` is never emptied, as `drain_states` copies `remote_states` and
clears only the actions; a player is therefore removed only in a frame that takes
five seconds by itself, which is the set `stale` of `Network`.

The death notice (`{"type": "dead"}`) is a message without an action, because no
receiver acts on it; it takes the place of that frame's shot.

### EdgeChoice

One thread and one receive buffer. Answers to any request sent so far may arrive
at any time, never, or several times, and other clients' datagrams arrive
through a relay, which never returns one to its sender (`Answers`). Each request makes one read, which takes the first datagram of
the buffer or times out when it is empty. Round trips are a choice among a few
values; the median is doubled to stay in the integers, and defined by what sorting does,
as the k-th round trip in ascending order (`Kth`). The sort is stable, so
the first of the best endpoints is chosen, and one REGISTER goes to it before the
loops start; nothing waits for an answer to that one.

### DemoClient and Launcher

Of each client process the model keeps where its three threads are, the flags
and the socket they share, and the signals sent and not yet handled. A SIGINT
becomes a `KeyboardInterrupt` at whatever point the main thread is: in the sleep
of `main` it is caught and leads to `stop`, anywhere else, in `stop` too, it ends
the process. Each of the two joins returns when the thread has ended or gives up,
which the history variable `overdue` remembers. `Launcher` extends `DemoClient`
and adds the launcher's own steps: `Popen` and the append to `procs` are two, so
that Ctrl+C can come between them; `CtrlCInPopen` is the case in which it comes
inside `Popen` and the exception is raised when the new process already runs.
`Pressed` sends SIGINT to every process of the group.

### Battle

One player and the enemies that his process simulates. `Update` is the first
half of a frame (time, the shot, bullets that end, bullets that hit the player);
then the bullets meet the enemies one by one, as lines 961-978 do, with one action
per kind of bullet: `Spend`, `Pierce`, `GoThrough` (rail) and `Explode`; `EndFrame`
is the rest of it, with what the network brings. A frame is therefore many steps,
since the count of the kills depends on the order of the meetings. `rest` is a
history variable: how long ago the last shot was, and how long it has to be.
Indices begin at 1, so a weapon's number is its slot.

### Terrain

`terrain` is chosen at the start and one module does them all: blocks (forest,
desert, snow and the default differ only in the constants `Blocks`), houses with
doors (urban), a walk through lava (volcano), then the clearing of the corner. The
generator may stop after any number of blocks, which includes the number the code
makes. What moves is one body: bodies do not collide with each other. Places are
integers, as `pygame.Rect` truncates them before the test. `Free` is
`rect_hits_wall` of a box stretched over the way of a step, `Fits` of the body
itself.

## Runs

| Run | Instance | Question |
|---|---|---|
| `edge` | 2 clients, 2 sessions, 3 datagrams | all properties of the relay, that it implements `RelayService`, and that every datagram and every failed session is dealt with |
| `net_client` | 2 players, 2 predictions, 5 sequence numbers | all properties of the network client, and that it implements `Mailbox` |
| `net_rtt` | 1 prediction | violated: the latency is that of its own PING |
| `arena_combat` | 2 players, health 2, 1 shot, 2 messages under way, 2 starts | damage, views |
| `arena_crates` | 2 players, health 1, 1 crate, AI enemies, 2 messages under way, 3 starts | crates, the end of a game, restarts |
| `arena_shots` | 2 players, shots of both kinds | violated: every shot is networked |
| `arena_stale` | 2 players, no shots | violated: players who left disappear |
| `choice` | a relay and a direct endpoint, lists of none, of both and of one twice, 2 attempts, 2 rounds, a buffer of 3 | samples, choice, termination |
| `choice_wait` | the same without foreign traffic | violated: a PING waits for its PONG |
| `launch` | 2 clients, Ctrl+C twice | how clients end, and that the shutdown stops all and ends |
| `battle` | 2 enemies with 2 points of health, a weapon of each special, 2 crates, 2 bullets | kills, victory, cooldown, what the player holds |
| `terrain` | a map of 6 by 7 tiles of 4 pixels, 2 blocks or steps of the walk, steps of 2 pixels | the border, walls and bodies |

What the properties say stands in front of each of them. Why the bounds suffice:

* Relay: three datagrams give one in the main loop while two others sit in
  timers; with two sessions a client's session can fail and be replaced, or two
  clients be served at once, and a third dial fails. Sessions are never reused,
  so the bound on them bounds the failures. There is no symmetry in the run,
  since it has liveness; its safety properties are proved for every number of
  clients, sessions and datagrams.
* Network client: two predictions and two players give a prediction stored while
  the one before is drained, of the same or of another player. Connecting draws
  two sequence numbers, so five leave three for PINGs, enough for a late PONG
  across two of them.
* Arena: a shot can hurt twice, by the bullet and by the report, so health is 2
  where that is checked and the player survives the first. Two messages under
  way can overtake each other; more of them wait for room. `arena_crates` gives
  up shots to allow a player two lives next to another's. The property about
  damage exempts shots that go through what they hit, so `arena_combat` fires
  plain ones. `Copies` is 1 in the runs; a relay in front of another relay would
  make it 2.
* Edge choice: two endpoints of two rounds have answers left over from the round
  before and from the endpoint before; a buffer of three holds another client's
  message, a late PONG and the answer at once. Two attempts give one retry. The list that names
  one endpoint twice is one the main server may send: both places have results.
* Launcher: with two clients one is signalled while the other still runs, or
  while it is started; the first Ctrl+C ends the launcher's wait, the second its
  shutdown.
* Battle: with two enemies an explosion has somebody around, and a bullet that
  goes on has somebody to go on to; with two points of health the enemies survive
  the weak weapons once. Two bullets in one frame hit the same enemy. The rates
  are of one and two frames, so that there is a difference to keep.
* Terrain: the map is the smallest with room for a house that does not fit, a
  cleared corner and something beyond it; two blocks overlap, or the walk leaves
  the map. A step is half a tile, so only a tile narrower than a step, which the
  assumption excludes, could be jumped.

Deadlock is checked for the relay. The other systems may stop: a process that
quit, a client that registered or raised, a run that used up its bounds.

Every property of a passing run has a mutant in `PROJECT.json`: a change of a
modelled definition that the property catches under that very run.

## Fairness

* Relay (`FairSpec` of `EdgeRelay`): weak fairness of the main loop, of each
  reader and of each timer, which is what the Go scheduler and `AfterFunc` give.
  Nothing is assumed of the clients or of the host.
* Network client: weak fairness of each thread's own steps and strong fairness
  of taking `_lock`. Python's locks promise no order, but each side holds the
  lock for a few statements and then waits for a datagram or for the next frame,
  so the other gets it. Nothing is assumed of deliveries or of the player.
* Arena: weak fairness of a process's frames (only for `arena_stale`). Nothing
  is assumed of the network or of the players' keys.
* Launcher: weak fairness of the launcher's shutdown, whose only wait is bounded
  by two seconds, and of each step with which a client's main thread ends: a
  pending signal is handled, a join returns after its second. The loops may stand
  still for ever, and nobody has to press Ctrl+C.
* Edge choice: weak fairness of the client's thread: `recvfrom` returns at the
  latest by its timeout.

## Proofs

All theorems hold for every value of the constants that satisfies the `ASSUME`
of the module (`EdgeAssumption`, `NetAssumption`, `ArenaAssumption`,
`ChoiceAssumption`, `DemoAssumption` and `LauncherAssumption`,
`BattleAssumption`, `TerrainAssumption`), in particular for any number of
clients, sessions, players, endpoints, shots and messages, any table of weapons
and any size of map. Every invariant, action property and refinement that a
passing run checks is a theorem; `PROJECT.json` lists them. What is left to TLC
stands at the end of this section.

`EdgeRelayProofs`. `TypeOK` is inductive. For the session table it is not enough
to know that sessions in the map are live: the main loop dials, starts the
reader and only then stores, and a reader deletes by key. `SessionInv` adds that
a served session is in the map or is the one about to be stored, that the
session about to be stored has written nothing yet, so its socket cannot have
failed, and that a session not yet allocated appears nowhere; from it follow
`SessionTableLive`, `OneSessionPerClient` and, for the step that deletes,
`EvictsOwnSession`. `FanoutInv` adds that nothing beyond the current datagram was
sent, `RouteInv` that timers, host and inbox keep a datagram with its sender,
`LossInv` that every datagram is in the main loop, in a timer, written, or lost
for a reason. Together they give the step simulation of `RelayRefines`. In
`RelayService` what was written is a set, which a second write of a datagram
would not change; `PassedOnOnce` excludes it, from `OneTimerEach`: a datagram has
a timer only until it is written or lost, and never two.

`NetClientProofs`. `TypeOK` contains that `_lock` is held exactly by the thread
inside its block, which makes it inductive. `ViewInv` says that what the game has
copied so far under the lock is still current, that state and latency belong
together outside the receiver's block, and that queued actions are not newer
than their player's state. `DrainIsConsistent` follows; `MailboxRefines` maps
the store of a state to the mailbox's put and the clear at the end of the drain
to its take, everything else to a stutter. `PingInv` is about the unlocked ping:
a reading always pairs a PING with a start time of that PING or a later one.

`ArenaProofs`. `Typed` is `TypeOK` with a weaker bound on the copies of a bullet,
and it is inductive alone. `PastInv` says that what is known of a player, under
way, in a network client or on a screen, is a state he had: health goes only
down within a life, and a new life has a higher number, so no order of arrival
can show him weaker than he is (`NeverShownWeaker`). `TakenCratesAreGone` needs
what a drain does with its actions one after the other, which is a fold, and
`OverMeansFrozen` that the second half of the loop is all that would change a
finished game. `ShotsHurtBounded` is the long one: it keeps a budget
of each shot and each victim (`Budget` in `ShotInv`). What the shot has done to
him, the announcements and reports of it under way or in his network client, and
the bullets of it in his and in its owner's process, each weighted by what it
may still do, are at most two for each copy of a message. A lost message spends
of it, a step that sends spends the owner's bullet, a step that receives turns a
message into a bullet or into damage. `ActsKnown` says that only the owner of a
shot tells of it. The bound on the bullets that `TypeOK` has comes out of the
same budget. The lemmas underneath count the messages of a set that carry an act
and what a drain hands over of them.

`EdgeChoiceProofs`. That samples are an endpoint's own
needs the whole path of an answer: `SampleInv` says that a PONG in the buffer
names a PING that was sent and comes from where that went, that the PING waited
for is the last request and went to the endpoint whose turn it is, and that no
sample has its number yet. `SamplesOwn` follows: the comparison of the seq is
enough, though one socket serves all endpoints and nothing empties its buffer.
`ChoiceIsNeverSlower` first shows that the median and the best of the results
exist: `Kth` chooses an element, for every list of round trips (`KthElement` of
`OrderLemmas`, drawn from the well-foundedness of finite sets, as no induction
rule can be applied), and the comparisons that end with the first of the best
are among finitely many. An endpoint without samples counts as `Infinite`, which
exceeds every median, so it is chosen only when no other has any. The theorem speaks of the place in the list, not of the
endpoint: the list is the main server's, and one that names an endpoint twice
would make a statement about endpoints ambiguous. `Counted` is for `TypeOK`, that
the requests sent are within `MaxSent`: those sent are the attempts, the full
rounds of the endpoints behind and those of the current one, with the request
waited for.

`LauncherProofs`. The invariant joins three views: `Process` (a client's threads
and its socket), `Progress` (the launcher and its list) and `Signals`, which says
that those the launcher is done with are gone or killed, and that, as long as
Ctrl+C was not pressed, only those it came to have a SIGINT, and none that is in
`stop` has another one waiting. `OneSigint` is about the steps from there.

`BattleProofs`. `DeathsAreCounted`: a meeting adds to `kills` the number of those
it kills, who were alive, so they are disjoint from those dead before; for an
explosion those around and the one hit are disjoint too. `EndsWhenDecided` rests on
it: `kills >= total` and "no enemy lives" are the same only because the count is
right. `HandsCorrect` is the part of the types the cooldown needs. `Placed` is the
part about the two loops: the place of the meeting is one of the list's, since
bullets that end are only marked, and the list is made anew between frames, of
those left (`LeftIsFlying`, by `KthElement` again).

`TerrainProofs`. `BorderStays` needs that whatever is opened is clipped to the
interior. `PlacedStays` says that the corner is clear once bodies are placed, and
that the body fits where it is; that a player's box on a corner between four
tiles fits needs `2 * Half < Tile` and `Spawns` inside the clearing, and the
assumption records both. `NobodyTunnels` is about arithmetic: the tiles reached
on the way of a step are those reached at its ends (`SweepX`, `SweepY`), because
the step is shorter than a tile.

### The safe half of liveness

A liveness property can fail because a step is taken back for ever, because what
must act waits for something that is not to come, or because the scheduler is
unfair. The first two are no matter of fairness, and for four of the properties
they are theorems:

| Theorem | Of | What it shows |
|---|---|---|
| `RunIsFinite` | `RunEnds` | `ToGo`, the requests left and the answer waited for, falls with every step of the client; no datagram raises it |
| `ThreadsRunOut` | `ThreadsEnd` | after `stop` nothing delays a thread, neither flag, socket nor lock; each has at most five steps, and neither adds to the other's |
| `ShutdownIsFinite` | `ShutdownEnds` | `LeftToStop` falls with every step of the `finally` block, and no other step raises it there |
| `EndsAreOwed` | `NobodyLeftBehind` | whoever is left in the list when the launcher is gone, and whoever runs when Ctrl+C is pressed, is stopping or has a signal pending, stays so until it ends, and the steps of a main thread are counted down |

### What is left to TLC

* The liveness properties themselves: `EveryDatagramSettles`,
  `FailedSessionEvicted`, `LockIsGranted`, `ThreadsEnd`, `RunEnds`,
  `ShutdownEnds`, `NobodyLeftBehind`. TLAPS treats neither `ENABLED` nor the
  weak and strong fairness defined by it.
* The four disagreements below: a counterexample is TLC's to find.

## Where code and documentation disagree

Each of these is a run that TLC ends with a counterexample.

* `net_rtt`: PROTOCOL.md:259 defines the round trip from the PING's own start.
  The receiver can take the start of the next PING, because number and start are
  written and read without the lock. The proved `NeverOverstated` says the error
  goes one way.
* `arena_shots`: arena_game.py:461 has the shots networked. Those fired in a
  frame that sends nothing, every second one, are forgotten.
* `arena_stale`: arena_game.py:1042 has silent players removed. Their last state
  is applied again every frame, which counts as hearing from them.
* `choice_wait`: net.py:124 has each PING wait for its PONG. It reads one
  datagram, whichever it is: a PONG that comes after its own timeout ends the round
  of the next PING, whose PONG then is the late one for the PING after it, and so
  on until a read times out. Another client's message does the same.

Seen while reading, and not runs of their own:
PROTOCOL.md:278 has the edge answer PINGs, but `main.go` never looks into a
datagram, so without a host a PING stays unanswered; net.py:62 and 71 keep the
receiver alive through handlers' exceptions, but a datagram that does not decode
raises outside that `try` and ends it; client.py:93 says that no EDGE_LIST was
received also when one was, which came after its attempt's timeout, was read by
the next attempt and dropped for its seq. `launch.sh` (88, 96) starts the relay with
name, delay and port, while `main.go` (49-54) takes name, host address and delay;
the relay it starts has no host it can dial and a port of its own choosing.

## What is not modelled

Drawing, HUD, fog, particles and camera read the game's state and change none of
it. The bytes of a message and its JSON appear only as "decodes or not".

In `Arena` and `Battle` positions are choices; `Terrain` has them, and only
there do walls matter. The three models of the game are not composed: their
product is beyond TLC, and they meet in few places (a bullet that exists, a body
that fits). When an enemy sees its player and fires, and the flight of a bullet,
are choices, and so are the velocities, of which only the bound counts. That the
same seed gives every process the same map is a property of Python's generator.

In `DemoClient` the position and the tick are left out: `on_rollback` writes x
and y without a lock while the send loop adds to them, what comes of it depends
on where the interpreter switches threads (from CPython 3.10 on not within
`self.x += dx * speed`), and no server in the repository sends a ROLLBACK. A
client started by a `Popen` that Ctrl+C interrupts has not got the SIGINT and may
run on for ever, unless Ctrl+C comes again; the model has it (`CtrlCInPopen`), and
`NobodyLeftBehind` is about the others: those in the list, and those that got a
SIGINT, which includes the one whose append Ctrl+C came before.

`test_server.py`, `test_client.py` and `dummy_server.py` appear as the
environment of the models. The makefile and `launch.sh` are sequences of
commands. The growth of `pending_actions` after the end of a game, and of the
relay's map while the host stays up, is a fact of the code that a bounded model
has nothing to add to.

## Plan

Done: all modules above with the proofs of their safety properties. What would
come next:

1. The steps that the abstract specifications leave open: `RelayService` with a
   promise to the host as well (which session asks, and that a timer's datagrams
   keep no order).
2. A relay in front of a relay, composed of two `EdgeRelay` instances, for the
   copies a client gets of one message; `Arena` with `Copies` 2 (the theorems
   hold for any number of copies).
3. The state machine of an enemy (patrol, chase, shoot) with its own cooldown, in
   `Battle`.

The number of runs is kept small; a run that shows a disagreement may give way to
a run about a new component.
