------------------------------- MODULE Arena -------------------------------
(***************************************************************************)
(* arena_game.py's main loop: the game every player runs for itself.       *)
(*                                                                         *)
(* There is no server that owns the game.  Each process keeps its own      *)
(* player, its own copy of the crates and of the bullets, and a view of    *)
(* every player it heard of.  What happened travels as PREDICTION          *)
(* messages: the sender's state and at most one action.  The relay sends   *)
(* each message to everyone but its sender, and UDP may delay, reorder or  *)
(* lose it; with an edge in front of a main relay a client gets two copies *)
(* of it.                                                                  *)
(*                                                                         *)
(* A frame of the loop is split where it meets the network: events, the    *)
(* local update, the drain of the network client, the send.  Positions are *)
(* left out: which bullet meets whom and which crate is near are choices.  *)
(* A shot stands for one of its bullets and costs a point of health.  The  *)
(* network client's threads are those of NetClient: its drain is one step. *)
(* Two messages of the same content under way are one: the other is lost.  *)
(***************************************************************************)
EXTENDS Naturals, Sequences, FiniteSets, Functions, SequencesExt

CONSTANTS
  Player,             \* the client ids
  Crate,              \* the indices of the crates
  MaxHp,              \* MAX_HP, in bullets
  Special,            \* specials fired: "none", or "rail" for those that go through
  Copies,             \* copies of a message that may reach a client
  MaxWire,            \* bound on the messages under way: what finds no room is lost
  MaxQueue,           \* bound on the actions waiting for a drain
  MaxShots,           \* bound on the shots fired
  MaxLives            \* bound on the starts of all processes together

ASSUME ArenaAssumption ==
  /\ IsFiniteSet(Player) /\ MaxHp \in Nat \ {0} /\ Copies \in Nat \ {0}
  /\ MaxWire \in Nat /\ MaxQueue \in Nat /\ MaxShots \in Nat /\ MaxLives \in Nat
  /\ Special \subseteq {"none", "rail"}

VARIABLES
  phase,              \* where the main loop of each process is, or "off"
  life,               \* how often it was started
  hp, gameOver,       \* player.hp, game_over
  oddFrame,           \* net_tick is odd
  pendingShot,        \* pending_shot: the shot of this frame, or 0
  crates,             \* the crates alive in the process
  bullets,            \* per shot, how many of its bullets fly in the process
  remote,             \* remote_players: the state last applied
  boxStates, boxActs, \* the network client's remote_states and pending_actions
  wire,               \* messages under way
  shots,              \* history: the shots fired: [by, special]
  hurt,               \* history: how often a shot cost a player a point
  heard               \* history: the crates a process was told are taken

own     == <<life, hp, gameOver, oddFrame>>
replica == <<crates, bullets, remote>>
box     == <<boxStates, boxActs>>
history == <<shots, hurt, heard>>
vars == <<phase, own, pendingShot, replica, box, wire, history>>

Shot == 1..MaxShots
NoBullets == [s \in Shot |-> 0]
NoOne     == <<>>
NoAct     == [type |-> "none"]
Shoot(s)  == [type |-> "shoot", shot |-> s]
Hit(q, s) == [type |-> "hit", target |-> q, shot |-> s]
Take(c)   == [type |-> "pickup", crate |-> c]

ActKind == {NoAct} \cup {Shoot(s) : s \in Shot} \cup {Take(c) : c \in Crate}
           \cup {Hit(q, s) : q \in Player, s \in Shot}

\* How many a function counts in all.
Total(count) == Cardinality(UNION {{x} \X (1..count[x]) : x \in DOMAIN count})

Init ==
  /\ phase = [p \in Player |-> "off"] /\ life = [p \in Player |-> 0]
  /\ hp = [p \in Player |-> MaxHp] /\ gameOver = [p \in Player |-> FALSE]
  /\ oddFrame = [p \in Player |-> FALSE] /\ pendingShot = [p \in Player |-> 0]
  /\ crates = [p \in Player |-> Crate] /\ bullets = [p \in Player |-> NoBullets]
  /\ remote = [p \in Player |-> NoOne]
  /\ boxStates = [p \in Player |-> NoOne] /\ boxActs = [p \in Player |-> <<>>]
  /\ wire = {} /\ shots = <<>>
  /\ hurt = [p \in Player |-> NoBullets]
  /\ heard = [p \in Player |-> {}]
-----------------------------------------------------------------------------
(* Messages *)

Connected == {q \in Player : phase[q] # "off"}

FaultyHearers(p) == Connected

\* The relay sends a message to everyone it knows but its sender, and
\* _on_prediction would pass over what the player said himself.
Hearers(p) == Connected \ {p}

\* What send_state puts on the wire: the state, now, and an action.
Messages(p, h, act) ==
  {[to |-> q, src |-> p, life |-> life[p], hp |-> h, act |-> act, copy |-> c] :
     q \in Hearers(p), c \in 1..Copies}

Sent(msgs) == IF Cardinality(wire \cup msgs) <= MaxWire THEN wire \cup msgs ELSE wire

\* What is known of players, after news of some of them.
Refreshed(known, news) ==
  [q \in DOMAIN known \cup DOMAIN news |-> IF q \in DOMAIN news THEN news[q] ELSE known[q]]

Deliver(m) ==
  /\ m \in wire /\ wire' = wire \ {m}
  /\ Len(boxActs[m.to]) < MaxQueue
  /\ boxStates' = [boxStates EXCEPT ![m.to] = Refreshed(@, [q \in {m.src} |-> [life |-> m.life, hp |-> m.hp]])]
  /\ boxActs' = IF m.act = NoAct THEN boxActs ELSE [boxActs EXCEPT ![m.to] = Append(@, m.act)]
  /\ heard' = IF m.act.type = "pickup"
              THEN [heard EXCEPT ![m.to] = @ \cup {m.act.crate}] ELSE heard
  /\ UNCHANGED <<phase, own, pendingShot, replica, shots, hurt>>

Lose(m) ==
  /\ m \in wire /\ wire' = wire \ {m}
  /\ UNCHANGED <<phase, own, pendingShot, replica, box, history>>
-----------------------------------------------------------------------------
(* Start and end of a process *)

\* What main() begins with: a new player, new crates, a new network client.
Blank(p) ==
  /\ oddFrame' = [oddFrame EXCEPT ![p] = FALSE] /\ gameOver' = [gameOver EXCEPT ![p] = FALSE]
  /\ pendingShot' = [pendingShot EXCEPT ![p] = 0]
  /\ crates' = [crates EXCEPT ![p] = Crate] /\ bullets' = [bullets EXCEPT ![p] = NoBullets]
  /\ remote' = [remote EXCEPT ![p] = NoOne]
  /\ boxStates' = [boxStates EXCEPT ![p] = NoOne] /\ boxActs' = [boxActs EXCEPT ![p] = <<>>]
  /\ wire' = {m \in wire : m.to # p}
  /\ heard' = [heard EXCEPT ![p] = {}]
  /\ UNCHANGED <<shots, hurt>>

NewLife(p) ==
  /\ Total(life) < MaxLives /\ life' = [life EXCEPT ![p] = @ + 1]
  /\ hp' = [hp EXCEPT ![p] = MaxHp]
  /\ Blank(p)

Start(p) == phase[p] = "off" /\ phase' = [phase EXCEPT ![p] = "events"] /\ NewLife(p)

\* R after the game is over: stop, and main() again under the same client id.
Restart(p) == phase[p] = "events" /\ gameOver[p] /\ UNCHANGED phase /\ NewLife(p)

\* ESC or the window closed: nothing of the process remains.
Quit(p) ==
  /\ phase[p] = "events" /\ phase' = [phase EXCEPT ![p] = "off"]
  /\ Blank(p) /\ UNCHANGED <<life, hp>>
-----------------------------------------------------------------------------
(* A frame *)

At(p, ph)  == phase[p] = ph
Goto(p, ph) == phase' = [phase EXCEPT ![p] = ph]

FaultyPlaying(p) == TRUE

\* Nothing below happens once the game is over.
Playing(p) == ~gameOver[p]

\* E near a crate.
PickUp(p, c) ==
  /\ At(p, "events") /\ Playing(p) /\ c \in crates[p]
  /\ crates' = [crates EXCEPT ![p] = @ \ {c}]
  /\ wire' = Sent(Messages(p, hp[p], Take(c)))
  /\ heard' = [heard EXCEPT ![p] = @ \cup {c}]
  /\ UNCHANGED <<phase, own, pendingShot, bullets, remote, box, shots, hurt>>

FaultyTakeHit(h, n) == h - n

\* take_hit n times: never below zero.
TakeHit(h, n) == IF n < h THEN h - n ELSE 0

\* The shots and bullets after the player fired, or held fire.
ShotsAfter(p, fire)   == IF fire \in Special THEN Append(shots, [by |-> p, special |-> fire]) ELSE shots
BulletsAfter(p, fire) == IF fire \in Special THEN [bullets[p] EXCEPT ![Len(shots) + 1] = 1] ELSE bullets[p]

InFlight(b)  == {s \in Shot : b[s] > 0}

FaultyLeft(b, spent, hits) ==
  [s \in Shot |-> IF s \in DOMAIN spent /\ s \notin DOMAIN hits THEN b[s] - spent[s] ELSE b[s]]

\* How many bullets of each shot come to their end in a frame: by the wall they
\* fly into, of age, or by what they meet.
Endings(fly) == [fly -> 0..Copies]

\* The bullets left of each shot.
Left(b, spent, hits) == [s \in Shot |-> IF s \in DOMAIN spent THEN b[s] - spent[s] ELSE b[s]]

Through(fired, s) == fired[s].special = "rail"
Targets(p) == {q \in DOMAIN remote[p] : remote[p][q].hp > 0}

FaultySeenAfterHits(p, meets) ==
  [q \in DOMAIN remote[p] |->
     IF \E s \in DOMAIN meets : meets[s] = q
     THEN [remote[p][q] EXCEPT !.hp = TakeHit(@, 1)] ELSE remote[p][q]]

\* The shooter's view of a player it hits stays as it is: that player's own
\* process takes the hit.
SeenAfterHits(p, meets) == remote[p]

\* The player may fire, and then the bullets move.  Those of others, and an
\* enemy's, hurt the player they meet.  A local bullet still alive that meets
\* another player's image is reported to everyone, each once a frame, and spent
\* unless it goes through.  The last enemy may have died.
Fight(p, fire, spent, hits, enemy, meets, victory) ==
  LET fired == ShotsAfter(p, fire)
      b     == BulletsAfter(p, fire)
      left  == Left(b, spent, hits) IN
  /\ At(p, "events") /\ Playing(p) /\ Goto(p, "network")
  /\ \A s \in DOMAIN spent : spent[s] <= b[s]
  /\ \A s \in DOMAIN hits : fired[s].by # p /\ hits[s] <= spent[s]
  /\ \A s \in DOMAIN meets : fired[s].by = p /\ left[s] > 0
  /\ shots' = fired
  /\ pendingShot' = [pendingShot EXCEPT ![p] = IF fire \in Special THEN Len(fired) ELSE 0]
  /\ bullets' = [bullets EXCEPT ![p] =
       [s \in Shot |-> IF s \in DOMAIN meets /\ ~Through(fired, s) THEN left[s] - 1 ELSE left[s]]]
  /\ hp' = [hp EXCEPT ![p] = TakeHit(@, Total(hits) + enemy)]
  /\ gameOver' = [gameOver EXCEPT ![p] = hp'[p] = 0 \/ victory]
  /\ hurt' = [hurt EXCEPT ![p] =
       [s \in Shot |-> IF s \in DOMAIN hits THEN @[s] + hits[s] ELSE @[s]]]
  /\ wire' = Sent(UNION {Messages(p, hp'[p], Hit(meets[s], s)) : s \in DOMAIN meets})
  /\ remote' = [remote EXCEPT ![p] = SeenAfterHits(p, meets)]
  /\ UNCHANGED <<life, oddFrame, crates, box, heard>>

CountOf(acts, a) == Cardinality({i \in DOMAIN acts : acts[i] = a})

\* A crate can be taken from the list only where its index is in range: 0 is.
FaultyCratesAfter(p, acts) == {c \in crates[p] : c = 0 \/ CountOf(acts, Take(c)) = 0}

CratesAfter(p, acts) == {c \in crates[p] : CountOf(acts, Take(c)) = 0}

HitsOn(p, acts)  == Cardinality({i \in DOMAIN acts : acts[i].type = "hit" /\ acts[i].target = p})

\* The rest of the frame.  drain_states: the latest states replace the views and
\* the actions are applied in the order they came.  Every second frame the state
\* goes out with the shot of this frame; on some of those the player's death, an
\* action no receiver acts on, takes the shot's place.  Then players are removed
\* whose state was last applied 5 s ago, which takes a frame as long as that.
Network(p, act, stale) ==
  LET acts == boxActs[p] IN
  /\ At(p, "network") /\ Goto(p, "events")
  /\ remote' = [remote EXCEPT ![p] = Restrict(Refreshed(@, boxStates[p]), DOMAIN boxStates[p] \ stale)]
  /\ bullets' = [bullets EXCEPT ![p] = [s \in Shot |-> @[s] + CountOf(acts, Shoot(s))]]
  /\ hp' = [hp EXCEPT ![p] = TakeHit(@, HitsOn(p, acts))]
  /\ gameOver' = [gameOver EXCEPT ![p] = @ \/ hp'[p] = 0]
  /\ crates' = [crates EXCEPT ![p] = CratesAfter(p, acts)]
  /\ boxActs' = [boxActs EXCEPT ![p] = <<>>]
  /\ oddFrame' = [oddFrame EXCEPT ![p] = ~@]
  /\ \/ act = IF pendingShot[p] = 0 THEN NoAct ELSE Shoot(pendingShot[p])
     \/ act = NoAct /\ hp'[p] = 0
  /\ wire' = IF oddFrame[p] THEN Sent(Messages(p, hp'[p], act)) ELSE wire
  /\ pendingShot' = [pendingShot EXCEPT ![p] = 0]
  /\ hurt' = [hurt EXCEPT ![p] = [s \in Shot |-> @[s] + CountOf(acts, Hit(p, s))]]
  /\ UNCHANGED <<life, boxStates, shots, heard>>
-----------------------------------------------------------------------------
Fights(p) ==
  \E fire \in {"hold"} \cup (IF Len(shots) < MaxShots THEN Special ELSE {}) :
    LET fly   == InFlight(BulletsAfter(p, fire))
        alien == {s \in fly : ShotsAfter(p, fire)[s].by # p} IN
    \E spent \in Endings(fly), hits \in [alien -> 0..Copies], enemy \in {0, 1},
       met \in SUBSET (fly \ alien), victory \in BOOLEAN :
      \E meets \in [met -> Targets(p)] : Fight(p, fire, spent, hits, enemy, meets, victory)

Networks(p) ==
  \E act \in ActKind, stale \in SUBSET DOMAIN boxStates[p] : Network(p, act, stale)

Frame(p) == (\E c \in Crate : PickUp(p, c)) \/ Fights(p) \/ Networks(p)

Next ==
  \/ \E p \in Player : Frame(p) \/ Start(p) \/ Restart(p) \/ Quit(p)
  \/ \E m \in wire : Deliver(m) \/ Lose(m)

Spec == Init /\ [][Next]_vars

\* A process that is not stopped goes on with its frames.
FairSpec == Spec /\ \A p \in Player : WF_vars(Frame(p))
-----------------------------------------------------------------------------
(* Properties *)

View  == [life : 1..MaxLives, hp : 0..MaxHp]
Views == UNION {[known -> View] : known \in SUBSET Player}

Message == [to : Player, src : Player, life : 1..MaxLives, hp : 0..MaxHp,
            act : ActKind, copy : 1..Copies]

\* Every variable has its type; the game of a player without health is over, and
\* the network client still knows everyone who is shown.
TypeOK ==
  /\ phase \in [Player -> {"off", "events", "network"}]
  /\ \A p \in Connected : life[p] > 0
  /\ life \in [Player -> 0..MaxLives] /\ hp \in [Player -> 0..MaxHp]
  /\ gameOver \in [Player -> BOOLEAN] /\ oddFrame \in [Player -> BOOLEAN]
  /\ \A p \in Connected : hp[p] = 0 => gameOver[p]
  /\ pendingShot \in [Player -> 0..MaxShots]
  /\ crates \in [Player -> SUBSET Crate]
  /\ bullets \in [Player -> [Shot -> 0..Copies]]
  /\ remote \in [Player -> Views] /\ boxStates \in [Player -> Views]
  /\ \A p \in Player : DOMAIN remote[p] \subseteq DOMAIN boxStates[p] /\ p \notin DOMAIN boxStates[p]
  /\ boxActs \in [Player -> Seq(ActKind)] /\ \A p \in Player : Len(boxActs[p]) <= MaxQueue
  /\ wire \subseteq Message /\ IsFiniteSet(wire) /\ Cardinality(wire) <= MaxWire
  /\ shots \in Seq([by : Player, special : Special]) /\ Len(shots) <= MaxShots
  /\ hurt \in [Player -> [Shot -> Nat]]
  /\ heard \in [Player -> SUBSET Crate]

\* A bullet never hurts the player who fired it: nobody tells him of his own shot,
\* or reports it to have hit him.  Unless it goes through, it hurts another player
\* at most twice for each copy of its messages: once as the bullet that flies in
\* the victim's process, once by the shooter's report.
HurtBounded ==
  \A s \in DOMAIN shots, p \in Player :
    /\ shots[s].by = p => hurt[p][s] = 0
    /\ ~Through(shots, s) => hurt[p][s] <= 2 * Copies

\* Nobody is shown weaker than he is: the health a process shows of a player is
\* one he had, in that life, however the messages were delayed and reordered.
NobodyShownWeaker ==
  \A p \in Player : \A q \in DOMAIN remote[p] :
    \/ remote[p][q].life < life[q]
    \/ remote[p][q].life = life[q] /\ remote[p][q].hp >= hp[q]

\* A crate that a process was told is taken, or whose owner it knows, is gone
\* there, or the news waits for the next drain.
TakenCratesGo ==
  \A p \in Player : \A c \in heard[p] :
    c \in crates[p] => CountOf(boxActs[p], Take(c)) > 0

\* When the game is over and the frame in which it ended is done, the process
\* changes nothing and sends nothing until it is started again.
GameOverFreezes ==
  [][\A p \in Player :
       gameOver[p] /\ At(p, "events") /\ life'[p] = life[p] /\ phase'[p] # "off" =>
         /\ phase'[p] = phase[p] /\ hp'[p] = hp[p] /\ crates'[p] = crates[p] /\ bullets'[p] = bullets[p]
         /\ remote'[p] = remote[p] /\ oddFrame'[p] = oddFrame[p]
         /\ \A m \in wire' \ wire : m.src # p]_vars

\* arena_game.py:461: "Returns list of shot dicts to be networked, or empty
\* list."  When nothing else is under way, the end of a frame in which a living
\* player fired sends something to those who hear him.
ShotsAreNetworked ==
  [][\A p \in Player :
       At(p, "network") /\ phase'[p] = "events" /\ pendingShot[p] # 0 /\ hp'[p] > 0
         /\ Hearers(p) # {} /\ wire = {} => wire' # {}]_vars

\* arena_game.py:1042: "Remove stale remote players (no update in 5s =
\* disconnected)".  A process that plays on stops showing a player who left.
LeaversAreRemoved ==
  \A p, q \in Player :
    At(q, "off") /\ q \in DOMAIN remote[p] ~>
      q \notin DOMAIN remote[p] \/ ~At(q, "off") \/ gameOver[p]
=============================================================================
