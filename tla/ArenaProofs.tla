---------------------------- MODULE ArenaProofs ----------------------------
(***************************************************************************)
(* What holds of the games that hear of each other only through messages,  *)
(* for any number of players, crates, shots and copies of a message, and   *)
(* whatever is delayed, reordered or lost.                                 *)
(***************************************************************************)
EXTENDS Arena, FiniteSetTheorems, SequenceTheorems, TLAPS

-----------------------------------------------------------------------------
(* The operators of the model *)

\* The assumption on the constants, as the steps below need it.
LEMMA Constants ==
  /\ IsFiniteSet(Player) /\ MaxHp \in Nat /\ MaxHp > 0 /\ Copies \in Nat /\ Copies > 0
  /\ MaxWire \in Nat /\ MaxQueue \in Nat /\ MaxShots \in Nat /\ MaxLives \in Nat
  /\ Special \subseteq {"none", "rail"}
BY ArenaAssumption

\* The actions a message carries are told apart by what they are about.
LEMMA ActsDiffer ==
  /\ \A s \in Shot : Shoot(s) \in ActKind /\ Shoot(s) # NoAct /\ Shoot(s).type = "shoot" /\ Shoot(s).shot = s
  /\ \A q \in Player, s \in Shot :
       /\ Hit(q, s) \in ActKind /\ Hit(q, s) # NoAct
       /\ Hit(q, s).type = "hit" /\ Hit(q, s).shot = s /\ Hit(q, s).target = q
  /\ \A c \in Crate : Take(c) \in ActKind /\ Take(c) # NoAct /\ Take(c).type = "pickup" /\ Take(c).crate = c
  /\ NoAct \in ActKind /\ NoAct.type = "none"
  /\ \A a \in ActKind :
       \/ a = NoAct
       \/ \E s \in Shot : a = Shoot(s)
       \/ \E c \in Crate : a = Take(c)
       \/ \E q \in Player, s \in Shot : a = Hit(q, s)
<1>1. NoAct \in ActKind /\ NoAct.type = "none"
  BY DEF ActKind, NoAct
<1>2. ASSUME NEW s \in Shot
      PROVE  Shoot(s) \in ActKind /\ Shoot(s).type = "shoot" /\ Shoot(s).shot = s
  BY DEF ActKind, Shoot
<1>3. ASSUME NEW q \in Player, NEW s \in Shot
      PROVE  Hit(q, s) \in ActKind /\ Hit(q, s).type = "hit" /\ Hit(q, s).shot = s /\ Hit(q, s).target = q
  BY DEF ActKind, Hit
<1>4. ASSUME NEW c \in Crate
      PROVE  Take(c) \in ActKind /\ Take(c).type = "pickup" /\ Take(c).crate = c
  BY DEF ActKind, Take
<1>5. \A a \in ActKind :
       \/ a = NoAct
       \/ \E s \in Shot : a = Shoot(s)
       \/ \E c \in Crate : a = Take(c)
       \/ \E q \in Player, s \in Shot : a = Hit(q, s)
  BY DEF ActKind
<1> QED
  BY <1>1, <1>2, <1>3, <1>4, <1>5

\* A count over finitely many things, each counted finitely often, is a number,
\* and at least that of each.
LEMMA TotalBounds ==
  ASSUME NEW D, IsFiniteSet(D), NEW n \in Nat, NEW count \in [D -> 0..n]
  PROVE  Total(count) \in Nat /\ \A x \in D : count[x] <= Total(count)
<1> DEFINE U == UNION {{x} \X (1..count[x]) : x \in DOMAIN count}
<1>1. IsFiniteSet(U)
  <2>1. IsFiniteSet(D \X (1..n))
    <3>1. IsFiniteSet(1..n)
      BY FS_Interval
    <3> QED
      BY <3>1, FS_Product
  <2>2. U \in SUBSET (D \X (1..n))
    OBVIOUS
  <2> QED
    BY <2>1, <2>2, FS_Subset
<1>2. ASSUME NEW x \in D PROVE count[x] <= Cardinality(U)
  <2>1. IsFiniteSet({x} \X (1..count[x])) /\ Cardinality({x} \X (1..count[x])) = count[x]
    <3>1. IsFiniteSet({x}) /\ Cardinality({x}) = 1
      BY FS_Singleton
    <3>2. IsFiniteSet(1..count[x]) /\ Cardinality(1..count[x]) = count[x]
      BY FS_Interval
    <3> QED
      BY <3>1, <3>2, FS_Product
  <2>2. {x} \X (1..count[x]) \in SUBSET U
    OBVIOUS
  <2> QED
    BY <1>1, <2>1, <2>2, FS_Subset
<1> QED
  BY <1>1, <1>2, FS_CardinalityType DEF Total

\* Health after some hits is health still, and not more.
LEMMA TakeHitBounds ==
  ASSUME NEW h \in 0..MaxHp, NEW n \in Nat
  PROVE  TakeHit(h, n) \in 0..MaxHp /\ TakeHit(h, n) <= h
BY Constants DEF TakeHit

\* Sets of places in a list are finite.
LEMMA SubsetsCount ==
  ASSUME NEW n \in Nat, NEW S \in SUBSET (1..n)
  PROVE  IsFiniteSet(S) /\ Cardinality(S) \in Nat
<1>1. IsFiniteSet(1..n)
  BY FS_Interval
<1> QED
  BY <1>1, FS_Subset, FS_CardinalityType

\* How often an action is in a list is a number; it is none in the empty list,
\* and one more once the action is appended.
LEMMA CountOfType ==
  ASSUME NEW acts \in Seq(ActKind), NEW a
  PROVE  CountOf(acts, a) \in Nat
<1>1. {i \in DOMAIN acts : acts[i] = a} \in SUBSET (1..Len(acts)) /\ Len(acts) \in Nat
  OBVIOUS
<1> QED
  BY <1>1, SubsetsCount DEF CountOf

LEMMA CountOfEmpty == \A a : CountOf(<<>>, a) = 0
<1> TAKE a
<1>1. {i \in DOMAIN <<>> : <<>>[i] = a} = {}
  OBVIOUS
<1> QED
  BY <1>1, FS_EmptySet DEF CountOf

LEMMA CountOfAppend ==
  ASSUME NEW acts \in Seq(ActKind), NEW a, NEW b
  PROVE  CountOf(Append(acts, b), a) = IF a = b THEN CountOf(acts, a) + 1 ELSE CountOf(acts, a)
<1> DEFINE S == {i \in DOMAIN acts : acts[i] = a}
           T == {i \in DOMAIN Append(acts, b) : Append(acts, b)[i] = a}
           last == Len(acts) + 1
<1>1. S \in SUBSET (1..Len(acts)) /\ Len(acts) \in Nat /\ last \notin S
  OBVIOUS
<1>2. IsFiniteSet(S)
  BY <1>1, SubsetsCount
<1>3. T = IF a = b THEN S \cup {last} ELSE S
  OBVIOUS
<1>4. Cardinality(S \cup {last}) = Cardinality(S) + 1
  BY <1>1, <1>2, FS_AddElement
<1> QED
  BY <1>3, <1>4 DEF CountOf

\* A list that does not hold the action counts none of it.
LEMMA CountOfAbsent ==
  ASSUME NEW acts \in Seq(ActKind), NEW a, \A i \in DOMAIN acts : acts[i] # a
  PROVE  CountOf(acts, a) = 0
<1>1. {i \in DOMAIN acts : acts[i] = a} = {}
  OBVIOUS
<1> QED
  BY <1>1, FS_EmptySet DEF CountOf

LEMMA HitsOnType ==
  ASSUME NEW acts \in Seq(ActKind), NEW p
  PROVE  HitsOn(p, acts) \in Nat
<1>1. {i \in DOMAIN acts : acts[i].type = "hit" /\ acts[i].target = p} \in SUBSET (1..Len(acts)) /\ Len(acts) \in Nat
  OBVIOUS
<1> QED
  BY <1>1, SubsetsCount DEF HitsOn
-----------------------------------------------------------------------------
(* Messages *)

\* The hit reports there can be are finitely many.
AllHits == {Hit(q, s) : q \in Player, s \in Shot}

LEMMA HitsAreFinite == IsFiniteSet(AllHits)
<1> DEFINE f == [a \in AllHits |-> <<a.target, a.shot>>]
<1>1. IsFiniteSet(Player \X Shot)
  <2>1. IsFiniteSet(Player) /\ IsFiniteSet(Shot)
    BY Constants, FS_Interval DEF Shot
  <2> QED
    BY <2>1, FS_Product
<1>2. f \in Injection(AllHits, Player \X Shot)
  <2>1. f \in [AllHits -> Player \X Shot]
    BY ActsDiffer DEF AllHits
  <2>2. ASSUME NEW a \in AllHits, NEW b \in AllHits, f[a] = f[b] PROVE a = b
    BY <2>2, ActsDiffer DEF AllHits
  <2> QED
    BY <2>1, <2>2 DEF Injection, IsInjective
<1> QED
  BY <1>1, <1>2, FS_Injection

\* What p sends in a step, with health h, as one of some actions: to others, with
\* his present life.
Says(p, h, acts) ==
  {m \in Message : m.src = p /\ m.to # p /\ m.life = life[p] /\ m.hp = h /\ m.act \in acts}

LEMMA SaysIsFinite ==
  ASSUME NEW p \in Player, NEW h, NEW acts, IsFiniteSet(acts)
  PROVE  IsFiniteSet(Says(p, h, acts))
<1> DEFINE S == Says(p, h, acts)
           T == (Player \X (1..Copies)) \X acts
           f == [m \in S |-> << <<m.to, m.copy>>, m.act>>]
<1>1. IsFiniteSet(T)
  <2>1. IsFiniteSet(Player) /\ IsFiniteSet(1..Copies)
    BY Constants, FS_Interval
  <2>2. IsFiniteSet(Player \X (1..Copies))
    BY <2>1, FS_Product
  <2> QED
    BY <2>2, FS_Product
<1>2. f \in Injection(S, T)
  <2>1. f \in [S -> T]
    BY DEF Says, Message
  <2>2. ASSUME NEW m \in S, NEW n \in S, f[m] = f[n] PROVE m = n
    BY <2>2 DEF Says, Message
  <2> QED
    BY <2>1, <2>2 DEF Injection, IsInjective
<1> HIDE DEF S, T, f
<1>3. IsFiniteSet(S)
  BY <1>1, <1>2, FS_Injection
<1> QED
  BY <1>3 DEF S

LEMMA MessagesAreSaid ==
  ASSUME NEW p \in Player, life[p] \in 1..MaxLives, NEW h \in 0..MaxHp, NEW act \in ActKind
  PROVE  Messages(p, h, act) \subseteq Says(p, h, {act})
BY DEF Messages, Says, Message, Hearers, Connected

\* What is under way after some messages were sent.
LEMMA SentBounds ==
  ASSUME wire \subseteq Message, IsFiniteSet(wire), Cardinality(wire) <= MaxWire,
         NEW msgs \in SUBSET Message, IsFiniteSet(msgs)
  PROVE  /\ wire \subseteq Sent(msgs) /\ Sent(msgs) \subseteq wire \cup msgs
         /\ Sent(msgs) \subseteq Message /\ IsFiniteSet(Sent(msgs)) /\ Cardinality(Sent(msgs)) <= MaxWire
<1>1. IsFiniteSet(wire \cup msgs)
  BY FS_Union
<1> QED
  BY <1>1 DEF Sent
-----------------------------------------------------------------------------
(* The types, part by part *)

OwnOK ==
  /\ phase \in [Player -> {"off", "events", "network"}]
  /\ life \in [Player -> 0..MaxLives] /\ hp \in [Player -> 0..MaxHp]
  /\ gameOver \in [Player -> BOOLEAN] /\ oddFrame \in [Player -> BOOLEAN]
  /\ pendingShot \in [Player -> 0..MaxShots]
  /\ \A p \in Player : phase[p] # "off" => life[p] > 0 /\ (hp[p] = 0 => gameOver[p])

ReplicaOK ==
  /\ crates \in [Player -> SUBSET Crate]
  /\ bullets \in [Player -> [Shot -> Nat]]
  /\ remote \in [Player -> Views] /\ boxStates \in [Player -> Views]
  /\ \A p \in Player : DOMAIN remote[p] \subseteq DOMAIN boxStates[p] /\ p \notin DOMAIN boxStates[p]

BoxOK ==
  boxActs \in [Player -> Seq(ActKind)] /\ \A p \in Player : Len(boxActs[p]) <= MaxQueue

WireOK ==
  wire \subseteq Message /\ IsFiniteSet(wire) /\ Cardinality(wire) <= MaxWire

HistoryOK ==
  /\ shots \in Seq([by : Player, special : Special]) /\ Len(shots) <= MaxShots
  /\ hurt \in [Player -> [Shot -> Nat]]
  /\ heard \in [Player -> SUBSET Crate]

\* The type invariant but for the bound on the bullets, which the counting below
\* gives; and that no message goes to its sender.
Typed == OwnOK /\ ReplicaOK /\ BoxOK /\ WireOK /\ HistoryOK /\ \A m \in wire : m.to # m.src

LEMMA TypedIsTypeOK == Typed /\ bullets \in [Player -> [Shot -> 0..Copies]] => TypeOK
BY DEF Typed, TypeOK, OwnOK, ReplicaOK, BoxOK, WireOK, HistoryOK, Connected

LEMMA TypedInit == Init => Typed
<1> SUFFICES ASSUME Init PROVE Typed
  OBVIOUS
<1> USE Constants DEF Init
<1>1. OwnOK
  BY DEF OwnOK
<1>2. NoOne \in Views
  <2>1. <<>> \in [{} -> View]
    OBVIOUS
  <2> QED
    BY <2>1 DEF NoOne, Views
<1>3. NoBullets \in [Shot -> Nat]
  BY DEF NoBullets
<1>4. ReplicaOK
  BY <1>2, <1>3 DEF ReplicaOK, NoOne
<1>5. BoxOK /\ HistoryOK
  BY <1>3 DEF BoxOK, HistoryOK
<1>6. WireOK /\ \A m \in wire : m.to # m.src
  BY FS_EmptySet DEF WireOK
<1> QED
  BY <1>1, <1>4, <1>5, <1>6 DEF Typed
-----------------------------------------------------------------------------
(* What a step of the game is given *)

\* The choices of a fight.
Fighting(p, fire, spent, hits, enemy, meets, victory) ==
  LET b   == BulletsAfter(p, fire)
      fly == InFlight(b) IN
  /\ Fight(p, fire, spent, hits, enemy, meets, victory)
  /\ fire \in Special \cup {"hold"} /\ (fire \in Special => Len(shots) < MaxShots)
  /\ spent \in [fly -> 0..Copies]
  /\ hits \in [{s \in fly : ShotsAfter(p, fire)[s].by # p} -> 0..Copies]
  /\ enemy \in {0, 1} /\ victory \in BOOLEAN
  /\ DOMAIN meets \subseteq fly /\ \A s \in DOMAIN meets : meets[s] \in Targets(p)

\* The steps of Next, with what they are given.
LEMMA Steps ==
  ASSUME Next
  PROVE  \/ \E p \in Player : \E c \in Crate : PickUp(p, c)
         \/ \E p \in Player : \E fire, spent, hits, enemy, meets, victory :
              Fighting(p, fire, spent, hits, enemy, meets, victory)
         \/ \E p \in Player : \E act \in ActKind : \E stale : Network(p, act, stale)
         \/ \E p \in Player : Start(p) \/ Restart(p)
         \/ \E p \in Player : Quit(p)
         \/ \E m \in wire : Deliver(m)
         \/ \E m \in wire : Lose(m)
<1>1. ASSUME NEW p \in Player, Fights(p)
      PROVE  \E fire, spent, hits, enemy, meets, victory :
               Fighting(p, fire, spent, hits, enemy, meets, victory)
  <2>1. PICK fire \in {"hold"} \cup (IF Len(shots) < MaxShots THEN Special ELSE {}) :
          LET fly   == InFlight(BulletsAfter(p, fire))
              alien == {s \in fly : ShotsAfter(p, fire)[s].by # p} IN
          \E spent \in Endings(fly), hits \in [alien -> 0..Copies], enemy \in {0, 1},
             met \in SUBSET (fly \ alien), victory \in BOOLEAN :
            \E meets \in [met -> Targets(p)] : Fight(p, fire, spent, hits, enemy, meets, victory)
    BY <1>1 DEF Fights
  <2> DEFINE fly   == InFlight(BulletsAfter(p, fire))
             alien == {s \in fly : ShotsAfter(p, fire)[s].by # p}
  <2>2. PICK spent \in Endings(fly), hits \in [alien -> 0..Copies], enemy \in {0, 1},
             met \in SUBSET (fly \ alien), victory \in BOOLEAN :
            \E meets \in [met -> Targets(p)] : Fight(p, fire, spent, hits, enemy, meets, victory)
    BY <2>1
  <2>3. PICK meets \in [met -> Targets(p)] : Fight(p, fire, spent, hits, enemy, meets, victory)
    BY <2>2
  <2>4. fire \in Special \cup {"hold"} /\ (fire \in Special => Len(shots) < MaxShots)
    <3>1. "hold" \notin Special
      BY Constants
    <3> QED
      BY <3>1
  <2>5. DOMAIN meets \subseteq fly /\ \A s \in DOMAIN meets : meets[s] \in Targets(p)
    OBVIOUS
  <2>6. Fighting(p, fire, spent, hits, enemy, meets, victory)
    BY <2>3, <2>4, <2>5 DEF Fighting, Endings
  <2> QED
    BY <2>6
<1>2. ASSUME NEW p \in Player, Networks(p)
      PROVE  \E act \in ActKind : \E stale : Network(p, act, stale)
  BY <1>2 DEF Networks
<1> QED
  BY <1>1, <1>2 DEF Next, Frame

\* The bullets and the shots a fight begins with.
LEMMA FiredTypes ==
  ASSUME Typed, NEW p \in Player, NEW fire, fire \in Special => Len(shots) < MaxShots
  PROVE  /\ BulletsAfter(p, fire) \in [Shot -> Nat]
         /\ ShotsAfter(p, fire) \in Seq([by : Player, special : Special])
         /\ Len(ShotsAfter(p, fire)) = (IF fire \in Special THEN Len(shots) + 1 ELSE Len(shots))
         /\ Len(ShotsAfter(p, fire)) <= MaxShots
         /\ fire \in Special =>
              /\ ShotsAfter(p, fire)[Len(shots) + 1] = [by |-> p, special |-> fire]
              /\ BulletsAfter(p, fire) = [bullets[p] EXCEPT ![Len(shots) + 1] = 1]
              /\ Len(shots) + 1 \in Shot
         /\ fire \notin Special => ShotsAfter(p, fire) = shots /\ BulletsAfter(p, fire) = bullets[p]
         /\ \A s \in DOMAIN shots : ShotsAfter(p, fire)[s] = shots[s]
<1> USE Constants DEF Typed, HistoryOK, ReplicaOK, Shot
<1>1. CASE fire \in Special
  <2>1. Len(shots) + 1 \in Shot /\ Len(shots) \in Nat
    BY <1>1
  <2>2. BulletsAfter(p, fire) = [bullets[p] EXCEPT ![Len(shots) + 1] = 1]
    BY <1>1 DEF BulletsAfter
  <2>3. BulletsAfter(p, fire) \in [Shot -> Nat]
    BY <2>1, <2>2
  <2>4. ShotsAfter(p, fire) = Append(shots, [by |-> p, special |-> fire])
    BY <1>1 DEF ShotsAfter
  <2>5. [by |-> p, special |-> fire] \in [by : Player, special : Special]
    BY <1>1
  <2> HIDE DEF Shot
  <2> QED
    BY <1>1, <2>1, <2>2, <2>3, <2>4, <2>5
<1>2. CASE fire \notin Special
  BY <1>2 DEF BulletsAfter, ShotsAfter
<1> QED
  BY <1>1, <1>2

\* What a fight leaves of the bullets, the health, the messages.
LEMMA FightTypes ==
  ASSUME Typed, NEW p \in Player, NEW fire, NEW spent, NEW hits, NEW enemy, NEW meets, NEW victory,
         Fighting(p, fire, spent, hits, enemy, meets, victory)
  PROVE  /\ phase[p] = "events" /\ ~gameOver[p]
         /\ Total(hits) + enemy \in Nat
         /\ hp' = [hp EXCEPT ![p] = TakeHit(@, Total(hits) + enemy)]
         /\ hp' \in [Player -> 0..MaxHp] /\ hp'[p] <= hp[p]
         /\ bullets' \in [Player -> [Shot -> Nat]]
         /\ hurt' \in [Player -> [Shot -> Nat]]
         /\ wire \subseteq wire'
         /\ \A m \in wire' \ wire :
              m \in Says(p, hp'[p], AllHits)
              /\ \E s \in DOMAIN meets : m.act = Hit(meets[s], s)
         /\ WireOK'
<1> DEFINE b    == BulletsAfter(p, fire)
           fly  == InFlight(b)
           left == Left(b, spent, hits)
           msgs == UNION {Messages(p, hp'[p], Hit(meets[s], s)) : s \in DOMAIN meets}
<1>1. b \in [Shot -> Nat]
  BY FiredTypes DEF Fighting
<1>2. phase[p] = "events" /\ ~gameOver[p] /\ life[p] \in 1..MaxLives
  <2>1. phase[p] = "events" /\ ~gameOver[p]
    BY DEF Fighting, Fight, At, Playing
  <2> QED
    BY <2>1, Constants DEF Typed, OwnOK
<1>3. fly \subseteq Shot /\ DOMAIN meets \subseteq Shot /\ DOMAIN spent = fly /\ DOMAIN hits \subseteq fly
  BY <1>1 DEF Fighting, InFlight
<1>4. \A s \in DOMAIN meets : meets[s] \in Player /\ meets[s] # p
  BY DEF Fighting, Targets, Typed, ReplicaOK, Views
<1>5. Total(hits) \in Nat
  <2>1. hits \in [DOMAIN hits -> 0..Copies]
    BY DEF Fighting
  <2>2. IsFiniteSet(DOMAIN hits)
    BY <1>3, Constants, SubsetsCount DEF Shot
  <2> QED
    BY <2>1, <2>2, Constants, TotalBounds
<1>6. Total(hits) + enemy \in Nat
  BY <1>5 DEF Fighting
<1>7. hp' = [hp EXCEPT ![p] = TakeHit(@, Total(hits) + enemy)]
  BY DEF Fighting, Fight
<1>8. hp' \in [Player -> 0..MaxHp] /\ hp'[p] <= hp[p]
  BY <1>6, <1>7, TakeHitBounds DEF Typed, OwnOK
<1>9. left \in [Shot -> Nat]
  <2>1. \A s \in DOMAIN spent : spent[s] <= b[s] /\ spent[s] \in 0..Copies
    BY DEF Fighting, Fight
  <2>2. left = [s \in Shot |-> IF s \in DOMAIN spent THEN b[s] - spent[s] ELSE b[s]]
    BY DEF Left
  <2> HIDE DEF b, left
  <2> QED
    BY <1>1, <2>1, <2>2, Constants
<1>10. bullets' \in [Player -> [Shot -> Nat]]
  <2>1. bullets' = [bullets EXCEPT ![p] =
           [s \in Shot |-> IF s \in DOMAIN meets /\ ~Through(ShotsAfter(p, fire), s) THEN left[s] - 1 ELSE left[s]]]
    BY DEF Fighting, Fight
  <2>2. \A s \in DOMAIN meets : left[s] > 0
    BY DEF Fighting, Fight
  <2> HIDE DEF left
  <2>3. [s \in Shot |-> IF s \in DOMAIN meets /\ ~Through(ShotsAfter(p, fire), s) THEN left[s] - 1 ELSE left[s]]
          \in [Shot -> Nat]
    BY <1>9, <2>2, Constants
  <2> QED
    BY <2>1, <2>3 DEF Typed, ReplicaOK
<1>11. hurt' \in [Player -> [Shot -> Nat]]
  <2>1. hurt' = [hurt EXCEPT ![p] = [s \in Shot |-> IF s \in DOMAIN hits THEN @[s] + hits[s] ELSE @[s]]]
    BY DEF Fighting, Fight
  <2>2. \A s \in DOMAIN hits : hits[s] \in Nat
    BY Constants DEF Fighting
  <2>3. [s \in Shot |-> IF s \in DOMAIN hits THEN hurt[p][s] + hits[s] ELSE hurt[p][s]] \in [Shot -> Nat]
    BY <2>2 DEF Typed, HistoryOK
  <2> QED
    BY <2>1, <2>3 DEF Typed, HistoryOK
<1>12. ASSUME NEW s \in DOMAIN meets
       PROVE  Messages(p, hp'[p], Hit(meets[s], s)) \subseteq Says(p, hp'[p], {Hit(meets[s], s)})
  BY <1>2, <1>3, <1>4, <1>8, ActsDiffer, MessagesAreSaid
<1>13. \A m \in msgs : m \in Says(p, hp'[p], AllHits) /\ \E s \in DOMAIN meets : m.act = Hit(meets[s], s)
  BY <1>3, <1>4, <1>12 DEF Says, AllHits
<1>14. msgs \in SUBSET Message /\ IsFiniteSet(msgs)
  <2>1. IsFiniteSet(Says(p, hp'[p], AllHits)) /\ Says(p, hp'[p], AllHits) \subseteq Message
    <3>1. IsFiniteSet(Says(p, hp'[p], AllHits))
      BY SaysIsFinite, HitsAreFinite
    <3> QED
      BY <3>1 DEF Says
  <2> HIDE DEF msgs
  <2> QED
    BY <1>13, <2>1, FS_Subset
<1>15. wire' = Sent(msgs)
  BY DEF Fighting, Fight
<1> HIDE DEF msgs
<1>16. /\ wire \subseteq Sent(msgs) /\ Sent(msgs) \subseteq wire \cup msgs
       /\ Sent(msgs) \subseteq Message /\ IsFiniteSet(Sent(msgs)) /\ Cardinality(Sent(msgs)) <= MaxWire
  BY <1>14, SentBounds DEF Typed, WireOK
<1> QED
  BY <1>2, <1>6, <1>7, <1>8, <1>10, <1>11, <1>13, <1>15, <1>16 DEF WireOK

\* So do the other two steps that send: a pick-up and the end of a frame.
LEMMA PickUpTypes ==
  ASSUME Typed, NEW p \in Player, NEW c \in Crate, PickUp(p, c)
  PROVE  /\ phase[p] = "events" /\ ~gameOver[p]
         /\ wire \subseteq wire' /\ \A m \in wire' \ wire : m \in Says(p, hp[p], {Take(c)})
         /\ WireOK'
<1>1. phase[p] = "events" /\ ~gameOver[p] /\ wire' = Sent(Messages(p, hp[p], Take(c)))
  BY DEF PickUp, At, Playing
<1>2. life[p] \in 1..MaxLives /\ hp[p] \in 0..MaxHp
  BY <1>1, Constants DEF Typed, OwnOK
<1>3. Messages(p, hp[p], Take(c)) \subseteq Says(p, hp[p], {Take(c)})
  BY <1>2, ActsDiffer, MessagesAreSaid
<1>4. IsFiniteSet(Says(p, hp[p], {Take(c)})) /\ Says(p, hp[p], {Take(c)}) \subseteq Message
  <2>1. IsFiniteSet({Take(c)})
    BY FS_Singleton
  <2> QED
    <3>1. IsFiniteSet(Says(p, hp[p], {Take(c)}))
      BY <2>1, SaysIsFinite
    <3> QED
      BY <3>1 DEF Says
<1>5. IsFiniteSet(Messages(p, hp[p], Take(c))) /\ Messages(p, hp[p], Take(c)) \in SUBSET Message
  BY <1>3, <1>4, FS_Subset
<1> QED
  BY <1>1, <1>3, <1>5, SentBounds DEF Typed, WireOK

LEMMA NetworkTypes ==
  ASSUME Typed, NEW p \in Player, NEW act \in ActKind, NEW stale, Network(p, act, stale)
  PROVE  /\ phase[p] = "network"
         /\ hp' \in [Player -> 0..MaxHp] /\ hp'[p] <= hp[p] /\ \A q \in Player \ {p} : hp'[q] = hp[q]
         /\ wire \subseteq wire' /\ \A m \in wire' \ wire : m \in Says(p, hp'[p], {act})
         /\ WireOK'
<1>1. phase[p] = "network" /\ hp' = [hp EXCEPT ![p] = TakeHit(@, HitsOn(p, boxActs[p]))]
  BY DEF Network, At
<1>2. HitsOn(p, boxActs[p]) \in Nat
  BY HitsOnType DEF Typed, BoxOK
<1>3. life[p] \in 1..MaxLives
  BY <1>1, Constants DEF Typed, OwnOK
<1>4. hp' \in [Player -> 0..MaxHp] /\ hp'[p] <= hp[p] /\ \A q \in Player \ {p} : hp'[q] = hp[q]
  BY <1>1, <1>2, TakeHitBounds DEF Typed, OwnOK
<1>5. Messages(p, hp'[p], act) \subseteq Says(p, hp'[p], {act})
  BY <1>3, <1>4, MessagesAreSaid
<1>6. IsFiniteSet(Messages(p, hp'[p], act)) /\ Messages(p, hp'[p], act) \in SUBSET Message
  <2>1. IsFiniteSet(Says(p, hp'[p], {act}))
    BY FS_Singleton, SaysIsFinite
  <2>2. Says(p, hp'[p], {act}) \subseteq Message
    BY DEF Says
  <2> QED
    BY <1>5, <2>1, <2>2, FS_Subset
<1>7. wire' \in {wire, Sent(Messages(p, hp'[p], act))}
  BY DEF Network
<1>8. CASE wire' = wire
  BY <1>1, <1>4, <1>8 DEF Typed, WireOK
<1>9. CASE wire' = Sent(Messages(p, hp'[p], act))
  <2>1. /\ wire \subseteq wire' /\ wire' \subseteq wire \cup Messages(p, hp'[p], act)
        /\ wire' \subseteq Message /\ IsFiniteSet(wire') /\ Cardinality(wire') <= MaxWire
    BY <1>6, <1>9, SentBounds DEF Typed, WireOK
  <2> QED
    BY <1>1, <1>4, <1>5, <2>1 DEF WireOK
<1> QED
  BY <1>7, <1>8, <1>9

\* Fewer messages are well typed too.
LEMMA FewerOnWire ==
  ASSUME Typed, wire' \subseteq wire
  PROVE  WireOK' /\ \A m \in wire' : m.to # m.src
<1>1. IsFiniteSet(wire') /\ Cardinality(wire') <= Cardinality(wire) /\ Cardinality(wire') \in Nat
  BY FS_Subset, FS_CardinalityType DEF Typed, WireOK
<1>2. Cardinality(wire) \in Nat
  BY FS_CardinalityType DEF Typed, WireOK
<1> QED
  BY <1>1, <1>2, Constants DEF Typed, WireOK

\* Views after news are views.
LEMMA ViewTypes ==
  /\ NoOne \in Views /\ DOMAIN NoOne = {}
  /\ \A v \in Views : DOMAIN v \subseteq Player /\ \A q \in DOMAIN v : v[q] \in View
  /\ \A v, w \in Views : Refreshed(v, w) \in Views
  /\ \A v \in Views : \A S \in SUBSET DOMAIN v : Restrict(v, S) \in Views
  /\ \A q \in Player, new \in View : [r \in {q} |-> new] \in Views
<1>1. NoOne \in Views /\ DOMAIN NoOne = {}
  <2>1. <<>> \in [{} -> View]
    OBVIOUS
  <2> QED
    BY <2>1 DEF NoOne, Views
<1>2. ASSUME NEW v \in Views
      PROVE  v \in [DOMAIN v -> View] /\ DOMAIN v \in SUBSET Player
  BY DEF Views
<1>3. ASSUME NEW known \in SUBSET Player, NEW v \in [known -> View]
      PROVE  v \in Views
  BY DEF Views
<1>4. ASSUME NEW v \in Views, NEW w \in Views
      PROVE  Refreshed(v, w) \in Views
  <2>1. Refreshed(v, w) \in [DOMAIN v \cup DOMAIN w -> View]
    BY <1>2 DEF Refreshed
  <2> QED
    BY <1>2, <1>3, <2>1
<1>5. ASSUME NEW v \in Views, NEW S \in SUBSET DOMAIN v
      PROVE  Restrict(v, S) \in Views
  <2>1. Restrict(v, S) \in [S -> View] /\ S \in SUBSET Player
    BY <1>2 DEF Restrict
  <2> QED
    BY <1>3, <2>1
<1>6. ASSUME NEW q \in Player, NEW new \in View
      PROVE  [r \in {q} |-> new] \in Views
  <2>1. [r \in {q} |-> new] \in [{q} -> View]
    OBVIOUS
  <2> QED
    BY <1>3, <2>1
<1> QED
  BY <1>1, <1>2, <1>4, <1>5, <1>6
-----------------------------------------------------------------------------
(* Every step keeps the types *)

\* A new start, or the end, of a process.
LEMMA BlankTypes ==
  ASSUME Typed, NEW p \in Player, Blank(p)
  PROVE  /\ ReplicaOK' /\ BoxOK' /\ WireOK' /\ HistoryOK'
         /\ \A m \in wire' : m.to # m.src
         /\ pendingShot' \in [Player -> 0..MaxShots]
         /\ gameOver' \in [Player -> BOOLEAN] /\ oddFrame' \in [Player -> BOOLEAN]
         /\ \A q \in Player \ {p} : gameOver'[q] = gameOver[q]
<1>1. NoBullets \in [Shot -> Nat]
  BY Constants DEF NoBullets
<1>2. crates' \in [Player -> SUBSET Crate] /\ bullets' \in [Player -> [Shot -> Nat]]
  BY <1>1 DEF Blank, Typed, ReplicaOK
<1>3. remote' \in [Player -> Views] /\ boxStates' \in [Player -> Views]
  BY ViewTypes DEF Blank, Typed, ReplicaOK
<1>4. \A q \in Player : DOMAIN remote'[q] \subseteq DOMAIN boxStates'[q] /\ q \notin DOMAIN boxStates'[q]
  BY ViewTypes DEF Blank, Typed, ReplicaOK
<1>5. BoxOK'
  BY Constants DEF Blank, Typed, BoxOK
<1>6. WireOK' /\ \A m \in wire' : m.to # m.src
  BY FewerOnWire DEF Blank
<1>7. HistoryOK'
  BY DEF Blank, Typed, HistoryOK
<1>8. pendingShot' \in [Player -> 0..MaxShots]
  BY Constants DEF Blank, Typed, OwnOK
<1>9. /\ gameOver' \in [Player -> BOOLEAN] /\ oddFrame' \in [Player -> BOOLEAN]
      /\ \A q \in Player \ {p} : gameOver'[q] = gameOver[q]
  BY DEF Blank, Typed, OwnOK
<1> QED
  BY <1>2, <1>3, <1>4, <1>5, <1>6, <1>7, <1>8, <1>9 DEF ReplicaOK

\* A life begins: it is the next one, and whole.
LEMMA NewLifeTypes ==
  ASSUME Typed, NEW p \in Player, NewLife(p)
  PROVE  /\ life' \in [Player -> 0..MaxLives] /\ life'[p] = life[p] + 1
         /\ hp' \in [Player -> 0..MaxHp] /\ hp'[p] = MaxHp
         /\ \A q \in Player \ {p} : life'[q] = life[q] /\ hp'[q] = hp[q]
<1>1. life[p] <= Total(life) /\ Total(life) \in Nat
  BY Constants, TotalBounds DEF Typed, OwnOK
<1>2. life' = [life EXCEPT ![p] = @ + 1] /\ hp' = [hp EXCEPT ![p] = MaxHp] /\ Total(life) < MaxLives
  BY DEF NewLife
<1> QED
  BY <1>1, <1>2, Constants DEF Typed, OwnOK

LEMMA TypedStep ==
  ASSUME Typed, Next
  PROVE  Typed'
<1>1. ASSUME NEW p \in Player, NEW c \in Crate, PickUp(p, c)
      PROVE  Typed'
  <2>1. WireOK' /\ \A m \in wire' : m.to # m.src
    BY <1>1, PickUpTypes DEF Says, Typed
  <2>2. OwnOK' /\ BoxOK'
    BY <1>1 DEF PickUp, own, box, Typed, OwnOK, BoxOK
  <2>3. ReplicaOK'
    <3>1. crates' \in [Player -> SUBSET Crate]
      BY <1>1 DEF PickUp, Typed, ReplicaOK
    <3>2. UNCHANGED <<bullets, remote, boxStates>>
      BY <1>1 DEF PickUp, box
    <3> QED
      BY <3>1, <3>2 DEF Typed, ReplicaOK
  <2>4. HistoryOK'
    BY <1>1 DEF PickUp, Typed, HistoryOK
  <2> QED
    BY <2>1, <2>2, <2>3, <2>4 DEF Typed
<1>2. ASSUME NEW p \in Player, NEW fire, NEW spent, NEW hits, NEW enemy, NEW meets, NEW victory,
             Fighting(p, fire, spent, hits, enemy, meets, victory)
      PROVE  Typed'
  <2>1. WireOK' /\ \A m \in wire' : m.to # m.src
    BY <1>2, FightTypes DEF Says, Typed
  <2>2. OwnOK'
    <3>1. /\ hp' \in [Player -> 0..MaxHp] /\ phase[p] = "events"
          /\ \A q \in Player \ {p} : hp'[q] = hp[q]
      BY <1>2, FightTypes DEF Typed, OwnOK
    <3>2. phase' = [phase EXCEPT ![p] = "network"] /\ UNCHANGED <<life, oddFrame>>
      BY <1>2 DEF Fighting, Fight, Goto
    <3>3. gameOver' = [gameOver EXCEPT ![p] = hp'[p] = 0 \/ victory]
      BY <1>2 DEF Fighting, Fight
    <3>4. pendingShot' \in [Player -> 0..MaxShots]
      <4>1. Len(ShotsAfter(p, fire)) \in 0..MaxShots
        <5>1. /\ ShotsAfter(p, fire) \in Seq([by : Player, special : Special])
              /\ Len(ShotsAfter(p, fire)) <= MaxShots
          BY <1>2, FiredTypes DEF Fighting
        <5> QED
          BY <5>1, Constants
      <4>2. pendingShot' = [pendingShot EXCEPT ![p] = IF fire \in Special THEN Len(ShotsAfter(p, fire)) ELSE 0]
        BY <1>2 DEF Fighting, Fight
      <4> QED
        BY <4>1, <4>2, Constants DEF Typed, OwnOK
    <3>5. victory \in BOOLEAN
      BY <1>2 DEF Fighting
    <3> QED
      BY <3>1, <3>2, <3>3, <3>4, <3>5 DEF Typed, OwnOK
  <2>3. BoxOK'
    BY <1>2 DEF Fighting, Fight, box, Typed, BoxOK
  <2>4. ReplicaOK'
    <3>1. bullets' \in [Player -> [Shot -> Nat]]
      BY <1>2, FightTypes
    <3>2. UNCHANGED <<crates, boxStates>> /\ remote' = [remote EXCEPT ![p] = @]
      BY <1>2 DEF Fighting, Fight, box, SeenAfterHits
    <3> QED
      BY <3>1, <3>2 DEF Typed, ReplicaOK
  <2>5. HistoryOK'
    <3>1. shots' = ShotsAfter(p, fire) /\ UNCHANGED heard
      BY <1>2 DEF Fighting, Fight
    <3>2. shots' \in Seq([by : Player, special : Special]) /\ Len(shots') <= MaxShots
      BY <1>2, <3>1, FiredTypes DEF Fighting
    <3>3. hurt' \in [Player -> [Shot -> Nat]]
      BY <1>2, FightTypes
    <3> QED
      BY <3>1, <3>2, <3>3 DEF Typed, HistoryOK
  <2> QED
    BY <2>1, <2>2, <2>3, <2>4, <2>5 DEF Typed
<1>3. ASSUME NEW p \in Player, NEW act \in ActKind, NEW stale, Network(p, act, stale)
      PROVE  Typed'
  <2>1. WireOK' /\ \A m \in wire' : m.to # m.src
    BY <1>3, NetworkTypes DEF Says, Typed
  <2>2. OwnOK'
    <3>1. hp' \in [Player -> 0..MaxHp] /\ phase[p] = "network" /\ \A q \in Player \ {p} : hp'[q] = hp[q]
      BY <1>3, NetworkTypes
    <3>2. /\ phase' = [phase EXCEPT ![p] = "events"] /\ UNCHANGED life
          /\ gameOver' = [gameOver EXCEPT ![p] = @ \/ hp'[p] = 0]
          /\ oddFrame' = [oddFrame EXCEPT ![p] = ~@] /\ pendingShot' = [pendingShot EXCEPT ![p] = 0]
      BY <1>3 DEF Network, Goto
    <3>3. oddFrame' \in [Player -> BOOLEAN]
      BY <3>2 DEF Typed, OwnOK
    <3>4. gameOver' \in [Player -> BOOLEAN]
      BY <3>2 DEF Typed, OwnOK
    <3>5. pendingShot' \in [Player -> 0..MaxShots] /\ phase' \in [Player -> {"off", "events", "network"}]
      BY <3>2, Constants DEF Typed, OwnOK
    <3>6. \A q \in Player : phase'[q] # "off" => life'[q] > 0 /\ (hp'[q] = 0 => gameOver'[q])
      BY <3>1, <3>2 DEF Typed, OwnOK
    <3> QED
      BY <3>1, <3>2, <3>3, <3>4, <3>5, <3>6 DEF Typed, OwnOK
  <2>3. BoxOK'
    BY <1>3, Constants DEF Network, Typed, BoxOK
  <2>4. ReplicaOK'
    <3>1. bullets' = [bullets EXCEPT ![p] = [s \in Shot |-> @[s] + CountOf(boxActs[p], Shoot(s))]]
          /\ crates' = [crates EXCEPT ![p] = CratesAfter(p, boxActs[p])]
          /\ remote' = [remote EXCEPT ![p] = Restrict(Refreshed(@, boxStates[p]), DOMAIN boxStates[p] \ stale)]
          /\ UNCHANGED boxStates
      BY <1>3 DEF Network
    <3>2. bullets' \in [Player -> [Shot -> Nat]]
      <4>1. \A s \in Shot : CountOf(boxActs[p], Shoot(s)) \in Nat
        BY CountOfType DEF Typed, BoxOK
      <4> QED
        BY <3>1, <4>1 DEF Typed, ReplicaOK
    <3>3. crates' \in [Player -> SUBSET Crate]
      BY <3>1 DEF Typed, ReplicaOK, CratesAfter
    <3>4. remote'[p] \in Views /\ DOMAIN remote'[p] \subseteq DOMAIN boxStates[p]
      <4> DEFINE known == Refreshed(remote[p], boxStates[p])
      <4>1. known \in Views /\ DOMAIN boxStates[p] \ stale \in SUBSET DOMAIN known
        <5>1. remote[p] \in Views /\ boxStates[p] \in Views
          BY DEF Typed, ReplicaOK
        <5>2. DOMAIN known = DOMAIN remote[p] \cup DOMAIN boxStates[p]
          BY DEF Refreshed
        <5> QED
          BY <5>1, <5>2, ViewTypes
      <4>2. remote'[p] = Restrict(known, DOMAIN boxStates[p] \ stale)
        BY <3>1 DEF Typed, ReplicaOK
      <4> HIDE DEF known
      <4>3. Restrict(known, DOMAIN boxStates[p] \ stale) \in Views
        BY <4>1, ViewTypes
      <4> QED
        BY <4>2, <4>3 DEF Restrict
    <3>5. remote' \in [Player -> Views] /\ \A q \in Player \ {p} : remote'[q] = remote[q]
      BY <3>1, <3>4 DEF Typed, ReplicaOK
    <3> QED
      BY <3>1, <3>2, <3>3, <3>4, <3>5 DEF Typed, ReplicaOK
  <2>5. HistoryOK'
    <3>1. hurt' = [hurt EXCEPT ![p] = [s \in Shot |-> @[s] + CountOf(boxActs[p], Hit(p, s))]]
          /\ UNCHANGED <<shots, heard>>
      BY <1>3 DEF Network
    <3>2. \A s \in Shot : CountOf(boxActs[p], Hit(p, s)) \in Nat
      BY CountOfType DEF Typed, BoxOK
    <3> QED
      BY <3>1, <3>2 DEF Typed, HistoryOK
  <2> QED
    BY <2>1, <2>2, <2>3, <2>4, <2>5 DEF Typed
<1>4. ASSUME NEW p \in Player, Start(p) \/ Restart(p)
      PROVE  Typed'
  <2>1. NewLife(p) /\ Blank(p) /\ phase' \in {phase, [phase EXCEPT ![p] = "events"]}
    BY <1>4 DEF Start, Restart, NewLife
  <2>2. /\ ReplicaOK' /\ BoxOK' /\ WireOK' /\ HistoryOK' /\ \A m \in wire' : m.to # m.src
        /\ pendingShot' \in [Player -> 0..MaxShots]
        /\ gameOver' \in [Player -> BOOLEAN] /\ oddFrame' \in [Player -> BOOLEAN]
        /\ \A q \in Player \ {p} : gameOver'[q] = gameOver[q]
    BY <2>1, BlankTypes
  <2>3. /\ life' \in [Player -> 0..MaxLives] /\ life'[p] = life[p] + 1
        /\ hp' \in [Player -> 0..MaxHp] /\ hp'[p] = MaxHp
        /\ \A q \in Player \ {p} : life'[q] = life[q] /\ hp'[q] = hp[q]
    BY <2>1, NewLifeTypes
  <2>4. \A q \in Player : phase'[q] # "off" => life'[q] > 0 /\ (hp'[q] = 0 => gameOver'[q])
    BY <2>1, <2>2, <2>3, Constants DEF Typed, OwnOK
  <2>5. OwnOK'
    BY <2>1, <2>2, <2>3, <2>4 DEF Typed, OwnOK
  <2> QED
    BY <2>2, <2>5 DEF Typed
<1>5. ASSUME NEW p \in Player, Quit(p)
      PROVE  Typed'
  <2>1. Blank(p) /\ phase' = [phase EXCEPT ![p] = "off"] /\ UNCHANGED <<life, hp>>
    BY <1>5 DEF Quit
  <2>2. OwnOK'
    BY <2>1, BlankTypes DEF Typed, OwnOK
  <2> QED
    BY <2>1, <2>2, BlankTypes DEF Typed
<1>6. ASSUME NEW m \in wire, Deliver(m)
      PROVE  Typed'
  <2>1. m \in Message /\ m.to # m.src
    BY DEF Typed, WireOK
  <2>2. WireOK' /\ \A n \in wire' : n.to # n.src
    BY <1>6, FewerOnWire DEF Deliver
  <2>3. OwnOK'
    BY <1>6 DEF Deliver, own, Typed, OwnOK
  <2>4. BoxOK'
    <3>1. Len(boxActs[m.to]) < MaxQueue
          /\ boxActs' \in {boxActs, [boxActs EXCEPT ![m.to] = Append(@, m.act)]}
      BY <1>6 DEF Deliver
    <3>2. m.to \in Player /\ m.act \in ActKind
      BY <2>1 DEF Message
    <3>3. Append(boxActs[m.to], m.act) \in Seq(ActKind) /\ Len(Append(boxActs[m.to], m.act)) = Len(boxActs[m.to]) + 1
          /\ Len(boxActs[m.to]) \in Nat
      BY <3>2 DEF Typed, BoxOK
    <3>4. CASE boxActs' = boxActs
      BY <3>4 DEF Typed, BoxOK
    <3>5. CASE boxActs' = [boxActs EXCEPT ![m.to] = Append(@, m.act)]
      <4>1. boxActs' \in [Player -> Seq(ActKind)]
        BY <3>2, <3>3, <3>5 DEF Typed, BoxOK
      <4>2. ASSUME NEW q \in Player PROVE Len(boxActs'[q]) <= MaxQueue
        BY <3>1, <3>2, <3>3, <3>5, Constants DEF Typed, BoxOK
      <4> QED
        BY <4>1, <4>2 DEF BoxOK
    <3> QED
      BY <3>1, <3>4, <3>5
  <2>5. ReplicaOK'
    <3> DEFINE news == [q \in {m.src} |-> [life |-> m.life, hp |-> m.hp]]
    <3>1. boxStates' = [boxStates EXCEPT ![m.to] = Refreshed(@, news)] /\ UNCHANGED <<crates, bullets, remote>>
      BY <1>6 DEF Deliver, replica
    <3>2. m.to \in Player /\ m.src \in Player /\ [life |-> m.life, hp |-> m.hp] \in View
      BY <2>1 DEF Message, View
    <3>3. news \in Views /\ DOMAIN news = {m.src}
      BY <3>2, ViewTypes
    <3> HIDE DEF news
    <3>4. Refreshed(boxStates[m.to], news) \in Views
      BY <3>2, <3>3, ViewTypes DEF Typed, ReplicaOK
    <3>5. DOMAIN Refreshed(boxStates[m.to], news) = DOMAIN boxStates[m.to] \cup {m.src}
      BY <3>3 DEF Refreshed
    <3> QED
      BY <2>1, <3>1, <3>2, <3>4, <3>5 DEF Typed, ReplicaOK
  <2>6. HistoryOK'
    <3>1. heard' \in {heard, [heard EXCEPT ![m.to] = @ \cup {m.act.crate}]} /\ UNCHANGED <<shots, hurt>>
          /\ (heard' # heard => m.act.type = "pickup")
      BY <1>6 DEF Deliver
    <3>2. m.act.type = "pickup" => m.act.crate \in Crate
      BY <2>1, ActsDiffer DEF Message
    <3> QED
      BY <3>1, <3>2 DEF Typed, HistoryOK
  <2> QED
    BY <2>2, <2>3, <2>4, <2>5, <2>6 DEF Typed
<1>7. ASSUME NEW m \in wire, Lose(m)
      PROVE  Typed'
  <2>1. WireOK' /\ \A n \in wire' : n.to # n.src
    BY <1>7, FewerOnWire DEF Lose
  <2>2. UNCHANGED <<phase, own, pendingShot, replica, box, history>>
    BY <1>7 DEF Lose
  <2>3. OwnOK' /\ BoxOK' /\ HistoryOK'
    BY <2>2 DEF own, box, history, Typed, OwnOK, BoxOK, HistoryOK
  <2>4. ReplicaOK'
    BY <2>2 DEF replica, box, Typed, ReplicaOK
  <2> QED
    BY <2>1, <2>3, <2>4 DEF Typed
<1> QED
  BY <1>1, <1>2, <1>3, <1>4, <1>5, <1>6, <1>7, Steps
-----------------------------------------------------------------------------
(* What is known of a player lies in his past *)

\* A state of the player that he has now or had before.
Past(q, v) == v.life < life[q] \/ (v.life = life[q] /\ v.hp >= hp[q])

\* So it is, wherever a state is: under way, in a network client, on a screen.
PastInv ==
  /\ \A m \in wire : Past(m.src, m)
  /\ \A p \in Player : \A q \in DOMAIN boxStates[p] : Past(q, boxStates[p][q])
  /\ \A p \in Player : \A q \in DOMAIN remote[p] : Past(q, remote[p][q])

\* A player's health only goes down, until a new life begins.
LEMMA HealthGoesDown ==
  ASSUME Typed, Next, NEW q \in Player
  PROVE  (life'[q] = life[q] /\ hp'[q] <= hp[q]) \/ life'[q] > life[q]
<1>1. life[q] \in Nat /\ hp[q] \in Nat
  BY Constants DEF Typed, OwnOK
<1>2. CASE UNCHANGED <<life, hp>>
  BY <1>1, <1>2
<1>3. ASSUME NEW p \in Player, NEW fire, NEW spent, NEW hits, NEW enemy, NEW meets, NEW victory,
             Fighting(p, fire, spent, hits, enemy, meets, victory)
      PROVE  life'[q] = life[q] /\ hp'[q] <= hp[q]
  <2>1. hp' = [hp EXCEPT ![p] = TakeHit(@, Total(hits) + enemy)] /\ hp'[p] <= hp[p]
    BY <1>3, FightTypes
  <2>2. UNCHANGED life
    BY <1>3 DEF Fighting, Fight
  <2> QED
    BY <1>1, <2>1, <2>2 DEF Typed, OwnOK
<1>4. ASSUME NEW p \in Player, NEW act \in ActKind, NEW stale, Network(p, act, stale)
      PROVE  life'[q] = life[q] /\ hp'[q] <= hp[q]
  <2>1. hp'[p] <= hp[p] /\ \A r \in Player \ {p} : hp'[r] = hp[r]
    BY <1>4, NetworkTypes
  <2>2. UNCHANGED life
    BY <1>4 DEF Network
  <2> QED
    BY <1>1, <2>1, <2>2
<1>5. ASSUME NEW p \in Player, NewLife(p)
      PROVE  (life'[q] = life[q] /\ hp'[q] <= hp[q]) \/ life'[q] > life[q]
  <2>1. life'[p] = life[p] + 1 /\ \A r \in Player \ {p} : life'[r] = life[r] /\ hp'[r] = hp[r]
    BY <1>5, NewLifeTypes
  <2> QED
    BY <1>1, <2>1
<1> QED
  BY <1>2, <1>3, <1>4, <1>5, Steps DEF PickUp, Start, Restart, Quit, Deliver, Lose, own

LEMMA PastStays ==
  ASSUME Typed, Next
  PROVE  \A q \in Player : \A v \in View \cup Message : Past(q, v) => Past(q, v)'
<1> SUFFICES ASSUME NEW q \in Player, NEW v \in View \cup Message, Past(q, v)
             PROVE  Past(q, v)'
  OBVIOUS
<1>1. v.life \in Nat /\ v.hp \in Nat
  BY Constants DEF View, Message
<1>2. life[q] \in Nat /\ hp[q] \in Nat
  BY Constants DEF Typed, OwnOK
<1>3. (life'[q] = life[q] /\ hp'[q] <= hp[q]) \/ life'[q] > life[q]
  BY HealthGoesDown
<1>4. life'[q] \in Nat /\ hp'[q] \in Nat
  BY TypedStep, Constants DEF Typed, OwnOK
<1> QED
  BY <1>1, <1>2, <1>3, <1>4 DEF Past

\* What a player says is his present state.
LEMMA SaidIsPast ==
  ASSUME Typed, Next, NEW p \in Player, UNCHANGED life, wire \subseteq Message,
         NEW acts, NEW m \in Says(p, hp'[p], acts)
  PROVE  Past(m.src, m)'
<1>1. m.src = p /\ m.life = life'[p] /\ m.hp = hp'[p]
  BY DEF Says
<1>2. hp'[p] \in Nat
  BY TypedStep, Constants DEF Typed, OwnOK
<1> QED
  BY <1>1, <1>2 DEF Past

LEMMA PastStep ==
  ASSUME Typed, PastInv, Next
  PROVE  PastInv'
<1> DEFINE News == \A m \in wire' \ wire : Past(m.src, m)'
           Known == /\ \A p \in Player : \A q \in DOMAIN boxStates'[p] :
                         \/ q \in DOMAIN boxStates[p] /\ boxStates'[p][q] = boxStates[p][q]
                         \/ \E m \in wire : m.src = q /\ boxStates'[p][q] = [life |-> m.life, hp |-> m.hp]
                    /\ \A p \in Player : \A q \in DOMAIN remote'[p] :
                         \/ q \in DOMAIN remote[p] /\ remote'[p][q] = remote[p][q]
                         \/ q \in DOMAIN boxStates[p] /\ remote'[p][q] = boxStates[p][q]
<1>1. ASSUME News, Known PROVE PastInv'
  <2>1. \A m \in wire : m \in Message /\ m.src \in Player
    BY DEF Typed, WireOK, Message
  <2>2. \A m \in wire' : Past(m.src, m)'
    <3>1. \A m \in wire : Past(m.src, m)'
      BY <2>1, PastStays DEF PastInv
    <3> QED
      BY <1>1, <3>1
  <2>3. \A p \in Player : \A q \in DOMAIN boxStates[p] :
          q \in Player /\ boxStates[p][q] \in View /\ Past(q, boxStates[p][q])
    BY ViewTypes DEF Typed, ReplicaOK, PastInv
  <2>4. \A p \in Player : \A q \in DOMAIN remote[p] :
          q \in Player /\ remote[p][q] \in View /\ Past(q, remote[p][q])
    BY ViewTypes DEF Typed, ReplicaOK, PastInv
  <2>5. ASSUME NEW p \in Player, NEW q \in DOMAIN boxStates'[p] PROVE Past(q, boxStates[p][q])'
    <3>1. CASE q \in DOMAIN boxStates[p] /\ boxStates'[p][q] = boxStates[p][q]
      <4>1. Past(q, boxStates[p][q]) /\ q \in Player /\ boxStates[p][q] \in View
        BY <2>3, <3>1
      <4> QED
        BY <3>1, <4>1, PastStays DEF Past
    <3>2. ASSUME NEW m \in wire, m.src = q, boxStates'[p][q] = [life |-> m.life, hp |-> m.hp]
          PROVE  Past(q, boxStates[p][q])'
      <4>1. Past(q, m)'
        BY <2>1, <3>2, PastStays DEF PastInv
      <4> QED
        BY <3>2, <4>1 DEF Past
    <3> QED
      BY <1>1, <3>1, <3>2
  <2>6. ASSUME NEW p \in Player, NEW q \in DOMAIN remote'[p] PROVE Past(q, remote[p][q])'
    <3>1. CASE q \in DOMAIN remote[p] /\ remote'[p][q] = remote[p][q]
      BY <2>4, <3>1, PastStays DEF Past
    <3>2. CASE q \in DOMAIN boxStates[p] /\ remote'[p][q] = boxStates[p][q]
      BY <2>3, <3>2, PastStays DEF Past
    <3> QED
      BY <1>1, <3>1, <3>2
  <2> QED
    BY <2>2, <2>5, <2>6 DEF PastInv
<1> HIDE DEF News, Known
<1>2. ASSUME NEW p \in Player, NEW c \in Crate, PickUp(p, c) PROVE News /\ Known
  <2>1. UNCHANGED <<life, hp, boxStates, remote>>
    BY <1>2 DEF PickUp, own, box
  <2>2. \A m \in wire' \ wire : m \in Says(p, hp'[p], {Take(c)})
    BY <1>2, <2>1, PickUpTypes
  <2> QED
    BY <2>1, <2>2, SaidIsPast DEF News, Known, Typed, WireOK
<1>3. ASSUME NEW p \in Player, NEW fire, NEW spent, NEW hits, NEW enemy, NEW meets, NEW victory,
             Fighting(p, fire, spent, hits, enemy, meets, victory)
      PROVE  News /\ Known
  <2>1. UNCHANGED <<life, boxStates>> /\ remote' = [remote EXCEPT ![p] = @]
    BY <1>3 DEF Fighting, Fight, box, SeenAfterHits
  <2>2. \A m \in wire' \ wire : m \in Says(p, hp'[p], AllHits)
    BY <1>3, FightTypes
  <2>3. UNCHANGED remote
    BY <2>1 DEF Typed, ReplicaOK
  <2> QED
    BY <2>1, <2>2, <2>3, SaidIsPast DEF News, Known, Typed, WireOK
<1>4. ASSUME NEW p \in Player, NEW act \in ActKind, NEW stale, Network(p, act, stale)
      PROVE  News /\ Known
  <2>1. UNCHANGED <<life, boxStates>>
        /\ remote' = [remote EXCEPT ![p] = Restrict(Refreshed(@, boxStates[p]), DOMAIN boxStates[p] \ stale)]
    BY <1>4 DEF Network
  <2>2. \A m \in wire' \ wire : m \in Says(p, hp'[p], {act})
    BY <1>4, NetworkTypes
  <2>3. News
    BY <2>1, <2>2, SaidIsPast DEF News, Typed, WireOK
  <2>4. \A q \in DOMAIN remote'[p] : q \in DOMAIN boxStates[p] /\ remote'[p][q] = boxStates[p][q]
    BY <2>1 DEF Typed, ReplicaOK, Restrict, Refreshed
  <2>5. \A r \in Player \ {p} : remote'[r] = remote[r]
    BY <2>1 DEF Typed, ReplicaOK
  <2> QED
    BY <2>1, <2>3, <2>4, <2>5 DEF Known
<1>5. ASSUME NEW p \in Player, Blank(p) PROVE News /\ Known
  <2>1. wire' \subseteq wire
    BY <1>5 DEF Blank
  <2>2. /\ DOMAIN boxStates'[p] = {} /\ DOMAIN remote'[p] = {}
        /\ \A r \in Player \ {p} : boxStates'[r] = boxStates[r] /\ remote'[r] = remote[r]
    BY <1>5, ViewTypes DEF Blank, Typed, ReplicaOK
  <2> QED
    BY <2>1, <2>2 DEF News, Known
<1>6. ASSUME NEW m \in wire, Deliver(m) PROVE News /\ Known
  <2>1. /\ wire' \subseteq wire /\ UNCHANGED remote
        /\ boxStates' = [boxStates EXCEPT ![m.to] = Refreshed(@, [q \in {m.src} |-> [life |-> m.life, hp |-> m.hp]])]
    BY <1>6 DEF Deliver, replica
  <2>2. m.to \in Player
    BY DEF Typed, WireOK, Message
  <2>3. \A q \in DOMAIN boxStates'[m.to] :
          \/ q \in DOMAIN boxStates[m.to] /\ boxStates'[m.to][q] = boxStates[m.to][q]
          \/ m.src = q /\ boxStates'[m.to][q] = [life |-> m.life, hp |-> m.hp]
    BY <2>1, <2>2 DEF Typed, ReplicaOK, Refreshed
  <2>4. \A r \in Player \ {m.to} : boxStates'[r] = boxStates[r]
    BY <2>1 DEF Typed, ReplicaOK
  <2> QED
    BY <2>1, <2>3, <2>4 DEF News, Known
<1>7. ASSUME NEW m \in wire, Lose(m) PROVE News /\ Known
  <2>1. wire' \subseteq wire /\ UNCHANGED <<remote, boxStates>>
    BY <1>7 DEF Lose, replica, box
  <2> QED
    BY <2>1 DEF News, Known
<1> QED
  BY <1>1, <1>2, <1>3, <1>4, <1>5, <1>6, <1>7, Steps DEF Start, Restart, NewLife, Quit
-----------------------------------------------------------------------------
(* The theorems that need no counting of bullets *)

LEMMA PastInit == Init => PastInv
BY ViewTypes DEF Init, PastInv

LEMMA TypedUnchanged == Typed /\ UNCHANGED vars => Typed'
BY DEF Typed, OwnOK, ReplicaOK, BoxOK, WireOK, HistoryOK, vars, own, replica, box, history

LEMMA TypedAlways == Spec => []Typed
<1>1. Typed /\ [Next]_vars => Typed'
  BY TypedStep, TypedUnchanged
<1> QED
  BY TypedInit, <1>1, PTL DEF Spec

LEMMA PastAlways == Spec => []PastInv
<1>1. Typed /\ PastInv /\ [Next]_vars => PastInv'
  <2>1. PastInv /\ UNCHANGED vars => PastInv'
    BY DEF PastInv, Past, vars, own, replica, box
  <2> QED
    BY PastStep, <2>1
<1> QED
  BY PastInit, TypedAlways, <1>1, PTL DEF Spec

\* However messages are delayed, reordered, doubled or lost, the health that a
\* process shows of a player (drain_states, RemotePlayer.update) is one he had, in
\* that life, or of a life before.
THEOREM NeverShownWeaker == Spec => []NobodyShownWeaker
<1>1. Typed /\ PastInv => NobodyShownWeaker
  <2>1. SUFFICES ASSUME Typed, PastInv, NEW p \in Player, NEW q \in DOMAIN remote[p]
                 PROVE  \/ remote[p][q].life < life[q]
                        \/ remote[p][q].life = life[q] /\ remote[p][q].hp >= hp[q]
    BY DEF NobodyShownWeaker
  <2> QED
    BY <2>1 DEF PastInv, Past
<1> QED
  BY TypedAlways, PastAlways, <1>1, PTL

\* What has been heard of a crate is not forgotten before the drain applies it.
LEMMA TakenStep ==
  ASSUME Typed, TakenCratesGo, Next
  PROVE  TakenCratesGo'
<1> DEFINE Gone(p, c) == c \in crates[p] => CountOf(boxActs[p], Take(c)) > 0
<1>1. \A p \in Player : \A c \in heard[p] : c \in Crate /\ Gone(p, c)
  BY DEF TakenCratesGo, Typed, HistoryOK
<1>2. CASE UNCHANGED <<crates, boxActs, heard>>
  BY <1>2 DEF TakenCratesGo
<1>3. ASSUME NEW p \in Player, NEW c \in Crate, PickUp(p, c)
      PROVE  TakenCratesGo'
  <2>1. /\ crates' = [crates EXCEPT ![p] = @ \ {c}] /\ heard' = [heard EXCEPT ![p] = @ \cup {c}]
        /\ UNCHANGED boxActs
    BY <1>3 DEF PickUp, box
  <2>2. ASSUME NEW q \in Player, NEW d \in heard'[q] PROVE Gone(q, d)'
    BY <1>1, <2>1 DEF Typed, ReplicaOK, HistoryOK
  <2> QED
    BY <2>2 DEF TakenCratesGo
<1>4. ASSUME NEW p \in Player, NEW act \in ActKind, NEW stale, Network(p, act, stale)
      PROVE  TakenCratesGo'
  <2>1. /\ crates' = [crates EXCEPT ![p] = CratesAfter(p, boxActs[p])]
        /\ boxActs' = [boxActs EXCEPT ![p] = <<>>] /\ UNCHANGED heard
    BY <1>4 DEF Network
  <2>2. ASSUME NEW q \in Player, NEW d \in heard'[q] PROVE Gone(q, d)'
    <3>1. d \in Crate /\ Gone(q, d)
      BY <1>1, <2>1
    <3>2. CASE q # p
      BY <2>1, <3>1, <3>2 DEF Typed, ReplicaOK, BoxOK
    <3>3. CASE q = p
      <4>1. crates'[p] = CratesAfter(p, boxActs[p])
        BY <2>1 DEF Typed, ReplicaOK
      <4>2. d \notin crates'[p]
        BY <3>1, <3>3, <4>1 DEF CratesAfter
      <4> QED
        BY <3>3, <4>2
    <3> QED
      BY <3>2, <3>3
  <2> QED
    BY <2>2 DEF TakenCratesGo
<1>5. ASSUME NEW p \in Player, Blank(p)
      PROVE  TakenCratesGo'
  <2>1. /\ crates' = [crates EXCEPT ![p] = Crate] /\ boxActs' = [boxActs EXCEPT ![p] = <<>>]
        /\ heard' = [heard EXCEPT ![p] = {}]
    BY <1>5 DEF Blank
  <2>2. ASSUME NEW q \in Player, NEW d \in heard'[q] PROVE Gone(q, d)'
    BY <1>1, <2>1 DEF Typed, ReplicaOK, HistoryOK, BoxOK
  <2> QED
    BY <2>2 DEF TakenCratesGo
<1>6. ASSUME NEW m \in wire, Deliver(m)
      PROVE  TakenCratesGo'
  <2>1. m.to \in Player /\ m.act \in ActKind
    BY DEF Typed, WireOK, Message
  <2>2. UNCHANGED crates
    BY <1>6 DEF Deliver, replica
  <2>3. CASE m.act = NoAct
    <3>1. UNCHANGED <<boxActs, heard>>
      BY <1>6, <2>3, ActsDiffer DEF Deliver
    <3> QED
      BY <1>2, <2>2, <3>1
  <2>4. CASE m.act # NoAct
    <3>1. boxActs' = [boxActs EXCEPT ![m.to] = Append(@, m.act)]
      BY <1>6, <2>4 DEF Deliver
    <3>2. \A a : /\ CountOf(boxActs'[m.to], a) = IF a = m.act THEN CountOf(boxActs[m.to], a) + 1 ELSE CountOf(boxActs[m.to], a)
                 /\ CountOf(boxActs[m.to], a) \in Nat
      BY <2>1, <3>1, CountOfAppend, CountOfType DEF Typed, BoxOK
    <3>3. \/ UNCHANGED heard
          \/ \E c \in Crate : m.act = Take(c) /\ heard' = [heard EXCEPT ![m.to] = @ \cup {c}]
      <4>1. CASE m.act.type = "pickup"
        <5>1. PICK c \in Crate : m.act = Take(c)
          BY <2>1, <4>1, ActsDiffer
        <5>2. m.act.crate = c
          BY <5>1, ActsDiffer
        <5>3. heard' = [heard EXCEPT ![m.to] = @ \cup {m.act.crate}]
          BY <1>6, <4>1 DEF Deliver
        <5> QED
          BY <5>1, <5>2, <5>3
      <4>2. CASE m.act.type # "pickup"
        BY <1>6, <4>2 DEF Deliver
      <4> QED
        BY <4>1, <4>2
    <3>4. ASSUME NEW q \in Player, NEW d \in heard'[q] PROVE Gone(q, d)'
      <4>1. CASE d \in heard[q]
        <5>1. Gone(q, d)
          BY <1>1, <4>1
        <5>2. CASE q = m.to
          BY <2>2, <3>2, <5>1, <5>2
        <5>3. CASE q # m.to
          BY <2>2, <3>1, <5>1, <5>3 DEF Typed, BoxOK
        <5> QED
          BY <5>2, <5>3
      <4>2. CASE d \notin heard[q]
        <5>1. q = m.to /\ m.act = Take(d)
          BY <2>1, <3>3, <4>2 DEF Typed, HistoryOK
        <5>2. CountOf(boxActs'[q], Take(d)) > 0
          BY <3>2, <5>1
        <5> QED
          BY <5>2
      <4> QED
        BY <4>1, <4>2
    <3> QED
      BY <3>4 DEF TakenCratesGo
  <2> QED
    BY <2>3, <2>4
<1>7. ASSUME NEW p \in Player, NEW fire, NEW spent, NEW hits, NEW enemy, NEW meets, NEW victory,
             Fighting(p, fire, spent, hits, enemy, meets, victory)
      PROVE  TakenCratesGo'
  <2>1. UNCHANGED <<crates, boxActs, heard>>
    BY <1>7 DEF Fighting, Fight, box
  <2> QED
    BY <1>2, <2>1
<1>8. ASSUME NEW m \in wire, Lose(m)
      PROVE  TakenCratesGo'
  <2>1. UNCHANGED <<crates, boxActs, heard>>
    BY <1>8 DEF Lose, replica, box, history
  <2> QED
    BY <1>2, <2>1
<1> QED
  BY <1>3, <1>4, <1>5, <1>6, <1>7, <1>8, Steps DEF Start, Restart, NewLife, Quit

\* A crate of which a process was told that it is taken (_on_prediction's queue,
\* main's loop over the predictions) is gone there after the next drain.
THEOREM TakenCratesAreGone == Spec => []TakenCratesGo
<1>1. Init => TakenCratesGo
  BY DEF Init, TakenCratesGo
<1>2. Typed /\ TakenCratesGo /\ [Next]_vars => TakenCratesGo'
  <2>1. TakenCratesGo /\ UNCHANGED vars => TakenCratesGo'
    BY DEF TakenCratesGo, vars, replica, box, history
  <2> QED
    BY TakenStep, <2>1
<1> QED
  BY TypedAlways, <1>1, <1>2, PTL DEF Spec
-----------------------------------------------------------------------------
(* A game that is over *)

\* Nothing the others do, and nothing under way, changes a game that is over: the
\* loop's other half is skipped until R starts it again (game_over in main).
THEOREM OverMeansFrozen == Spec => GameOverFreezes
<1> DEFINE Frozen(p) == /\ phase'[p] = phase[p] /\ hp'[p] = hp[p] /\ crates'[p] = crates[p]
                        /\ bullets'[p] = bullets[p] /\ remote'[p] = remote[p] /\ oddFrame'[p] = oddFrame[p]
                        /\ \A m \in wire' \ wire : m.src # p
           Freezes(p) == gameOver[p] /\ At(p, "events") /\ life'[p] = life[p] /\ phase'[p] # "off" => Frozen(p)
<1>1. ASSUME Typed, Next, NEW q \in Player PROVE Freezes(q)
  <2> SUFFICES ASSUME gameOver[q], phase[q] = "events", life'[q] = life[q], phase'[q] # "off"
               PROVE  Frozen(q)
    BY DEF At
  <2>1. ASSUME NEW p \in Player, NEW c \in Crate, PickUp(p, c)
        PROVE  Frozen(q)
    <3>1. p # q /\ \A m \in wire' \ wire : m.src = p
      BY <1>1, <2>1, PickUpTypes DEF Says
    <3>2. crates' = [crates EXCEPT ![p] = @ \ {c}] /\ UNCHANGED <<phase, hp, oddFrame, bullets, remote>>
      BY <2>1 DEF PickUp, own
    <3> QED
      BY <1>1, <3>1, <3>2 DEF Typed, ReplicaOK
  <2>2. ASSUME NEW p \in Player, NEW fire, NEW spent, NEW hits, NEW enemy, NEW meets, NEW victory,
               Fighting(p, fire, spent, hits, enemy, meets, victory)
        PROVE  Frozen(q)
    <3>1. p # q /\ (\A m \in wire' \ wire : m.src = p)
          /\ hp' = [hp EXCEPT ![p] = TakeHit(@, Total(hits) + enemy)]
      BY <1>1, <2>2, FightTypes DEF Says
    <3>2. /\ phase' = [phase EXCEPT ![p] = "network"] /\ UNCHANGED <<crates, oddFrame>>
          /\ remote' = [remote EXCEPT ![p] = @]
      BY <2>2 DEF Fighting, Fight, Goto, SeenAfterHits
    <3>3. bullets'[q] = bullets[q]
      BY <1>1, <2>2, <3>1 DEF Fighting, Fight, Typed, ReplicaOK
    <3> QED
      BY <1>1, <3>1, <3>2, <3>3 DEF Typed, OwnOK, ReplicaOK
  <2>3. ASSUME NEW p \in Player, NEW act \in ActKind, NEW stale, Network(p, act, stale)
        PROVE  Frozen(q)
    <3>1. p # q /\ (\A m \in wire' \ wire : m.src = p) /\ hp'[q] = hp[q]
      BY <1>1, <2>3, NetworkTypes DEF Says
    <3>2. /\ phase' = [phase EXCEPT ![p] = "events"] /\ oddFrame' = [oddFrame EXCEPT ![p] = ~@]
          /\ crates' = [crates EXCEPT ![p] = CratesAfter(p, boxActs[p])]
          /\ remote' = [remote EXCEPT ![p] = Restrict(Refreshed(@, boxStates[p]), DOMAIN boxStates[p] \ stale)]
          /\ bullets' = [bullets EXCEPT ![p] = [s \in Shot |-> @[s] + CountOf(boxActs[p], Shoot(s))]]
      BY <2>3 DEF Network, Goto
    <3>3. phase'[q] = phase[q] /\ oddFrame'[q] = oddFrame[q]
      BY <1>1, <3>1, <3>2 DEF Typed, OwnOK
    <3>4. crates'[q] = crates[q] /\ remote'[q] = remote[q] /\ bullets'[q] = bullets[q]
      BY <1>1, <3>1, <3>2 DEF Typed, ReplicaOK
    <3> QED
      BY <3>1, <3>3, <3>4
  <2>4. ASSUME NEW p \in Player, p # q, Blank(p)
        PROVE  /\ crates'[q] = crates[q] /\ bullets'[q] = bullets[q] /\ remote'[q] = remote[q]
               /\ oddFrame'[q] = oddFrame[q] /\ wire' \ wire = {}
    BY <1>1, <2>4 DEF Blank, Typed, OwnOK, ReplicaOK
  <2>5. ASSUME NEW p \in Player, Start(p) \/ Restart(p)
        PROVE  Frozen(q)
    <3>1. NewLife(p) /\ Blank(p)
      BY <2>5 DEF Start, Restart, NewLife
    <3>2. p # q
      BY <1>1, <3>1, NewLifeTypes, Constants DEF Typed, OwnOK
    <3>3. hp'[q] = hp[q]
      BY <1>1, <3>1, <3>2, NewLifeTypes
    <3>4. phase'[q] = phase[q]
      BY <1>1, <2>5, <3>2 DEF Start, Restart, Typed, OwnOK
    <3> QED
      BY <2>4, <3>1, <3>2, <3>3, <3>4
  <2>6. ASSUME NEW p \in Player, Quit(p)
        PROVE  Frozen(q)
    <3>1. Blank(p) /\ phase' = [phase EXCEPT ![p] = "off"] /\ UNCHANGED hp
      BY <2>6 DEF Quit
    <3>2. p # q /\ phase'[q] = phase[q]
      BY <1>1, <3>1 DEF Typed, OwnOK
    <3> QED
      BY <2>4, <3>1, <3>2
  <2>7. ASSUME NEW m \in wire, Deliver(m) \/ Lose(m)
        PROVE  Frozen(q)
    BY <2>7 DEF Deliver, Lose, own, replica
  <2> HIDE DEF Frozen
  <2> QED
    BY <1>1, <2>1, <2>2, <2>3, <2>5, <2>6, <2>7, Steps
<1>2. Typed /\ [Next]_vars => \A p \in Player : Freezes(p)
  <2>1. ASSUME UNCHANGED vars, NEW p \in Player PROVE Freezes(p)
    BY <2>1 DEF vars, own, replica
  <2> HIDE DEF Freezes
  <2> QED
    BY <1>1, <2>1
<1>3. Typed /\ [Next]_vars =>
        \A p \in Player :
          gameOver[p] /\ At(p, "events") /\ life'[p] = life[p] /\ phase'[p] # "off" =>
            /\ phase'[p] = phase[p] /\ hp'[p] = hp[p] /\ crates'[p] = crates[p] /\ bullets'[p] = bullets[p]
            /\ remote'[p] = remote[p] /\ oddFrame'[p] = oddFrame[p]
            /\ \A m \in wire' \ wire : m.src # p
  BY <1>2
<1> QED
  BY TypedAlways, <1>3, PTL DEF Spec, GameOverFreezes
-----------------------------------------------------------------------------
(* Counting a shot's bullets and reports *)

\* How often an action is under way to a player, or waits for his drain as well.
Of(msgs, q, a) == {m \in msgs : m.to = q /\ m.act = a}
OnWire(q, a)   == Cardinality(Of(wire, q, a))
UnderWay(q, a) == CountOf(boxActs[q], a) + OnWire(q, a)

\* What a shot may still put in a player's process: bullets that fly there, its
\* news not yet applied, and the news not yet sent.
Announced(q, s) ==
  bullets[q][s] + UnderWay(q, Shoot(s)) + (IF pendingShot[shots[s].by] = s THEN Copies ELSE 0)

\* The reports that it hit him: not yet applied, and not yet sent, which takes
\* the shooter's own bullet.
Reported(q, s) ==
  UnderWay(q, Hit(q, s)) + (IF bullets[shots[s].by][s] > 0 THEN Copies ELSE 0)

\* Shots and hits are told of by the player who fired, to others, and nothing
\* flies or hurts that was not fired.
ActsKnown ==
  /\ \A m \in wire : m.act.type \in {"shoot", "hit"} =>
       m.act.shot \in DOMAIN shots /\ shots[m.act.shot].by = m.src
  /\ \A q \in Player : \A i \in DOMAIN boxActs[q] : boxActs[q][i].type \in {"shoot", "hit"} =>
       boxActs[q][i].shot \in DOMAIN shots /\ shots[boxActs[q][i].shot].by # q
  /\ \A p \in Player : pendingShot[p] # 0 => pendingShot[p] \in DOMAIN shots /\ shots[pendingShot[p]].by = p
  /\ \A p \in Player, s \in Shot : bullets[p][s] > 0 \/ hurt[p][s] > 0 => s \in DOMAIN shots

\* The budget of a shot: one bullet of its own in the shooter's process, and for
\* every other player what it did and may still do.
Budget(q, s) ==
  /\ Announced(q, s) <= Copies
  /\ ~Through(shots, s) => hurt[q][s] + Announced(q, s) + Reported(q, s) <= 2 * Copies

ShotOK(s) ==
  /\ bullets[shots[s].by][s] <= 1 /\ hurt[shots[s].by][s] = 0
  /\ \A q \in Player \ {shots[s].by} : Budget(q, s)

ShotInv == \A s \in DOMAIN shots : ShotOK(s)

LEMMA CountOfSome ==
  ASSUME NEW acts \in Seq(ActKind), NEW a, CountOf(acts, a) # 0
  PROVE  \E i \in DOMAIN acts : acts[i] = a
BY CountOfAbsent

\* Some of finitely many messages are a number of messages.
LEMMA SomeOf ==
  ASSUME NEW W, IsFiniteSet(W), NEW q, NEW a
  PROVE  IsFiniteSet(Of(W, q, a)) /\ Cardinality(Of(W, q, a)) \in Nat
<1>1. Of(W, q, a) \in SUBSET W
  BY DEF Of
<1>2. IsFiniteSet(Of(W, q, a))
  BY <1>1, FS_Subset
<1> QED
  BY <1>2, FS_CardinalityType

\* No news of an action to a player: not more of it is under way to him.
LEMMA OnWireNotMore ==
  ASSUME WireOK, NEW q, NEW a, \A m \in wire' \ wire : ~(m.to = q /\ m.act = a)
  PROVE  OnWire(q, a)' <= OnWire(q, a)
<1> DEFINE S == Of(wire, q, a)
           T == Of(wire', q, a)
<1>1. IsFiniteSet(S)
  BY SomeOf DEF WireOK
<1>2. T \in SUBSET S
  BY DEF Of
<1>3. Cardinality(T) <= Cardinality(S)
  BY <1>1, <1>2, FS_Subset
<1> QED
  BY <1>3 DEF OnWire

\* What one step says of an action to a player is at most its copies.
LEMMA OnWireSaid ==
  ASSUME WireOK, NEW p \in Player, NEW h, NEW acts, NEW q, NEW a,
         \A m \in wire' \ wire : m \in Says(p, h, acts)
  PROVE  OnWire(q, a)' <= OnWire(q, a) + Copies
<1> DEFINE S == Of(wire, q, a)
           T == Of(wire', q, a)
           N == T \ wire
           f == [m \in N |-> m.copy]
<1>1. IsFiniteSet(S) /\ Cardinality(S) \in Nat
  BY SomeOf DEF WireOK
<1>2. IsFiniteSet(1..Copies) /\ Cardinality(1..Copies) = Copies
  BY Constants, FS_Interval
<1>3. f \in Injection(N, 1..Copies)
  <2>1. f \in [N -> 1..Copies]
    BY DEF Of, Says, Message
  <2>2. ASSUME NEW m \in N, NEW n \in N, f[m] = f[n] PROVE m = n
    BY <2>2 DEF Of, Says, Message
  <2> QED
    BY <2>1, <2>2 DEF Injection, IsInjective
<1> HIDE DEF f
<1>4. IsFiniteSet(N) /\ Cardinality(N) <= Copies
  BY <1>2, <1>3, FS_Injection
<1>5. IsFiniteSet(S \cup N) /\ Cardinality(S \cup N) <= Cardinality(S) + Cardinality(N)
  <2>1. /\ IsFiniteSet(S \cup N) /\ IsFiniteSet(S \cap N)
        /\ Cardinality(S \cup N) = Cardinality(S) + Cardinality(N) - Cardinality(S \cap N)
    BY <1>1, <1>4, FS_Union, FS_Intersection
  <2>2. Cardinality(S \cap N) \in Nat /\ Cardinality(N) \in Nat
    BY <2>1, <1>4, FS_CardinalityType
  <2> QED
    BY <1>1, <2>1, <2>2
<1>6. T \in SUBSET (S \cup N)
  BY DEF Of
<1>7. Cardinality(T) <= Cardinality(S \cup N) /\ Cardinality(T) \in Nat /\ Cardinality(N) \in Nat
      /\ Cardinality(S \cup N) \in Nat
  BY <1>4, <1>5, <1>6, FS_Subset, FS_CardinalityType
<1>8. Cardinality(T) <= Cardinality(S) + Copies
  BY <1>1, <1>4, <1>5, <1>7, Constants
<1> QED
  BY <1>8 DEF OnWire

\* A message taken from the wire is one less.
LEMMA OnWireTaken ==
  ASSUME WireOK, NEW m \in wire, wire' = wire \ {m}
  PROVE  OnWire(m.to, m.act)' = OnWire(m.to, m.act) - 1
<1> DEFINE S == Of(wire, m.to, m.act)
<1>1. IsFiniteSet(S) /\ m \in S
  <2>1. m \in S
    BY DEF Of
  <2> QED
    BY <2>1, SomeOf DEF WireOK
<1>2. Cardinality(S \ {m}) = Cardinality(S) - 1
  BY <1>1, FS_RemoveElement
<1>3. S \ {m} = Of(wire', m.to, m.act)
  BY DEF Of
<1> QED
  BY <1>2, <1>3 DEF OnWire

\* Shots are only added.
LEMMA ShotsStay ==
  ASSUME Typed, Next
  PROVE  \A s \in DOMAIN shots : s \in DOMAIN shots' /\ shots'[s] = shots[s]
<1>1. ASSUME NEW p \in Player, NEW fire, NEW spent, NEW hits, NEW enemy, NEW meets, NEW victory,
             Fighting(p, fire, spent, hits, enemy, meets, victory)
      PROVE  \A s \in DOMAIN shots : s \in DOMAIN shots' /\ shots'[s] = shots[s]
  <2>1. shots' = ShotsAfter(p, fire)
    BY <1>1 DEF Fighting, Fight
  <2>2. fire \in Special => Len(shots) < MaxShots
    BY <1>1 DEF Fighting
  <2>3. ShotsAfter(p, fire) \in Seq([by : Player, special : Special])
    BY <2>2, FiredTypes
  <2>4. Len(ShotsAfter(p, fire)) = IF fire \in Special THEN Len(shots) + 1 ELSE Len(shots)
    BY <2>2, FiredTypes
  <2>5. shots \in Seq([by : Player, special : Special])
    BY DEF Typed, HistoryOK
  <2>6. ASSUME NEW s \in DOMAIN shots PROVE ShotsAfter(p, fire)[s] = shots[s]
    <3>1. fire \in Special => [by |-> p, special |-> fire] \in [by : Player, special : Special]
      OBVIOUS
    <3> QED
      BY <2>5, <3>1 DEF ShotsAfter
  <2> QED
    BY <2>1, <2>3, <2>4, <2>5, <2>6
<1>2. CASE UNCHANGED shots
  BY <1>2
<1> QED
  BY <1>1, <1>2, Steps DEF PickUp, Network, Start, Restart, NewLife, Quit, Blank, Deliver, Lose, history

\* A fight is about shots that were fired; those met were fired by the player.
LEMMA FightShots ==
  ASSUME Typed, ActsKnown, NEW p \in Player, NEW fire, NEW spent, NEW hits, NEW enemy, NEW meets, NEW victory,
         Fighting(p, fire, spent, hits, enemy, meets, victory)
  PROVE  /\ shots' = ShotsAfter(p, fire) /\ shots' \in Seq([by : Player, special : Special])
         /\ \A s \in Shot : BulletsAfter(p, fire)[s] > 0 => s \in DOMAIN shots'
         /\ DOMAIN spent = InFlight(BulletsAfter(p, fire)) /\ DOMAIN hits \subseteq DOMAIN spent
         /\ \A s \in DOMAIN hits : s \in DOMAIN shots' /\ shots'[s].by # p /\ hits[s] <= spent[s] /\ hits[s] \in Nat
         /\ \A s \in DOMAIN spent : s \in Shot /\ spent[s] <= BulletsAfter(p, fire)[s] /\ spent[s] \in Nat
         /\ \A s \in DOMAIN meets : s \in Shot /\ s \in DOMAIN shots' /\ shots'[s].by = p
<1>1. shots' = ShotsAfter(p, fire)
  BY DEF Fighting, Fight
<1>2. /\ shots' \in Seq([by : Player, special : Special]) /\ BulletsAfter(p, fire) \in [Shot -> Nat]
      /\ fire \in Special => Len(shots') = Len(shots) + 1 /\ BulletsAfter(p, fire) = [bullets[p] EXCEPT ![Len(shots) + 1] = 1]
      /\ fire \notin Special => shots' = shots /\ BulletsAfter(p, fire) = bullets[p]
  BY <1>1, FiredTypes DEF Fighting
<1>3. ASSUME NEW s \in Shot, BulletsAfter(p, fire)[s] > 0
      PROVE  s \in DOMAIN shots'
  <2>1. bullets[p][s] > 0 => s \in DOMAIN shots
    BY DEF ActsKnown
  <2>2. shots \in Seq([by : Player, special : Special]) /\ bullets[p] \in [Shot -> Nat]
    BY DEF Typed, HistoryOK, ReplicaOK
  <2> QED
    BY <1>2, <1>3, <2>1, <2>2
<1>4. DOMAIN spent = InFlight(BulletsAfter(p, fire)) /\ DOMAIN hits \subseteq DOMAIN spent
  BY DEF Fighting
<1>5. \A s \in DOMAIN spent : s \in Shot /\ s \in DOMAIN shots' /\ spent[s] <= BulletsAfter(p, fire)[s] /\ spent[s] \in Nat
  BY <1>3, <1>4, Constants DEF Fighting, Fight, InFlight
<1>6. \A s \in DOMAIN hits : shots'[s].by # p /\ hits[s] <= spent[s] /\ hits[s] \in Nat
  BY <1>1, Constants DEF Fighting, Fight
<1>7. \A s \in DOMAIN meets : s \in DOMAIN spent /\ shots'[s].by = p
  BY <1>1, <1>4 DEF Fighting, Fight
<1> QED
  BY <1>1, <1>2, <1>3, <1>4, <1>5, <1>6, <1>7

LEMMA ActsKnownStep ==
  ASSUME Typed, ActsKnown, Next
  PROVE  ActsKnown'
<1> DEFINE News == \A m \in wire' \ wire : m.act.type \in {"shoot", "hit"} =>
                     m.act.shot \in DOMAIN shots' /\ shots'[m.act.shot].by = m.src
           Boxes == \A q \in Player : \A i \in DOMAIN boxActs'[q] :
                      \/ \E j \in DOMAIN boxActs[q] : boxActs'[q][i] = boxActs[q][j]
                      \/ \E m \in wire : m.to = q /\ boxActs'[q][i] = m.act
           Pending == \A p \in Player :
                        \/ pendingShot'[p] \in {0, pendingShot[p]}
                        \/ pendingShot'[p] \in DOMAIN shots' /\ shots'[pendingShot'[p]].by = p
           Flying == \A p \in Player, s \in Shot : bullets'[p][s] > 0 \/ hurt'[p][s] > 0 =>
                       bullets[p][s] > 0 \/ hurt[p][s] > 0 \/ s \in DOMAIN shots'
<1>1. ASSUME News, Boxes, Pending, Flying PROVE ActsKnown'
  <2>1. \A s \in DOMAIN shots : s \in DOMAIN shots' /\ shots'[s] = shots[s]
    BY ShotsStay
  <2>2. \A m \in wire' : m.act.type \in {"shoot", "hit"} =>
          m.act.shot \in DOMAIN shots' /\ shots'[m.act.shot].by = m.src
    BY <1>1, <2>1 DEF ActsKnown
  <2>3. ASSUME NEW q \in Player, NEW i \in DOMAIN boxActs'[q], boxActs'[q][i].type \in {"shoot", "hit"}
        PROVE  boxActs'[q][i].shot \in DOMAIN shots' /\ shots'[boxActs'[q][i].shot].by # q
    <3>1. CASE \E j \in DOMAIN boxActs[q] : boxActs'[q][i] = boxActs[q][j]
      BY <2>1, <2>3, <3>1 DEF ActsKnown
    <3>2. ASSUME NEW m \in wire, m.to = q, boxActs'[q][i] = m.act
          PROVE  boxActs'[q][i].shot \in DOMAIN shots' /\ shots'[boxActs'[q][i].shot].by # q
      <4>1. m.src # q
        BY <3>2 DEF Typed
      <4> QED
        BY <2>1, <2>3, <3>2, <4>1 DEF ActsKnown
    <3> QED
      BY <1>1, <3>1, <3>2
  <2>4. \A p \in Player : pendingShot'[p] # 0 => pendingShot'[p] \in DOMAIN shots' /\ shots'[pendingShot'[p]].by = p
    BY <1>1, <2>1 DEF ActsKnown
  <2>5. \A p \in Player, s \in Shot : bullets'[p][s] > 0 \/ hurt'[p][s] > 0 => s \in DOMAIN shots'
    BY <1>1, <2>1 DEF ActsKnown
  <2> QED
    BY <2>2, <2>3, <2>4, <2>5 DEF ActsKnown
<1> HIDE DEF News, Boxes, Pending, Flying
<1>2. ASSUME NEW p \in Player, NEW c \in Crate, PickUp(p, c)
      PROVE  News /\ Boxes /\ Pending /\ Flying
  <2>1. UNCHANGED <<boxActs, pendingShot, bullets, hurt>>
    BY <1>2 DEF PickUp, box
  <2>2. \A m \in wire' \ wire : m.act.type = "pickup"
    BY <1>2, PickUpTypes, ActsDiffer DEF Says
  <2> QED
    BY <2>1, <2>2 DEF News, Boxes, Pending, Flying
<1>3. ASSUME NEW p \in Player, NEW fire, NEW spent, NEW hits, NEW enemy, NEW meets, NEW victory,
             Fighting(p, fire, spent, hits, enemy, meets, victory)
      PROVE  News /\ Boxes /\ Pending /\ Flying
  <2>1. News
    <3>1. ASSUME NEW m \in wire' \ wire
          PROVE  m.act.shot \in DOMAIN shots' /\ shots'[m.act.shot].by = m.src
      <4>1. m.src = p /\ \E s \in DOMAIN meets : m.act = Hit(meets[s], s)
        BY <1>3, FightTypes DEF Says
      <4>2. PICK s \in DOMAIN meets : m.act = Hit(meets[s], s)
        BY <4>1
      <4>3. meets[s] \in Player
        BY <1>3 DEF Fighting, Targets, Typed, ReplicaOK, Views
      <4>4. s \in Shot /\ s \in DOMAIN shots' /\ shots'[s].by = p
        BY <1>3, FightShots
      <4> QED
        BY <4>1, <4>2, <4>3, <4>4, ActsDiffer
    <3> QED
      BY <3>1 DEF News
  <2>2. Boxes
    BY <1>3 DEF Fighting, Fight, box, Boxes
  <2>3. Pending
    <3>1. pendingShot' = [pendingShot EXCEPT ![p] = IF fire \in Special THEN Len(shots') ELSE 0]
      BY <1>3 DEF Fighting, Fight
    <3>2. fire \in Special => Len(shots') \in DOMAIN shots' /\ shots'[Len(shots')].by = p
      <4>1. shots' = ShotsAfter(p, fire) /\ shots' \in Seq([by : Player, special : Special])
        BY <1>3, FightShots
      <4>2. fire \in Special => Len(shots) < MaxShots
        BY <1>3 DEF Fighting
      <4>3. fire \in Special => Len(shots') = Len(shots) + 1 /\ shots'[Len(shots) + 1] = [by |-> p, special |-> fire]
        BY <4>1, <4>2, FiredTypes
      <4>4. Len(shots) \in Nat
        BY DEF Typed, HistoryOK
      <4> QED
        BY <4>1, <4>3, <4>4
    <3> QED
      BY <3>1, <3>2 DEF Pending, Typed, OwnOK
  <2>4. Flying
    <3> DEFINE b == BulletsAfter(p, fire)
               left == Left(b, spent, hits)
    <3>1. /\ bullets' = [bullets EXCEPT ![p] =
               [s \in Shot |-> IF s \in DOMAIN meets /\ ~Through(ShotsAfter(p, fire), s) THEN left[s] - 1 ELSE left[s]]]
          /\ hurt' = [hurt EXCEPT ![p] = [s \in Shot |-> IF s \in DOMAIN hits THEN @[s] + hits[s] ELSE @[s]]]
      BY <1>3 DEF Fighting, Fight
    <3>2. b \in [Shot -> Nat] /\ left = [s \in Shot |-> IF s \in DOMAIN spent THEN b[s] - spent[s] ELSE b[s]]
      BY <1>3, FiredTypes DEF Fighting, Left
    <3>3. \A s \in Shot : b[s] > 0 => s \in DOMAIN shots'
      BY <1>3, FightShots
    <3>4. \A s \in DOMAIN spent : spent[s] \in Nat
      BY <1>3, FightShots
    <3> HIDE DEF b, left
    <3>5. ASSUME NEW s \in Shot, bullets'[p][s] > 0 PROVE s \in DOMAIN shots'
      <4>1. left[s] > 0 /\ left[s] \in Int
        BY <3>1, <3>2, <3>4, <3>5 DEF Typed, ReplicaOK
      <4> QED
        BY <3>2, <3>3, <3>4, <4>1
    <3>6. ASSUME NEW s \in Shot, hurt'[p][s] > 0 PROVE hurt[p][s] > 0 \/ s \in DOMAIN shots'
      <4>1. s \in DOMAIN hits => s \in DOMAIN shots'
        BY <1>3, FightShots
      <4> QED
        BY <3>1, <3>6, <4>1 DEF Typed, HistoryOK
    <3>7. \A r \in Player \ {p} : bullets'[r] = bullets[r] /\ hurt'[r] = hurt[r]
      BY <3>1 DEF Typed, ReplicaOK, HistoryOK
    <3> QED
      BY <3>5, <3>6, <3>7 DEF Flying
  <2> QED
    BY <2>1, <2>2, <2>3, <2>4
<1>4. ASSUME NEW p \in Player, NEW act \in ActKind, NEW stale, Network(p, act, stale)
      PROVE  News /\ Boxes /\ Pending /\ Flying
  <2>1. /\ boxActs' = [boxActs EXCEPT ![p] = <<>>] /\ pendingShot' = [pendingShot EXCEPT ![p] = 0]
        /\ bullets' = [bullets EXCEPT ![p] = [s \in Shot |-> @[s] + CountOf(boxActs[p], Shoot(s))]]
        /\ hurt' = [hurt EXCEPT ![p] = [s \in Shot |-> @[s] + CountOf(boxActs[p], Hit(p, s))]]
        /\ UNCHANGED shots
    BY <1>4 DEF Network
  <2>2. News
    <3>1. act = NoAct \/ (pendingShot[p] # 0 /\ act = Shoot(pendingShot[p]))
      BY <1>4 DEF Network
    <3>2. \A m \in wire' \ wire : m.src = p /\ m.act = act
      BY <1>4, NetworkTypes DEF Says
    <3>3. pendingShot[p] # 0 => pendingShot[p] \in Shot /\ pendingShot[p] \in DOMAIN shots /\ shots[pendingShot[p]].by = p
      BY Constants DEF Typed, OwnOK, ActsKnown, Shot
    <3> QED
      BY <2>1, <3>1, <3>2, <3>3, ActsDiffer DEF News
  <2>3. Boxes /\ Pending
    BY <2>1 DEF Boxes, Pending, Typed, BoxOK, OwnOK
  <2>4. Flying
    <3>1. ASSUME NEW s \in Shot, CountOf(boxActs[p], Shoot(s)) # 0 \/ CountOf(boxActs[p], Hit(p, s)) # 0
          PROVE  s \in DOMAIN shots
      <4>1. PICK i \in DOMAIN boxActs[p] : boxActs[p][i] = Shoot(s) \/ boxActs[p][i] = Hit(p, s)
        BY <3>1, CountOfSome DEF Typed, BoxOK
      <4>2. boxActs[p][i].type \in {"shoot", "hit"} /\ boxActs[p][i].shot = s
        BY <4>1, ActsDiffer
      <4> QED
        BY <4>2 DEF ActsKnown
    <3>2. \A r \in Player \ {p} : bullets'[r] = bullets[r] /\ hurt'[r] = hurt[r]
      BY <2>1 DEF Typed, ReplicaOK, HistoryOK
    <3>3. \A s \in Shot : bullets'[p][s] = bullets[p][s] + CountOf(boxActs[p], Shoot(s))
                          /\ hurt'[p][s] = hurt[p][s] + CountOf(boxActs[p], Hit(p, s))
      BY <2>1 DEF Typed, ReplicaOK, HistoryOK
    <3>4. \A s \in Shot : bullets[p][s] \in Nat /\ hurt[p][s] \in Nat
      BY DEF Typed, ReplicaOK, HistoryOK
    <3>5. ASSUME NEW s \in Shot, bullets'[p][s] > 0 \/ hurt'[p][s] > 0
          PROVE  bullets[p][s] > 0 \/ hurt[p][s] > 0 \/ s \in DOMAIN shots'
      BY <2>1, <3>1, <3>3, <3>4, <3>5
    <3> QED
      BY <3>2, <3>5 DEF Flying
  <2> QED
    BY <2>2, <2>3, <2>4
<1>5. ASSUME NEW p \in Player, Blank(p)
      PROVE  News /\ Boxes /\ Pending /\ Flying
  <2>1. /\ wire' \subseteq wire /\ boxActs' = [boxActs EXCEPT ![p] = <<>>]
        /\ pendingShot' = [pendingShot EXCEPT ![p] = 0] /\ bullets' = [bullets EXCEPT ![p] = NoBullets]
        /\ UNCHANGED <<shots, hurt>>
    BY <1>5 DEF Blank
  <2>2. News /\ Boxes /\ Pending
    BY <2>1 DEF News, Boxes, Pending, Typed, BoxOK, OwnOK
  <2>3. Flying
    BY <2>1 DEF Flying, NoBullets, Typed, ReplicaOK
  <2> QED
    BY <2>2, <2>3
<1>6. ASSUME NEW m \in wire, Deliver(m)
      PROVE  News /\ Boxes /\ Pending /\ Flying
  <2>1. /\ wire' \subseteq wire /\ UNCHANGED <<pendingShot, bullets, hurt, shots>>
        /\ boxActs' \in {boxActs, [boxActs EXCEPT ![m.to] = Append(@, m.act)]}
    BY <1>6 DEF Deliver, replica
  <2>2. m.to \in Player /\ m.act \in ActKind
    BY DEF Typed, WireOK, Message
  <2>3. Boxes
    <3>1. CASE boxActs' = boxActs
      BY <3>1 DEF Boxes
    <3>2. CASE boxActs' = [boxActs EXCEPT ![m.to] = Append(@, m.act)]
      <4>1. ASSUME NEW i \in DOMAIN Append(boxActs[m.to], m.act)
            PROVE  \/ Append(boxActs[m.to], m.act)[i] = m.act
                   \/ i \in DOMAIN boxActs[m.to] /\ Append(boxActs[m.to], m.act)[i] = boxActs[m.to][i]
        BY <2>2 DEF Typed, BoxOK
      <4> QED
        BY <2>2, <3>2, <4>1 DEF Boxes, Typed, BoxOK
    <3> QED
      BY <2>1, <3>1, <3>2
  <2> QED
    BY <2>1, <2>3 DEF News, Pending, Flying
<1>7. ASSUME NEW m \in wire, Lose(m)
      PROVE  News /\ Boxes /\ Pending /\ Flying
  BY <1>7 DEF Lose, replica, box, history, News, Boxes, Pending, Flying
<1> QED
  BY <1>1, <1>2, <1>3, <1>4, <1>5, <1>6, <1>7, Steps DEF Start, Restart, NewLife, Quit

LEMMA UnderWayType ==
  ASSUME Typed, NEW q \in Player, NEW a
  PROVE  UnderWay(q, a) \in Nat /\ OnWire(q, a) \in Nat /\ CountOf(boxActs[q], a) \in Nat
<1>1. OnWire(q, a) \in Nat
  BY SomeOf DEF OnWire, Typed, WireOK
<1>2. CountOf(boxActs[q], a) \in Nat
  BY CountOfType DEF Typed, BoxOK
<1> QED
  BY <1>1, <1>2 DEF UnderWay

\* Without news of an action there is not more of it, and it is less by what the
\* player's process drains.
LEMMA UnderWayNotMore ==
  ASSUME Typed, Typed', NEW q \in Player, NEW a, \A m \in wire' \ wire : ~(m.to = q /\ m.act = a)
  PROVE  /\ boxActs'[q] = boxActs[q] => UnderWay(q, a)' <= UnderWay(q, a)
         /\ boxActs'[q] = <<>> => UnderWay(q, a)' + CountOf(boxActs[q], a) <= UnderWay(q, a)
<1>1. OnWire(q, a)' <= OnWire(q, a)
  BY OnWireNotMore DEF Typed
<1>2. OnWire(q, a)' \in Nat /\ CountOf(boxActs'[q], a) \in Nat
  <2>1. OnWire(q, a)' \in Nat
    BY SomeOf DEF OnWire, Typed, WireOK
  <2>2. CountOf(boxActs'[q], a) \in Nat
    BY CountOfType DEF Typed, BoxOK
  <2> QED
    BY <2>1, <2>2
<1>3. OnWire(q, a) \in Nat /\ CountOf(boxActs[q], a) \in Nat
  BY UnderWayType
<1>4. UnderWay(q, a) = CountOf(boxActs[q], a) + OnWire(q, a)
      /\ UnderWay(q, a)' = CountOf(boxActs'[q], a) + OnWire(q, a)'
  BY DEF UnderWay
<1>5. boxActs'[q] = <<>> => CountOf(boxActs'[q], a) = 0
  BY CountOfEmpty
<1> QED
  BY <1>1, <1>2, <1>3, <1>4, <1>5

\* A step of one player adds at most the copies of it.
LEMMA UnderWaySaid ==
  ASSUME Typed, Typed', NEW p \in Player, NEW q \in Player, NEW a, NEW h, NEW acts,
         boxActs'[q] = boxActs[q], \A m \in wire' \ wire : m \in Says(p, h, acts)
  PROVE  UnderWay(q, a)' <= UnderWay(q, a) + Copies
<1>1. OnWire(q, a)' <= OnWire(q, a) + Copies
  BY OnWireSaid DEF Typed
<1>2. OnWire(q, a)' \in Nat
  BY SomeOf DEF OnWire, Typed, WireOK
<1>3. OnWire(q, a) \in Nat /\ CountOf(boxActs[q], a) \in Nat
  BY UnderWayType
<1>4. UnderWay(q, a) = CountOf(boxActs[q], a) + OnWire(q, a)
      /\ UnderWay(q, a)' = CountOf(boxActs[q], a) + OnWire(q, a)'
  BY DEF UnderWay
<1> QED
  BY <1>1, <1>2, <1>3, <1>4, Constants

\* A delivery moves it.
LEMMA UnderWayDelivered ==
  ASSUME Typed, Typed', NEW m \in wire, Deliver(m), NEW q \in Player, NEW a, a # NoAct
  PROVE  UnderWay(q, a)' <= UnderWay(q, a)
<1>1. m.to \in Player /\ m.act \in ActKind
  BY DEF Typed, WireOK, Message
<1>2. wire' = wire \ {m} /\ boxActs' = IF m.act = NoAct THEN boxActs ELSE [boxActs EXCEPT ![m.to] = Append(@, m.act)]
  BY DEF Deliver
<1>3. CASE q = m.to /\ a = m.act
  <2>1. OnWire(q, a)' = OnWire(q, a) - 1
    BY <1>2, <1>3, OnWireTaken DEF Typed
  <2>2. boxActs'[q] = Append(boxActs[q], a) /\ boxActs[q] \in Seq(ActKind)
    BY <1>2, <1>3 DEF Typed, BoxOK
  <2>3. CountOf(boxActs'[q], a) = CountOf(boxActs[q], a) + 1
    BY <1>1, <1>3, <2>2, CountOfAppend
  <2>4. OnWire(q, a) \in Nat /\ CountOf(boxActs[q], a) \in Nat
    BY UnderWayType
  <2>5. UnderWay(q, a) = CountOf(boxActs[q], a) + OnWire(q, a)
        /\ UnderWay(q, a)' = CountOf(boxActs'[q], a) + OnWire(q, a)'
    BY DEF UnderWay
  <2> QED
    BY <2>1, <2>3, <2>4, <2>5
<1>4. CASE ~(q = m.to /\ a = m.act)
  <2>1. OnWire(q, a)' <= OnWire(q, a)
    BY <1>2, OnWireNotMore DEF Typed
  <2>2. CountOf(boxActs'[q], a) = CountOf(boxActs[q], a)
    <3>1. CASE boxActs'[q] = boxActs[q]
      BY <3>1
    <3>2. CASE boxActs'[q] # boxActs[q]
      <4>1. q = m.to /\ a # m.act /\ boxActs'[q] = Append(boxActs[q], m.act) /\ boxActs[q] \in Seq(ActKind)
        BY <1>2, <1>4, <3>2 DEF Typed, BoxOK
      <4> QED
        BY <1>1, <4>1, CountOfAppend
    <3> QED
      BY <3>1, <3>2
  <2>3. OnWire(q, a) \in Nat /\ CountOf(boxActs[q], a) \in Nat
    BY UnderWayType
  <2>4. OnWire(q, a)' \in Nat
    BY SomeOf DEF OnWire, Typed, WireOK
  <2>5. UnderWay(q, a) = CountOf(boxActs[q], a) + OnWire(q, a)
        /\ UnderWay(q, a)' = CountOf(boxActs'[q], a) + OnWire(q, a)'
    BY DEF UnderWay
  <2> QED
    BY <2>1, <2>2, <2>3, <2>4, <2>5
<1> QED
  BY <1>3, <1>4

LEMMA NextUnderWay ==
  ASSUME Typed', NEW q \in Player, NEW s
  PROVE  UnderWay(q, Hit(q, s))' \in Nat /\ UnderWay(q, Shoot(s))' \in Nat
<1>1. IsFiniteSet(wire')
  BY DEF Typed, WireOK
<1>2. Cardinality(Of(wire', q, Hit(q, s))) \in Nat /\ Cardinality(Of(wire', q, Shoot(s))) \in Nat
  BY <1>1, SomeOf
<1>3. CountOf(boxActs'[q], Hit(q, s)) \in Nat /\ CountOf(boxActs'[q], Shoot(s)) \in Nat
  BY CountOfType DEF Typed, BoxOK
<1> QED
  BY <1>2, <1>3 DEF UnderWay, OnWire, Hit, Shoot

LEMMA ShotsAreShots ==
  ASSUME Typed
  PROVE  \A s \in DOMAIN shots : s \in Shot /\ shots[s].by \in Player
<1>1. shots \in Seq([by : Player, special : Special]) /\ Len(shots) <= MaxShots
  BY DEF Typed, HistoryOK
<1>2. DOMAIN shots = 1..Len(shots) /\ Len(shots) \in Nat
  BY <1>1
<1>3. \A s \in 1..Len(shots) : shots[s] \in [by : Player, special : Special]
  BY <1>1, ElementOfSeq
<1> QED
  BY <1>1, <1>2, <1>3, Constants DEF Shot

\* A step that does not add to what a shot does or may do keeps within its budget.
LEMMA BudgetKept ==
  ASSUME Typed, Typed', NEW s \in DOMAIN shots, s \in DOMAIN shots', shots'[s] = shots[s],
         NEW q \in Player, Budget(q, s),
         pendingShot'[shots[s].by] = s => pendingShot[shots[s].by] = s,
         bullets'[shots[s].by][s] > 0 => bullets[shots[s].by][s] > 0,
         bullets'[q][s] + UnderWay(q, Shoot(s))' <= bullets[q][s] + UnderWay(q, Shoot(s)),
         hurt'[q][s] + bullets'[q][s] + UnderWay(q, Shoot(s))' + UnderWay(q, Hit(q, s))'
           <= hurt[q][s] + bullets[q][s] + UnderWay(q, Shoot(s)) + UnderWay(q, Hit(q, s))
  PROVE  Budget(q, s)'
<1> DEFINE by == shots[s].by
           P == IF pendingShot[by] = s THEN Copies ELSE 0
           Q == IF pendingShot'[by] = s THEN Copies ELSE 0
           B == IF bullets[by][s] > 0 THEN Copies ELSE 0
           C == IF bullets'[by][s] > 0 THEN Copies ELSE 0
<1>1. s \in Shot
  BY ShotsAreShots
<1>2. Q \in Nat /\ P \in Nat /\ Q <= P /\ B \in Nat /\ C \in Nat /\ C <= B
  BY Constants
<1>3. /\ UnderWay(q, Hit(q, s)) \in Nat /\ UnderWay(q, Shoot(s)) \in Nat
      /\ UnderWay(q, Hit(q, s))' \in Nat /\ UnderWay(q, Shoot(s))' \in Nat
  BY UnderWayType, NextUnderWay
<1>4. hurt[q][s] \in Nat /\ hurt'[q][s] \in Nat /\ bullets[q][s] \in Nat /\ bullets'[q][s] \in Nat
  BY <1>1 DEF Typed, HistoryOK, ReplicaOK
<1>5. /\ Announced(q, s) = bullets[q][s] + UnderWay(q, Shoot(s)) + P
      /\ Announced(q, s)' = bullets'[q][s] + UnderWay(q, Shoot(s))' + Q
      /\ Reported(q, s) = UnderWay(q, Hit(q, s)) + B
      /\ Reported(q, s)' = UnderWay(q, Hit(q, s))' + C
  BY DEF Announced, Reported
<1>6. Through(shots, s)' = Through(shots, s)
  BY DEF Through
<1> HIDE DEF by, P, Q, B, C
<1>7. Announced(q, s)' <= Announced(q, s)
      /\ hurt'[q][s] + Announced(q, s)' + Reported(q, s)' <= hurt[q][s] + Announced(q, s) + Reported(q, s)
  BY <1>2, <1>3, <1>4, <1>5
<1>8. Announced(q, s) \in Nat /\ Announced(q, s)' \in Nat /\ Reported(q, s) \in Nat /\ Reported(q, s)' \in Nat
  BY <1>2, <1>3, <1>4, <1>5
<1> QED
  BY <1>4, <1>6, <1>7, <1>8, Constants DEF Budget

LEMMA HitAndShootDiffer ==
  \A r, q \in Player, s, z \in Shot :
    /\ Hit(r, s) = Hit(q, z) => r = q /\ s = z
    /\ Shoot(s) = Shoot(z) => s = z
    /\ Hit(r, s) # Shoot(z)
<1> SUFFICES ASSUME NEW r \in Player, NEW q \in Player, NEW s \in Shot, NEW z \in Shot
             PROVE  /\ Hit(r, s) = Hit(q, z) => r = q /\ s = z
                    /\ Shoot(s) = Shoot(z) => s = z
                    /\ Hit(r, s) # Shoot(z)
  OBVIOUS
<1>1. Hit(r, s).target = r /\ Hit(r, s).shot = s /\ Hit(q, z).target = q /\ Hit(q, z).shot = z
      /\ Hit(r, s).type = "hit"
  BY ActsDiffer
<1>2. Shoot(s).shot = s /\ Shoot(z).shot = z /\ Shoot(z).type = "shoot"
  BY ActsDiffer
<1> QED
  BY <1>1, <1>2

\* What a fight does to a shot: its bullets are spent by what they hurt and by
\* whom they meet.
LEMMA FightCounts ==
  ASSUME Typed, ActsKnown, NEW p \in Player, NEW fire, NEW spent, NEW hits, NEW enemy, NEW meets, NEW victory,
         Fighting(p, fire, spent, hits, enemy, meets, victory), NEW s \in Shot
  PROVE  /\ BulletsAfter(p, fire)[s] \in Nat
         /\ s \notin DOMAIN hits => hurt'[p][s] = hurt[p][s] /\ bullets'[p][s] <= BulletsAfter(p, fire)[s]
         /\ s \in DOMAIN hits => /\ shots'[s].by # p
                                 /\ hurt'[p][s] + bullets'[p][s] <= hurt[p][s] + BulletsAfter(p, fire)[s]
                                 /\ bullets'[p][s] <= BulletsAfter(p, fire)[s]
         /\ s \in DOMAIN meets => BulletsAfter(p, fire)[s] > 0
         /\ s \in DOMAIN meets /\ ~Through(shots', s) => bullets'[p][s] < BulletsAfter(p, fire)[s]
         /\ \A r \in Player \ {p} : bullets'[r] = bullets[r] /\ hurt'[r] = hurt[r]
         /\ UNCHANGED boxActs
<1> DEFINE b == BulletsAfter(p, fire)
           left == Left(b, spent, hits)
<1>1. /\ bullets' = [bullets EXCEPT ![p] =
           [z \in Shot |-> IF z \in DOMAIN meets /\ ~Through(shots', z) THEN left[z] - 1 ELSE left[z]]]
      /\ hurt' = [hurt EXCEPT ![p] = [z \in Shot |-> IF z \in DOMAIN hits THEN @[z] + hits[z] ELSE @[z]]]
      /\ UNCHANGED boxActs
  BY DEF Fighting, Fight, box
<1>2. b \in [Shot -> Nat] /\ left = [z \in Shot |-> IF z \in DOMAIN spent THEN b[z] - spent[z] ELSE b[z]]
  BY FiredTypes DEF Fighting, Left
<1>3. \A z \in DOMAIN spent : spent[z] \in Nat /\ spent[z] <= b[z]
  BY FightShots
<1>4. \A z \in DOMAIN hits : z \in DOMAIN spent /\ shots'[z].by # p /\ hits[z] \in Nat /\ hits[z] <= spent[z]
  BY FightShots
<1>5. \A z \in DOMAIN meets : left[z] > 0
  BY DEF Fighting, Fight
<1> HIDE DEF b, left
<1>6. /\ bullets'[p][s] = IF s \in DOMAIN meets /\ ~Through(shots', s) THEN left[s] - 1 ELSE left[s]
      /\ hurt'[p][s] = IF s \in DOMAIN hits THEN hurt[p][s] + hits[s] ELSE hurt[p][s]
      /\ hurt[p][s] \in Nat
      /\ \A r \in Player \ {p} : bullets'[r] = bullets[r] /\ hurt'[r] = hurt[r]
  BY <1>1 DEF Typed, ReplicaOK, HistoryOK
<1>7. left[s] = IF s \in DOMAIN spent THEN b[s] - spent[s] ELSE b[s]
  BY <1>2
<1>8. b[s] \in Nat /\ (s \in DOMAIN meets => b[s] > 0)
  BY <1>2, <1>3, <1>5, <1>7
<1>9. bullets'[p][s] <= b[s] /\ (s \in DOMAIN meets /\ ~Through(shots', s) => bullets'[p][s] < b[s])
  BY <1>3, <1>6, <1>7, <1>8
<1>10. s \in DOMAIN hits => /\ shots'[s].by # p
                            /\ hurt'[p][s] + bullets'[p][s] <= hurt[p][s] + b[s]
  BY <1>3, <1>4, <1>6, <1>7, <1>8
<1> QED
  BY <1>1, <1>6, <1>8, <1>9, <1>10 DEF b

\* The messages of a fight: reports of shots of the player, that meet others.
LEMMA FightSays ==
  ASSUME Typed, ActsKnown, NEW p \in Player, NEW fire, NEW spent, NEW hits, NEW enemy, NEW meets, NEW victory,
         Fighting(p, fire, spent, hits, enemy, meets, victory), NEW m \in wire' \ wire
  PROVE  /\ m \in Says(p, hp'[p], AllHits) /\ m.to # p
         /\ \A q \in Player, s \in Shot :
              /\ m.act # Shoot(s)
              /\ m.act = Hit(q, s) => s \in DOMAIN meets /\ shots'[s].by = p
<1>1. m \in Says(p, hp'[p], AllHits) /\ \E s \in DOMAIN meets : m.act = Hit(meets[s], s)
  BY FightTypes
<1>2. PICK z \in DOMAIN meets : m.act = Hit(meets[z], z)
  BY <1>1
<1>3. z \in Shot /\ shots'[z].by = p
  BY FightShots
<1>4. meets[z] \in Player
  BY DEF Fighting, Targets, Typed, ReplicaOK, Views
<1> QED
  BY <1>1, <1>2, <1>3, <1>4, HitAndShootDiffer DEF Says

\* One shot within its budget.
LEMMA OldShotInFight ==
  ASSUME Typed, Typed', ActsKnown, Next,
         NEW p \in Player, NEW fire, NEW spent, NEW hits, NEW enemy, NEW meets, NEW victory,
         Fighting(p, fire, spent, hits, enemy, meets, victory),
         NEW s \in DOMAIN shots, ShotOK(s)
  PROVE  ShotOK(s)'
<1> DEFINE by == shots[s].by
<1>1. s \in Shot /\ by \in Player /\ s \in DOMAIN shots' /\ shots'[s] = shots[s]
  BY ShotsAreShots, ShotsStay
<1>2. BulletsAfter(p, fire)[s] = bullets[p][s]
  <2>1. shots \in Seq([by : Player, special : Special])
    BY DEF Typed, HistoryOK
  <2>2. fire \in Special => Len(shots) + 1 \in Shot /\ BulletsAfter(p, fire) = [bullets[p] EXCEPT ![Len(shots) + 1] = 1]
    BY FiredTypes DEF Fighting
  <2>3. fire \notin Special => BulletsAfter(p, fire) = bullets[p]
    BY DEF BulletsAfter
  <2>4. s # Len(shots) + 1 /\ bullets[p] \in [Shot -> Nat]
    BY <2>1 DEF Typed, ReplicaOK
  <2> QED
    BY <1>1, <2>2, <2>3, <2>4
<1>3. pendingShot'[by] = s => pendingShot[by] = s
  <2>1. pendingShot' = [pendingShot EXCEPT ![p] = IF fire \in Special THEN Len(ShotsAfter(p, fire)) ELSE 0]
    BY DEF Fighting, Fight
  <2>2. fire \in Special => Len(ShotsAfter(p, fire)) = Len(shots) + 1
    BY FiredTypes DEF Fighting
  <2>3. shots \in Seq([by : Player, special : Special])
    BY DEF Typed, HistoryOK
  <2>4. s # Len(shots) + 1 /\ s # 0
    BY <2>3
  <2> QED
    BY <1>1, <2>1, <2>2, <2>4 DEF Typed, OwnOK
<1>4. /\ bullets[by][s] <= 1 /\ hurt[by][s] = 0
      /\ \A r \in Player : bullets[r][s] \in Nat /\ hurt[r][s] \in Nat /\ bullets'[r][s] \in Nat /\ hurt'[r][s] \in Nat
  BY <1>1 DEF ShotOK, Typed, ReplicaOK, HistoryOK
<1>5. bullets'[by][s] <= bullets[by][s] /\ hurt'[by][s] = 0
  <2>1. CASE by = p
    BY <1>1, <1>2, <1>4, <2>1, FightCounts
  <2>2. CASE by # p
    BY <1>1, <1>4, <2>2, FightCounts
  <2> QED
    BY <2>1, <2>2
<1>6. ASSUME NEW q \in Player \ {by} PROVE Budget(q, s)'
  <2>1. Budget(q, s)
    BY DEF ShotOK
  <2>2. UnderWay(q, Shoot(s))' <= UnderWay(q, Shoot(s))
    <3>1. \A m \in wire' \ wire : m.act # Shoot(s)
      BY <1>1, FightSays
    <3> QED
      BY <1>1, <3>1, UnderWayNotMore, FightCounts
  <2>3. /\ UnderWay(q, Hit(q, s)) \in Nat /\ UnderWay(q, Shoot(s)) \in Nat
        /\ UnderWay(q, Hit(q, s))' \in Nat /\ UnderWay(q, Shoot(s))' \in Nat
    BY <1>1, NextUnderWay, UnderWayType
  <2>4. CASE by = p /\ s \in DOMAIN meets /\ ~Through(shots, s)
    <3>1. bullets[p][s] = 1 /\ bullets'[p][s] = 0
      <4>1. Through(shots', s) = Through(shots, s)
        BY <1>1 DEF Through
      <4>2. bullets[p][s] > 0 /\ bullets'[p][s] < bullets[p][s]
        BY <1>1, <1>2, <2>4, <4>1, FightCounts
      <4> QED
        BY <1>4, <2>4, <4>2
    <3>2. UnderWay(q, Hit(q, s))' <= UnderWay(q, Hit(q, s)) + Copies
      <4>1. \A m \in wire' \ wire : m \in Says(p, hp'[p], AllHits)
        BY FightSays
      <4> QED
        BY <1>1, <4>1, UnderWaySaid, FightCounts
    <3>3. bullets'[q][s] = bullets[q][s] /\ hurt'[q][s] = hurt[q][s]
      BY <1>1, <2>4, FightCounts
    <3>4. /\ Announced(q, s)' <= Announced(q, s) /\ Announced(q, s)' \in Nat
          /\ Reported(q, s)' <= Reported(q, s) /\ Reported(q, s)' \in Nat
      BY <1>1, <1>3, <1>4, <2>2, <2>3, <2>4, <3>1, <3>2, <3>3, Constants DEF Announced, Reported
    <3>5. Announced(q, s) \in Nat /\ Reported(q, s) \in Nat
      BY <1>4, <2>3, Constants DEF Announced, Reported
    <3>6. hurt'[q][s] + Announced(q, s)' + Reported(q, s)' <= hurt[q][s] + Announced(q, s) + Reported(q, s)
      BY <1>4, <3>3, <3>4, <3>5
    <3>7. ~Through(shots, s)' => ~Through(shots, s)
      BY <1>1 DEF Through
    <3> QED
      BY <1>4, <2>1, <3>4, <3>5, <3>6, <3>7, Constants DEF Budget
  <2>5. CASE by = p /\ s \in DOMAIN meets /\ Through(shots, s)
    <3>1. Announced(q, s)' <= Announced(q, s)
      <4>1. bullets'[q][s] = bullets[q][s]
        BY <1>1, <2>5, FightCounts
      <4> QED
        BY <1>1, <1>3, <1>4, <2>2, <2>3, <4>1, Constants DEF Announced
    <3>2. Announced(q, s) \in Nat /\ Announced(q, s)' \in Nat
      BY <1>4, <2>3, Constants DEF Announced
    <3>3. Through(shots, s)'
      BY <1>1, <2>5 DEF Through
    <3> QED
      BY <2>1, <3>1, <3>2, <3>3, Constants DEF Budget
  <2>6. CASE ~(by = p /\ s \in DOMAIN meets)
    <3>1. UnderWay(q, Hit(q, s))' <= UnderWay(q, Hit(q, s))
      <4>1. \A m \in wire' \ wire : m.act # Hit(q, s)
        BY <1>1, <2>6, FightSays
      <4> QED
        BY <1>1, <4>1, UnderWayNotMore, FightCounts
    <3>2. bullets'[q][s] <= bullets[q][s] /\ hurt'[q][s] + bullets'[q][s] <= hurt[q][s] + bullets[q][s]
      <4>1. CASE q = p
        BY <1>1, <1>2, <1>4, <4>1, FightCounts
      <4>2. CASE q # p
        BY <1>1, <1>4, <4>2, FightCounts
      <4> QED
        BY <4>1, <4>2
    <3> QED
      BY <1>1, <1>3, <1>4, <1>5, <2>1, <2>2, <2>3, <3>1, <3>2, BudgetKept
  <2> QED
    BY <2>4, <2>5, <2>6
<1> QED
  BY <1>1, <1>4, <1>5, <1>6 DEF ShotOK

\* A shot begins within its budget: one bullet, which may meet someone at once.
LEMMA NewShotInFight ==
  ASSUME Typed, Typed', ActsKnown,
         NEW p \in Player, NEW fire, NEW spent, NEW hits, NEW enemy, NEW meets, NEW victory,
         Fighting(p, fire, spent, hits, enemy, meets, victory),
         NEW s \in DOMAIN shots', s \notin DOMAIN shots
  PROVE  ShotOK(s)'
<1>1. shots \in Seq([by : Player, special : Special]) /\ shots' \in Seq([by : Player, special : Special])
  BY DEF Typed, HistoryOK
<1>2. shots' = ShotsAfter(p, fire) /\ (fire \in Special => Len(shots) < MaxShots)
  BY DEF Fighting, Fight
<1>3. fire \in Special /\ s = Len(shots) + 1
  <2>1. fire \notin Special => shots' = shots
    BY <1>2 DEF ShotsAfter
  <2>2. fire \in Special => Len(shots') = Len(shots) + 1
    BY <1>2, FiredTypes
  <2> QED
    BY <1>1, <2>1, <2>2
<1>4. /\ s \in Shot /\ shots'[s] = [by |-> p, special |-> fire] /\ Len(shots') = s
      /\ BulletsAfter(p, fire) = [bullets[p] EXCEPT ![s] = 1]
  BY <1>2, <1>3, FiredTypes
<1>5. shots'[s].by = p /\ BulletsAfter(p, fire)[s] = 1
  BY <1>4 DEF Typed, ReplicaOK
<1>6. \A q \in Player : bullets[q][s] = 0 /\ hurt[q][s] = 0
  <2>1. \A q \in Player : bullets[q][s] \in Nat /\ hurt[q][s] \in Nat
    BY <1>4 DEF Typed, ReplicaOK, HistoryOK
  <2> QED
    BY <1>4, <2>1 DEF ActsKnown
<1>7. /\ bullets'[p][s] <= 1 /\ bullets'[p][s] \in Nat /\ hurt'[p][s] = 0
      /\ \A q \in Player \ {p} : bullets'[q][s] = 0 /\ hurt'[q][s] = 0
      /\ UNCHANGED boxActs
  <2>1. bullets'[p][s] \in Nat
    BY <1>4 DEF Typed, ReplicaOK
  <2> QED
    BY <1>4, <1>5, <1>6, <2>1, FightCounts
<1>8. ASSUME NEW q \in Player
      PROVE  UnderWay(q, Shoot(s)) = 0 /\ UnderWay(q, Hit(q, s)) = 0
  <2>1. ASSUME NEW a \in {Shoot(s), Hit(q, s)}
        PROVE  UnderWay(q, a) = 0
    <3>1. a.type \in {"shoot", "hit"} /\ a.shot = s
      BY <1>4, ActsDiffer
    <3>2. Of(wire, q, a) = {}
      BY <3>1 DEF Of, ActsKnown
    <3>3. \A i \in DOMAIN boxActs[q] : boxActs[q][i] # a
      BY <3>1 DEF ActsKnown
    <3>4. CountOf(boxActs[q], a) = 0
      BY <3>3, CountOfAbsent DEF Typed, BoxOK
    <3>5. OnWire(q, a) = 0
      BY <3>2, FS_EmptySet DEF OnWire
    <3> QED
      BY <3>4, <3>5 DEF UnderWay
  <2> QED
    BY <2>1
<1>9. ASSUME NEW q \in Player \ {p} PROVE Budget(q, s)'
  <2>1. UnderWay(q, Shoot(s))' <= 0
    <3>1. \A m \in wire' \ wire : m.act # Shoot(s)
      BY <1>4, FightSays
    <3> QED
      BY <1>7, <1>8, <3>1, UnderWayNotMore
  <2>2. UnderWay(q, Shoot(s))' \in Nat /\ UnderWay(q, Hit(q, s))' \in Nat
    BY NextUnderWay
  <2>3. pendingShot'[p] = s
    <3>1. pendingShot' = [pendingShot EXCEPT ![p] = IF fire \in Special THEN Len(shots') ELSE 0]
      BY <1>2 DEF Fighting, Fight
    <3> QED
      BY <1>3, <1>4, <3>1 DEF Typed, OwnOK
  <2>4. Announced(q, s)' = Copies
    BY <1>5, <1>7, <2>1, <2>2, <2>3, Constants DEF Announced
  <2>5. ~Through(shots, s)' => Reported(q, s)' <= Copies /\ Reported(q, s)' \in Nat
    <3>1. CASE s \in DOMAIN meets /\ ~Through(shots, s)'
      <4>1. ~Through(shots', s)
        BY <3>1 DEF Through
      <4>2. bullets'[p][s] = 0
        <5>1. bullets'[p][s] < BulletsAfter(p, fire)[s]
          BY <1>4, <3>1, <4>1, FightCounts
        <5> QED
          BY <1>5, <1>7, <5>1
      <4>3. \A m \in wire' \ wire : m \in Says(p, hp'[p], AllHits)
        BY FightSays
      <4>4. UnderWay(q, Hit(q, s))' <= Copies
        BY <1>7, <1>8, <4>3, UnderWaySaid, Constants
      <4> QED
        BY <1>5, <2>2, <4>2, <4>4, Constants DEF Reported
    <3>2. CASE s \notin DOMAIN meets
      <4>1. \A m \in wire' \ wire : m.act # Hit(q, s)
        BY <1>4, <3>2, FightSays
      <4>2. UnderWay(q, Hit(q, s))' <= 0
        BY <1>7, <1>8, <4>1, UnderWayNotMore
      <4> QED
        BY <1>5, <1>7, <2>2, <4>2, Constants DEF Reported
    <3> QED
      BY <3>1, <3>2
  <2> QED
    BY <1>7, <2>4, <2>5, Constants DEF Budget
<1> QED
  BY <1>5, <1>7, <1>9 DEF ShotOK

\* The drain turns news into bullets and hits, and the news of a shot goes out.
LEMMA ShotInNetwork ==
  ASSUME Typed, Typed', ActsKnown, NEW p \in Player, NEW act \in ActKind, NEW stale, Network(p, act, stale),
         NEW s \in DOMAIN shots, ShotOK(s)
  PROVE  ShotOK(s)'
<1> DEFINE by == shots[s].by
<1>1. s \in Shot /\ by \in Player /\ shots' = shots
  BY ShotsAreShots DEF Network
<1>2. /\ boxActs' = [boxActs EXCEPT ![p] = <<>>] /\ pendingShot' = [pendingShot EXCEPT ![p] = 0]
      /\ bullets' = [bullets EXCEPT ![p] = [z \in Shot |-> @[z] + CountOf(boxActs[p], Shoot(z))]]
      /\ hurt' = [hurt EXCEPT ![p] = [z \in Shot |-> @[z] + CountOf(boxActs[p], Hit(p, z))]]
      /\ act = NoAct \/ (pendingShot[p] # 0 /\ act = Shoot(pendingShot[p]))
  BY DEF Network
<1>3. /\ \A r \in Player \ {p} : /\ bullets'[r] = bullets[r] /\ hurt'[r] = hurt[r] /\ boxActs'[r] = boxActs[r]
                                 /\ pendingShot'[r] = pendingShot[r]
      /\ bullets'[p][s] = bullets[p][s] + CountOf(boxActs[p], Shoot(s))
      /\ hurt'[p][s] = hurt[p][s] + CountOf(boxActs[p], Hit(p, s))
      /\ boxActs'[p] = <<>> /\ pendingShot'[p] = 0
  BY <1>1, <1>2 DEF Typed, OwnOK, ReplicaOK, HistoryOK, BoxOK
<1>4. \A r \in Player : /\ bullets[r][s] \in Nat /\ hurt[r][s] \in Nat /\ bullets'[r][s] \in Nat /\ hurt'[r][s] \in Nat
                        /\ pendingShot[r] \in 0..MaxShots
  BY <1>1 DEF Typed, OwnOK, ReplicaOK, HistoryOK
<1>5. \A m \in wire' \ wire : m \in Says(p, hp'[p], {act}) /\ m.src = p /\ m.to # p /\ m.act = act
  BY NetworkTypes DEF Says
<1>6. by = p => CountOf(boxActs[p], Shoot(s)) = 0 /\ CountOf(boxActs[p], Hit(p, s)) = 0
  <2>1. ASSUME by = p, NEW a \in {Shoot(s), Hit(p, s)} PROVE CountOf(boxActs[p], a) = 0
    <3>1. a.type \in {"shoot", "hit"} /\ a.shot = s
      BY <1>1, ActsDiffer
    <3>2. \A i \in DOMAIN boxActs[p] : boxActs[p][i] # a
      BY <2>1, <3>1 DEF ActsKnown
    <3> QED
      BY <3>2, CountOfAbsent DEF Typed, BoxOK
  <2> QED
    BY <2>1
<1>7. bullets'[by][s] = bullets[by][s] /\ hurt'[by][s] = hurt[by][s]
  BY <1>1, <1>3, <1>4, <1>6
<1>8. act # Shoot(s) \/ (by = p /\ pendingShot[p] = s)
  <2>1. ASSUME act = Shoot(s) PROVE by = p /\ pendingShot[p] = s
    <3>1. pendingShot[p] # 0 /\ pendingShot[p] \in Shot /\ Shoot(s) = Shoot(pendingShot[p])
      BY <1>1, <1>2, <1>4, <2>1, ActsDiffer, Constants DEF Shot
    <3>2. pendingShot[p] = s
      BY <1>1, <3>1, HitAndShootDiffer
    <3> QED
      BY <3>1, <3>2 DEF ActsKnown
  <2> QED
    BY <2>1
<1>9. ASSUME NEW q \in Player \ {by} PROVE Budget(q, s)'
  <2>1. Budget(q, s)
    BY DEF ShotOK
  <2>2. /\ UnderWay(q, Hit(q, s)) \in Nat /\ UnderWay(q, Shoot(s)) \in Nat
        /\ UnderWay(q, Hit(q, s))' \in Nat /\ UnderWay(q, Shoot(s))' \in Nat
        /\ CountOf(boxActs[q], Hit(q, s)) \in Nat /\ CountOf(boxActs[q], Shoot(s)) \in Nat
    BY NextUnderWay, UnderWayType
  <2>3. act # Hit(q, s)
    <3>1. act.type # "hit"
      <4>1. pendingShot[p] # 0 => pendingShot[p] \in Shot
        BY <1>4, Constants DEF Shot
      <4> HIDE DEF by
      <4> QED
        BY <1>2, <4>1, ActsDiffer
    <3> QED
      BY <1>1, <3>1, ActsDiffer
  <2>4. CASE q = p
    <3>1. \A m \in wire' \ wire : m.to # q
      BY <1>5, <2>4
    <3>2. /\ UnderWay(q, Shoot(s))' + CountOf(boxActs[q], Shoot(s)) <= UnderWay(q, Shoot(s))
          /\ UnderWay(q, Hit(q, s))' + CountOf(boxActs[q], Hit(q, s)) <= UnderWay(q, Hit(q, s))
      BY <1>3, <2>4, <3>1, UnderWayNotMore
    <3>3. pendingShot'[by] = pendingShot[by]
      BY <1>1, <1>3, <2>4
    <3>4. /\ bullets'[q][s] = bullets[q][s] + CountOf(boxActs[q], Shoot(s))
          /\ hurt'[q][s] = hurt[q][s] + CountOf(boxActs[q], Hit(q, s))
      BY <1>3, <2>4
    <3>5. /\ bullets'[q][s] + UnderWay(q, Shoot(s))' <= bullets[q][s] + UnderWay(q, Shoot(s))
          /\ hurt'[q][s] + bullets'[q][s] + UnderWay(q, Shoot(s))' + UnderWay(q, Hit(q, s))'
               <= hurt[q][s] + bullets[q][s] + UnderWay(q, Shoot(s)) + UnderWay(q, Hit(q, s))
      BY <1>4, <2>2, <3>2, <3>4
    <3> QED
      BY <1>1, <1>7, <2>1, <3>3, <3>5, BudgetKept
  <2>5. CASE q # p
    <3>1. /\ bullets'[q][s] = bullets[q][s] /\ hurt'[q][s] = hurt[q][s] /\ boxActs'[q] = boxActs[q]
      BY <1>3, <2>5
    <3>2. UnderWay(q, Hit(q, s))' <= UnderWay(q, Hit(q, s))
      BY <1>5, <2>3, <3>1, UnderWayNotMore
    <3>3. CASE act = Shoot(s)
      <4>1. by = p /\ pendingShot[by] = s /\ pendingShot'[by] # s
        BY <1>1, <1>3, <1>8, <3>3, Constants DEF Shot
      <4>2. UnderWay(q, Shoot(s))' <= UnderWay(q, Shoot(s)) + Copies
        <5>1. \A m \in wire' \ wire : m \in Says(p, hp'[p], {act})
          BY <1>5
        <5> QED
          BY <3>1, <5>1, UnderWaySaid
      <4>3. Announced(q, s)' <= Announced(q, s) /\ Announced(q, s)' \in Nat /\ Announced(q, s) \in Nat
        BY <1>1, <1>4, <2>2, <3>1, <4>1, <4>2, Constants DEF Announced
      <4>4. Reported(q, s)' <= Reported(q, s) /\ Reported(q, s)' \in Nat /\ Reported(q, s) \in Nat
        BY <1>1, <1>4, <1>7, <2>2, <3>2, Constants DEF Reported
      <4>5. Through(shots, s)' = Through(shots, s)
        BY <1>1 DEF Through
      <4>6. hurt'[q][s] + Announced(q, s)' + Reported(q, s)' <= hurt[q][s] + Announced(q, s) + Reported(q, s)
        BY <1>4, <3>1, <4>3, <4>4
      <4> QED
        BY <1>4, <2>1, <4>3, <4>4, <4>5, <4>6, Constants DEF Budget
    <3>4. CASE act # Shoot(s)
      <4>1. UnderWay(q, Shoot(s))' <= UnderWay(q, Shoot(s))
        BY <1>5, <3>1, <3>4, UnderWayNotMore
      <4>2. pendingShot'[by] = s => pendingShot[by] = s
        BY <1>1, <1>3, Constants DEF Shot
      <4>3. /\ bullets'[q][s] + UnderWay(q, Shoot(s))' <= bullets[q][s] + UnderWay(q, Shoot(s))
            /\ hurt'[q][s] + bullets'[q][s] + UnderWay(q, Shoot(s))' + UnderWay(q, Hit(q, s))'
                 <= hurt[q][s] + bullets[q][s] + UnderWay(q, Shoot(s)) + UnderWay(q, Hit(q, s))
        BY <1>4, <2>2, <3>1, <3>2, <4>1
      <4> QED
        BY <1>1, <1>7, <2>1, <4>2, <4>3, BudgetKept
    <3> QED
      BY <3>3, <3>4
  <2> QED
    BY <2>4, <2>5
<1> QED
  BY <1>1, <1>7, <1>9 DEF ShotOK

\* The other steps start no shot and report none.
LEMMA ShotElsewhere ==
  ASSUME Typed, Typed', UNCHANGED shots,
         \A r \in Player : /\ pendingShot'[r] \in {0, pendingShot[r]}
                           /\ bullets'[r] \in {NoBullets, bullets[r]} /\ hurt'[r] = hurt[r],
         NEW s \in DOMAIN shots, ShotOK(s),
         \A r \in Player : /\ UnderWay(r, Shoot(s))' <= UnderWay(r, Shoot(s))
                           /\ UnderWay(r, Hit(r, s))' <= UnderWay(r, Hit(r, s))
  PROVE  ShotOK(s)'
<1> DEFINE by == shots[s].by
<1>1. s \in Shot /\ by \in Player /\ s # 0
  BY ShotsAreShots, Constants DEF Shot
<1>2. \A r \in Player : /\ bullets[r][s] \in Nat /\ hurt[r][s] \in Nat /\ bullets'[r][s] \in Nat /\ hurt'[r][s] \in Nat
                        /\ bullets'[r][s] <= bullets[r][s] /\ hurt'[r][s] = hurt[r][s]
  <2>1. NoBullets[s] = 0
    BY <1>1 DEF NoBullets
  <2>2. ASSUME NEW r \in Player
        PROVE  /\ bullets[r][s] \in Nat /\ hurt[r][s] \in Nat /\ bullets'[r][s] \in Nat /\ hurt'[r][s] \in Nat
               /\ bullets'[r] = NoBullets \/ bullets'[r] = bullets[r]
               /\ hurt'[r] = hurt[r]
    BY <1>1 DEF Typed, ReplicaOK, HistoryOK
  <2>3. ASSUME NEW r \in Player PROVE bullets'[r][s] <= bullets[r][s] /\ hurt'[r][s] = hurt[r][s]
    BY <2>1, <2>2
  <2> QED
    BY <2>2, <2>3
<1>3. ASSUME NEW q \in Player \ {by} PROVE Budget(q, s)'
  <2>1. /\ UnderWay(q, Hit(q, s)) \in Nat /\ UnderWay(q, Shoot(s)) \in Nat
        /\ UnderWay(q, Hit(q, s))' \in Nat /\ UnderWay(q, Shoot(s))' \in Nat
    BY NextUnderWay, UnderWayType
  <2>2. /\ UnderWay(q, Shoot(s))' <= UnderWay(q, Shoot(s)) /\ UnderWay(q, Hit(q, s))' <= UnderWay(q, Hit(q, s))
    OBVIOUS
  <2>3. /\ bullets'[q][s] + UnderWay(q, Shoot(s))' <= bullets[q][s] + UnderWay(q, Shoot(s))
        /\ hurt'[q][s] + bullets'[q][s] + UnderWay(q, Shoot(s))' + UnderWay(q, Hit(q, s))'
             <= hurt[q][s] + bullets[q][s] + UnderWay(q, Shoot(s)) + UnderWay(q, Hit(q, s))
    BY <1>2, <2>1, <2>2
  <2>4. (pendingShot'[by] = s => pendingShot[by] = s) /\ (bullets'[by][s] > 0 => bullets[by][s] > 0)
    <3>1. bullets'[by][s] <= bullets[by][s] /\ bullets[by][s] \in Nat /\ bullets'[by][s] \in Nat
      BY <1>1, <1>2
    <3>2. pendingShot'[by] \in {0, pendingShot[by]}
      BY <1>1
    <3> QED
      BY <1>1, <3>1, <3>2
  <2>5. Budget(q, s)
    BY DEF ShotOK
  <2> QED
    BY <2>3, <2>4, <2>5, BudgetKept
<1>4. bullets'[by][s] <= 1 /\ hurt'[by][s] = 0
  BY <1>1, <1>2 DEF ShotOK
<1> QED
  BY <1>3, <1>4 DEF ShotOK

LEMMA ShotStep ==
  ASSUME Typed, ActsKnown, ShotInv, Next
  PROVE  ShotInv'
<1>1. Typed'
  BY TypedStep
<1>2. \A s \in DOMAIN shots : s \in Shot /\ ShotOK(s)
  BY ShotsAreShots DEF ShotInv
<1>3. ASSUME NEW p \in Player, NEW fire, NEW spent, NEW hits, NEW enemy, NEW meets, NEW victory,
             Fighting(p, fire, spent, hits, enemy, meets, victory)
      PROVE  ShotInv'
  <2>1. ASSUME NEW s \in DOMAIN shots' PROVE ShotOK(s)'
    BY <1>1, <1>2, <1>3, OldShotInFight, NewShotInFight
  <2> QED
    BY <2>1 DEF ShotInv
<1>4. ASSUME NEW p \in Player, NEW act \in ActKind, NEW stale, Network(p, act, stale)
      PROVE  ShotInv'
  <2>1. UNCHANGED shots
    BY <1>4 DEF Network
  <2>2. ASSUME NEW s \in DOMAIN shots PROVE ShotOK(s)'
    BY <1>1, <1>2, <1>4, ShotInNetwork
  <2> QED
    BY <2>1, <2>2 DEF ShotInv
<1>5. ASSUME UNCHANGED shots,
             \A r \in Player : /\ pendingShot'[r] \in {0, pendingShot[r]}
                               /\ bullets'[r] \in {NoBullets, bullets[r]} /\ hurt'[r] = hurt[r],
             \A s \in DOMAIN shots, r \in Player :
               /\ UnderWay(r, Shoot(s))' <= UnderWay(r, Shoot(s))
               /\ UnderWay(r, Hit(r, s))' <= UnderWay(r, Hit(r, s))
      PROVE  ShotInv'
  <2>1. ASSUME NEW s \in DOMAIN shots PROVE ShotOK(s)'
    <3>1. ShotOK(s)
      BY <1>2
    <3>2. \A r \in Player : /\ UnderWay(r, Shoot(s))' <= UnderWay(r, Shoot(s))
                            /\ UnderWay(r, Hit(r, s))' <= UnderWay(r, Hit(r, s))
      BY <1>5
    <3> QED
      BY <1>1, <1>5, <3>1, <3>2, ShotElsewhere
  <2> QED
    BY <1>5, <2>1 DEF ShotInv
<1>6. ASSUME NEW p \in Player, NEW c \in Crate, PickUp(p, c)
      PROVE  ShotInv'
  <2>1. UNCHANGED <<shots, pendingShot, bullets, hurt, boxActs>>
    BY <1>6 DEF PickUp, box
  <2>2. \A m \in wire' \ wire : m.act.type = "pickup"
    BY <1>6, PickUpTypes, ActsDiffer DEF Says
  <2>3. ASSUME NEW s \in DOMAIN shots, NEW r \in Player
        PROVE  /\ UnderWay(r, Shoot(s))' <= UnderWay(r, Shoot(s))
               /\ UnderWay(r, Hit(r, s))' <= UnderWay(r, Hit(r, s))
    <3>1. \A m \in wire' \ wire : m.act # Shoot(s) /\ m.act # Hit(r, s)
      BY <1>2, <2>2, ActsDiffer
    <3> QED
      BY <1>1, <2>1, <3>1, UnderWayNotMore
  <2> QED
    BY <1>5, <2>1, <2>3
<1>7. ASSUME NEW p \in Player, Blank(p)
      PROVE  ShotInv'
  <2>1. /\ wire' \subseteq wire /\ boxActs' = [boxActs EXCEPT ![p] = <<>>]
        /\ pendingShot' = [pendingShot EXCEPT ![p] = 0] /\ bullets' = [bullets EXCEPT ![p] = NoBullets]
        /\ UNCHANGED <<shots, hurt>>
    BY <1>7 DEF Blank
  <2>2. \A r \in Player : /\ pendingShot'[r] \in {0, pendingShot[r]}
                          /\ bullets'[r] \in {NoBullets, bullets[r]} /\ hurt'[r] = hurt[r]
    BY <2>1 DEF Typed, OwnOK, ReplicaOK
  <2>3. ASSUME NEW r \in Player, NEW a
        PROVE  UnderWay(r, a)' <= UnderWay(r, a)
    <3>1. (boxActs'[r] = boxActs[r] => UnderWay(r, a)' <= UnderWay(r, a))
          /\ (boxActs'[r] = <<>> => UnderWay(r, a)' + CountOf(boxActs[r], a) <= UnderWay(r, a))
      BY <1>1, <2>1, UnderWayNotMore
    <3>2. boxActs'[r] = boxActs[r] \/ boxActs'[r] = <<>>
      BY <2>1 DEF Typed, BoxOK
    <3>3. CountOf(boxActs[r], a) \in Nat /\ UnderWay(r, a) \in Nat
      BY UnderWayType
    <3>4. UnderWay(r, a)' \in Nat
      BY <1>1, SomeOf, CountOfType DEF UnderWay, OnWire, Typed, WireOK, BoxOK
    <3> QED
      BY <3>1, <3>2, <3>3, <3>4
  <2>4. ASSUME NEW s \in DOMAIN shots, NEW r \in Player
        PROVE  /\ UnderWay(r, Shoot(s))' <= UnderWay(r, Shoot(s))
               /\ UnderWay(r, Hit(r, s))' <= UnderWay(r, Hit(r, s))
    BY <2>3 DEF Shoot, Hit
  <2> QED
    BY <1>5, <2>1, <2>2, <2>4
<1>8. ASSUME NEW m \in wire, Deliver(m)
      PROVE  ShotInv'
  <2>1. UNCHANGED <<shots, pendingShot, bullets, hurt>>
    BY <1>8 DEF Deliver, replica
  <2>2. ASSUME NEW s \in DOMAIN shots, NEW r \in Player
        PROVE  /\ UnderWay(r, Shoot(s))' <= UnderWay(r, Shoot(s))
               /\ UnderWay(r, Hit(r, s))' <= UnderWay(r, Hit(r, s))
    <3>1. Shoot(s) # NoAct /\ Hit(r, s) # NoAct
      BY <1>2, ActsDiffer
    <3> QED
      BY <1>1, <1>8, <3>1, UnderWayDelivered
  <2> QED
    BY <1>5, <2>1, <2>2
<1>9. ASSUME NEW m \in wire, Lose(m)
      PROVE  ShotInv'
  <2>1. UNCHANGED <<shots, pendingShot, bullets, hurt, boxActs>> /\ wire' \subseteq wire
    BY <1>9 DEF Lose, replica, box, history
  <2>2. ASSUME NEW s \in DOMAIN shots, NEW r \in Player
        PROVE  /\ UnderWay(r, Shoot(s))' <= UnderWay(r, Shoot(s))
               /\ UnderWay(r, Hit(r, s))' <= UnderWay(r, Hit(r, s))
    BY <1>1, <2>1, UnderWayNotMore
  <2> QED
    BY <1>5, <2>1, <2>2
<1> QED
  BY <1>3, <1>4, <1>6, <1>7, <1>8, <1>9, Steps DEF Start, Restart, NewLife, Quit

\* All that is counted holds of every shot, always.
LEMMA ShotsAlways == Spec => [](ActsKnown /\ ShotInv)
<1>1. Init => ActsKnown /\ ShotInv
  BY Constants DEF Init, ActsKnown, ShotInv, NoBullets, Shot
<1>2. Typed /\ ActsKnown /\ ShotInv /\ [Next]_vars => (ActsKnown /\ ShotInv)'
  <2>1. ASSUME UNCHANGED vars, ActsKnown PROVE ActsKnown'
    BY <2>1 DEF ActsKnown, vars, own, replica, box, history
  <2>2. ASSUME UNCHANGED vars, ShotInv PROVE ShotInv'
    BY <2>2 DEF ShotInv, ShotOK, Budget, Announced, Reported, UnderWay, OnWire, Through,
                vars, own, replica, box, history, Shoot, Hit
  <2> QED
    BY <2>1, <2>2, ActsKnownStep, ShotStep
<1> QED
  BY TypedAlways, <1>1, <1>2, PTL DEF Spec

\* A bullet hurts its shooter never, and another player at most twice for each
\* copy of its messages (check_collisions_on_player, and the hit report applied
\* in main), whatever is delayed, doubled, reordered or lost.
THEOREM ShotsHurtBounded == Spec => []HurtBounded
<1>1. Typed /\ ActsKnown /\ ShotInv => HurtBounded
  <2>1. SUFFICES ASSUME Typed, ActsKnown, ShotInv, NEW s \in DOMAIN shots, NEW p \in Player
                 PROVE  /\ shots[s].by = p => hurt[p][s] = 0
                        /\ ~Through(shots, s) => hurt[p][s] <= 2 * Copies
    BY DEF HurtBounded
  <2>2. ShotOK(s)
    BY <2>1 DEF ShotInv
  <2>3. CASE shots[s].by = p
    BY <2>2, <2>3, Constants DEF ShotOK
  <2>4. CASE shots[s].by # p
    <3>1. Budget(p, s)
      BY <2>2, <2>4 DEF ShotOK
    <3>2. s \in Shot /\ shots[s].by \in Player
      BY <2>1, ShotsAreShots
    <3>3. hurt[p][s] \in Nat /\ bullets[p][s] \in Nat
      BY <2>1, <3>2 DEF Typed, HistoryOK, ReplicaOK
    <3>4. UnderWay(p, Shoot(s)) \in Nat /\ UnderWay(p, Hit(p, s)) \in Nat
      BY <2>1, UnderWayType
    <3>5. Announced(p, s) \in Nat /\ Reported(p, s) \in Nat
      BY <3>3, <3>4, Constants DEF Announced, Reported
    <3> QED
      BY <2>4, <3>1, <3>3, <3>5, Constants DEF Budget
  <2> QED
    BY <2>3, <2>4
<1> QED
  BY TypedAlways, ShotsAlways, <1>1, PTL

\* Every variable keeps its type: no health below zero, no player alive without
\* health in a game that goes on, not more bullets of a shot than copies of its
\* message, and nobody shown whom the network client does not know.
THEOREM TypeCorrect == Spec => []TypeOK
<1>1. Typed /\ ActsKnown /\ ShotInv => TypeOK
  <2>1. SUFFICES ASSUME Typed, ActsKnown, ShotInv, NEW p \in Player, NEW s \in Shot
                 PROVE  bullets[p][s] <= Copies
    <3>1. ASSUME Typed, \A p \in Player : \A s \in Shot : bullets[p][s] <= Copies
          PROVE  bullets \in [Player -> [Shot -> 0..Copies]]
      <4>1. bullets \in [Player -> [Shot -> Nat]]
        BY <3>1 DEF Typed, ReplicaOK
      <4>2. ASSUME NEW p \in Player PROVE bullets[p] \in [Shot -> 0..Copies]
        BY <3>1, <4>1, <4>2, Constants
      <4> QED
        BY <4>1, <4>2
    <3> QED
      BY <2>1, <3>1, TypedIsTypeOK
  <2>2. bullets[p][s] \in Nat
    BY <2>1 DEF Typed, ReplicaOK
  <2>3. CASE s \notin DOMAIN shots
    BY <2>1, <2>2, <2>3, Constants DEF ActsKnown
  <2>4. CASE s \in DOMAIN shots
    <3>1. ShotOK(s)
      BY <2>1, <2>4 DEF ShotInv
    <3>2. CASE shots[s].by = p
      BY <2>2, <3>1, <3>2, Constants DEF ShotOK
    <3>3. CASE shots[s].by # p
      <4>1. Announced(p, s) <= Copies
        BY <2>1, <3>1, <3>3 DEF ShotOK, Budget
      <4>2. UnderWay(p, Shoot(s)) \in Nat
        BY <2>1, UnderWayType
      <4> QED
        BY <2>2, <4>1, <4>2, Constants DEF Announced
    <3> QED
      BY <3>2, <3>3
  <2> QED
    BY <2>3, <2>4
<1> QED
  BY TypedAlways, ShotsAlways, <1>1, PTL
=============================================================================
