----------------------------- MODULE NetClient -----------------------------
(***************************************************************************)
(* arena_game.py's NetworkClient over net.py's UdpTransport: the network   *)
(* side of one game process.                                               *)
(*                                                                         *)
(* Three threads share one object: the game thread (connect, send_state,   *)
(* drain_states, stop), the receiver (_recv_loop, which calls the          *)
(* handlers) and the pinger (_ping_loop).  What the receiver tells the     *)
(* game is behind _lock; what the pinger tells the receiver is not.  Each  *)
(* statement that touches shared state is a step of its own.               *)
(*                                                                         *)
(* The network delivers what it likes: predictions of other players, PONGs *)
(* for any PING that left, late or repeated, and datagrams that are no     *)
(* message at all (the edge passes on whatever any client sends).  The     *)
(* i-th prediction handled has number i, and stands for its payload and    *)
(* its latency alike.  Predictions with the player's own id and PONGs that *)
(* match no outstanding PING change nothing and are left out.              *)
(***************************************************************************)
EXTENDS Naturals, Sequences

CONSTANTS
  Peer,               \* the other players (keys of remote_states)
  MaxPredictions,     \* bound on the predictions received
  MaxSeq              \* bound on the sequence numbers used while running

ASSUME NetAssumption == MaxPredictions \in Nat /\ MaxSeq \in Nat

VARIABLES
  remoteStates,       \* remote_states: per player the prediction stored, or 0
  remoteLatencies,    \* remote_latencies: the prediction it was computed from
  pendingActions,     \* pending_actions: [src, id]
  lock,               \* who holds _lock: "free", "recv" or "game"
  seq,                \* _seq
  lastPingSeq,        \* _last_ping_seq
  lastPingT,          \* _last_ping_t: the PING it was taken for
  pingMs,             \* ping_ms: [seq: PING answered, stamp: start time used]
  running,            \* NetworkClient._running
  receiving,          \* UdpTransport._running
  sockOpen,           \* the socket is open
  game, snap,         \* game thread: where it is; copies made by drain_states
  recv, msg,          \* receiver: where it is; the message being handled
  ping, pseq,         \* pinger: where it is; the seq it drew
  count,              \* predictions handled so far
  pinged,             \* history: seq of each PING that left
  shown, shownLat,    \* history: what the game was last shown of each player
  given               \* history: actions the game was given

shared  == <<remoteStates, remoteLatencies, pendingActions>>
pingVar == <<lastPingSeq, lastPingT, pingMs, pinged>>
flags   == <<running, receiving, sockOpen>>
gameVar == <<game, snap, shown, shownLat, given>>
recvVar == <<recv, msg, count>>
pingPc  == <<ping, pseq>>
vars == <<shared, lock, seq, pingVar, flags, gameVar, recvVar, pingPc>>

Nothing   == [p \in Peer |-> 0]
NoSnap    == [states |-> Nothing, lats |-> Nothing, actions |-> <<>>]

Init ==
  /\ remoteStates = Nothing /\ remoteLatencies = Nothing /\ pendingActions = <<>>
  /\ lock = "free" /\ seq = 0
  /\ lastPingSeq = 0 /\ lastPingT = 0 /\ pingMs = [seq |-> 0, stamp |-> 0]
  /\ running = FALSE /\ receiving = FALSE /\ sockOpen = TRUE
  /\ game = "new" /\ snap = NoSnap
  /\ recv = "off" /\ msg = <<>> /\ count = 0
  /\ ping = "off" /\ pseq = 0
  /\ pinged = {} /\ shown = Nothing /\ shownLat = Nothing /\ given = <<>>
-----------------------------------------------------------------------------
(* Game thread *)

\* A PING and the REGISTER leave, then the two threads start.
Connect ==
  /\ game = "new" /\ game' = "idle"
  /\ seq' = seq + 2 /\ pinged' = {seq + 1}
  /\ running' = TRUE /\ receiving' = TRUE
  /\ recv' = "recvfrom" /\ ping' = "test"
  /\ UNCHANGED <<shared, lock, lastPingSeq, lastPingT, pingMs, sockOpen, snap,
                 shown, shownLat, given, msg, count, pseq>>

\* send_state draws a sequence number; what leaves is no concern of this model.
SendState ==
  /\ game = "idle" /\ seq < MaxSeq
  /\ seq' = seq + 1
  /\ UNCHANGED <<shared, lock, pingVar, flags, gameVar, recvVar, pingPc>>

DrainStates ==
  /\ game = "idle" /\ game' = "lock"
  /\ UNCHANGED <<shared, lock, seq, pingVar, flags, snap, shown, shownLat, given,
                 recvVar, pingPc>>

FaultyDrainLock ==
  /\ game = "lock" /\ game' = "states"
  /\ lock' = "game"
  /\ UNCHANGED <<shared, seq, pingVar, flags, snap, shown, shownLat, given,
                 recvVar, pingPc>>

DrainLock ==
  /\ game = "lock" /\ game' = "states"
  /\ lock = "free" /\ lock' = "game"
  /\ UNCHANGED <<shared, seq, pingVar, flags, snap, shown, shownLat, given,
                 recvVar, pingPc>>

CopyStates ==
  /\ game = "states" /\ game' = "latencies"
  /\ snap' = [snap EXCEPT !.states = remoteStates]
  /\ UNCHANGED <<shared, lock, seq, pingVar, flags, shown, shownLat, given,
                 recvVar, pingPc>>

CopyLatencies ==
  /\ game = "latencies" /\ game' = "actions"
  /\ snap' = [snap EXCEPT !.lats = remoteLatencies]
  /\ UNCHANGED <<shared, lock, seq, pingVar, flags, shown, shownLat, given,
                 recvVar, pingPc>>

CopyActions ==
  /\ game = "actions" /\ game' = "clear"
  /\ snap' = [snap EXCEPT !.actions = pendingActions]
  /\ UNCHANGED <<shared, lock, seq, pingVar, flags, shown, shownLat, given,
                 recvVar, pingPc>>

FaultyClearActions ==
  /\ game = "clear" /\ game' = "idle"
  /\ lock' = "free"
  /\ shown' = snap.states /\ shownLat' = snap.lats
  /\ given' = given \o snap.actions
  /\ snap' = NoSnap
  /\ UNCHANGED <<shared, seq, pingVar, flags, recvVar, pingPc>>

\* The list is cleared, the lock released, and the game has its copies.
ClearActions ==
  /\ game = "clear" /\ game' = "idle"
  /\ pendingActions' = <<>> /\ lock' = "free"
  /\ shown' = snap.states /\ shownLat' = snap.lats
  /\ given' = given \o snap.actions
  /\ snap' = NoSnap
  /\ UNCHANGED <<remoteStates, remoteLatencies, seq, pingVar, flags, recvVar, pingPc>>

FaultyStop ==
  /\ game = "idle" /\ game' = "stopped"
  /\ running' = FALSE
  /\ UNCHANGED <<shared, lock, seq, pingVar, receiving, sockOpen, snap, shown,
                 shownLat, given, recvVar, pingPc>>

\* stop, and close up to the join of the receiver.
Stop ==
  /\ game = "idle" /\ game' = "join"
  /\ running' = FALSE /\ receiving' = FALSE
  /\ UNCHANGED <<shared, lock, seq, pingVar, sockOpen, snap, shown, shownLat, given,
                 recvVar, pingPc>>

\* The join returned, or gave up after its second.
CloseSocket ==
  /\ game = "join" /\ game' = "stopped"
  /\ sockOpen' = FALSE
  /\ UNCHANGED <<shared, lock, seq, pingVar, running, receiving, snap, shown, shownLat,
                 given, recvVar, pingPc>>
-----------------------------------------------------------------------------
(* Receiver *)

RecvPrediction(p, hasAction) ==
  /\ recv = "recvfrom" /\ sockOpen /\ count < MaxPredictions
  /\ recv' = "lock" /\ count' = count + 1
  /\ msg' = [src |-> p, id |-> count + 1, act |-> hasAction]
  /\ UNCHANGED <<shared, lock, seq, pingVar, flags, gameVar, pingPc>>

TakeLock ==
  /\ recv = "lock" /\ recv' = "state"
  /\ lock = "free" /\ lock' = "recv"
  /\ UNCHANGED <<shared, seq, pingVar, flags, gameVar, msg, count, pingPc>>

StoreState ==
  /\ recv = "state" /\ recv' = "latency"
  /\ remoteStates' = [remoteStates EXCEPT ![msg.src] = msg.id]
  /\ UNCHANGED <<remoteLatencies, pendingActions, lock, seq, pingVar, flags, gameVar,
                 msg, count, pingPc>>

StoreLatency ==
  /\ recv = "latency" /\ recv' = "action"
  /\ remoteLatencies' = [remoteLatencies EXCEPT ![msg.src] = msg.id]
  /\ UNCHANGED <<remoteStates, pendingActions, lock, seq, pingVar, flags, gameVar,
                 msg, count, pingPc>>

FaultyQueueAction ==
  /\ recv = "action" /\ recv' = "recvfrom"
  /\ pendingActions' = IF msg.act
                       THEN Append(pendingActions, [src |-> msg.src, id |-> msg.id])
                       ELSE pendingActions
  /\ lock' = IF msg.act THEN "free" ELSE lock
  /\ msg' = <<>>
  /\ UNCHANGED <<remoteStates, remoteLatencies, seq, pingVar, flags, gameVar, count, pingPc>>

\* The last statement under the lock, and its release.
QueueAction ==
  /\ recv = "action" /\ recv' = "recvfrom"
  /\ pendingActions' = IF msg.act
                       THEN Append(pendingActions, [src |-> msg.src, id |-> msg.id])
                       ELSE pendingActions
  /\ lock' = "free" /\ msg' = <<>>
  /\ UNCHANGED <<remoteStates, remoteLatencies, seq, pingVar, flags, gameVar, count, pingPc>>

\* _on_pong has found that the PONG answers the latest PING ...
PongMatches(s) ==
  /\ recv = "recvfrom" /\ sockOpen
  /\ s \in pinged /\ s = lastPingSeq
  /\ recv' = "pong" /\ msg' = [seq |-> s]
  /\ UNCHANGED <<shared, lock, seq, pingVar, flags, gameVar, count, pingPc>>

\* ... and only then reads when that PING was sent.
SetPing ==
  /\ recv = "pong" /\ recv' = "recvfrom"
  /\ pingMs' = [seq |-> msg.seq, stamp |-> lastPingT]
  /\ msg' = <<>>
  /\ UNCHANGED <<shared, lock, seq, lastPingSeq, lastPingT, pinged, flags, gameVar,
                 count, pingPc>>

\* decode_message raises outside the handlers' try: the thread ends.
RecvUndecodable ==
  /\ recv = "recvfrom" /\ sockOpen
  /\ recv' = "dead"
  /\ UNCHANGED <<shared, lock, seq, pingVar, flags, gameVar, msg, count, pingPc>>

\* The loop's test after a handler or a timeout of 0.2 s; or recvfrom raises
\* because the socket was closed under it.
RecvEnds ==
  /\ recv = "recvfrom"
  /\ \/ ~receiving /\ recv' = "done"
     \/ ~sockOpen /\ recv' = "dead"
  /\ UNCHANGED <<shared, lock, seq, pingVar, flags, gameVar, msg, count, pingPc>>
-----------------------------------------------------------------------------
(* Pinger *)

\* The test of the loop, and the sleep of a second.
PingTest ==
  /\ ping = "test"
  /\ \/ running /\ seq < MaxSeq /\ ping' = "draw"
     \/ ~running /\ ping' = "done"
  /\ UNCHANGED <<shared, lock, seq, pingVar, flags, gameVar, recvVar, pseq>>

DrawSeq ==
  /\ ping = "draw" /\ ping' = "setSeq"
  /\ seq' = seq + 1 /\ pseq' = seq + 1
  /\ UNCHANGED <<shared, lock, pingVar, flags, gameVar, recvVar>>

FaultySetLastPingSeq ==
  /\ ping = "setSeq" /\ ping' = "stamp"
  /\ lastPingSeq' = pseq
  /\ pinged' = pinged \cup {pseq}
  /\ UNCHANGED <<shared, lock, seq, lastPingT, pingMs, flags, gameVar, recvVar, pseq>>

SetLastPingSeq ==
  /\ ping = "setSeq" /\ ping' = "stamp"
  /\ lastPingSeq' = pseq
  /\ UNCHANGED <<shared, lock, seq, lastPingT, pingMs, pinged, flags, gameVar, recvVar, pseq>>

StampPing ==
  /\ ping = "stamp" /\ ping' = "send"
  /\ lastPingT' = pseq
  /\ UNCHANGED <<shared, lock, seq, lastPingSeq, pingMs, pinged, flags, gameVar, recvVar, pseq>>

\* On a closed socket sendto raises and the thread ends.
SendPing ==
  /\ ping = "send"
  /\ IF sockOpen THEN ping' = "test" /\ pinged' = pinged \cup {pseq}
                 ELSE ping' = "dead" /\ UNCHANGED pinged
  /\ UNCHANGED <<shared, lock, seq, lastPingSeq, lastPingT, pingMs, flags, gameVar,
                 recvVar, pseq>>
-----------------------------------------------------------------------------
DrainStep == CopyStates \/ CopyLatencies \/ CopyActions \/ ClearActions

GameStep ==
  \/ Connect \/ SendState \/ DrainStates \/ DrainLock \/ DrainStep
  \/ Stop \/ CloseSocket

Deliver ==
  \/ \E p \in Peer, b \in BOOLEAN : RecvPrediction(p, b)
  \/ \E s \in pinged : PongMatches(s)
  \/ RecvUndecodable

Handle == TakeLock \/ StoreState \/ StoreLatency \/ QueueAction \/ SetPing \/ RecvEnds

PingStep == PingTest \/ DrawSeq \/ SetLastPingSeq \/ StampPing \/ SendPing

Next == GameStep \/ Deliver \/ Handle \/ PingStep

Spec == Init /\ [][Next]_vars

\* Every thread that can go on does; what the network delivers and what the
\* player does is up to them.  Each side holds the lock for a few statements
\* and then waits for a datagram or a frame, so the other gets it: strong
\* fairness.
FairSpec ==
  /\ Spec
  /\ WF_vars(Handle) /\ WF_vars(PingStep)
  /\ WF_vars(DrainStep) /\ WF_vars(CloseSocket)
  /\ SF_vars(DrainLock) /\ SF_vars(TakeLock)
-----------------------------------------------------------------------------
(* Properties *)

Action     == [src : Peer, id : 1..MaxPredictions]
Prediction == [src : Peer, id : 1..MaxPredictions, act : BOOLEAN]
Stored     == [Peer -> 0..MaxPredictions]

Draining == game \in {"states", "latencies", "actions", "clear"}
Storing  == recv \in {"state", "latency", "action"}

\* _lock is held exactly by the thread whose program counter is in a "with
\* self._lock" block (arena_game.py:797, 820), and the message being handled is
\* of the kind the receiver's program counter says.
ControlOK ==
  /\ lock \in {"free", "recv", "game"}
  /\ lock = "game" <=> Draining
  /\ lock = "recv" <=> Storing
  /\ game \in {"new", "idle", "lock", "join", "stopped"} \/ Draining
  /\ recv \in {"off", "recvfrom", "lock", "pong", "done", "dead"} \/ Storing
  /\ recv = "lock" \/ Storing => msg \in Prediction /\ msg.id = count
  /\ recv = "pong" => msg \in [seq : Nat]
  /\ count \in 0..MaxPredictions
  /\ game = "new" => recv = "off" /\ ping = "off"
  /\ ping \in {"off", "test", "draw", "setSeq", "stamp", "send", "done", "dead"}

DataOK ==
  /\ remoteStates \in Stored /\ remoteLatencies \in Stored
  /\ pendingActions \in Seq(Action)
  /\ snap \in [states : Stored, lats : Stored, actions : Seq(Action)]
  /\ shown \in Stored /\ shownLat \in Stored /\ given \in Seq(Action)

PingOK ==
  /\ seq \in Nat /\ lastPingSeq \in Nat /\ lastPingT \in Nat
  /\ pingMs \in [seq : Nat, stamp : Nat]
  /\ pseq \in Nat /\ pinged \subseteq Nat
  /\ running \in BOOLEAN /\ receiving \in BOOLEAN /\ sockOpen \in BOOLEAN

\* Every variable has its type, and the lock has its holder.
TypeOK == ControlOK /\ DataOK /\ PingOK

\* What one drain gives the game belongs together: the latency shown of a
\* player is that of the prediction shown, and no action is applied before the
\* prediction that carried it, or a later one, is shown.
ConsistentView ==
  /\ shownLat = shown
  /\ \A i \in 1..Len(given) : given[i].id <= shown[given[i].src]

\* The three maps and the list behind _lock act as one mailbox, filled and
\* emptied in single steps: nothing is lost between the copy and the clear of
\* drain_states, nothing is given twice.
Box == INSTANCE Mailbox WITH
  count  <- IF recv \in {"lock", "state"} THEN count - 1 ELSE count,
  latest <- remoteStates,
  queue  <- IF recv \in {"latency", "action"} /\ msg.act
            THEN Append(pendingActions, [src |-> msg.src, id |-> msg.id])
            ELSE pendingActions
MailboxSpec == Box!Spec

\* A reading of the ping never starts before the PING it answers was stamped,
\* so the latency shown is never longer than the round trip: _last_ping_t is
\* set before the PING can leave, though after _last_ping_seq.
NeverOverstated == pingMs.stamp >= pingMs.seq

\* PROTOCOL.md:259: "RTT = time(PONG received) - time(PING sent)".
RttOfItsPing == pingMs.stamp = pingMs.seq

\* Neither side of _lock waits for it for ever.
LockIsGranted ==
  /\ game = "lock" ~> game = "idle"
  /\ recv = "lock" ~> recv = "recvfrom"

\* After stop both threads end, the pinger by its flag or on the closed socket,
\* though only the receiver is joined, and that for a second at most.
ThreadsEnd ==
  game = "stopped" ~> recv \in {"done", "dead"} /\ ping \in {"done", "dead"}
=============================================================================
