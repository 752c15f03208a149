-------------------------- MODULE NetClientProofs --------------------------
(***************************************************************************)
(* Theorems about NetClient, for every set of players and all bounds.      *)
(***************************************************************************)
EXTENDS NetClient, TLAPS

(* Types, and who holds the lock *)

\* A client just constructed, before its two threads run, is well typed.
LEMMA InitTypes == Init => TypeOK
<1> SUFFICES ASSUME Init PROVE TypeOK
  OBVIOUS
<1>1. ControlOK
  BY NetAssumption DEF Init, ControlOK, Draining, Storing
<1>2. DataOK
  <2>1. Nothing \in Stored /\ NoSnap \in [states : Stored, lats : Stored, actions : Seq(Action)]
    BY NetAssumption DEF Nothing, NoSnap, Stored
  <2> QED BY <2>1 DEF Init, DataOK
<1>3. PingOK
  BY DEF Init, PingOK
<1> QED BY <1>1, <1>2, <1>3 DEF TypeOK

\* Every step keeps the program counters, the lock and the message in step.
LEMMA ControlStep == TypeOK /\ [Next]_vars => ControlOK'
<1> SUFFICES ASSUME TypeOK, [Next]_vars PROVE ControlOK'
  OBVIOUS
<1> USE NetAssumption DEF TypeOK, ControlOK, Draining, Storing
<1> USE DEF flags, gameVar, recvVar, pingPc
<1>1. CASE Connect \/ SendState
  BY <1>1 DEF Connect, SendState
<1>2. CASE DrainStates \/ DrainLock
  BY <1>2 DEF DrainStates, DrainLock
<1>3. CASE DrainStep
  BY <1>3 DEF DrainStep, CopyStates, CopyLatencies, CopyActions, ClearActions
<1>4. CASE Stop \/ CloseSocket
  BY <1>4 DEF Stop, CloseSocket
<1>5. ASSUME NEW p \in Peer, NEW b \in BOOLEAN, RecvPrediction(p, b) PROVE ControlOK'
  <2>1. count + 1 \in 1..MaxPredictions /\ count' = count + 1
    BY <1>5 DEF RecvPrediction
  <2>2. msg' \in Prediction /\ msg'.id = count'
    BY <1>5, <2>1 DEF RecvPrediction, Prediction
  <2>3. recv = "recvfrom" /\ recv' = "lock" /\ UNCHANGED <<lock, game, ping>>
    BY <1>5 DEF RecvPrediction
  <2> QED BY <2>1, <2>2, <2>3
<1>6. ASSUME NEW s \in pinged, PongMatches(s) PROVE ControlOK'
  BY <1>6 DEF PongMatches, PingOK
<1>7. CASE TakeLock \/ StoreState \/ StoreLatency
  BY <1>7 DEF TakeLock, StoreState, StoreLatency
<1>8. CASE QueueAction \/ SetPing
  BY <1>8 DEF QueueAction, SetPing
<1>9. CASE RecvEnds \/ RecvUndecodable
  BY <1>9 DEF RecvEnds, RecvUndecodable
<1>10. CASE PingStep
  BY <1>10 DEF PingStep, PingTest, DrawSeq, SetLastPingSeq, StampPing, SendPing
<1>11. CASE UNCHANGED vars
  BY <1>11 DEF vars
<1> QED
  BY <1>1, <1>2, <1>3, <1>4, <1>5, <1>6, <1>7, <1>8, <1>9, <1>10, <1>11
     DEF Next, GameStep, Deliver, Handle

\* Every step keeps the types of what the receiver and the game exchange.
LEMMA DataStep == TypeOK /\ [Next]_vars => DataOK'
<1> SUFFICES ASSUME TypeOK, [Next]_vars PROVE DataOK'
  OBVIOUS
<1> USE DEF TypeOK, DataOK
<1> USE DEF shared, flags, gameVar, recvVar, pingPc
<1>1. CASE Connect \/ SendState \/ DrainStates \/ DrainLock \/ Stop \/ CloseSocket
  BY <1>1 DEF Connect, SendState, DrainStates, DrainLock, Stop, CloseSocket
<1>2. CASE CopyStates
  BY <1>2 DEF CopyStates
<1>3. CASE CopyLatencies
  BY <1>3 DEF CopyLatencies
<1>4. CASE CopyActions
  BY <1>4 DEF CopyActions
<1>5. CASE ClearActions
  <2>1. NoSnap \in [states : Stored, lats : Stored, actions : Seq(Action)]
    BY NetAssumption DEF Nothing, NoSnap, Stored
  <2> QED BY <1>5, <2>1 DEF ClearActions
<1>6. CASE StoreState \/ StoreLatency
  <2>1. msg.src \in Peer /\ msg.id \in 0..MaxPredictions
    BY <1>6, NetAssumption DEF StoreState, StoreLatency, ControlOK, Storing, Prediction
  <2> QED BY <1>6, <2>1 DEF StoreState, StoreLatency, Stored
<1>7. CASE QueueAction
  <2>1. [src |-> msg.src, id |-> msg.id] \in Action
    BY <1>7 DEF QueueAction, ControlOK, Storing, Prediction, Action
  <2> QED BY <1>7, <2>1 DEF QueueAction
<1>8. ASSUME NEW p \in Peer, NEW b \in BOOLEAN, RecvPrediction(p, b) PROVE DataOK'
  BY <1>8 DEF RecvPrediction
<1>9. ASSUME NEW s \in pinged, PongMatches(s) PROVE DataOK'
  BY <1>9 DEF PongMatches
<1>10. CASE TakeLock \/ SetPing \/ RecvEnds \/ RecvUndecodable
  BY <1>10 DEF TakeLock, SetPing, RecvEnds, RecvUndecodable
<1>11. CASE PingStep
  BY <1>11 DEF PingStep, PingTest, DrawSeq, SetLastPingSeq, StampPing, SendPing
<1>12. CASE UNCHANGED vars
  BY <1>12 DEF vars
<1> QED
  BY <1>1, <1>2, <1>3, <1>4, <1>5, <1>6, <1>7, <1>8, <1>9, <1>10, <1>11, <1>12
     DEF Next, GameStep, DrainStep, Deliver, Handle

\* Every step keeps the types of the ping's variables and of the flags.
LEMMA PingTypeStep == TypeOK /\ [Next]_vars => PingOK'
<1> SUFFICES ASSUME TypeOK, [Next]_vars PROVE PingOK'
  OBVIOUS
<1> USE DEF TypeOK, PingOK
<1> USE DEF pingVar, flags, gameVar, recvVar, pingPc
<1>1. CASE Connect
  BY <1>1 DEF Connect
<1>2. CASE SendState
  <2>1. seq' \in Nat
    BY <1>2 DEF SendState
  <2> QED BY <1>2, <2>1 DEF SendState
<1>3. CASE DrainStates \/ DrainLock \/ DrainStep
  BY <1>3 DEF DrainStates, DrainLock, DrainStep, CopyStates, CopyLatencies, CopyActions,
              ClearActions
<1>4. CASE Stop
  BY <1>4 DEF Stop
<1>5. CASE CloseSocket
  BY <1>5 DEF CloseSocket
<1>6. ASSUME NEW p \in Peer, NEW b \in BOOLEAN, RecvPrediction(p, b) PROVE PingOK'
  BY <1>6 DEF RecvPrediction
<1>7. ASSUME NEW s \in pinged, PongMatches(s) PROVE PingOK'
  BY <1>7 DEF PongMatches
<1>8. CASE TakeLock \/ StoreState \/ StoreLatency \/ QueueAction
  BY <1>8 DEF TakeLock, StoreState, StoreLatency, QueueAction
<1>9. CASE SetPing
  <2>1. pingMs' \in [seq : Nat, stamp : Nat]
    BY <1>9 DEF SetPing, ControlOK
  <2> QED BY <1>9, <2>1 DEF SetPing
<1>10. CASE RecvEnds \/ RecvUndecodable
  BY <1>10 DEF RecvEnds, RecvUndecodable
<1>11. CASE DrawSeq
  <2>1. seq' \in Nat /\ pseq' \in Nat
    BY <1>11 DEF DrawSeq
  <2> QED BY <1>11, <2>1 DEF DrawSeq
<1>12. CASE PingTest \/ StampPing \/ SetLastPingSeq
  BY <1>12 DEF PingTest, StampPing, SetLastPingSeq
<1>13. CASE SendPing
  <2>1. pinged' \subseteq Nat
    BY <1>13 DEF SendPing
  <2> QED BY <1>13, <2>1 DEF SendPing
<1>14. CASE UNCHANGED vars
  BY <1>14 DEF vars
<1> QED
  BY <1>1, <1>2, <1>3, <1>4, <1>5, <1>6, <1>7, <1>8, <1>9, <1>10, <1>11, <1>12, <1>13, <1>14
     DEF Next, GameStep, Deliver, Handle, PingStep

\* Type correctness, and mutual exclusion by _lock.
THEOREM TypeCorrect == Spec => []TypeOK
<1>1. TypeOK /\ [Next]_vars => TypeOK'
  BY ControlStep, DataStep, PingTypeStep DEF TypeOK
<1> QED BY InitTypes, <1>1, PTL DEF Spec
-----------------------------------------------------------------------------
(* What a drain gives the game *)

\* While the game holds the lock nothing it has copied changes.
SnapIsCurrent ==
  /\ game \in {"latencies", "actions", "clear"} => snap.states = remoteStates
  /\ game \in {"actions", "clear"} => snap.lats = remoteLatencies
  /\ game = "clear" => snap.actions = pendingActions

\* What is stored of a player belongs together, but between the two stores.
StoredTogether ==
  /\ \A p \in Peer : remoteLatencies[p] = remoteStates[p] \/ (recv = "latency" /\ p = msg.src)
  /\ recv \in {"latency", "action"} => remoteStates[msg.src] = msg.id

\* Predictions are stored in the order they are numbered.
StoredInOrder ==
  /\ \A p \in Peer : shown[p] <= remoteStates[p] /\ remoteStates[p] <= count
  /\ \A i \in 1..Len(pendingActions) :
       pendingActions[i].id <= remoteStates[pendingActions[i].src]

ViewInv == SnapIsCurrent /\ StoredTogether /\ StoredInOrder /\ ConsistentView

\* What drain_states has copied under _lock stays what the client holds until
\* it releases it: the receive thread stores nothing in between.
LEMMA SnapStep == TypeOK /\ ViewInv /\ [Next]_vars => SnapIsCurrent'
<1> SUFFICES ASSUME TypeOK, ViewInv, [Next]_vars PROVE SnapIsCurrent'
  OBVIOUS
<1> USE DEF TypeOK, ControlOK, Draining, Storing, ViewInv, SnapIsCurrent
<1> USE DEF shared, flags, gameVar, recvVar, pingPc
<1>1. CASE Connect \/ SendState \/ DrainStates \/ DrainLock \/ Stop \/ CloseSocket
  BY <1>1 DEF Connect, SendState, DrainStates, DrainLock, Stop, CloseSocket
<1>2. CASE DrainStep
  BY <1>2 DEF DrainStep, CopyStates, CopyLatencies, CopyActions, ClearActions, DataOK
<1>3. CASE StoreState \/ StoreLatency \/ QueueAction
  <2>1. ~Draining /\ game' = game
    BY <1>3 DEF StoreState, StoreLatency, QueueAction
  <2> QED BY <2>1
<1>4. ASSUME NEW p \in Peer, NEW b \in BOOLEAN, RecvPrediction(p, b) PROVE SnapIsCurrent'
  BY <1>4 DEF RecvPrediction
<1>5. ASSUME NEW s \in pinged, PongMatches(s) PROVE SnapIsCurrent'
  BY <1>5 DEF PongMatches
<1>6. CASE TakeLock \/ SetPing \/ RecvEnds \/ RecvUndecodable
  BY <1>6 DEF TakeLock, SetPing, RecvEnds, RecvUndecodable
<1>7. CASE PingStep
  BY <1>7 DEF PingStep, PingTest, DrawSeq, SetLastPingSeq, StampPing, SendPing
<1>8. CASE UNCHANGED vars
  BY <1>8 DEF vars
<1> QED
  BY <1>1, <1>2, <1>3, <1>4, <1>5, <1>6, <1>7, <1>8 DEF Next, GameStep, Deliver, Handle

\* A store keeps together, and in order, what is stored of every player.
LEMMA StoreStep ==
  TypeOK /\ ViewInv /\ [Next]_vars => StoredTogether' /\ StoredInOrder' /\ ConsistentView'
<1> DEFINE Good == StoredTogether /\ StoredInOrder /\ ConsistentView
<1> SUFFICES ASSUME TypeOK, ViewInv, [Next]_vars PROVE Good'
  OBVIOUS
<1> USE DEF ViewInv, StoredTogether, StoredInOrder, ConsistentView
<1> USE DEF shared, flags, gameVar, recvVar, pingPc
<1>1. CASE Connect
  BY <1>1 DEF Connect, TypeOK, ControlOK
<1>2. CASE SendState \/ DrainStates \/ DrainLock \/ Stop \/ CloseSocket
  BY <1>2 DEF SendState, DrainStates, DrainLock, Stop, CloseSocket
<1>3. CASE CopyStates \/ CopyLatencies \/ CopyActions
  BY <1>3 DEF CopyStates, CopyLatencies, CopyActions
<1>4. CASE ClearActions
  <2>1. /\ snap.states = remoteStates /\ snap.lats = remoteLatencies
        /\ snap.actions = pendingActions
    BY <1>4 DEF ClearActions, SnapIsCurrent
  <2>2. recv \notin {"state", "latency", "action"}
    BY <1>4 DEF ClearActions, TypeOK, ControlOK, Draining, Storing
  <2>3. shown' = remoteStates /\ shownLat' = remoteLatencies /\ given' = given \o pendingActions
    BY <1>4, <2>1 DEF ClearActions
  <2>4. pendingActions' = <<>> /\ UNCHANGED <<remoteStates, remoteLatencies, recv, msg, count>>
    BY <1>4 DEF ClearActions
  <2>5. shownLat' = shown'
    BY <2>2, <2>3 DEF TypeOK, DataOK, Stored
  <2>6. StoredTogether' /\ StoredInOrder'
    BY <2>2, <2>3, <2>4 DEF TypeOK, DataOK, Stored, ControlOK
  <2>7. ASSUME NEW i \in 1..Len(given') PROVE given'[i].id <= shown'[given'[i].src]
    <3>1. given \in Seq(Action) /\ pendingActions \in Seq(Action)
      BY DEF TypeOK, DataOK
    <3>2. CASE i <= Len(given)
      <4>1. given'[i] = given[i] /\ given[i] \in Action
        BY <2>3, <2>7, <3>1, <3>2
      <4>2. given[i].src \in Peer /\ given[i].id \in Nat
        BY <4>1 DEF Action
      <4>3. i \in 1..Len(given)
        BY <2>3, <2>7, <3>1, <3>2
      <4>4. given[i].id <= shown[given[i].src]
        BY <4>3
      <4>5. shown[given[i].src] <= remoteStates[given[i].src]
        BY <4>2
      <4>6. shown[given[i].src] \in Nat /\ remoteStates[given[i].src] \in Nat
        BY <4>2, NetAssumption DEF TypeOK, DataOK, Stored
      <4> QED BY <4>1, <4>2, <4>4, <4>5, <4>6, <2>3
    <3>3. CASE i > Len(given)
      <4>1. /\ i - Len(given) \in 1..Len(pendingActions)
            /\ given'[i] = pendingActions[i - Len(given)]
        BY <2>3, <2>7, <3>1, <3>3
      <4> QED BY <4>1, <2>3
    <3> QED BY <3>1, <3>2, <3>3
  <2> QED BY <2>5, <2>6, <2>7
<1>5. ASSUME NEW p \in Peer, NEW b \in BOOLEAN, RecvPrediction(p, b) PROVE Good'
  <2>1. /\ count \in Nat /\ remoteStates \in Stored /\ shown \in Stored
    BY NetAssumption DEF TypeOK, ControlOK, DataOK
  <2> QED BY <1>5, <2>1, NetAssumption DEF RecvPrediction, Stored
<1>6. ASSUME NEW s \in pinged, PongMatches(s) PROVE Good'
  BY <1>6 DEF PongMatches
<1>7. CASE TakeLock
  BY <1>7 DEF TakeLock
<1>8. CASE StoreState
  <2>1. msg.src \in Peer /\ msg.id = count /\ count \in Nat
    BY <1>8, NetAssumption DEF StoreState, TypeOK, ControlOK, Storing, Prediction
  <2>2. remoteStates \in [Peer -> Nat] /\ shown \in [Peer -> Nat]
    BY NetAssumption DEF TypeOK, DataOK, Stored
  <2>3. remoteStates' = [remoteStates EXCEPT ![msg.src] = count] /\ recv = "state" /\ recv' = "latency"
    BY <1>8, <2>1 DEF StoreState
  <2>4. UNCHANGED <<remoteLatencies, pendingActions, shown, shownLat, given, msg, count>>
    BY <1>8 DEF StoreState
  <2>5. \A p \in Peer : remoteStates[p] <= remoteStates'[p] /\ remoteStates'[p] <= count
    BY <2>1, <2>2, <2>3
  <2>6. StoredTogether'
    BY <2>1, <2>2, <2>3, <2>4
  <2>7. \A p \in Peer : shown'[p] <= remoteStates'[p] /\ remoteStates'[p] <= count'
    BY <2>1, <2>2, <2>3, <2>4, <2>5
  <2>8. ASSUME NEW i \in 1..Len(pendingActions')
        PROVE  pendingActions'[i].id <= remoteStates'[pendingActions'[i].src]
    <3>1. pendingActions[i] \in Action /\ pendingActions' = pendingActions
      BY <2>4, <2>8 DEF TypeOK, DataOK
    <3>2. pendingActions[i].src \in Peer /\ pendingActions[i].id \in Nat
      BY <3>1 DEF Action
    <3>3. remoteStates'[pendingActions[i].src] \in Nat
      BY <2>1, <2>2, <2>3, <3>2
    <3> QED BY <2>2, <2>5, <2>8, <3>1, <3>2, <3>3
  <2> QED BY <2>4, <2>6, <2>7, <2>8
<1>9. CASE StoreLatency
  <2>1. msg.src \in Peer /\ remoteLatencies \in Stored
    BY <1>9 DEF StoreLatency, TypeOK, ControlOK, DataOK, Storing, Prediction
  <2> QED BY <1>9, <2>1 DEF StoreLatency, Stored
<1>10. CASE QueueAction
  <2>1. msg.id \in Nat /\ remoteStates[msg.src] = msg.id
    BY <1>10 DEF QueueAction, TypeOK, ControlOK, Storing, Prediction
  <2>2. pendingActions \in Seq(Action)
    BY DEF TypeOK, DataOK
  <2>3. UNCHANGED <<remoteStates, remoteLatencies, shown, shownLat, given, count>>
    BY <1>10 DEF QueueAction
  <2>4. recv = "action" /\ recv' = "recvfrom"
    BY <1>10 DEF QueueAction
  <2>5. \/ pendingActions' = pendingActions
        \/ pendingActions' = Append(pendingActions, [src |-> msg.src, id |-> msg.id])
    BY <1>10 DEF QueueAction
  <2>6. \A i \in 1..Len(pendingActions') :
           pendingActions'[i].id <= remoteStates[pendingActions'[i].src]
    BY <2>1, <2>2, <2>5
  <2>7. StoredTogether'
    BY <2>3, <2>4
  <2> QED BY <2>3, <2>6, <2>7
<1>11. CASE SetPing \/ RecvEnds \/ RecvUndecodable
  BY <1>11 DEF SetPing, RecvEnds, RecvUndecodable
<1>12. CASE PingStep
  BY <1>12 DEF PingStep, PingTest, DrawSeq, SetLastPingSeq, StampPing, SendPing
<1>13. CASE UNCHANGED vars
  BY <1>13 DEF vars
<1> QED
  BY <1>1, <1>2, <1>3, <1>4, <1>5, <1>6, <1>7, <1>8, <1>9, <1>10, <1>11, <1>12, <1>13
     DEF Next, GameStep, DrainStep, Deliver, Handle

\* What the game is shown of a player is consistent, by the invariant of the lock.
THEOREM ViewCorrect == Spec => []ViewInv
<1>1. Init => ViewInv
  BY DEF Init, Nothing, NoSnap, ViewInv, SnapIsCurrent, StoredTogether, StoredInOrder,
         ConsistentView
<1>2. TypeOK /\ ViewInv /\ [Next]_vars => ViewInv'
  BY SnapStep, StoreStep DEF ViewInv
<1> QED BY <1>1, <1>2, TypeCorrect, PTL DEF Spec

\* A drain never pairs a state with another's latency or runs ahead with an action.
THEOREM DrainIsConsistent == Spec => []ConsistentView
BY ViewCorrect, PTL DEF ViewInv

\* The lock makes the four shared containers one mailbox.
THEOREM MailboxRefines == Spec => MailboxSpec
<1> USE NetAssumption
<1>1. Init => Box!Init
  BY DEF Init, Nothing, Box!Init
<1>2. TypeOK /\ ViewInv /\ [Next]_vars => [Box!Next]_(Box!mvars)
  <2> SUFFICES ASSUME TypeOK, ViewInv, [Next]_vars
               PROVE  Box!Next \/ UNCHANGED Box!mvars
    OBVIOUS
  <2> USE DEF shared, flags, gameVar, recvVar, Box!mvars
  <2>1. CASE StoreState
    <3>1. msg.src \in Peer /\ msg.act \in BOOLEAN /\ msg.id = count
      BY <2>1 DEF StoreState, TypeOK, ControlOK, Prediction, Storing
    <3>2. Box!Put(msg.src, msg.act)
      BY <2>1, <3>1 DEF StoreState, TypeOK, ControlOK, Box!Put
    <3> QED BY <3>1, <3>2 DEF Box!Next
  <2>2. CASE ClearActions
    <3>1. recv \notin {"latency", "action"}
      BY <2>2 DEF ClearActions, TypeOK, ControlOK, Draining, Storing
    <3>2. Box!Take
      BY <2>2, <3>1 DEF ClearActions, ViewInv, SnapIsCurrent, Box!Take
    <3> QED BY <3>2 DEF Box!Next
  <2>3. ASSUME NEW p \in Peer, NEW b \in BOOLEAN, RecvPrediction(p, b)
        PROVE  UNCHANGED Box!mvars
    BY <2>3, NetAssumption DEF RecvPrediction, TypeOK, ControlOK
  <2>4. CASE QueueAction
    BY <2>4 DEF QueueAction
  <2>5. CASE Connect
    BY <2>5 DEF Connect, TypeOK, ControlOK
  <2>11. CASE SendState \/ DrainStates \/ DrainLock \/ Stop \/ CloseSocket
    BY <2>11 DEF SendState, DrainStates, DrainLock, Stop, CloseSocket
  <2>6. CASE CopyStates \/ CopyLatencies \/ CopyActions
    BY <2>6 DEF CopyStates, CopyLatencies, CopyActions
  <2>7. CASE TakeLock \/ StoreLatency \/ SetPing \/ RecvEnds \/ RecvUndecodable
    BY <2>7 DEF TakeLock, StoreLatency, SetPing, RecvEnds, RecvUndecodable
  <2>8. ASSUME NEW s \in pinged, PongMatches(s) PROVE UNCHANGED Box!mvars
    BY <2>8 DEF PongMatches
  <2>9. CASE PingStep
    BY <2>9 DEF PingStep, PingTest, DrawSeq, SetLastPingSeq, StampPing, SendPing
  <2>10. CASE UNCHANGED vars
    BY <2>10 DEF vars
  <2> QED
    BY <2>1, <2>2, <2>3, <2>4, <2>5, <2>6, <2>7, <2>8, <2>9, <2>10,
       <2>11
       DEF Next, GameStep, DrainStep, Deliver, Handle
<1> QED BY <1>1, <1>2, TypeCorrect, ViewCorrect, PTL DEF Spec, MailboxSpec, Box!Spec
-----------------------------------------------------------------------------
(* The ping *)

\* The stamp lags behind the number only until the PING is about to leave.
PingInv ==
  /\ pseq <= seq /\ lastPingT <= pseq
  /\ \A s \in pinged : s <= seq
  /\ ping = "stamp" => lastPingSeq = pseq
  /\ ping # "stamp" => lastPingT = lastPingSeq
  /\ ping \in {"setSeq", "stamp", "send"} => pseq \notin pinged
  /\ recv = "pong" => msg.seq <= lastPingT
  /\ NeverOverstated

\* The latency the receive thread computes from a PONG never starts before the
\* stamp of its own PING: it may be too short, never too long.
THEOREM PingCorrect == Spec => []PingInv
<1>1. Init => PingInv
  BY DEF Init, PingInv, NeverOverstated
<1>2. TypeOK /\ PingInv /\ [Next]_vars => PingInv'
  <2> SUFFICES ASSUME TypeOK, PingInv, [Next]_vars PROVE PingInv'
    OBVIOUS
  <2> USE DEF TypeOK, ControlOK, PingOK, PingInv, NeverOverstated
  <2> USE DEF shared, pingVar, flags, gameVar, recvVar, pingPc
  <2>1. CASE Connect
    BY <2>1 DEF Connect
  <2>2. CASE SendState
    BY <2>2 DEF SendState
  <2>3. CASE DrainStates \/ DrainLock \/ DrainStep \/ Stop \/ CloseSocket
    BY <2>3 DEF DrainStates, DrainLock, DrainStep, CopyStates, CopyLatencies, CopyActions,
                ClearActions, Stop, CloseSocket
  <2>4. ASSUME NEW p \in Peer, NEW b \in BOOLEAN, RecvPrediction(p, b) PROVE PingInv'
    BY <2>4 DEF RecvPrediction
  <2>5. ASSUME NEW s \in pinged, PongMatches(s) PROVE PingInv'
    BY <2>5 DEF PongMatches
  <2>6. CASE TakeLock \/ StoreState \/ StoreLatency \/ QueueAction
    BY <2>6 DEF TakeLock, StoreState, StoreLatency, QueueAction
  <2>7. CASE SetPing
    BY <2>7 DEF SetPing
  <2>8. CASE RecvEnds \/ RecvUndecodable
    BY <2>8 DEF RecvEnds, RecvUndecodable
  <2>9. CASE PingTest
    BY <2>9 DEF PingTest
  <2>10. CASE DrawSeq
    BY <2>10 DEF DrawSeq
  <2>11. CASE SetLastPingSeq
    BY <2>11 DEF SetLastPingSeq
  <2>12. CASE StampPing
    BY <2>12 DEF StampPing
  <2>13. CASE SendPing
    BY <2>13 DEF SendPing
  <2>14. CASE UNCHANGED vars
    BY <2>14 DEF vars
  <2> QED
    BY <2>1, <2>2, <2>3, <2>4, <2>5, <2>6, <2>7, <2>8, <2>9, <2>10, <2>11, <2>12, <2>13,
       <2>14
       DEF Next, GameStep, Deliver, Handle, PingStep
<1> QED BY <1>1, <1>2, TypeCorrect, PTL DEF Spec

\* The ping shown is never longer than the round trip it stands for.
THEOREM PingNeverOverstated == Spec => []NeverOverstated
BY PingCorrect, PTL DEF PingInv
-----------------------------------------------------------------------------
(* The end of the threads *)

\* Once the game has left stop nothing holds a thread up: both flags are down, the
\* socket is shut, and the lock is free for whoever still wants it.
NothingHolds ==
  /\ game # "new" => recv # "off" /\ ping # "off"
  /\ game \in {"join", "stopped"} => ~running /\ ~receiving
  /\ game = "stopped" => ~sockOpen /\ (recv = "lock" => lock = "free")

\* The steps a thread has left at most, once it gets nothing more from the socket.
RecvLeft ==
  CASE recv = "lock" -> 5 [] recv = "state" -> 4 [] recv = "latency" -> 3
    [] recv \in {"action", "pong"} -> 2 [] recv = "recvfrom" -> 1 [] OTHER -> 0

PingLeft ==
  CASE ping = "draw" -> 4 [] ping = "setSeq" -> 3 [] ping = "stamp" -> 2
    [] ping \in {"send", "test"} -> 1 [] OTHER -> 0

\* net.py:104: wherever stop and close find the two threads, each has a few steps
\* left, which nothing adds to, and does not wait for the other or for the lock.
\* It has ended when there are none: what ThreadsEnd is made of.
THEOREM ThreadsRunOut ==
  Spec => /\ []NothingHolds
          /\ [](/\ RecvLeft = 0 => recv \in {"off", "done", "dead"}
                /\ PingLeft = 0 => ping \in {"off", "done", "dead"})
          /\ [][game = "stopped" =>
                  /\ game' = "stopped" /\ RecvLeft' <= RecvLeft /\ PingLeft' <= PingLeft
                  /\ Handle => RecvLeft' < RecvLeft
                  /\ PingStep => PingLeft' < PingLeft]_vars
<1> USE DEF flags, gameVar, recvVar, pingPc
<1>1. Init => NothingHolds
  BY DEF Init, NothingHolds
<1>2. TypeOK /\ NothingHolds /\ [Next]_vars => NothingHolds'
  <2> SUFFICES ASSUME TypeOK, NothingHolds, [Next]_vars PROVE NothingHolds'
    OBVIOUS
  <2> USE DEF TypeOK, ControlOK, Draining, Storing, NothingHolds
  <2>1. CASE GameStep
    BY <2>1 DEF GameStep, Connect, SendState, DrainStates, DrainLock, DrainStep, CopyStates,
                CopyLatencies, CopyActions, ClearActions, Stop, CloseSocket
  <2>2. CASE Deliver
    BY <2>2 DEF Deliver, RecvPrediction, PongMatches, RecvUndecodable
  <2>3. CASE Handle
    BY <2>3 DEF Handle, TakeLock, StoreState, StoreLatency, QueueAction, SetPing, RecvEnds
  <2>4. CASE PingStep
    BY <2>4 DEF PingStep, PingTest, DrawSeq, SetLastPingSeq, StampPing, SendPing
  <2>5. CASE UNCHANGED vars
    BY <2>5 DEF vars
  <2> QED BY <2>1, <2>2, <2>3, <2>4, <2>5 DEF Next
<1>3. TypeOK => /\ RecvLeft = 0 => recv \in {"off", "done", "dead"}
                /\ PingLeft = 0 => ping \in {"off", "done", "dead"}
  BY DEF TypeOK, ControlOK, Storing, RecvLeft, PingLeft
<1>4. ASSUME TypeOK, NothingHolds, Next, game = "stopped"
      PROVE  /\ game' = "stopped" /\ RecvLeft' <= RecvLeft /\ PingLeft' <= PingLeft
             /\ Handle => RecvLeft' < RecvLeft
             /\ PingStep => PingLeft' < PingLeft
  <2>1. ~running /\ ~receiving /\ ~sockOpen
    BY <1>4 DEF NothingHolds
  <2>2. ~GameStep /\ ~Deliver
    BY <1>4, <2>1 DEF GameStep, Connect, SendState, DrainStates, DrainLock, DrainStep, CopyStates,
           CopyLatencies, CopyActions, ClearActions, Stop, CloseSocket, Deliver, RecvPrediction,
           PongMatches, RecvUndecodable
  <2>3. Handle => /\ game' = game /\ ping' = ping /\ RecvLeft' < RecvLeft
    BY <1>4 DEF Handle, TakeLock, StoreState, StoreLatency, QueueAction, SetPing, RecvEnds, RecvLeft
  <2>4. PingStep => /\ game' = game /\ recv' = recv /\ PingLeft' < PingLeft
    BY <2>1 DEF PingStep, PingTest, DrawSeq, SetLastPingSeq, StampPing, SendPing, PingLeft
  <2>5. RecvLeft \in Nat /\ PingLeft \in Nat
    BY DEF RecvLeft, PingLeft
  <2>6. ping' = ping => PingLeft' = PingLeft
    BY DEF PingLeft
  <2>7. recv' = recv => RecvLeft' = RecvLeft
    BY DEF RecvLeft
  <2>8. CASE Handle
    <3>1. ~PingStep
      BY <2>3, <2>4, <2>5, <2>6, <2>8
    <3> QED BY <1>4, <2>3, <2>5, <2>6, <2>8, <3>1 DEF PingLeft, RecvLeft
  <2>9. CASE PingStep
    <3>1. ~Handle
      BY <2>3, <2>4, <2>5, <2>7, <2>9
    <3> QED BY <1>4, <2>4, <2>5, <2>7, <2>9, <3>1 DEF PingLeft, RecvLeft
  <2> QED BY <1>4, <2>2, <2>8, <2>9 DEF Next
<1>5. TypeOK /\ NothingHolds /\ [Next]_vars
        => [game = "stopped" =>
              /\ game' = "stopped" /\ RecvLeft' <= RecvLeft /\ PingLeft' <= PingLeft
              /\ Handle => RecvLeft' < RecvLeft
              /\ PingStep => PingLeft' < PingLeft]_vars
  BY <1>4
<1> QED BY <1>1, <1>2, <1>3, <1>5, TypeCorrect, PTL DEF Spec
=============================================================================
