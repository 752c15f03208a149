-------------------------- MODULE EdgeRelayProofs --------------------------
(***************************************************************************)
(* Theorems about EdgeRelay, for every set of clients and sessions and     *)
(* every bound on the datagrams.                                           *)
(***************************************************************************)
EXTENDS EdgeRelay, TLAPS

\* Type correctness: also what it takes to own a session (TypeOK).
THEOREM TypeCorrect == Spec => []TypeOK
<1> USE EdgeAssumption DEF TypeOK, Id, Upward, Downward, current, sender
<1>1. Init => TypeOK
  BY DEF Init
<1>2. TypeOK /\ [Next]_vars => TypeOK'
  <2> SUFFICES ASSUME TypeOK, [Next]_vars PROVE TypeOK'
    OBVIOUS
  <2> USE DEF table, main, env, history
  <2>1. ASSUME NEW c \in Client, ReadFromUDP(c) PROVE TypeOK'
    <3>1. recvd' \in Seq(Client) /\ Len(recvd') = Len(recvd) + 1
      BY <2>1 DEF ReadFromUDP
    <3>2. recvd' # <<>>
      BY <3>1
    <3> QED BY <2>1, <3>1, <3>2 DEF ReadFromUDP
  <2>2. CASE LoadSession
    BY <2>2 DEF LoadSession, StartRange, HasSession
  <2>3. ASSUME NEW s \in Session, DialHost(s) PROVE TypeOK'
    BY <2>3 DEF DialHost
  <2>4. CASE DialFails
    BY <2>4 DEF DialFails, StartRange
  <2>5. CASE StoreSession
    BY <2>5 DEF StoreSession, StartRange
  <2>6. ASSUME NEW c \in Client, RangeVisit(c) PROVE TypeOK'
    <3>1. fanout' \in [Client -> Seq(Id)]
      <4>1. current \in Id
        BY <2>6 DEF RangeVisit
      <4> QED BY <2>6, <4>1 DEF RangeVisit
    <3> QED BY <2>6, <3>1 DEF RangeVisit
  <2>7. CASE ArmTimer
    BY <2>7 DEF ArmTimer
  <2>8. ASSUME NEW t \in upTimers, WriteToHost(t) PROVE TypeOK'
    <3>1. t \in Upward
      BY <2>8 DEF WriteToHost, ConnOpen
    <3>2. icmp' \in [Session -> BOOLEAN] /\ refused' \subseteq Session
      BY <2>8, <3>1 DEF WriteToHost
    <3>3. atHost' \subseteq Upward /\ written' \subseteq Id
      BY <2>8, <3>1 DEF WriteToHost
    <3>4. upTimers' \subseteq upTimers
      BY <2>8 DEF WriteToHost
    <3> QED BY <2>8, <3>2, <3>3, <3>4 DEF WriteToHost
  <2>9. ASSUME NEW t \in upTimers, WriteFails(t) PROVE TypeOK'
    BY <2>9 DEF WriteFails, ConnOpen
  <2>10. ASSUME NEW t \in downTimers, WriteToClient(t) PROVE TypeOK'
    BY <2>10 DEF WriteToClient
  <2>11. ASSUME NEW s \in Session, NEW m \in inbox, ReadReply(s, m) PROVE TypeOK'
    BY <2>11 DEF ReadReply, ReplyTo
  <2>12. ASSUME NEW s \in Session, ReadError(s) PROVE TypeOK'
    BY <2>12 DEF ReadError
  <2>13. ASSUME NEW s \in Session, DeleteSession(s) PROVE TypeOK'
    BY <2>13 DEF DeleteSession
  <2>14. ASSUME NEW s \in Session, CloseConn(s) PROVE TypeOK'
    BY <2>14 DEF CloseConn
  <2>15. ASSUME NEW m \in atHost, HostSends(m) PROVE TypeOK'
    BY <2>15 DEF HostSends
  <2>16. CASE HostStops \/ HostStarts
    BY <2>16 DEF HostStops, HostStarts
  <2>17. CASE UNCHANGED vars
    BY <2>17 DEF vars
  <2> QED
    BY <2>1, <2>2, <2>3, <2>4, <2>5, <2>6, <2>7, <2>8, <2>9, <2>10, <2>11,
       <2>12, <2>13, <2>14, <2>15, <2>16, <2>17
       DEF Next, MainStep, ReaderStep, TimerStep, EnvStep
<1> QED BY <1>1, <1>2, PTL DEF Spec
-----------------------------------------------------------------------------
(* Sessions *)

\* A reader that serves has its session in the map, but for the session the
\* main loop has just created and is about to store.
ServingIsFiled ==
  \A s \in Session :
    Serving(s) => sessions[clientAddr[s]] = s \/ (pc = "store" /\ s = cur)

\* Nothing can have gone wrong yet with a session about to be stored: no
\* datagram was written through it, so its reader cannot have failed.
StoreIsQuiet ==
  pc = "store" =>
    /\ cur \in Session /\ reader[cur] = "reading"
    /\ clientAddr[cur] = sender /\ ~HasSession(sender)
    /\ ~icmp[cur] /\ \A t \in upTimers : t.via # cur

\* A session not yet allocated is referred to by nothing.
FreshIsUnused ==
  \A s \in Session : reader[s] = "none" =>
    ~icmp[s] /\ (pc = "range" => s # cur) /\ \A t \in upTimers : t.via # s

SessionInv == SessionTableLive /\ ServingIsFiled /\ StoreIsQuiet /\ FreshIsUnused

\* The session table of the UDP proxy (sessions.Load and Store, the reader's
\* Delete): what is filed runs, what runs is filed, nothing refers to a new one.
THEOREM SessionsCorrect == Spec => []SessionInv
<1> USE EdgeAssumption
    DEF TypeOK, SessionInv, SessionTableLive, ServingIsFiled, StoreIsQuiet,
        FreshIsUnused, Serving, HasSession, current, sender
<1>1. Init => SessionInv
  BY DEF Init
<1>2. TypeOK /\ SessionInv /\ [Next]_vars => SessionInv'
  <2> SUFFICES ASSUME TypeOK, SessionInv, [Next]_vars PROVE SessionInv'
    OBVIOUS
  <2> USE DEF table, main, env, history
  <2>1. ASSUME NEW c \in Client, ReadFromUDP(c) PROVE SessionInv'
    BY <2>1 DEF ReadFromUDP
  <2>2. CASE LoadSession
    BY <2>2 DEF LoadSession, StartRange
  <2>3. ASSUME NEW s \in Session, DialHost(s) PROVE SessionInv'
    BY <2>3 DEF DialHost
  <2>4. CASE DialFails
    BY <2>4 DEF DialFails, StartRange
  <2>5. CASE StoreSession
    BY <2>5 DEF StoreSession, StartRange
  <2>6. ASSUME NEW c \in Client, RangeVisit(c) PROVE SessionInv'
    BY <2>6 DEF RangeVisit
  <2>7. CASE ArmTimer
    BY <2>7 DEF ArmTimer
  <2>8. ASSUME NEW t \in upTimers, WriteToHost(t) PROVE SessionInv'
    BY <2>8 DEF WriteToHost, ConnOpen
  <2>9. ASSUME NEW t \in upTimers, WriteFails(t) PROVE SessionInv'
    BY <2>9 DEF WriteFails, ConnOpen
  <2>10. ASSUME NEW t \in downTimers, WriteToClient(t) PROVE SessionInv'
    BY <2>10 DEF WriteToClient
  <2>11. ASSUME NEW s \in Session, NEW m \in inbox, ReadReply(s, m) PROVE SessionInv'
    BY <2>11 DEF ReadReply, ReplyTo
  <2>12. ASSUME NEW s \in Session, ReadError(s) PROVE SessionInv'
    BY <2>12 DEF ReadError
  <2>13. ASSUME NEW s \in Session, DeleteSession(s) PROVE SessionInv'
    BY <2>13 DEF DeleteSession
  <2>14. ASSUME NEW s \in Session, CloseConn(s) PROVE SessionInv'
    BY <2>14 DEF CloseConn
  <2>15. ASSUME NEW m \in atHost, HostSends(m) PROVE SessionInv'
    BY <2>15 DEF HostSends, ConnOpen
  <2>16. CASE HostStops \/ HostStarts
    BY <2>16 DEF HostStops, HostStarts
  <2>17. CASE UNCHANGED vars
    BY <2>17 DEF vars
  <2> QED
    BY <2>1, <2>2, <2>3, <2>4, <2>5, <2>6, <2>7, <2>8, <2>9, <2>10, <2>11,
       <2>12, <2>13, <2>14, <2>15, <2>16, <2>17
       DEF Next, MainStep, ReaderStep, TimerStep, EnvStep
<1> QED BY <1>1, <1>2, TypeCorrect, PTL DEF Spec

\* A client found in the map is served by one session, its own.
THEOREM TableIsLive == Spec => []SessionTableLive
BY SessionsCorrect, PTL DEF SessionInv

\* Two sessions that both serve never serve the same client.
THEOREM OneSession == Spec => []OneSessionPerClient
<1>1. SessionInv => OneSessionPerClient
  BY EdgeAssumption
     DEF SessionInv, ServingIsFiled, StoreIsQuiet, OneSessionPerClient, Serving,
         HasSession
<1> QED BY <1>1, SessionsCorrect, PTL

\* Deleting by key is safe: the session deleted is the reader's own.
THEOREM DeletesOwnSession == Spec => EvictsOwnSession
<1>1. SessionInv /\ [Next]_vars =>
        [\A s \in Session : reader[s] = "failed" /\ reader'[s] = "deleted"
                            => sessions[clientAddr[s]] = s]_vars
  BY DEF SessionInv, ServingIsFiled, StoreIsQuiet, Serving
<1> QED BY <1>1, SessionsCorrect, PTL DEF Spec, EvictsOwnSession
-----------------------------------------------------------------------------
(* Fan-out *)

\* What a client was sent is older than the datagram still to be fanned out.
FanoutIsBehind ==
  \A c \in Client : \A k \in 1..Len(fanout[c]) :
    /\ fanout[c][k] <= current
    /\ pc \in {"load", "store"} \/ (pc = "range" /\ c \in unvisited)
         => fanout[c][k] < current

FanoutInv == FanoutInOrder /\ FanoutIsBehind /\ BroadcastReachesAll

\* The fan-out to the other clients: in order, never ahead of the datagram in
\* hand, and complete once the Range over the sessions has ended.
THEOREM FanoutCorrect == Spec => []FanoutInv
<1> USE EdgeAssumption
    DEF TypeOK, FanoutInv, FanoutInOrder, FanoutIsBehind, BroadcastReachesAll,
        Receives, HasSession, Id, current, sender
<1>1. Init => FanoutInv
  BY DEF Init
<1>2. TypeOK /\ FanoutInv /\ [Next]_vars => FanoutInv'
  <2> SUFFICES ASSUME TypeOK, FanoutInv, [Next]_vars PROVE FanoutInv'
    OBVIOUS
  <2> USE DEF table, main, env, history
  <2>1. ASSUME NEW c \in Client, ReadFromUDP(c) PROVE FanoutInv'
    <3>1. Len(recvd') = Len(recvd) + 1 /\ pc' = "load" /\ fanout' = fanout
      BY <2>1 DEF ReadFromUDP
    <3>2. FanoutInOrder' /\ BroadcastReachesAll'
      BY <3>1
    <3>3. FanoutIsBehind'
      BY <3>1
    <3> QED BY <3>2, <3>3
  <2>2. CASE LoadSession
    BY <2>2 DEF LoadSession, StartRange
  <2>3. ASSUME NEW s \in Session, DialHost(s) PROVE FanoutInv'
    BY <2>3 DEF DialHost
  <2>4. CASE DialFails
    BY <2>4 DEF DialFails, StartRange
  <2>5. CASE StoreSession
    BY <2>5 DEF StoreSession, StartRange
  <2>6. ASSUME NEW c \in Client, RangeVisit(c) PROVE FanoutInv'
    <3>1. CASE ~Receives(c)
      BY <2>6, <3>1 DEF RangeVisit
    <3>2. CASE Receives(c)
      <4>1. current \in Id
        BY <2>6 DEF RangeVisit
      <4>2. /\ Len(fanout'[c]) = Len(fanout[c]) + 1
            /\ fanout'[c][Len(fanout[c]) + 1] = current
            /\ \A k \in 1..Len(fanout[c]) : fanout'[c][k] = fanout[c][k]
        BY <2>6, <3>2, <4>1 DEF RangeVisit
      <4>3. \A d \in Client : d # c => fanout'[d] = fanout[d]
        BY <2>6, <3>2 DEF RangeVisit
      <4>4. \A k \in 1..Len(fanout[c]) : fanout[c][k] < current
        BY <2>6 DEF RangeVisit
      <4>5. FanoutInOrder'
        BY <2>6, <4>2, <4>3, <4>4 DEF RangeVisit
      <4>6. FanoutIsBehind'
        BY <2>6, <4>2, <4>3, <4>4 DEF RangeVisit
      <4>7. BroadcastReachesAll'
        BY <2>6, <4>2, <4>3 DEF RangeVisit
      <4> QED BY <4>5, <4>6, <4>7
    <3> QED BY <3>1, <3>2
  <2>7. CASE ArmTimer
    BY <2>7 DEF ArmTimer
  <2>8. ASSUME NEW t \in upTimers, WriteToHost(t) PROVE FanoutInv'
    BY <2>8 DEF WriteToHost, ConnOpen
  <2>9. ASSUME NEW t \in upTimers, WriteFails(t) PROVE FanoutInv'
    BY <2>9 DEF WriteFails, ConnOpen
  <2>10. ASSUME NEW t \in downTimers, WriteToClient(t) PROVE FanoutInv'
    BY <2>10 DEF WriteToClient
  <2>11. ASSUME NEW s \in Session, NEW m \in inbox, ReadReply(s, m) PROVE FanoutInv'
    BY <2>11 DEF ReadReply, ReplyTo
  <2>12. ASSUME NEW s \in Session, ReadError(s) PROVE FanoutInv'
    BY <2>12 DEF ReadError
  <2>13. ASSUME NEW s \in Session, DeleteSession(s) PROVE FanoutInv'
    BY <2>13 DEF DeleteSession
  <2>14. ASSUME NEW s \in Session, CloseConn(s) PROVE FanoutInv'
    BY <2>14 DEF CloseConn
  <2>15. ASSUME NEW m \in atHost, HostSends(m) PROVE FanoutInv'
    BY <2>15 DEF HostSends, ConnOpen
  <2>16. CASE HostStops \/ HostStarts
    BY <2>16 DEF HostStops, HostStarts
  <2>17. CASE UNCHANGED vars
    BY <2>17 DEF vars
  <2> QED
    BY <2>1, <2>2, <2>3, <2>4, <2>5, <2>6, <2>7, <2>8, <2>9, <2>10, <2>11,
       <2>12, <2>13, <2>14, <2>15, <2>16, <2>17
       DEF Next, MainStep, ReaderStep, TimerStep, EnvStep
<1> QED BY <1>1, <1>2, TypeCorrect, PTL DEF Spec
-----------------------------------------------------------------------------
(* Routing of the host's answers *)

\* A session is used only for datagrams of the client it was created for.
TimersKeepSender ==
  \A t \in upTimers :
    t.id <= current /\ (t.via # NoSession => clientAddr[t.via] = recvd[t.id])

HostKeepsSender ==
  \A m \in atHost \cup inbox : m.id \in written /\ clientAddr[m.via] = recvd[m.id]

RouteInv ==
  /\ pc = "range" /\ cur # NoSession => clientAddr[cur] = sender
  /\ written \subseteq 1..current
  /\ TimersKeepSender /\ HostKeepsSender
  /\ \A d \in downTimers \cup answered : d.id \in written /\ recvd[d.id] = d.to

\* A delayed write uses a session of the datagram's own sender, and the host's
\* answer to it goes back to that sender (the clientAddr the reader goroutine captured).
THEOREM RoutingCorrect == Spec => []RouteInv
<1> USE EdgeAssumption
    DEF TypeOK, RouteInv, TimersKeepSender, HostKeepsSender, Upward, Downward,
        Id, current, sender
<1>1. Init => RouteInv
  BY DEF Init
<1>2. TypeOK /\ SessionInv /\ RouteInv /\ [Next]_vars => RouteInv'
  <2> SUFFICES ASSUME TypeOK, SessionInv, RouteInv, [Next]_vars PROVE RouteInv'
    OBVIOUS
  <2> USE DEF table, main, env, history
  <2>1. ASSUME NEW c \in Client, ReadFromUDP(c) PROVE RouteInv'
    BY <2>1 DEF ReadFromUDP
  <2>2. CASE LoadSession
    BY <2>2 DEF LoadSession, StartRange, SessionInv, SessionTableLive, HasSession
  <2>3. ASSUME NEW s \in Session, DialHost(s) PROVE RouteInv'
    BY <2>3 DEF DialHost
  <2>4. CASE DialFails
    BY <2>4 DEF DialFails, StartRange
  <2>5. CASE StoreSession
    BY <2>5 DEF StoreSession, StartRange, SessionInv, StoreIsQuiet
  <2>6. ASSUME NEW c \in Client, RangeVisit(c) PROVE RouteInv'
    BY <2>6 DEF RangeVisit
  <2>7. CASE ArmTimer
    BY <2>7 DEF ArmTimer
  <2>8. ASSUME NEW t \in upTimers, WriteToHost(t) PROVE RouteInv'
    <3>1. t.id \in 1..current /\ clientAddr[t.via] = recvd[t.id]
      BY <2>8 DEF WriteToHost, ConnOpen
    <3>2. written' \subseteq 1..current /\ written \subseteq written'
      BY <2>8, <3>1 DEF WriteToHost
    <3>3. HostKeepsSender'
      BY <2>8, <3>1 DEF WriteToHost
    <3> QED BY <2>8, <3>2, <3>3 DEF WriteToHost
  <2>9. ASSUME NEW t \in upTimers, WriteFails(t) PROVE RouteInv'
    BY <2>9 DEF WriteFails, ConnOpen
  <2>10. ASSUME NEW t \in downTimers, WriteToClient(t) PROVE RouteInv'
    BY <2>10 DEF WriteToClient
  <2>11. ASSUME NEW s \in Session, NEW m \in inbox, ReadReply(s, m) PROVE RouteInv'
    BY <2>11 DEF ReadReply, ReplyTo
  <2>12. ASSUME NEW s \in Session, ReadError(s) PROVE RouteInv'
    BY <2>12 DEF ReadError
  <2>13. ASSUME NEW s \in Session, DeleteSession(s) PROVE RouteInv'
    BY <2>13 DEF DeleteSession
  <2>14. ASSUME NEW s \in Session, CloseConn(s) PROVE RouteInv'
    BY <2>14 DEF CloseConn
  <2>15. ASSUME NEW m \in atHost, HostSends(m) PROVE RouteInv'
    BY <2>15 DEF HostSends, ConnOpen
  <2>16. CASE HostStops \/ HostStarts
    BY <2>16 DEF HostStops, HostStarts
  <2>17. CASE UNCHANGED vars
    BY <2>17 DEF vars
  <2> QED
    BY <2>1, <2>2, <2>3, <2>4, <2>5, <2>6, <2>7, <2>8, <2>9, <2>10, <2>11,
       <2>12, <2>13, <2>14, <2>15, <2>16, <2>17
       DEF Next, MainStep, ReaderStep, TimerStep, EnvStep
<1> QED BY <1>1, <1>2, TypeCorrect, SessionsCorrect, PTL DEF Spec

\* The fan-out of a datagram reaches every other client of the map, in order.
THEOREM FanoutOrder == Spec => []FanoutInOrder
BY FanoutCorrect, PTL DEF FanoutInv

\* Every other client of the map gets a copy of the datagram being fanned out.
THEOREM FanoutReaches == Spec => []BroadcastReachesAll
BY FanoutCorrect, PTL DEF FanoutInv

\* An answer goes to the client whose datagram it answers.
THEOREM RepliesRouted == Spec => []RepliesReachRequester
<1>1. RouteInv => RepliesReachRequester
  BY DEF RouteInv, RepliesReachRequester
<1> QED BY <1>1, RoutingCorrect, PTL
-----------------------------------------------------------------------------
(* Loss *)

\* Each datagram read is with the main loop, with a timer, on its way to the
\* host, or lost for a reason.
Accounted ==
  \A i \in 1..current :
    \/ i \in written
    \/ i = current /\ pc # "read"
    \/ \E t \in upTimers : t.id = i
    \/ \E t \in lost : t.id = i /\ (t.via = NoSession \/ t.via \in refused)

\* A session fails only once the host has refused one of its datagrams.
FailsOnlyIfRefused ==
  \A s \in Session :
    icmp[s] \/ reader[s] \in {"failed", "deleted", "closed"} => s \in refused

LossInv == Accounted /\ FailsOnlyIfRefused

\* Every datagram read is waiting, written, dropped by the loss draw or lost
\* with its session, and a session fails only if the host refused it.
THEOREM LossCorrect == Spec => []LossInv
<1> USE EdgeAssumption
    DEF TypeOK, LossInv, Accounted, FailsOnlyIfRefused, Id, current, sender
<1>1. Init => LossInv
  BY DEF Init
<1>2. TypeOK /\ SessionInv /\ LossInv /\ [Next]_vars => LossInv'
  <2> SUFFICES ASSUME TypeOK, SessionInv, LossInv, [Next]_vars PROVE LossInv'
    OBVIOUS
  <2> USE DEF table, main, env, history
  <2>1. ASSUME NEW c \in Client, ReadFromUDP(c) PROVE LossInv'
    <3>1. Len(recvd') = Len(recvd) + 1 /\ pc' = "load"
      BY <2>1 DEF ReadFromUDP
    <3>2. Accounted'
      <4>1. pc = "read" /\ UNCHANGED <<written, upTimers, lost, refused>>
        BY <2>1 DEF ReadFromUDP
      <4>2. \A i \in 1..Len(recvd') : i \in 1..Len(recvd) \/ i = Len(recvd')
        BY <3>1
      <4> QED BY <3>1, <4>1, <4>2
    <3>3. FailsOnlyIfRefused'
      BY <2>1 DEF ReadFromUDP
    <3> QED BY <3>2, <3>3
  <2>2. CASE LoadSession
    BY <2>2 DEF LoadSession, StartRange
  <2>3. ASSUME NEW s \in Session, DialHost(s) PROVE LossInv'
    BY <2>3 DEF DialHost
  <2>4. CASE DialFails
    BY <2>4 DEF DialFails, StartRange
  <2>5. CASE StoreSession
    BY <2>5 DEF StoreSession, StartRange
  <2>6. ASSUME NEW c \in Client, RangeVisit(c) PROVE LossInv'
    BY <2>6 DEF RangeVisit
  <2>7. CASE ArmTimer
    <3>1. [via |-> cur, id |-> current] \in upTimers' /\ upTimers \subseteq upTimers'
      BY <2>7 DEF ArmTimer
    <3>2. \E u \in upTimers' : u.id = current
      BY <3>1
    <3>3. Accounted'
      BY <2>7, <3>1, <3>2 DEF ArmTimer
    <3>4. FailsOnlyIfRefused'
      BY <2>7 DEF ArmTimer
    <3> QED BY <3>3, <3>4
  <2>8. ASSUME NEW t \in upTimers, WriteToHost(t) PROVE LossInv'
    <3>1. \A u \in upTimers : u \in upTimers' \/ u.id \in written'
      BY <2>8 DEF WriteToHost
    <3>2. /\ written \subseteq written' /\ lost' = lost
          /\ recvd' = recvd /\ pc' = pc /\ refused \subseteq refused'
      BY <2>8 DEF WriteToHost
    <3>3. Accounted'
      BY <3>1, <3>2
    <3>4. FailsOnlyIfRefused'
      <4>1. t.via \in Session /\ reader' = reader
        BY <2>8 DEF WriteToHost, ConnOpen
      <4>2. \A s \in Session : icmp'[s] => icmp[s] \/ s \in refused'
        BY <2>8, <4>1 DEF WriteToHost
      <4> QED BY <3>2, <4>1, <4>2
    <3> QED BY <3>3, <3>4
  <2>9. ASSUME NEW t \in upTimers, WriteFails(t) PROVE LossInv'
    <3>1. t.via = NoSession \/ t.via \in refused
      BY <2>9 DEF WriteFails, ConnOpen, SessionInv, FreshIsUnused
    <3>2. /\ upTimers' = upTimers \ {t} /\ lost' = lost \cup {t}
          /\ UNCHANGED <<written, recvd, pc, refused, reader>>
      BY <2>9 DEF WriteFails
    <3>3. Accounted'
      <4>1. \A u \in upTimers : u \in upTimers' \/ u = t
        BY <3>2
      <4> QED BY <3>1, <3>2, <4>1
    <3>4. FailsOnlyIfRefused'
      <4>1. \A s \in Session : icmp'[s] => icmp[s]
        BY <2>9 DEF WriteFails, ConnOpen
      <4> QED BY <3>2, <4>1
    <3> QED BY <3>3, <3>4
  <2>10. ASSUME NEW t \in downTimers, WriteToClient(t) PROVE LossInv'
    BY <2>10 DEF WriteToClient
  <2>11. ASSUME NEW s \in Session, NEW m \in inbox, ReadReply(s, m) PROVE LossInv'
    BY <2>11 DEF ReadReply, ReplyTo
  <2>12. ASSUME NEW s \in Session, ReadError(s) PROVE LossInv'
    BY <2>12 DEF ReadError
  <2>13. ASSUME NEW s \in Session, DeleteSession(s) PROVE LossInv'
    BY <2>13 DEF DeleteSession
  <2>14. ASSUME NEW s \in Session, CloseConn(s) PROVE LossInv'
    BY <2>14 DEF CloseConn
  <2>15. ASSUME NEW m \in atHost, HostSends(m) PROVE LossInv'
    BY <2>15 DEF HostSends, ConnOpen
  <2>16. CASE HostStops \/ HostStarts
    BY <2>16 DEF HostStops, HostStarts
  <2>17. CASE UNCHANGED vars
    BY <2>17 DEF vars
  <2> QED
    BY <2>1, <2>2, <2>3, <2>4, <2>5, <2>6, <2>7, <2>8, <2>9, <2>10, <2>11,
       <2>12, <2>13, <2>14, <2>15, <2>16, <2>17
       DEF Next, MainStep, ReaderStep, TimerStep, EnvStep
<1> QED BY <1>1, <1>2, TypeCorrect, SessionsCorrect, PTL DEF Spec

\* While the host listens, no datagram that found a session is lost.
THEOREM LossNeedsRefusal == Spec => []LossOnlyOnRefusal
<1>1. LossInv => LossOnlyOnRefusal
  BY DEF LossInv, Accounted, LossOnlyOnRefusal, Settled
<1> QED BY <1>1, LossCorrect, PTL
-----------------------------------------------------------------------------
(* Refinement *)

\* The relay implements the service its clients are promised.
THEOREM RelayRefines == Spec => RelayServiceSpec
<1> USE EdgeAssumption DEF current, sender
<1>1. Init => Relay!Init
  BY DEF Init, Relay!Init
<1>2. TypeOK /\ FanoutInv /\ RouteInv /\ [Next]_vars => [Relay!Next]_(Relay!rvars)
  <2> SUFFICES ASSUME TypeOK, FanoutInv, RouteInv, [Next]_vars
               PROVE  Relay!Next \/ UNCHANGED Relay!rvars
    OBVIOUS
  <2> USE DEF history, Relay!rvars
  <2>1. ASSUME NEW c \in Client, ReadFromUDP(c) PROVE Relay!Next
    BY <2>1 DEF ReadFromUDP, Relay!Next, Relay!Accept
  <2>2. CASE LoadSession \/ DialFails \/ StoreSession \/ ArmTimer
    BY <2>2 DEF LoadSession, DialFails, StoreSession, ArmTimer
  <2>3. ASSUME NEW s \in Session, DialHost(s) PROVE UNCHANGED Relay!rvars
    BY <2>3 DEF DialHost
  <2>4. ASSUME NEW c \in Client, RangeVisit(c)
        PROVE  Relay!Next \/ UNCHANGED Relay!rvars
    <3>1. CASE ~Receives(c)
      BY <2>4, <3>1 DEF RangeVisit
    <3>2. CASE Receives(c)
      <4>1. current \in 1..Len(recvd)
        BY <2>4 DEF RangeVisit, TypeOK
      <4>2. \A k \in 1..Len(fanout[c]) : fanout[c][k] < current
        BY <2>4 DEF RangeVisit, FanoutInv, FanoutIsBehind
      <4>3. Relay!Fan(c, current)
        BY <2>4, <3>2, <4>2 DEF RangeVisit, Receives, Relay!Fan
      <4> QED BY <4>1, <4>3 DEF Relay!Next
    <3> QED BY <3>1, <3>2
  <2>5. ASSUME NEW t \in upTimers, WriteToHost(t)
        PROVE  Relay!Next \/ UNCHANGED Relay!rvars
    <3>1. t.id \in 1..Len(recvd)
      BY DEF TypeOK, RouteInv, TimersKeepSender, Id
    <3>2. CASE t.id \in written
      BY <2>5, <3>2 DEF WriteToHost
    <3>3. CASE t.id \notin written
      BY <2>5, <3>1, <3>3 DEF WriteToHost, Relay!Next, Relay!Forward
    <3> QED BY <3>2, <3>3
  <2>6. ASSUME NEW t \in upTimers, WriteFails(t) PROVE UNCHANGED Relay!rvars
    BY <2>6 DEF WriteFails
  <2>7. ASSUME NEW t \in downTimers, WriteToClient(t) PROVE Relay!Next
    <3>1. t = [to |-> recvd[t.id], id |-> t.id]
      BY DEF TypeOK, RouteInv, Downward
    <3>2. t.id \in 1..Len(recvd) /\ t.id \in written
      BY DEF RouteInv
    <3>3. Relay!Answer(t.id)
      BY <2>7, <3>1, <3>2 DEF WriteToClient, Relay!Answer
    <3> QED BY <3>2, <3>3 DEF Relay!Next
  <2>8. ASSUME NEW s \in Session, ReaderStep(s) PROVE UNCHANGED Relay!rvars
    BY <2>8 DEF ReaderStep, ReadReply, ReadError, DeleteSession, CloseConn
  <2>9. ASSUME NEW m \in atHost, HostSends(m) PROVE UNCHANGED Relay!rvars
    BY <2>9 DEF HostSends
  <2>10. CASE HostStops \/ HostStarts
    BY <2>10 DEF HostStops, HostStarts
  <2>11. CASE UNCHANGED vars
    BY <2>11 DEF vars
  <2> QED
    BY <2>1, <2>2, <2>3, <2>4, <2>5, <2>6, <2>7, <2>8, <2>9, <2>10, <2>11
       DEF Next, MainStep, TimerStep, EnvStep
<1> QED
  BY <1>1, <1>2, TypeCorrect, FanoutCorrect, RoutingCorrect, PTL
     DEF Spec, RelayServiceSpec, Relay!Spec
-----------------------------------------------------------------------------
(* Once, and for good *)

\* The main loop arms one timer for a datagram, when it is done with it, and the
\* timer has not fired while it is armed.
Done(i) == i < current \/ (i = current /\ pc = "read")

OneTimerEach ==
  /\ \A t \in upTimers : t.id \in Nat /\ Done(t.id) /\ t.id \notin written
  /\ \A t, u \in upTimers : t.id = u.id => t = u
  /\ \A t \in lost : t.id \in Nat /\ Done(t.id) /\ t.id \notin written
  /\ \A t \in upTimers, u \in lost : t.id # u.id
  /\ \A i \in written : i \in Nat /\ Done(i)

\* main.go:102: the one AfterFunc of a datagram is all that ever passes it on.
THEOREM TimersCorrect == Spec => []OneTimerEach
<1> USE DEF OneTimerEach, Done, current
<1>1. Init => OneTimerEach
  BY DEF Init
<1>2. TypeOK /\ OneTimerEach /\ [Next]_vars => OneTimerEach'
  <2> SUFFICES ASSUME TypeOK, OneTimerEach, [Next]_vars PROVE OneTimerEach'
    OBVIOUS
  <2>0. Len(recvd) \in Nat
    BY DEF TypeOK
  <2> USE DEF env, history
  <2>1. ASSUME NEW c \in Client, ReadFromUDP(c) PROVE OneTimerEach'
    <3>1. Len(recvd') = Len(recvd) + 1 /\ UNCHANGED <<upTimers, lost, written>>
      BY <2>1 DEF ReadFromUDP, TypeOK
    <3>2. \A i \in Nat : Done(i) => Done(i)'
      BY <2>0, <3>1
    <3> QED BY <3>1, <3>2
  <2>2. CASE \/ LoadSession \/ DialFails \/ StoreSession
             \/ (\E s \in Session : DialHost(s)) \/ (\E c \in Client : RangeVisit(c))
    <3>1. pc # "read" /\ UNCHANGED <<recvd, upTimers, lost, written>>
      BY <2>2 DEF LoadSession, DialFails, StoreSession, DialHost, RangeVisit
    <3> QED BY <3>1
  <2>3. CASE ArmTimer
    <3>1. /\ pc = "range" /\ pc' = "read" /\ UNCHANGED <<recvd, lost, written>>
          /\ upTimers' = upTimers \cup {[via |-> cur, id |-> current]}
      BY <2>3 DEF ArmTimer
    <3>2. ~Done(current)
      BY <2>0, <3>1
    <3>3. \A t \in upTimers' : t \in upTimers \/ (t.id = current /\ t = [via |-> cur, id |-> current])
      BY <3>1
    <3>4. \A i \in Nat : Done(i) => Done(i)'
      BY <3>1
    <3> QED BY <2>0, <3>1, <3>2, <3>3, <3>4
  <2>4. ASSUME NEW t \in upTimers, WriteToHost(t) PROVE OneTimerEach'
    <3>1. /\ upTimers' = upTimers \ {t} /\ written' = written \cup {t.id}
          /\ UNCHANGED <<pc, recvd, lost>>
      BY <2>4 DEF WriteToHost, main
    <3> QED BY <3>1
  <2>5. ASSUME NEW t \in upTimers, WriteFails(t) PROVE OneTimerEach'
    <3>1. /\ upTimers' = upTimers \ {t} /\ lost' = lost \cup {t}
          /\ UNCHANGED <<pc, recvd, written>>
      BY <2>5 DEF WriteFails, main
    <3> QED BY <3>1
  <2>6. CASE UNCHANGED <<pc, recvd, upTimers, lost, written>>
    BY <2>6
  <2> QED
    BY <2>1, <2>2, <2>3, <2>4, <2>5, <2>6
       DEF Next, MainStep, ReaderStep, TimerStep, EnvStep, WriteToClient, ReadReply, ReadError,
           DeleteSession, CloseConn, HostSends, HostStops, HostStarts, vars, main
<1> QED BY <1>1, <1>2, TypeCorrect, PTL DEF Spec

\* No datagram is written to the host a second time, and one that is settled stays
\* so: RelayService's written is a set and could not tell.
THEOREM PassedOnOnce ==
  Spec => /\ [][\A t \in upTimers : WriteToHost(t) => t.id \notin written]_vars
          /\ [][\A i \in Id : i <= current /\ Settled(i) => Settled(i)']_vars
<1>1. OneTimerEach /\ [Next]_vars => [\A t \in upTimers : WriteToHost(t) => t.id \notin written]_vars
  BY DEF OneTimerEach
<1>2. TypeOK /\ OneTimerEach /\ OneTimerEach' /\ [Next]_vars
        => [\A i \in Id : i <= current /\ Settled(i) => Settled(i)']_vars
  <2> SUFFICES ASSUME TypeOK, OneTimerEach, OneTimerEach', Next, NEW i \in Id, i <= current, Settled(i)
               PROVE  Settled(i)'
    OBVIOUS
  <2> USE DEF Settled, current, env, history
  <2>0. Len(recvd) \in Nat /\ i \in Nat
    BY EdgeAssumption DEF TypeOK, Id
  <2>1. ASSUME NEW c \in Client, ReadFromUDP(c) PROVE Settled(i)'
    <3>1. Len(recvd') = Len(recvd) + 1 /\ UNCHANGED upTimers
      BY <2>1 DEF ReadFromUDP, TypeOK
    <3> QED BY <2>0, <3>1
  <2>2. CASE \/ LoadSession \/ DialFails \/ StoreSession
             \/ (\E s \in Session : DialHost(s)) \/ (\E c \in Client : RangeVisit(c))
    <3>1. pc # "read" /\ UNCHANGED <<recvd, upTimers>>
      BY <2>2 DEF LoadSession, DialFails, StoreSession, DialHost, RangeVisit
    <3> QED BY <2>0, <3>1
  <2>3. CASE ArmTimer
    <3>1. /\ pc = "range" /\ UNCHANGED recvd
          /\ upTimers' = upTimers \cup {[via |-> cur, id |-> current]}
      BY <2>3 DEF ArmTimer
    <3>2. i # current
      BY <3>1
    <3> QED BY <2>0, <3>1, <3>2
  <2>4. CASE UNCHANGED <<pc, recvd>> /\ upTimers' \subseteq upTimers
    BY <2>4
  <2> QED
    BY <2>1, <2>2, <2>3, <2>4
       DEF Next, MainStep, ReaderStep, TimerStep, EnvStep, WriteToHost, WriteFails, WriteToClient,
           ReadReply, ReadError, DeleteSession, CloseConn, HostSends, HostStops, HostStarts, main
<1> QED BY <1>1, <1>2, TypeCorrect, TimersCorrect, PTL DEF Spec
=============================================================================
