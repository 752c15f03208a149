----------------------------- MODULE EdgeRelay -----------------------------
(***************************************************************************)
(* edge/main.go: the UDP relay between game clients and a host.            *)
(*                                                                         *)
(* Goroutines: the main loop (read a datagram, look up or create the       *)
(* sender's session, fan the datagram out, arm a timer that passes it on   *)
(* to the host); one reader per session (read the host's answers, arm a    *)
(* timer that returns them; on a read error drop the session); and one     *)
(* goroutine per fired timer.  They share the sync.Map "sessions" and the  *)
(* sockets.  The host and the kernel's delivery of ICMP errors to a        *)
(* connected socket are the environment.                                   *)
(*                                                                         *)
(* Datagrams are numbered in the order the edge reads them; the i-th came  *)
(* from client recvd[i].  Definitions named Faulty... are variants with a  *)
(* plausible bug; nothing uses them but mutation runs.                     *)
(***************************************************************************)
EXTENDS Naturals, Sequences

CONSTANTS
  Client,             \* the addresses clients send from (the keys of the map)
  Session,            \* the ClientSession objects the process may allocate
  NoSession,          \* nil
  NoClient,           \* the address of a session not yet allocated
  MaxDatagrams        \* bound on the datagrams the clients send

ASSUME EdgeAssumption ==
  /\ NoSession \notin Session
  /\ NoClient \notin Client
  /\ MaxDatagrams \in Nat

VARIABLES
  sessions,           \* the sync.Map: client -> session, NoSession if absent
  clientAddr,         \* session -> the client it was created for
  reader,             \* session -> where its reader goroutine is; the
                      \* connection to the host is open unless "none"/"closed"
  icmp,               \* session -> an error is pending on its host socket
  pc, cur, unvisited, \* main loop: next step, its session, Range's rest
  upTimers,           \* AfterFunc timers armed towards the host: [via, id]
  downTimers,         \* AfterFunc timers armed towards a client: [to, id]
  hostUp, atHost,     \* environment: the host, what it heard: [via, id]
  inbox,              \* environment: messages queued on the sessions' sockets
  recvd, fanout, written, answered,  \* history: see RelayService
  lost, refused       \* history: writes that failed, sessions that saw an error

table   == <<sessions, clientAddr, reader>>
main    == <<pc, cur, unvisited>>
env     == <<hostUp, atHost, inbox>>
history == <<recvd, fanout, written, answered, lost, refused>>
vars    == <<table, icmp, main, upTimers, downTimers, env, history>>

Id == 1..MaxDatagrams
current == Len(recvd)          \* the datagram the main loop is working on
sender  == recvd[current]

Init ==
  /\ sessions = [c \in Client |-> NoSession]
  /\ clientAddr = [s \in Session |-> NoClient]
  /\ reader = [s \in Session |-> "none"]
  /\ icmp = [s \in Session |-> FALSE]
  /\ pc = "read" /\ cur = NoSession /\ unvisited = {}
  /\ upTimers = {} /\ downTimers = {}
  /\ hostUp = TRUE /\ atHost = {} /\ inbox = {}
  /\ recvd = <<>> /\ fanout = [c \in Client |-> <<>>]
  /\ written = {} /\ answered = {} /\ lost = {} /\ refused = {}
-----------------------------------------------------------------------------
(* The main loop *)

\* A datagram of client c is read; a read error would only repeat the read.
ReadFromUDP(c) ==
  /\ pc = "read" /\ Len(recvd) < MaxDatagrams
  /\ recvd' = Append(recvd, c)
  /\ pc' = "load"
  /\ UNCHANGED <<table, icmp, cur, unvisited, upTimers, downTimers, env,
                 fanout, written, answered, lost, refused>>

FaultyHasSession(c) == FALSE
\* sessions.Load(key) finds a session.
HasSession(c) == sessions[c] # NoSession

StartRange(s) == pc' = "range" /\ cur' = s /\ unvisited' = Client

LoadSession ==
  /\ pc = "load" /\ HasSession(sender)
  /\ StartRange(sessions[sender])
  /\ UNCHANGED <<table, icmp, upTimers, downTimers, env, history>>

FaultyDialHost(s) ==
  /\ pc = "load" /\ ~HasSession(sender) /\ reader[s] = "none"
  /\ reader' = [reader EXCEPT ![s] = "reading"]
  /\ pc' = "store" /\ cur' = s
  /\ UNCHANGED <<sessions, clientAddr, icmp, unvisited, upTimers, downTimers,
                 env, history>>

\* A socket connected to the host, a new session and its reader: the goroutine
\* is running before the session is in the map.
DialHost(s) ==
  /\ pc = "load" /\ ~HasSession(sender) /\ reader[s] = "none"
  /\ clientAddr' = [clientAddr EXCEPT ![s] = sender]
  /\ reader' = [reader EXCEPT ![s] = "reading"]
  /\ pc' = "store" /\ cur' = s
  /\ UNCHANGED <<sessions, icmp, unvisited, upTimers, downTimers, env, history>>

FaultyDialFails ==
  /\ pc = "load" /\ ~HasSession(sender)
  /\ pc' = "read"
  /\ UNCHANGED <<table, icmp, cur, unvisited, upTimers, downTimers, env, history>>

\* DialUDP fails (no descriptor left, no usable host address): the datagram is
\* fanned out all the same, with no session.
DialFails ==
  /\ pc = "load" /\ ~HasSession(sender)
  /\ StartRange(NoSession)
  /\ UNCHANGED <<table, icmp, upTimers, downTimers, env, history>>

StoreSession ==
  /\ pc = "store"
  /\ sessions' = [sessions EXCEPT ![sender] = cur]
  /\ StartRange(cur)
  /\ UNCHANGED <<clientAddr, reader, icmp, upTimers, downTimers, env, history>>

FaultyReceives(c) == HasSession(c)
\* broadcast writes to every key of the map except the sender's.
Receives(c) == c # sender /\ HasSession(c)

FaultyRangeRevisits(c) ==
  /\ pc = "range" /\ c \in unvisited
  /\ unvisited' = IF Receives(c) THEN unvisited ELSE unvisited \ {c}
  /\ fanout' = IF Receives(c) THEN [fanout EXCEPT ![c] = Append(@, current)]
                              ELSE fanout
  /\ UNCHANGED <<table, icmp, pc, cur, upTimers, downTimers, env,
                 recvd, written, answered, lost, refused>>

FaultyRangeStalls(c) ==
  /\ pc = "range" /\ c \in unvisited
  /\ unvisited' = IF c = sender \/ HasSession(c) THEN unvisited \ {c} ELSE unvisited
  /\ fanout' = IF Receives(c) THEN [fanout EXCEPT ![c] = Append(@, current)]
                              ELSE fanout
  /\ UNCHANGED <<table, icmp, pc, cur, upTimers, downTimers, env,
                 recvd, written, answered, lost, refused>>

\* One key of sessions.Range.  Range is no snapshot: a reader may delete a key
\* before it is visited.  Only this goroutine stores, so none is added.
RangeVisit(c) ==
  /\ pc = "range" /\ c \in unvisited
  /\ unvisited' = unvisited \ {c}
  /\ fanout' = IF Receives(c) THEN [fanout EXCEPT ![c] = Append(@, current)]
                              ELSE fanout
  /\ UNCHANGED <<table, icmp, pc, cur, upTimers, downTimers, env,
                 recvd, written, answered, lost, refused>>

ArmTimer ==
  /\ pc = "range" /\ unvisited = {}
  /\ upTimers' = upTimers \cup {[via |-> cur, id |-> current]}
  /\ pc' = "read" /\ cur' = NoSession
  /\ UNCHANGED <<table, icmp, unvisited, downTimers, env, history>>
-----------------------------------------------------------------------------
(* Timer goroutines *)

ConnOpen(s) == s # NoSession /\ reader[s] \notin {"none", "closed"}

\* hostConn.Write: through a session that exists, whose connection is open and
\* has no error pending, the datagram leaves.  If no host is listening an ICMP
\* error may come back and stay pending on the socket.
WriteToHost(t) ==
  /\ t \in upTimers /\ ConnOpen(t.via) /\ ~icmp[t.via]
  /\ upTimers' = upTimers \ {t}
  /\ written' = written \cup {t.id}
  /\ atHost' = IF hostUp THEN atHost \cup {t} ELSE atHost
  /\ \/ UNCHANGED <<icmp, refused>>
     \/ /\ ~hostUp
        /\ icmp' = [icmp EXCEPT ![t.via] = TRUE]
        /\ refused' = refused \cup {t.via}
  /\ UNCHANGED <<table, main, downTimers, hostUp, inbox,
                 recvd, fanout, answered, lost>>

\* The session is nil, or the write fails: on a closed connection, or because
\* it returns, and so clears, the pending error.  Nothing reports the loss.
WriteFails(t) ==
  /\ t \in upTimers
  /\ ConnOpen(t.via) => icmp[t.via]
  /\ upTimers' = upTimers \ {t}
  /\ lost' = lost \cup {t}
  /\ icmp' = IF ConnOpen(t.via) THEN [icmp EXCEPT ![t.via] = FALSE] ELSE icmp
  /\ UNCHANGED <<table, main, downTimers, env,
                 recvd, fanout, written, answered, refused>>

WriteToClient(t) ==
  /\ t \in downTimers
  /\ downTimers' = downTimers \ {t}
  /\ answered' = answered \cup {t}
  /\ UNCHANGED <<table, icmp, main, upTimers, env,
                 recvd, fanout, written, lost, refused>>
-----------------------------------------------------------------------------
(* The reader goroutine of session s *)

FaultyReplyTo(s) == sender
\* The address the reader's closure captured when the session was created.
ReplyTo(s) == clientAddr[s]

FaultyReadReply(s, m) ==
  /\ reader[s] = "reading" /\ ~icmp[s]
  /\ m \in inbox /\ m.via = s
  /\ inbox' = inbox \ {m}
  /\ downTimers' = downTimers \cup {[to |-> ReplyTo(s), id |-> m.id]}
  /\ reader' = [reader EXCEPT ![s] = "failed"]
  /\ UNCHANGED <<sessions, clientAddr, icmp, main, upTimers, hostUp, atHost, history>>

ReadReply(s, m) ==
  /\ reader[s] = "reading" /\ ~icmp[s]
  /\ m \in inbox /\ m.via = s
  /\ inbox' = inbox \ {m}
  /\ downTimers' = downTimers \cup {[to |-> ReplyTo(s), id |-> m.id]}
  /\ UNCHANGED <<table, icmp, main, upTimers, hostUp, atHost, history>>

FaultyReadError(s) ==
  /\ reader[s] = "reading" /\ icmp[s]
  /\ icmp' = [icmp EXCEPT ![s] = FALSE]
  /\ reader' = [reader EXCEPT ![s] = "failed"]
  /\ sessions' = [sessions EXCEPT ![clientAddr[s]] = NoSession]
  /\ UNCHANGED <<clientAddr, main, upTimers, downTimers, env, history>>

ReadError(s) ==
  /\ reader[s] = "reading" /\ icmp[s]
  /\ icmp' = [icmp EXCEPT ![s] = FALSE]
  /\ reader' = [reader EXCEPT ![s] = "failed"]
  /\ UNCHANGED <<sessions, clientAddr, main, upTimers, downTimers, env, history>>

FaultyDeleteSession(s) ==
  /\ reader[s] = "failed"
  /\ reader' = [reader EXCEPT ![s] = "deleted"]
  /\ UNCHANGED <<sessions, clientAddr, icmp, main, upTimers, downTimers, env, history>>

\* sessions.Delete(key): by key, whatever the key maps to by now.
DeleteSession(s) ==
  /\ reader[s] = "failed"
  /\ sessions' = [sessions EXCEPT ![clientAddr[s]] = NoSession]
  /\ reader' = [reader EXCEPT ![s] = "deleted"]
  /\ UNCHANGED <<clientAddr, icmp, main, upTimers, downTimers, env, history>>

\* The deferred hConn.Close(); answers still queued on the socket are gone.
CloseConn(s) ==
  /\ reader[s] = "deleted"
  /\ reader' = [reader EXCEPT ![s] = "closed"]
  /\ inbox' = {m \in inbox : m.via # s}
  /\ UNCHANGED <<sessions, clientAddr, icmp, main, upTimers, downTimers,
                 hostUp, atHost, history>>
-----------------------------------------------------------------------------
(* The host (environment): sends to the peers it heard from, on a datagram   *)
(* of theirs, never, once or again and again                                *)

HostSends(m) ==
  /\ m \in atHost
  /\ inbox' = IF ConnOpen(m.via) THEN inbox \cup {m} ELSE inbox
  /\ UNCHANGED <<table, icmp, main, upTimers, downTimers, hostUp, atHost, history>>

HostStops ==
  /\ hostUp /\ hostUp' = FALSE /\ atHost' = {}
  /\ UNCHANGED <<table, icmp, main, upTimers, downTimers, inbox, history>>

HostStarts ==
  /\ ~hostUp /\ hostUp' = TRUE
  /\ UNCHANGED <<table, icmp, main, upTimers, downTimers, atHost, inbox, history>>
-----------------------------------------------------------------------------
MainStep ==
  \/ LoadSession \/ DialFails \/ StoreSession \/ ArmTimer
  \/ \E s \in Session : DialHost(s)
  \/ \E c \in Client : RangeVisit(c)

ReaderStep(s) ==
  \/ ReadError(s) \/ DeleteSession(s) \/ CloseConn(s)
  \/ \E m \in inbox : ReadReply(s, m)

TimerStep(i) ==
  \/ \E t \in upTimers : t.id = i /\ (WriteToHost(t) \/ WriteFails(t))
  \/ \E t \in downTimers : t.id = i /\ WriteToClient(t)

EnvStep ==
  \/ \E c \in Client : ReadFromUDP(c)
  \/ \E m \in atHost : HostSends(m)
  \/ HostStops \/ HostStarts

Next ==
  \/ MainStep
  \/ \E s \in Session : ReaderStep(s)
  \/ \E i \in Id : TimerStep(i)
  \/ EnvStep

Spec == Init /\ [][Next]_vars

\* The Go scheduler runs every runnable goroutine and fires every timer;
\* neither the clients nor the host owe the edge anything.
FairSpec ==
  /\ Spec
  /\ WF_vars(MainStep)
  /\ \A s \in Session : WF_vars(ReaderStep(s))
  /\ \A i \in Id : WF_vars(TimerStep(i))
-----------------------------------------------------------------------------
(* Properties *)

Upward   == [via : Session, id : Id]
Downward == [to : Client, id : Id]

\* Every variable has its type, and a session object has an owner exactly when
\* it was allocated (main.go:121 fills both fields before anything else runs).
TypeOK ==
  /\ sessions \in [Client -> Session \cup {NoSession}]
  /\ clientAddr \in [Session -> Client \cup {NoClient}]
  /\ reader \in [Session -> {"none", "reading", "failed", "deleted", "closed"}]
  /\ \A s \in Session : clientAddr[s] = NoClient <=> reader[s] = "none"
  /\ icmp \in [Session -> BOOLEAN]
  /\ pc \in {"read", "load", "store", "range"}
  /\ pc # "read" => recvd # <<>>
  /\ cur \in Session \cup {NoSession}
  /\ unvisited \subseteq Client
  /\ upTimers \subseteq [via : Session \cup {NoSession}, id : Id]
  /\ downTimers \subseteq Downward
  /\ hostUp \in BOOLEAN
  /\ atHost \subseteq Upward /\ inbox \subseteq Upward
  /\ recvd \in Seq(Client) /\ Len(recvd) <= MaxDatagrams
  /\ fanout \in [Client -> Seq(Id)]
  /\ written \subseteq Id /\ answered \subseteq Downward
  /\ lost \subseteq [via : Session \cup {NoSession}, id : Id]
  /\ refused \subseteq Session

Serving(s) == reader[s] \in {"reading", "failed"}

\* A session found in the map belongs to the client it is filed under and its
\* reader has not got past the Delete: the main loop is never handed a session
\* whose connection was already closed, although the reader goroutine is
\* started before the session is stored and deletes it by key.
SessionTableLive ==
  \A c \in Client : HasSession(c) =>
    clientAddr[sessions[c]] = c /\ Serving(sessions[c])

\* A client never has two sessions being served at once, so the host never
\* sees one player as two peers.
OneSessionPerClient ==
  \A s, t \in Session :
    Serving(s) /\ Serving(t) /\ clientAddr[s] = clientAddr[t] => s = t

\* sessions.Delete(key) removes the deleting reader's own session, never one
\* that was created for the same client since.
EvictsOwnSession ==
  [][\A s \in Session :
       reader[s] = "failed" /\ reader'[s] = "deleted"
         => sessions[clientAddr[s]] = s]_vars

\* Fan-out is synchronous in the main loop, so no client is sent a datagram
\* twice or two datagrams in another order than the edge read them.
FanoutInOrder ==
  \A c \in Client : \A j, k \in 1..Len(fanout[c]) :
    j < k => fanout[c][j] < fanout[c][k]

\* Once Range has passed a client whose session is still in the map, that client
\* has been sent the datagram, whatever the readers deleted meanwhile; and when
\* the main loop reads the next one that is everyone, though the sender's own
\* session could not be created.
BroadcastReachesAll ==
  pc \in {"range", "read"} /\ recvd # <<>> =>
    \A c \in Client \ unvisited :
      Receives(c) => \E k \in 1..Len(fanout[c]) : fanout[c][k] = current

\* The main loop is done with datagram i and no timer holds it.
Settled(i) ==
  /\ i < current \/ (i = current /\ pc = "read")
  /\ \A t \in upTimers : t.id # i

\* A datagram is kept from the host only if its session could not be created
\* or its socket reported an error: while the host listens nothing is lost,
\* and a session's end loses nothing unless the host refused it.
LossOnlyOnRefusal ==
  \A i \in 1..current : Settled(i) /\ i \notin written =>
    \E t \in lost : t.id = i /\ (t.via = NoSession \/ t.via \in refused)

\* An answer of the host is returned to the client whose datagram it answers,
\* also when the client's session was replaced in between.
RepliesReachRequester ==
  \A a \in answered : recvd[a.id] = a.to /\ a.id \in written

\* The relay does nothing its clients were not promised.
Relay == INSTANCE RelayService
RelayServiceSpec == Relay!Spec

\* Every datagram the edge reads is dealt with: the main loop gets through
\* the broadcast and the timer fires.
EveryDatagramSettles ==
  \A i \in Id : (current >= i) ~> (current >= i /\ Settled(i))

\* A session whose reader got an error is taken out of the map and its
\* connection closed, so that the client's next datagram gets a new one.
FailedSessionEvicted ==
  \A s \in Session : (reader[s] = "failed") ~>
    (reader[s] = "closed" /\ \A c \in Client : sessions[c] # s)
=============================================================================
