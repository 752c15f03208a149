----------------------------- MODULE DemoClient -----------------------------
(***************************************************************************)
(* The second half of the demo client (client.py): the loops that run once *)
(* it has registered, and their end.  Each client is a process of three    *)
(* threads: the main thread, which a SIGINT reaches as KeyboardInterrupt;  *)
(* the send loop, which moves the predicted position and sends it; and the *)
(* receiver, whose on_rollback corrects that position.  The model is about *)
(* how they end: the position and the tick are left out, and so is         *)
(* on_prediction, which only prints.                                       *)
(***************************************************************************)
EXTENDS Naturals

CONSTANT Clients      \* the number of clients

Client == 1..Clients

ASSUME DemoAssumption == Clients \in Nat

VARIABLES
  main,               \* where the main thread is; "off" before, "end" after
  signals,            \* those sent to the process and not yet handled: INT, KILL
  running, receiving, \* Client._running, UdpTransport._running
  sockOpen,           \* the transport's socket
  send, recv,         \* where the two loops are
  overdue             \* history: the loops that stop gave up waiting for

flags  == <<running, receiving, sockOpen>>
client == <<main, signals, flags, send, recv, overdue>>

InitClients ==
  /\ main = [c \in Client |-> "off"] /\ signals = [c \in Client |-> {}]
  /\ running = [c \in Client |-> FALSE] /\ receiving = [c \in Client |-> FALSE]
  /\ sockOpen = [c \in Client |-> FALSE]
  /\ send = [c \in Client |-> "end"] /\ recv = [c \in Client |-> "end"]
  /\ overdue = [c \in Client |-> {}]

Alive(c) == main[c] \notin {"off", "end"}
Go(thread, c, to) == thread' = [thread EXCEPT ![c] = to]

\* The process is started, and its transport opens a socket.
Starts(c) == Go(main, c, "choose") /\ Go(sockOpen, c, TRUE)

\* It ends: its daemon threads end with it, and nothing of it is left.
Ends(c) ==
  /\ Go(main, c, "end") /\ Go(signals, c, {}) /\ Go(send, c, "end") /\ Go(recv, c, "end")
  /\ Go(running, c, FALSE) /\ Go(receiving, c, FALSE) /\ Go(sockOpen, c, FALSE)
  /\ Go(overdue, c, {})
-----------------------------------------------------------------------------
(* The main thread *)

\* run has chosen an edge and registered, or found none and raised.
StartLoops(c) ==
  /\ main[c] = "choose" /\ Go(main, c, "started")
  /\ Go(receiving, c, TRUE) /\ Go(running, c, TRUE) /\ Go(send, c, "top") /\ Go(recv, c, "wait")
  /\ UNCHANGED <<signals, sockOpen, overdue>>

RunFails(c) == main[c] = "choose" /\ Ends(c)

\* The try that catches KeyboardInterrupt begins only after run.
EnterTry(c) ==
  main[c] = "started" /\ Go(main, c, "sleep") /\ UNCHANGED <<signals, flags, send, recv, overdue>>

\* In the sleep it calls stop; anywhere else, in stop too, it ends the process.
KeyboardInterrupt(c) ==
  /\ Alive(c) /\ "INT" \in signals[c]
  /\ \/ /\ main[c] = "sleep" /\ Go(main, c, "joinSend") /\ Go(running, c, FALSE)
        /\ Go(signals, c, signals[c] \ {"INT"})
        /\ UNCHANGED <<receiving, sockOpen, send, recv, overdue>>
     \/ main[c] # "sleep" /\ Ends(c)

Killed(c) == Alive(c) /\ "KILL" \in signals[c] /\ Ends(c)

FaultyJoined(c, name, thread) == UNCHANGED overdue
FaultyJoinedForever(c, name, thread) == thread[c] = "end" /\ UNCHANGED overdue

\* join(timeout=1.0): the loop has ended, or the second is over.
Joined(c, name, thread) ==
  \/ thread[c] = "end" /\ UNCHANGED overdue
  \/ thread[c] # "end" /\ overdue' = [overdue EXCEPT ![c] = @ \cup {name}]

JoinSend(c) ==
  /\ main[c] = "joinSend" /\ Joined(c, "send", send)
  /\ Go(receiving, c, FALSE) /\ Go(main, c, "joinRecv")
  /\ UNCHANGED <<signals, running, sockOpen, send, recv>>

JoinRecv(c) ==
  /\ main[c] = "joinRecv" /\ Joined(c, "recv", recv)
  /\ Go(sockOpen, c, FALSE) /\ Go(main, c, "exit")
  /\ UNCHANGED <<signals, running, receiving, send, recv>>

Exit(c) == main[c] = "exit" /\ Ends(c)

EndStep(c) == KeyboardInterrupt(c) \/ Killed(c) \/ JoinSend(c) \/ JoinRecv(c) \/ Exit(c)
MainStep(c) == StartLoops(c) \/ RunFails(c) \/ EnterTry(c) \/ EndStep(c)
-----------------------------------------------------------------------------
(* The send loop *)

Tick(c) ==
  /\ send[c] = "top" /\ Go(send, c, IF running[c] THEN "move" ELSE "end")
  /\ UNCHANGED <<main, signals, flags, recv, overdue>>

\* The random walk, and the number of the message.
Move(c) ==
  /\ send[c] = "move" /\ Go(send, c, "send")
  /\ UNCHANGED <<main, signals, flags, recv, overdue>>

\* sendto on the closed socket raises, which ends the thread.
SendPrediction(c) ==
  /\ send[c] = "send" /\ Go(send, c, IF sockOpen[c] THEN "top" ELSE "end")
  /\ UNCHANGED <<main, signals, flags, recv, overdue>>

SendStep(c) == Tick(c) \/ Move(c) \/ SendPrediction(c)
-----------------------------------------------------------------------------
(* The receiver *)

\* A ROLLBACK keeps the receiver busy; only then does it look at its flag again.
OnRollback(c) ==
  /\ recv[c] = "wait" /\ sockOpen[c] /\ Go(recv, c, "rollback")
  /\ UNCHANGED <<main, signals, flags, send, overdue>>

Corrected(c) ==
  /\ recv[c] = "rollback" /\ Go(recv, c, IF receiving[c] THEN "wait" ELSE "end")
  /\ UNCHANGED <<main, signals, flags, send, overdue>>

\* The flag is down; the socket is closed; a datagram did not decode.
RecvLoopEnds(c) ==
  /\ recv[c] = "wait" /\ Go(recv, c, "end")
  /\ UNCHANGED <<main, signals, flags, send, overdue>>

RecvStep(c) == OnRollback(c) \/ Corrected(c) \/ RecvLoopEnds(c)

ClientStep(c) == MainStep(c) \/ SendStep(c) \/ RecvStep(c)
-----------------------------------------------------------------------------
(* Properties *)

ClientTypeOK ==
  /\ main \in [Client -> {"off", "choose", "started", "sleep", "joinSend", "joinRecv", "exit", "end"}]
  /\ signals \in [Client -> SUBSET {"INT", "KILL"}] /\ running \in [Client -> BOOLEAN]
  /\ receiving \in [Client -> BOOLEAN] /\ sockOpen \in [Client -> BOOLEAN]
  /\ send \in [Client -> {"top", "move", "send", "end"}]
  /\ recv \in [Client -> {"wait", "rollback", "end"}]
  /\ overdue \in [Client -> SUBSET {"send", "recv"}]

\* The process ends while its stop still waits for the threads.
StopCut(c) ==
  main[c] \in {"joinSend", "joinRecv"} /\ main'[c] = "end"

\* The socket is closed under a loop that still uses it only if that loop was
\* waited for in vain for a second.
QuietClose ==
  \A c \in Client : Alive(c) /\ ~sockOpen[c] =>
    (send[c] = "end" \/ "send" \in overdue[c]) /\ (recv[c] = "end" \/ "recv" \in overdue[c])
=============================================================================
