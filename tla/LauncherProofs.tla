--------------------------- MODULE LauncherProofs ---------------------------
(***************************************************************************)
(* What holds of run_clients.py and the clients it starts for every number *)
(* of clients and however often Ctrl+C is pressed.                         *)
(***************************************************************************)
EXTENDS Launcher, Integers, TLAPS

\* A process: its loops run between StartLoops and its end, and stop has waited
\* for them when it closes the socket.
Process(c) ==
  /\ main[c] \in {"off", "choose", "end"} => send[c] = "end" /\ recv[c] = "end"
  /\ main[c] \in {"joinRecv", "exit"} => send[c] = "end" \/ "send" \in overdue[c]
  /\ main[c] = "exit" => recv[c] = "end" \/ "recv" \in overdue[c]
  /\ Alive(c) /\ ~sockOpen[c] => main[c] = "exit"

\* How far the launcher is, and the list it works on.
Progress ==
  /\ launcher \in {"launch", "append", "monitor"} => stopping = 1
  /\ launcher \in {"launch", "monitor"} => procs = started
  /\ launcher = "append" => procs = started - 1
  /\ launcher = "wait" => stopping <= procs
  /\ launcher = "done" => stopping > procs

Stopping(c) == main[c] \in {"joinSend", "joinRecv", "exit"}

\* Those the launcher is done with are gone or killed; without Ctrl+C only those
\* it came to were signalled, each once.
Signals(c) ==
  /\ c < stopping /\ Alive(c) => "KILL" \in signals[c]
  /\ presses = 0 /\ ("INT" \in signals[c] \/ Stopping(c)) =>
       c < stopping \/ (c = stopping /\ launcher = "wait")
  /\ presses = 0 /\ Stopping(c) => "INT" \notin signals[c]

IInv == TypeOK /\ Progress /\ \A c \in Client : Process(c) /\ Signals(c)
-----------------------------------------------------------------------------
\* The steps of a client's loops.
LEMMA LoopsKeep ==
  ASSUME IInv, NEW c \in Client, SendStep(c) \/ RecvStep(c), UNCHANGED own
  PROVE  IInv'
<1> USE DEF IInv, TypeOK, ClientTypeOK, Progress, Process, Signals, Stopping, Alive, own, flags, Go
<1>1. CASE Tick(c)
  BY <1>1 DEF Tick
<1>2. CASE SendPrediction(c)
  BY <1>2 DEF SendPrediction
<1>3. CASE Move(c)
  BY <1>3 DEF Move
<1>4. CASE OnRollback(c)
  BY <1>4 DEF OnRollback
<1>5. CASE Corrected(c)
  BY <1>5 DEF Corrected
<1>6. CASE RecvLoopEnds(c)
  BY <1>6 DEF RecvLoopEnds
<1> QED
  BY <1>1, <1>2, <1>3, <1>4, <1>5, <1>6 DEF SendStep, RecvStep

\* A process that ends.
LEMMA EndsKeeps ==
  ASSUME IInv, NEW c \in Client, main[c] # "off", Ends(c), UNCHANGED own
  PROVE  IInv'
BY DEF IInv, TypeOK, ClientTypeOK, Progress, Process, Signals, Stopping, Alive, own, flags, Go, Ends

\* The steps of a client's main thread.
LEMMA MainKeeps ==
  ASSUME IInv, NEW c \in Client, MainStep(c), UNCHANGED own
  PROVE  IInv'
<1>1. CASE StartLoops(c)
  BY <1>1 DEF StartLoops, IInv, TypeOK, ClientTypeOK, Progress, Process, Signals, Stopping, Alive, own, flags, Go
<1>2. CASE EnterTry(c)
  BY <1>2 DEF EnterTry, IInv, TypeOK, ClientTypeOK, Progress, Process, Signals, Stopping, Alive, own, flags, Go
<1>3. CASE KeyboardInterrupt(c)
  <2>1. CASE main[c] = "sleep"
    <3>1. /\ main' = [main EXCEPT ![c] = "joinSend"] /\ running' = [running EXCEPT ![c] = FALSE]
          /\ signals' = [signals EXCEPT ![c] = @ \ {"INT"}] /\ "INT" \in signals[c]
          /\ UNCHANGED <<receiving, sockOpen, send, recv, overdue>>
      BY <1>3, <2>1 DEF KeyboardInterrupt, Go
    <3>2. TypeOK' /\ Progress'
      BY <2>1, <3>1 DEF IInv, TypeOK, ClientTypeOK, Progress, own
    <3>3. ASSUME NEW d \in Client PROVE Process(d)'
      BY <2>1, <3>1 DEF IInv, TypeOK, ClientTypeOK, Process, Alive
    <3>4. ASSUME NEW d \in Client PROVE Signals(d)'
      BY <2>1, <3>1 DEF IInv, TypeOK, ClientTypeOK, Signals, Stopping, Alive, own
    <3> QED
      BY <3>2, <3>3, <3>4 DEF IInv
  <2>2. CASE main[c] # "sleep"
    BY <1>3, <2>2, EndsKeeps DEF KeyboardInterrupt, Alive
  <2> QED
    BY <2>1, <2>2
<1>4. CASE JoinSend(c)
  BY <1>4 DEF JoinSend, Joined, IInv, TypeOK, ClientTypeOK, Progress, Process, Signals, Stopping, Alive, own, flags, Go
<1>5. CASE JoinRecv(c)
  BY <1>5 DEF JoinRecv, Joined, IInv, TypeOK, ClientTypeOK, Progress, Process, Signals, Stopping, Alive, own, flags, Go
<1>6. CASE RunFails(c) \/ Killed(c) \/ Exit(c)
  BY <1>6, EndsKeeps DEF RunFails, Killed, Exit, Alive
<1> QED
  BY <1>1, <1>2, <1>3, <1>4, <1>5, <1>6 DEF MainStep, EndStep

\* The launcher's steps.
LEMMA LauncherKeeps ==
  ASSUME IInv,
         Popen \/ PopenFails \/ AppendProc \/ DurationReached \/ Shutdown \/ CtrlC \/ CtrlCInPopen
  PROVE  IInv'
<1> USE DemoAssumption, LauncherAssumption
    DEF IInv, TypeOK, ClientTypeOK, Progress, Process, Signals, Stopping, Alive, client, flags, Go, Client
<1>1. CASE Popen
  BY <1>1 DEF Popen, Starts
<1>2. CASE PopenFails
  BY <1>2 DEF PopenFails
<1>3. CASE AppendProc
  BY <1>3 DEF AppendProc
<1>4. CASE DurationReached
  BY <1>4 DEF DurationReached
<1>5. CASE Poll
  BY <1>5 DEF Poll, Send, NextProc, Listed
<1>6. CASE WaitReturns
  BY <1>6 DEF WaitReturns, NextProc
<1>7. CASE WaitTimesOut
  BY <1>7 DEF WaitTimesOut, Kill, Send, NextProc
<1>8. CASE AllDone
  BY <1>8 DEF AllDone, Listed
<1>9. CASE CtrlC
  BY <1>9 DEF CtrlC, Pressed, Signalled, Gone
<1>10. CASE CtrlCInPopen
  BY <1>10 DEF CtrlCInPopen, Pressed, Signalled, Gone, Starts
<1> QED
  BY <1>1, <1>2, <1>3, <1>4, <1>5, <1>6, <1>7, <1>8, <1>9, <1>10 DEF Shutdown

\* The invariant of the launcher and its clients, which the properties follow from.
THEOREM LaunchCorrect == Spec => []IInv
<1>1. Init => IInv
  BY DemoAssumption, LauncherAssumption
  DEF Init, InitClients, IInv, TypeOK, ClientTypeOK, Progress, Process, Signals, Stopping, Alive, Client
<1>2. IInv /\ [Next]_vars => IInv'
  <2>1. CASE UNCHANGED vars
    BY <2>1 DEF vars, client, own, flags, IInv, TypeOK, ClientTypeOK, Progress, Process, Signals, Stopping, Alive
  <2>2. ASSUME IInv, NEW c \in Client, ClientStep(c), UNCHANGED own PROVE IInv'
    BY <2>2, LoopsKeep, MainKeeps DEF ClientStep
  <2> QED
    BY <2>1, <2>2, LauncherKeeps DEF Next
<1> QED
  BY <1>1, <1>2, PTL DEF Spec

\* Every reachable state is well typed, for every number of clients.
THEOREM TypeCorrect == Spec => []TypeOK
<1>1. IInv => TypeOK
  BY DEF IInv
<1> QED
  BY <1>1, LaunchCorrect, PTL

\* client.py:135, net.py:104: the socket is closed under no loop that was not waited for.
THEOREM ClosesQuietly == Spec => []QuietClose
<1>1. IInv => QuietClose
  BY DEF IInv, Process, QuietClose
<1> QED
  BY <1>1, LaunchCorrect, PTL

\* run_clients.py:86: after "All clients stopped." those in the list are.
THEOREM AllAreStopped == Spec => []AllStopped
<1>1. IInv => AllStopped
  BY DemoAssumption DEF IInv, TypeOK, Progress, Signals, AllStopped, Client
<1> QED
  BY <1>1, LaunchCorrect, PTL

\* run_clients.py:78: no client's stop is cut short by a second SIGINT of the launcher.
THEOREM OneSigintEach == Spec => OneSigint
<1>1. IInv /\ [Next]_vars => [\A c \in Client : StopCut(c) => presses > 0 \/ "KILL" \in signals[c]]_vars
  <2> SUFFICES ASSUME IInv, Next, NEW c \in Client, StopCut(c), ~(presses > 0)
               PROVE  "KILL" \in signals[c]
    OBVIOUS
  <2>1. presses = 0 /\ Stopping(c) /\ main'[c] = "end" /\ "INT" \notin signals[c]
        /\ main[c] \in {"joinSend", "joinRecv"}
    BY LauncherAssumption DEF IInv, TypeOK, Signals, StopCut, Stopping
  <2>2. CASE \E d \in Client : ClientStep(d)
    <3>1. PICK d \in Client : ClientStep(d)
      BY <2>2
    <3> QED
      BY <2>1, <3>1 DEF IInv, TypeOK, ClientTypeOK, ClientStep, MainStep, EndStep, SendStep, RecvStep,
        StartLoops, RunFails, EnterTry, KeyboardInterrupt, Killed, JoinSend, JoinRecv, Exit,
        Tick, Move, SendPrediction, OnRollback, Corrected, RecvLoopEnds, Ends, Go, Alive
  <2>3. CASE Popen \/ PopenFails \/ AppendProc \/ DurationReached \/ Shutdown \/ CtrlC \/ CtrlCInPopen
    BY <2>1, <2>3 DEF IInv, TypeOK, ClientTypeOK, Popen, PopenFails, AppendProc, DurationReached,
      Shutdown, Poll, WaitReturns, WaitTimesOut, AllDone, CtrlC, CtrlCInPopen, Starts, Go, client
  <2> QED
    BY <2>2, <2>3 DEF Next
<1> QED
  BY <1>1, LaunchCorrect, PTL DEF Spec, OneSigint
-----------------------------------------------------------------------------
(* What fairness adds to: the end is owed, and there is an end *)

InFinally == launcher \in {"poll", "wait"}

\* Two steps at most for each process of the list, and the last one.
LeftToStop ==
  2 * (Clients + 1 - stopping) + (CASE launcher = "poll" -> 2 [] launcher = "wait" -> 1 [] OTHER -> 0)

\* The finally block comes nearer to its end with each of its steps, and no step of
\* a client or the terminal takes it back: the part of ShutdownEnds that is no
\* matter of fairness.
THEOREM ShutdownIsFinite ==
  Spec => /\ [](LeftToStop \in Nat)
          /\ [][Shutdown => LeftToStop' < LeftToStop]_vars
          /\ [][InFinally => LeftToStop' <= LeftToStop]_vars
<1> USE DemoAssumption, LauncherAssumption
<1>1. IInv => LeftToStop \in Nat
  BY DEF IInv, TypeOK, LeftToStop
<1>2. ASSUME IInv, Shutdown PROVE LeftToStop' < LeftToStop /\ LeftToStop' <= LeftToStop
  <2>1. stopping \in Int
    BY <1>2 DEF IInv, TypeOK
  <2>2. CASE Poll
    BY <2>1, <2>2 DEF Poll, NextProc, LeftToStop
  <2>3. CASE WaitReturns \/ WaitTimesOut
    BY <2>1, <2>3 DEF WaitReturns, WaitTimesOut, NextProc, LeftToStop
  <2>4. CASE AllDone
    BY <2>1, <2>4 DEF AllDone, LeftToStop
  <2> QED
    BY <1>2, <2>2, <2>3, <2>4 DEF Shutdown
<1>3. IInv /\ [Next]_vars => [Shutdown => LeftToStop' < LeftToStop]_vars
  BY <1>2
<1>4. IInv /\ [Next]_vars => [InFinally => LeftToStop' <= LeftToStop]_vars
  <2> SUFFICES ASSUME IInv, Next, InFinally PROVE LeftToStop' <= LeftToStop
    OBVIOUS
  <2>1. stopping \in Int /\ launcher \in {"poll", "wait"}
    BY DEF IInv, TypeOK, InFinally
  <2>2. CASE CtrlC
    <3>1. stopping' = stopping /\ launcher' = "broken"
      BY <2>1, <2>2 DEF CtrlC, Pressed
    <3> QED
      BY <2>1, <3>1 DEF LeftToStop
  <2>3. CASE UNCHANGED own
    <3>1. stopping' = stopping /\ launcher' = launcher
      BY <2>3 DEF own
    <3> QED
      BY <2>1, <3>1 DEF LeftToStop
  <2> QED
    BY <1>2, <2>1, <2>2, <2>3 DEF Next, Popen, PopenFails, AppendProc, DurationReached, CtrlCInPopen
<1> QED
  BY <1>1, <1>3, <1>4, LaunchCorrect, PTL DEF Spec

\* The end of a client is under way, or a signal is that brings it about.
Owed(c) == Stopping(c) \/ signals[c] # {}

\* So it is of each client of the list that the launcher has left behind.
EndIsOwed ==
  Gone => \A c \in Client : c <= procs /\ Alive(c) => Owed(c)

\* The steps of the main thread that are left.
Ahead(c) ==
  CASE main[c] = "choose" -> 6 [] main[c] = "started" -> 5 [] main[c] = "sleep" -> 4
    [] main[c] = "joinSend" -> 3 [] main[c] = "joinRecv" -> 2 [] main[c] = "exit" -> 1
    [] OTHER -> 0

Nearer(c) ==
  main[c] # "off" => Ahead(c)' <= Ahead(c) /\ (MainStep(c) => Ahead(c)' < Ahead(c))

\* What is owed stays owed until the client has ended.
StaysOwed(c) == Owed(c) => Owed(c)' \/ ~Alive(c)'

\* Whoever the launcher leaves behind, even by a second Ctrl+C in the midst of
\* stopping, is owed an end, and so is whoever runs when Ctrl+C is pressed, in the
\* list or not yet.  No thread or process takes that back, and the main thread has
\* only so many steps before its end: what NobodyLeftBehind is made of.
THEOREM EndsAreOwed ==
  Spec => /\ []EndIsOwed
          /\ [][CtrlC => \A c \in Client : Alive(c) => Owed(c)']_vars
          /\ [][\A c \in Client : StaysOwed(c)]_vars
          /\ [][\A c \in Client : Nearer(c)]_vars
<1> USE DemoAssumption, LauncherAssumption
<1>1. Init => EndIsOwed
  BY DEF Init, EndIsOwed, Gone
<1>2. IInv /\ EndIsOwed /\ [Next]_vars => EndIsOwed'
  <2> SUFFICES ASSUME IInv, EndIsOwed, [Next]_vars PROVE EndIsOwed'
    OBVIOUS
  <2>1. CASE UNCHANGED vars
    BY <2>1 DEF vars, own, client, EndIsOwed, Owed, Gone, Alive, Stopping
  <2>2. ASSUME NEW d \in Client, ClientStep(d), UNCHANGED own PROVE EndIsOwed'
    <3> USE DEF IInv, TypeOK, ClientTypeOK, EndIsOwed, Owed, Gone, Alive, Stopping, own, Go
    <3>1. CASE SendStep(d) \/ RecvStep(d)
      BY <2>2, <3>1 DEF SendStep, RecvStep, Tick, Move, SendPrediction, OnRollback, Corrected, RecvLoopEnds
    <3>2. CASE StartLoops(d) \/ EnterTry(d) \/ JoinSend(d) \/ JoinRecv(d)
      BY <2>2, <3>2 DEF StartLoops, EnterTry, JoinSend, JoinRecv
    <3>3. CASE Ends(d)
      BY <2>2, <3>3 DEF Ends
    <3>4. CASE KeyboardInterrupt(d) /\ ~Ends(d)
      BY <2>2, <3>4 DEF KeyboardInterrupt
    <3> QED
      BY <2>2, <3>1, <3>2, <3>3, <3>4 DEF ClientStep, MainStep, EndStep, RunFails, Killed, Exit
  <2>3. CASE AllDone
    BY <2>3 DEF AllDone, Listed, IInv, TypeOK, Signals, EndIsOwed, Owed, Alive, client, Client, Stopping
  <2>4. CASE CtrlC
    <3>1. \A c \in Client : Alive(c) => signals'[c] # {}
      BY <2>4 DEF CtrlC, Pressed, Signalled
    <3> QED
      BY <2>4, <3>1 DEF CtrlC, EndIsOwed, Owed, Alive
  <2>5. CASE Popen \/ PopenFails \/ AppendProc \/ DurationReached \/ Poll \/ WaitReturns \/ WaitTimesOut
             \/ CtrlCInPopen
    <3>1. launcher' \notin {"done", "broken"}
      BY <2>5 DEF IInv, TypeOK, Popen, PopenFails, AppendProc, DurationReached, Poll, WaitReturns,
        WaitTimesOut, CtrlCInPopen, Pressed
    <3> QED
      BY <3>1 DEF EndIsOwed, Gone
  <2> QED
    BY <2>1, <2>2, <2>3, <2>4, <2>5 DEF Next, Shutdown
<1>3. IInv /\ [Next]_vars => [\A c \in Client : Nearer(c)]_vars
  <2> SUFFICES ASSUME IInv, Next, NEW c \in Client, main[c] # "off"
               PROVE  Ahead(c)' <= Ahead(c) /\ (MainStep(c) => Ahead(c)' < Ahead(c))
    BY DEF Nearer
  <2>1. CASE UNCHANGED main
    <3>1. ~MainStep(c)
      BY <2>1 DEF MainStep, StartLoops, RunFails, EnterTry, EndStep, KeyboardInterrupt, Killed, JoinSend,
        JoinRecv, Exit, Ends, Go, Alive, IInv, TypeOK, ClientTypeOK
    <3> QED
      BY <2>1, <3>1 DEF Ahead
  <2>2. ASSUME NEW d \in Client, MainStep(d)
        PROVE  Ahead(c)' <= Ahead(c) /\ (MainStep(c) => Ahead(c)' < Ahead(c))
    BY <2>2 DEF MainStep, StartLoops, RunFails, EnterTry, EndStep, KeyboardInterrupt, Killed, JoinSend,
      JoinRecv, Exit, Ends, Go, Alive, IInv, TypeOK, ClientTypeOK, Ahead
  <2>3. CASE Popen \/ CtrlCInPopen
    <3>1. started + 1 \in Client /\ main[started + 1] = "off" /\ main' = [main EXCEPT ![started + 1] = "choose"]
      BY <2>3 DEF Popen, CtrlCInPopen, Starts, Go, IInv, TypeOK, Client
    <3>2. main'[c] = main[c]
      BY <3>1 DEF IInv, TypeOK, ClientTypeOK
    <3>3. ~MainStep(c)
      BY <3>2 DEF MainStep, StartLoops, RunFails, EnterTry, EndStep, KeyboardInterrupt, Killed, JoinSend,
        JoinRecv, Exit, Ends, Go, Alive, IInv, TypeOK, ClientTypeOK
    <3> QED
      BY <3>2, <3>3 DEF Ahead
  <2> QED
    BY <2>1, <2>2, <2>3 DEF Next, PopenFails, AppendProc, DurationReached, Shutdown, Poll, WaitReturns,
      WaitTimesOut, AllDone, CtrlC, client, ClientStep, SendStep, RecvStep, Tick, Move, SendPrediction,
      OnRollback, Corrected, RecvLoopEnds
<1>4. IInv /\ [Next]_vars => [CtrlC => \A c \in Client : Alive(c) => Owed(c)']_vars
  BY DEF CtrlC, Pressed, Signalled, Owed, IInv, TypeOK, ClientTypeOK
<1>5. IInv /\ [Next]_vars => [\A c \in Client : StaysOwed(c)]_vars
  <2> SUFFICES ASSUME IInv, Next, NEW c \in Client, Owed(c) PROVE Owed(c)' \/ ~Alive(c)'
    BY DEF StaysOwed
  <2> USE DEF IInv, TypeOK, ClientTypeOK, Owed, Stopping, Alive
  <2>1. CASE UNCHANGED client
    BY <2>1 DEF client
  <2>2. ASSUME NEW d \in Client, ClientStep(d) PROVE Owed(c)' \/ ~Alive(c)'
    <3> USE DEF Go
    <3>1. CASE SendStep(d) \/ RecvStep(d)
      BY <3>1 DEF SendStep, RecvStep, Tick, Move, SendPrediction, OnRollback, Corrected, RecvLoopEnds
    <3>2. CASE StartLoops(d) \/ EnterTry(d) \/ JoinSend(d) \/ JoinRecv(d)
      BY <3>2 DEF StartLoops, EnterTry, JoinSend, JoinRecv
    <3>3. CASE Ends(d)
      BY <3>3 DEF Ends
    <3>4. CASE KeyboardInterrupt(d) /\ ~Ends(d)
      BY <3>4 DEF KeyboardInterrupt
    <3> QED
      BY <2>2, <3>1, <3>2, <3>3, <3>4 DEF ClientStep, MainStep, EndStep, RunFails, Killed, Exit
  <2>3. CASE Popen
    BY <2>3 DEF Popen, Starts, Go
  <2>4. CASE Pressed
    BY <2>4 DEF Pressed, Signalled
  <2>5. CASE Poll \/ WaitTimesOut
    BY <2>5 DEF Poll, WaitTimesOut, Send, Kill, Client
  <2> QED
    BY <2>1, <2>2, <2>3, <2>4, <2>5 DEF Next, PopenFails, AppendProc, DurationReached, Shutdown, WaitReturns,
      AllDone, CtrlC, CtrlCInPopen
<1> QED
  BY <1>1, <1>2, <1>3, <1>4, <1>5, LaunchCorrect, PTL DEF Spec
=============================================================================
