------------------------------ MODULE Launcher ------------------------------
(***************************************************************************)
(* run_clients.py, which starts a number of demo clients, waits, and stops *)
(* them one after the other: SIGINT, two seconds, then kill.               *)
(*                                                                         *)
(* It composes DemoClient, the processes it starts.  They are in its       *)
(* process group, so a Ctrl+C at the terminal reaches all of them as well  *)
(* as the launcher, which then signals each of them a second time.         *)
(***************************************************************************)
EXTENDS DemoClient

CONSTANT MaxCtrlC     \* bound on the times Ctrl+C is pressed

ASSUME LauncherAssumption == MaxCtrlC \in Nat

VARIABLES
  launcher,           \* where main() is
  started,            \* clients started: 1, 2, ...
  procs,              \* those of them that are in the list procs
  stopping,           \* the index in procs the finally block is at
  presses             \* how often Ctrl+C was pressed

own  == <<launcher, started, procs, stopping, presses>>
vars == <<client, own>>

Init ==
  /\ InitClients
  /\ launcher = "launch" /\ started = 0 /\ procs = 0 /\ stopping = 1 /\ presses = 0
-----------------------------------------------------------------------------
(* The try block: Popen, then the append to procs; then the wait *)

Popen ==
  /\ launcher = "launch" /\ started < Clients
  /\ started' = started + 1 /\ Starts(started + 1) /\ launcher' = "append"
  /\ UNCHANGED <<signals, running, receiving, send, recv, overdue, procs, stopping, presses>>

\* open or Popen raises: what was started is stopped.
PopenFails ==
  launcher = "launch" /\ started < Clients /\ launcher' = "poll"
  /\ UNCHANGED <<client, started, procs, stopping, presses>>

AppendProc ==
  /\ launcher = "append" /\ procs' = started
  /\ launcher' = IF started < Clients THEN "launch" ELSE "monitor"
  /\ UNCHANGED <<client, started, stopping, presses>>

DurationReached ==
  launcher = "monitor" /\ launcher' = "poll" /\ UNCHANGED <<client, started, procs, stopping, presses>>
-----------------------------------------------------------------------------
(* The finally block, for one process after the other *)

FaultySend(sig) == signals' = [c \in Client |-> IF Alive(c) THEN signals[c] \cup {sig} ELSE signals[c]]
Send(sig)       == signals' = [signals EXCEPT ![stopping] = @ \cup {sig}]

FaultyListed == Clients
Listed       == procs

FaultyNextProc == UNCHANGED stopping
NextProc       == stopping' = stopping + 1

\* proc.poll() says whether it still runs.
Poll ==
  /\ launcher = "poll" /\ stopping <= Listed
  /\ IF Alive(stopping)
     THEN Send("INT") /\ launcher' = "wait" /\ UNCHANGED stopping
     ELSE NextProc /\ UNCHANGED <<signals, launcher>>
  /\ UNCHANGED <<main, flags, send, recv, overdue, started, procs, presses>>

WaitReturns ==
  /\ launcher = "wait" /\ ~Alive(stopping) /\ launcher' = "poll" /\ NextProc
  /\ UNCHANGED <<client, started, procs, presses>>

FaultyKill == UNCHANGED signals
Kill       == Send("KILL")

WaitTimesOut ==
  /\ launcher = "wait" /\ Alive(stopping) /\ Kill /\ launcher' = "poll" /\ NextProc
  /\ UNCHANGED <<main, flags, send, recv, overdue, started, procs, presses>>

\* "All clients stopped."
AllDone ==
  /\ launcher = "poll" /\ stopping > Listed /\ launcher' = "done"
  /\ UNCHANGED <<client, started, procs, stopping, presses>>

Shutdown == Poll \/ WaitReturns \/ WaitTimesOut \/ AllDone
-----------------------------------------------------------------------------
(* Ctrl+C *)

Gone == launcher \in {"done", "broken"}

\* Whom it reaches: the processes of the launcher's group.
Signalled(c) == Alive(c)

Pressed ==
  /\ ~Gone /\ presses < MaxCtrlC /\ presses' = presses + 1
  /\ signals' = [c \in Client |-> IF Signalled(c) THEN signals[c] \cup {"INT"} ELSE signals[c]]
  /\ UNCHANGED <<running, receiving, send, recv, overdue, procs, stopping>>

\* It ends the try block; in the finally block it goes through, and whoever was
\* not yet stopped is left to the SIGINT it got from the terminal.
CtrlC ==
  /\ Pressed
  /\ launcher' = IF launcher \in {"launch", "append", "monitor"} THEN "poll" ELSE "broken"
  /\ UNCHANGED <<main, sockOpen, started>>

\* Within Popen, just before it forks: the exception is raised after the fork,
\* and the new process has neither the SIGINT nor a place in procs.
CtrlCInPopen ==
  /\ launcher = "launch" /\ started < Clients /\ Pressed
  /\ started' = started + 1 /\ Starts(started + 1) /\ launcher' = "poll"

Next ==
  \/ Popen \/ PopenFails \/ AppendProc \/ DurationReached \/ Shutdown \/ CtrlC \/ CtrlCInPopen
  \/ \E c \in Client : ClientStep(c) /\ UNCHANGED own

Spec == Init /\ [][Next]_vars

\* The launcher and the clients' main threads run; their waits are bounded.  The
\* loops, the player at the terminal and the servers owe nothing.
FairSpec ==
  /\ Spec /\ WF_vars(Shutdown)
  /\ \A c \in Client : WF_vars(EndStep(c) /\ UNCHANGED own)
-----------------------------------------------------------------------------
(* Properties *)

\* Every variable has its type, and procs lags at most the one client whose
\* start Ctrl+C cut off.
TypeOK ==
  /\ ClientTypeOK
  /\ launcher \in {"launch", "append", "monitor", "poll", "wait", "done", "broken"}
  /\ started \in 0..Clients /\ procs \in {started, started - 1} /\ procs >= 0
  /\ stopping \in 1..(procs + 1) /\ presses \in 0..MaxCtrlC
  /\ \A c \in Client : main[c] = "off" <=> c > started

\* When it says "All clients stopped.", all it has in its list are, or will be
\* before their next instruction.
AllStopped ==
  launcher = "done" => \A c \in 1..procs : Alive(c) => "KILL" \in signals[c]

\* A client's stop, with its two joins, is not cut short by a second SIGINT
\* unless Ctrl+C was pressed: the launcher itself sends each client one.
OneSigint ==
  [][\A c \in Client : StopCut(c) => presses > 0 \/ "KILL" \in signals[c]]_vars

\* The shutdown comes to its end, however many of the clients do not.
ShutdownEnds == launcher = "poll" ~> Gone

\* Once the launcher is gone, by a second Ctrl+C too, which leaves clients it has
\* not yet signalled, every client in its list ends; and whoever got a SIGINT ends
\* in any case, in the list or, as Ctrl+C came before the append, not in it.
NobodyLeftBehind ==
  /\ Gone ~> \A c \in Client : c <= procs => ~Alive(c)
  /\ \A c \in Client : "INT" \in signals[c] ~> ~Alive(c)
=============================================================================
