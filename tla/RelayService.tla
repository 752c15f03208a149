---------------------------- MODULE RelayService ----------------------------
(***************************************************************************)
(* What an edge node promises its clients, whatever it does inside.        *)
(*                                                                         *)
(* The i-th datagram the node accepts came from client recvd[i].  The node *)
(* fans a datagram out to other clients, each of which sees a subsequence  *)
(* of the accepted datagrams, in the order they were accepted and without  *)
(* repetition; it passes a datagram on to the host at most once; and       *)
(* whatever the host answers to a datagram goes to the client it came      *)
(* from, and only after the datagram was passed on.                        *)
(***************************************************************************)
EXTENDS Naturals, Sequences

CONSTANT Client       \* the addresses datagrams come from

VARIABLES
  recvd,              \* the sender of each accepted datagram, in order
  fanout,             \* per client, the datagrams fanned out to it, in order
  written,            \* the datagrams passed on to the host
  answered            \* [to, id]: client "to" was given an answer to datagram id

rvars == <<recvd, fanout, written, answered>>

Init ==
  /\ recvd = <<>>
  /\ fanout = [c \in Client |-> <<>>]
  /\ written = {}
  /\ answered = {}

Accept(c) ==
  /\ recvd' = Append(recvd, c)
  /\ UNCHANGED <<fanout, written, answered>>

\* Datagram i goes to a client that did not send it and that has been given
\* nothing accepted at or after i.
Fan(c, i) ==
  /\ recvd[i] # c
  /\ \A k \in 1..Len(fanout[c]) : fanout[c][k] < i
  /\ fanout' = [fanout EXCEPT ![c] = Append(@, i)]
  /\ UNCHANGED <<recvd, written, answered>>

Forward(i) ==
  /\ i \notin written
  /\ written' = written \cup {i}
  /\ UNCHANGED <<recvd, fanout, answered>>

Answer(i) ==
  /\ i \in written
  /\ answered' = answered \cup {[to |-> recvd[i], id |-> i]}
  /\ UNCHANGED <<recvd, fanout, written>>

Next ==
  \/ \E c \in Client : Accept(c)
  \/ \E i \in 1..Len(recvd) :
       \/ \E c \in Client : Fan(c, i)
       \/ Forward(i)
       \/ Answer(i)

Spec == Init /\ [][Next]_rvars
=============================================================================
