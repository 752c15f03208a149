----------------------------- MODULE EdgeChoice -----------------------------
(***************************************************************************)
(* The first half of the demo client (client.py run, with net.py's         *)
(* ping_endpoint and choose_best_endpoint): find the edges, measure each,  *)
(* register with the best.                                                 *)
(*                                                                         *)
(* One thread, one UDP socket for everything, and one read per request: a  *)
(* datagram that is not the answer waited for uses up the read, and the    *)
(* answer, when it comes, is read by the next request.  Any answer to any  *)
(* request already sent may arrive at any time, never, or twice.           *)
(***************************************************************************)
EXTENDS Naturals, Sequences, SequencesExt, FiniteSetsExt

CONSTANTS
  Edge,               \* the endpoints
  DummyEdges,         \* the list of discover_edges_dummy
  EdgeLists,          \* the lists a main server may answer
  Relays,             \* the endpoints that are Go edges: they broadcast what others send
  Noise,              \* what others send: "PREDICTION" (or any other message), "text"
  Attempts, Rounds,   \* attempts of discover_edges, n of ping_endpoint
  Rtt,                \* the round trips told apart
  BufferSize          \* datagrams the socket's receive buffer holds

ASSUME ChoiceAssumption ==
  /\ Relays \subseteq Edge /\ DummyEdges \in Seq(Edge) /\ EdgeLists \subseteq Seq(Edge)
  /\ Noise \subseteq {"PREDICTION", "text"}
  /\ Attempts \in Nat \ {0} /\ Rounds \in Nat \ {0} /\ BufferSize \in Nat \ {0}
  /\ Rtt \subseteq Nat /\ Rtt # {} /\ IsFiniteSet(Rtt)  \* recvfrom times out
  /\ IsFiniteSet(EdgeLists)                            \* a list fits in one datagram

VARIABLES
  stage,              \* where run() is
  waiting,            \* it is inside recvfrom
  sent,               \* the requests sent, by seq: _seq is the length
  inbox,              \* the socket's receive buffer
  attempt,            \* attempts of discover_edges made
  edges,              \* the list to choose from
  results,            \* per endpoint pinged so far, its samples
  round,              \* PINGs done of the last endpoint of results
  server              \* the endpoint registered with, in a sequence

vars == <<stage, waiting, sent, inbox, attempt, edges, results, round, server>>

\* Every list is measured in full and every attempt made, and then one REGISTER
\* follows: no run sends more.
MaxSent == Attempts + Rounds * Max({Len(l) : l \in EdgeLists \cup {DummyEdges}}) + 1

Init ==
  /\ stage = "start" /\ waiting = FALSE /\ sent = <<>> /\ inbox = <<>>
  /\ attempt = 0 /\ edges = <<>> /\ results = <<>> /\ round = 0 /\ server = <<>>
-----------------------------------------------------------------------------
(* The network *)

Pings(e) == {n \in DOMAIN sent : sent[n].type = "PING" /\ sent[n].to = e}

\* An endpoint, or the host behind a relay, answers a PING with its number; from
\* is the address the answer comes from, which is not part of it.
Pong(n) == [type |-> "PONG", seq |-> n, from |-> sent[n].to]

\* What a main server, the endpoints and the other clients of a relay may have sent
\* to this socket.  A relay that has heard of the client, by a PING, passes to him
\* what others send it, but nothing of his own.
Answers ==
  {[type |-> "EDGE_LIST", seq |-> n, edges |-> l] :
     n \in {i \in DOMAIN sent : sent[i].type = "DISCOVER"}, l \in EdgeLists}
  \cup {Pong(n) : n \in UNION {Pings(e) : e \in Edge}}
  \cup {[type |-> x, seq |-> 0] : x \in IF \E e \in Relays : Pings(e) # {} THEN Noise ELSE {}}

Arrive(m) ==
  /\ m \in Answers /\ Len(inbox) < BufferSize /\ inbox' = Append(inbox, m)
  /\ UNCHANGED <<stage, waiting, sent, attempt, edges, results, round, server>>

\* Of a message the type and where it goes; its seq is its place in sent.
Message(type, to) == [type |-> type, to |-> to]

\* next_seq and send: a datagram with the next number.
Send(type, to) == sent' = Append(sent, Message(type, to))

\* recvfrom returns the first datagram, or times out where there is none.
Take    == waiting /\ inbox # <<>> /\ inbox' = Tail(inbox)
Timeout == waiting /\ inbox = <<>> /\ UNCHANGED inbox

FaultyIsAnswer(m, type) == m.type = type

IsAnswer(m, type) == m.type = type /\ m.seq = Len(sent)
-----------------------------------------------------------------------------
(* discover_edges *)

FaultyNextAttempt(n) == n

NextAttempt(n) == n + 1

\* An empty list ends the run: RuntimeError("No edges available").
Use(list) ==
  /\ edges' = list
  /\ stage' = IF list = <<>> THEN "failed" ELSE "ping"
  /\ results' = IF list = <<>> THEN <<>> ELSE <<<<>>>>

Run(useDiscovery) ==
  /\ stage = "start"
  /\ IF useDiscovery THEN stage' = "discover" /\ UNCHANGED <<edges, results>> ELSE Use(DummyEdges)
  /\ UNCHANGED <<waiting, sent, inbox, attempt, round, server>>

SendDiscover ==
  /\ stage = "discover" /\ ~waiting /\ Len(sent) < MaxSent
  /\ Send("DISCOVER", "main") /\ waiting' = TRUE
  /\ UNCHANGED <<stage, inbox, attempt, edges, results, round, server>>

\* Timeout, or something else than the answer: the next attempt, if there is one.
RetryDiscover ==
  /\ stage = "discover"
  /\ Timeout \/ (Take /\ ~IsAnswer(Head(inbox), "EDGE_LIST"))
  /\ waiting' = FALSE /\ attempt' = NextAttempt(attempt)
  /\ stage' = IF attempt' < Attempts THEN "discover" ELSE "failed"
  /\ UNCHANGED <<sent, edges, results, round, server>>

Discovered ==
  /\ stage = "discover" /\ Take /\ IsAnswer(Head(inbox), "EDGE_LIST")
  /\ waiting' = FALSE /\ Use(Head(inbox).edges)
  /\ UNCHANGED <<sent, attempt, round, server>>
-----------------------------------------------------------------------------
(* ping_endpoint for one endpoint after the other, then the choice *)

Current == edges[Len(results)]

\* statistics.median, doubled to stay in the integers, and infinity for none.
Infinite == 2 * Max(Rtt) + 1

\* The k-th of the round trips in ascending order: fewer than k are below it, and
\* with those equal to it there are k.
Kth(rtts, k) ==
  CHOOSE v \in Range(rtts) :
    /\ Cardinality({i \in DOMAIN rtts : rtts[i] < v}) < k
    /\ k <= Cardinality({i \in DOMAIN rtts : rtts[i] <= v})

MedianOf(rtts) ==
  LET n == Len(rtts) IN Kth(rtts, (n + 1) \div 2) + Kth(rtts, (n + 2) \div 2)

FaultyMedian(rtts) == IF rtts = <<>> THEN 0 ELSE MedianOf(rtts)

Median(rtts) == IF rtts = <<>> THEN Infinite ELSE MedianOf(rtts)

RttsOf(samples) == [i \in DOMAIN samples |-> samples[i].rtt]

\* The first of the results sorted by median; the sort is stable.
Best(res) ==
  LET m == [k \in DOMAIN res |-> Median(RttsOf(res[k]))] IN
  CHOOSE k \in DOMAIN res : \A j \in DOMAIN res : m[k] < m[j] \/ (m[k] = m[j] /\ k <= j)

SelectBestEdge(res) == stage' = "register" /\ server' = <<edges[Best(res)]>>

FaultyLastRound == round = Rounds

LastRound == round + 1 = Rounds

\* The end of a round: the next PING, the next endpoint, or the choice.
EndRound(res) ==
  \/ ~LastRound /\ round' = round + 1 /\ results' = res /\ UNCHANGED <<stage, server>>
  \/ /\ LastRound /\ Len(res) < Len(edges)
     /\ round' = 0 /\ results' = Append(res, <<>>) /\ UNCHANGED <<stage, server>>
  \/ /\ LastRound /\ Len(res) = Len(edges)
     /\ round' = 0 /\ results' = res
     /\ SelectBestEdge(res)

SendPing ==
  /\ stage = "ping" /\ ~waiting /\ Len(sent) < MaxSent
  /\ Send("PING", Current) /\ waiting' = TRUE
  /\ UNCHANGED <<stage, inbox, attempt, edges, results, round, server>>

\* The round trip of the PING just sent.
Sample(rtt) ==
  /\ stage = "ping" /\ Take /\ IsAnswer(Head(inbox), "PONG")
  /\ waiting' = FALSE
  /\ EndRound([results EXCEPT ![Len(results)] =
       Append(@, [rtt |-> rtt, from |-> Head(inbox).from, seq |-> Head(inbox).seq])])
  /\ UNCHANGED <<sent, attempt, edges>>

\* Nothing came in time, or something else did, and the round is over all the same.
NoSample ==
  /\ stage = "ping"
  /\ \/ Timeout
     \/ Take /\ ~IsAnswer(Head(inbox), "PONG") /\ Head(inbox).type # "text"
  /\ waiting' = FALSE /\ EndRound(results)
  /\ UNCHANGED <<sent, attempt, edges>>

\* ping_endpoint catches only timeouts: what is not JSON ends the client.
Undecodable ==
  /\ stage = "ping" /\ Take /\ Head(inbox).type = "text"
  /\ waiting' = FALSE /\ stage' = "failed"
  /\ UNCHANGED <<sent, attempt, edges, results, round, server>>

\* register_with_edge, which waits for no answer; then the loops start.
Register ==
  /\ stage = "register" /\ Send("REGISTER", server[1]) /\ stage' = "running"
  /\ UNCHANGED <<waiting, inbox, attempt, edges, results, round, server>>
-----------------------------------------------------------------------------
Client ==
  \/ \E useDiscovery \in BOOLEAN : Run(useDiscovery)
  \/ SendDiscover \/ RetryDiscover \/ Discovered
  \/ SendPing \/ (\E rtt \in Rtt : Sample(rtt)) \/ NoSample \/ Undecodable
  \/ Register

Next == Client \/ \E m \in Answers : Arrive(m)

Spec == Init /\ [][Next]_vars

\* The client's thread runs, and recvfrom returns at the latest by its timeout.
FairSpec == Spec /\ WF_vars(Client)
-----------------------------------------------------------------------------
(* Properties *)

Samples == [rtt : Rtt, from : Edge, seq : Nat]

\* Every variable has its type, and while endpoints are measured there is one
\* whose turn it is.
TypeOK ==
  /\ stage \in {"start", "discover", "ping", "register", "running", "failed"}
  /\ waiting \in BOOLEAN
  /\ \A n \in DOMAIN sent : sent[n] \in [type : {"DISCOVER", "PING", "REGISTER"}, to : Edge \cup {"main"}]
  /\ Len(sent) <= MaxSent /\ Len(inbox) <= BufferSize
  /\ attempt \in 0..Attempts /\ round \in 0..(Rounds - 1)
  /\ edges \in Seq(Edge) /\ server \in Seq(Edge) /\ Len(server) <= 1
  /\ \A k \in DOMAIN results : results[k] \in Seq(Samples) /\ Len(results[k]) <= Rounds
  /\ stage = "ping" => Len(results) \in 1..Len(edges)
  /\ stage \in {"register", "running"} <=> server # <<>>

\* A sample measures the endpoint it is booked to, by a PONG to a PING of its
\* own that no other sample used: answers that come late, twice or from the
\* endpoint measured before are never taken for it.
SamplesAreOwn ==
  \A k \in DOMAIN results : \A i, j \in DOMAIN results[k] :
    /\ results[k][i].from = edges[k]
    /\ i # j => results[k][i].seq # results[k][j].seq

\* The endpoint registered with was measured where any was, and against each that
\* was, one of its samples at least is no slower than one of the other's.  (The
\* list may name an endpoint twice: it is a place of the list that was chosen.)
NeverSlower ==
  server # <<>> =>
    \E k \in DOMAIN results :
      /\ server = <<edges[k]>>
      /\ \A j \in DOMAIN results : results[j] # <<>> =>
           \E a \in DOMAIN results[k], b \in DOMAIN results[j] :
             results[k][a].rtt <= results[j][b].rtt

\* run() comes to an end: whatever is lost, it registers or raises.
RunEnds == <>(stage \in {"running", "failed"})

\* net.py:124: "sends N PINGs and waits for matching PONG seq": a round ends with
\* its PONG or its timeout, and not with the late answer to an earlier PING, or
\* with another client's message, while its own PONG may still be under way.
WaitsForMatchingPong ==
  [][stage = "ping" /\ waiting /\ inbox # <<>> /\ stage' # "failed" /\ ~waiting' =>
       IsAnswer(Head(inbox), "PONG")]_vars
=============================================================================
