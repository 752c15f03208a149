-------------------------- MODULE EdgeChoiceProofs --------------------------
(***************************************************************************)
(* Theorems about EdgeChoice, for every set of endpoints, every list of    *)
(* them, and every number of attempts and rounds.                          *)
(***************************************************************************)
EXTENDS EdgeChoice, OrderLemmas, SequenceTheorems, TLAPS

\* What the requests sent and the datagrams buffered look like: a PONG names a
\* PING that was sent, and comes from where that was sent to.
Datagram == [type : {"EDGE_LIST"}, seq : Nat, edges : EdgeLists]
            \cup [type : {"PONG"}, seq : Nat, from : Edge]
            \cup [type : Noise, seq : Nat]

Request == [type : {"DISCOVER", "PING", "REGISTER"}, to : Edge \cup {"main"}]

Requests == sent \in Seq(Request)

PongsNameTheirPing ==
  \A i \in DOMAIN inbox : inbox[i].type = "PONG" =>
    /\ inbox[i].seq \in DOMAIN sent
    /\ inbox[i].from = sent[inbox[i].seq].to

Buffered == inbox \in Seq(Datagram)

\* While a PING is waited for, it is the last request sent, it went to the
\* endpoint whose turn it is, and no sample has its number.
Turn ==
  /\ edges \in Seq(Edge)
  /\ results \in Seq(Seq(Samples))
  /\ stage \in {"start", "discover", "ping", "register", "running", "failed"}
  /\ stage = "ping" => Len(results) \in 1..Len(edges)
  /\ stage \in {"start", "discover"} => results = <<>>
  /\ stage = "start" => ~waiting
  /\ waiting \in BOOLEAN
  /\ stage = "ping" /\ waiting => Len(sent) > 0 /\ sent[Len(sent)].to = Current

SampleNumbers ==
  \A k \in DOMAIN results : \A i \in DOMAIN results[k] :
    /\ results[k][i].seq <= Len(sent)
    /\ stage = "ping" /\ waiting => results[k][i].seq # Len(sent)

\* One endpoint is registered with, once the choice was made.
Chosen ==
  /\ server \in Seq(Edge) /\ Len(server) <= 1
  /\ stage \in {"register", "running"} <=> server # <<>>

SampleInv ==
  /\ Requests /\ Buffered /\ PongsNameTheirPing /\ Turn
  /\ SampleNumbers /\ SamplesAreOwn /\ Chosen /\ NeverSlower
-----------------------------------------------------------------------------
(* The order of the round trips and the choice by it *)

\* A list of round trips has a k-th for every k up to its length, and it is one
\* of them.
LEMMA KthIsOneOfThem ==
  ASSUME NEW rtts \in Seq(Nat), NEW k \in 1..Len(rtts)
  PROVE  Kth(rtts, k) \in Range(rtts)
  <1> DEFINE UpTo(v) == {i \in DOMAIN rtts : rtts[i] <= v}
             Below(v) == {i \in DOMAIN rtts : rtts[i] < v}
             Enough == {v \in Nat : k <= Cardinality(UpTo(v))}
  <1>0. DOMAIN rtts = 1..Len(rtts) /\ Len(rtts) \in Nat /\ \A i \in DOMAIN rtts : rtts[i] \in Nat
    OBVIOUS
  <1>1. IsFiniteSet(DOMAIN rtts) /\ Cardinality(DOMAIN rtts) = Len(rtts)
    BY <1>0, FS_Interval
  <1>2. \A v \in Nat : /\ IsFiniteSet(UpTo(v)) /\ Cardinality(UpTo(v)) \in Nat
                       /\ IsFiniteSet(Below(v)) /\ Cardinality(Below(v)) \in Nat
    <2>1. ASSUME NEW v \in Nat PROVE IsFiniteSet(UpTo(v)) /\ IsFiniteSet(Below(v))
      <3>1. UpTo(v) \subseteq DOMAIN rtts /\ Below(v) \subseteq DOMAIN rtts
        OBVIOUS
      <3> QED
        BY <3>1, <1>1, FS_Subset
    <2> QED
      BY <2>1, FS_CardinalityType
  <1>3. Enough # {}
    <2>1. Range(rtts) \in SUBSET Nat /\ Range(rtts) # {}
      BY <1>0 DEF Range
    <2>2. IsFiniteSet(Range(rtts))
      <3>1. rtts \in Surjection(DOMAIN rtts, Range(rtts))
        BY <1>0 DEF Surjection, Range
      <3> QED
        BY <3>1, <1>1, FS_Surjection
    <2>3. PICK top \in Range(rtts) : \A v \in Range(rtts) : v <= top
      BY <2>1, <2>2, Greatest
    <2>4. UpTo(top) = DOMAIN rtts
      BY <2>3 DEF Range
    <2> QED
      BY <2>1, <2>4, <1>1
  <1> HIDE DEF Enough
  <1>4. PICK v \in Enough : \A w \in Enough : v <= w
    <2>1. Enough \in SUBSET Nat
      BY DEF Enough
    <2> QED
      BY <2>1, <1>3, Least
  <1>5. v \in Nat /\ k <= Cardinality(UpTo(v))
    BY <1>4 DEF Enough
  <1>6. Cardinality(Below(v)) < k
    <2>1. CASE v = 0
      <3>1. Below(v) = {}
        BY <2>1, <1>0
      <3>2. Cardinality(Below(v)) = 0
        BY <3>1, FS_EmptySet
      <3> HIDE DEF Below
      <3> QED
        BY <3>2
    <2>2. CASE v # 0
      <3>1. v - 1 \in Nat /\ v - 1 \notin Enough
        BY <2>2, <1>4, <1>5
      <3>2. Below(v) = UpTo(v - 1)
        BY <3>1, <1>5, <1>0
      <3> HIDE DEF Below, UpTo
      <3>3. Cardinality(UpTo(v - 1)) \in Nat /\ ~(k <= Cardinality(UpTo(v - 1)))
        BY <3>1, <1>2 DEF Enough
      <3> QED
        BY <3>2, <3>3
    <2> QED
      BY <2>1, <2>2
  <1>7. v \in Range(rtts)
    <2> SUFFICES ASSUME v \notin Range(rtts) PROVE FALSE
      OBVIOUS
    <2>1. \A i \in DOMAIN rtts : rtts[i] # v
      BY DEF Range
    <2>2. Below(v) = UpTo(v)
      BY <2>1, <1>0, <1>5
    <2> HIDE DEF Below, UpTo
    <2> QED
      BY <2>2, <1>2, <1>5, <1>6
  <1> QED
    BY <1>5, <1>6, <1>7 DEF Kth

\* The round trips have a longest one, and Infinite exceeds twice that.
LEMMA InfiniteExceedsAll ==
  /\ Infinite \in Nat
  /\ \A r, s \in Rtt : r + s < Infinite
  <1>1. PICK top \in Rtt : \A r \in Rtt : r <= top
    BY ChoiceAssumption, Greatest DEF ChoiceAssumption
  <1>2. \A r \in Rtt : r \in Nat
    BY ChoiceAssumption DEF ChoiceAssumption
  <1>3. Max(Rtt) \in Rtt /\ \A r \in Rtt : r <= Max(Rtt)
    BY <1>1, <1>2 DEF Max
  <1> QED
    BY <1>2, <1>3 DEF Infinite

\* What is measured is a sum of two round trips of the endpoint, the middle one
\* twice or the two in the middle.
LEMMA MedianIsOfTheirs ==
  ASSUME NEW samples \in Seq(Samples), samples # <<>>
  PROVE  \E a, b \in DOMAIN samples :
           /\ Median(RttsOf(samples)) = samples[a].rtt + samples[b].rtt
           /\ samples[a].rtt \in Rtt /\ samples[b].rtt \in Rtt
  <1> DEFINE rtts == RttsOf(samples)
             n == Len(samples)
  <1>1. \A i \in DOMAIN samples : samples[i].rtt \in Rtt
    <2>1. \A i \in DOMAIN samples : samples[i] \in Samples
      OBVIOUS
    <2> QED
      BY <2>1 DEF Samples
  <1>2. rtts \in Seq(Nat) /\ Len(rtts) = n /\ DOMAIN rtts = DOMAIN samples /\ n \in Nat \ {0}
        /\ \A i \in DOMAIN samples : rtts[i] = samples[i].rtt
    <2>0. DOMAIN samples = 1..n
      OBVIOUS
    <2>1. \A i \in 1..n : samples[i].rtt \in Nat
      BY <1>1, <2>0, ChoiceAssumption DEF ChoiceAssumption
    <2>2. rtts = [i \in 1..n |-> samples[i].rtt]
      BY DEF RttsOf
    <2>3. n \in Nat \ {0} /\ DOMAIN samples = 1..n
      OBVIOUS
    <2> QED
      BY <2>1, <2>2, <2>3
  <1> HIDE DEF rtts
  <1>3. (n + 1) \div 2 \in 1..n /\ (n + 2) \div 2 \in 1..n
    <2> HIDE DEF n
    <2> QED
      BY <1>2
  <1>4. Kth(rtts, (n + 1) \div 2) \in Range(rtts) /\ Kth(rtts, (n + 2) \div 2) \in Range(rtts)
    BY <1>2, <1>3, KthIsOneOfThem
  <1>5. PICK a \in DOMAIN samples, b \in DOMAIN samples :
          /\ Kth(rtts, (n + 1) \div 2) = samples[a].rtt
          /\ Kth(rtts, (n + 2) \div 2) = samples[b].rtt
    BY <1>2, <1>4 DEF Range
  <1>6. Median(rtts) = samples[a].rtt + samples[b].rtt
    <2>1. rtts # <<>>
      BY <1>2
    <2> QED
      BY <2>1, <1>2, <1>5 DEF Median, MedianOf
  <1> QED
    BY <1>1, <1>5, <1>6 DEF rtts

\* The choice among the results has a value, and no other has a smaller median.
LEMMA BestIsBest ==
  ASSUME NEW res \in Seq(Seq(Samples)), res # <<>>
  PROVE  /\ Best(res) \in DOMAIN res
         /\ \A j \in DOMAIN res : Median(RttsOf(res[Best(res)])) <= Median(RttsOf(res[j]))
  <1> DEFINE m == [k \in DOMAIN res |-> Median(RttsOf(res[k]))]
             Lowest(k) == \A j \in DOMAIN res : m[k] < m[j] \/ (m[k] = m[j] /\ k <= j)
  <1>1. \A k \in DOMAIN res : m[k] \in Nat
    <2> SUFFICES ASSUME NEW k \in DOMAIN res PROVE Median(RttsOf(res[k])) \in Nat
      OBVIOUS
    <2>1. res[k] \in Seq(Samples)
      OBVIOUS
    <2>2. CASE res[k] = <<>>
      <3>1. RttsOf(res[k]) = <<>>
        BY <2>2 DEF RttsOf
      <3> QED
        BY <3>1, InfiniteExceedsAll DEF Median
    <2>3. CASE res[k] # <<>>
      <3>1. PICK a, b \in DOMAIN res[k] :
              /\ Median(RttsOf(res[k])) = res[k][a].rtt + res[k][b].rtt
              /\ res[k][a].rtt \in Rtt /\ res[k][b].rtt \in Rtt
        BY <2>1, <2>3, MedianIsOfTheirs
      <3>2. res[k][a].rtt \in Nat /\ res[k][b].rtt \in Nat
        BY <3>1, ChoiceAssumption DEF ChoiceAssumption
      <3> QED
        BY <3>1, <3>2
    <2> QED
      BY <2>2, <2>3
  <1>2. DOMAIN res # {} /\ DOMAIN res \in SUBSET Nat
    <2>1. DOMAIN res = 1..Len(res) /\ Len(res) \in Nat
      OBVIOUS
    <2>2. Len(res) # 0
      BY EmptySeq
    <2>3. 1 \in DOMAIN res /\ \A k \in DOMAIN res : k \in Nat
      BY <2>1, <2>2
    <2> QED
      BY <2>1, <2>3
  <1>3. DOMAIN m = DOMAIN res /\ \A k \in DOMAIN res : m[k] = Median(RttsOf(res[k]))
    OBVIOUS
  <1>4. Best(res) = CHOOSE k \in DOMAIN res : Lowest(k)
    BY DEF Best
  <1> HIDE DEF m
  <1>5. PICK low \in {m[k] : k \in DOMAIN res} : \A v \in {m[k] : k \in DOMAIN res} : low <= v
    <2>1. {m[k] : k \in DOMAIN res} \in SUBSET Nat /\ {m[k] : k \in DOMAIN res} # {}
      BY <1>1, <1>2
    <2> QED
      BY <2>1, Least
  <1>6. PICK k \in {j \in DOMAIN res : m[j] = low} : \A j \in {i \in DOMAIN res : m[i] = low} : k <= j
    <2>1. {j \in DOMAIN res : m[j] = low} # {} /\ {j \in DOMAIN res : m[j] = low} \in SUBSET Nat
      BY <1>2, <1>5
    <2> QED
      BY <2>1, Least
  <1>7. k \in DOMAIN res /\ Lowest(k)
    <2>1. ASSUME NEW j \in DOMAIN res PROVE m[k] < m[j] \/ (m[k] = m[j] /\ k <= j)
      <3>1. m[k] = low /\ low <= m[j] /\ m[j] \in Nat /\ low \in Nat
        BY <1>1, <1>5, <1>6
      <3>2. m[j] = low => k <= j
        BY <1>6
      <3> QED
        BY <3>1, <3>2
    <2> QED
      BY <2>1, <1>6
  <1>8. Best(res) \in DOMAIN res /\ Lowest(Best(res))
    <2> HIDE DEF Lowest
    <2> QED
      BY <1>4, <1>7
  <1>9. \A j \in DOMAIN res : m[Best(res)] <= m[j]
    BY <1>8, <1>1
  <1> QED
    BY <1>3, <1>8, <1>9
-----------------------------------------------------------------------------
\* Before the run nothing was sent, read or measured.
LEMMA SampleInit == Init => SampleInv
  <1> SUFFICES ASSUME Init PROVE SampleInv
    OBVIOUS
  <1> USE DEF Init
  <1>1. Requests
    BY DEF Requests
  <1>2. Buffered
    BY DEF Buffered
  <1>3. PongsNameTheirPing
    BY DEF PongsNameTheirPing
  <1>4. Turn
    <2>1. edges \in Seq(Edge) /\ results \in Seq(Seq(Samples))
      OBVIOUS
    <2> QED
      BY <2>1 DEF Turn
  <1>5. SampleNumbers /\ SamplesAreOwn
    BY DEF SampleNumbers, SamplesAreOwn
  <1>6. Chosen /\ NeverSlower
    BY DEF Chosen, NeverSlower
  <1> QED
    BY <1>1, <1>2, <1>3, <1>4, <1>5, <1>6 DEF SampleInv

\* A step sends one request at most, and takes from the front of the buffer or
\* adds an answer to its end.
LEMMA Traffic ==
  ASSUME Next
  PROVE  /\ \/ UNCHANGED sent
            \/ \E type \in {"DISCOVER", "PING", "REGISTER"}, to \in {"main", Current, server[1]} :
                 /\ sent' = Append(sent, [type |-> type, to |-> to])
                 /\ type = "DISCOVER" => to = "main"
                 /\ type = "PING" => stage = "ping" /\ to = Current
                 /\ type = "REGISTER" => stage = "register" /\ to = server[1]
                 /\ UNCHANGED inbox
         /\ \/ UNCHANGED inbox
            \/ inbox # <<>> /\ inbox' = Tail(inbox)
            \/ \E m \in Answers : inbox' = Append(inbox, m)
  <1>1. CASE \E useDiscovery \in BOOLEAN : Run(useDiscovery)
    BY <1>1 DEF Run
  <1>2. CASE SendDiscover
    BY <1>2 DEF SendDiscover, Send, Message
  <1>3. CASE RetryDiscover
    BY <1>3 DEF RetryDiscover, Timeout, Take
  <1>4. CASE Discovered
    BY <1>4 DEF Discovered, Take
  <1>5. CASE SendPing
    BY <1>5 DEF SendPing, Send, Message
  <1>6. CASE \E rtt \in Rtt : Sample(rtt)
    BY <1>6 DEF Sample, Take
  <1>7. CASE NoSample
    BY <1>7 DEF NoSample, Timeout, Take
  <1>8. CASE Undecodable
    BY <1>8 DEF Undecodable, Take
  <1>9. CASE \E m \in Answers : Arrive(m)
    BY <1>9 DEF Arrive
  <1>10. CASE Register
    BY <1>10 DEF Register, Send, Message
  <1> QED
    BY <1>1, <1>2, <1>3, <1>4, <1>5, <1>6, <1>7, <1>8, <1>9, <1>10 DEF Next, Client

\* What may arrive is well formed, and a PONG names a PING that was sent.
LEMMA AnswersAreDatagrams ==
  ASSUME Requests, NEW m \in Answers
  PROVE  /\ m \in Datagram
         /\ m.type = "PONG" => m.seq \in DOMAIN sent /\ m.from = sent[m.seq].to
  <1> DOMAIN sent \subseteq Nat
    BY DEF Requests
  <1>1. \A e \in Edge : \A n \in Pings(e) : n \in DOMAIN sent /\ sent[n].to = e
    BY DEF Pings
  <1>2. CASE m \in {Pong(n) : n \in UNION {Pings(e) : e \in Edge}}
    <2>1. PICK n \in UNION {Pings(e) : e \in Edge} : m = [type |-> "PONG", seq |-> n, from |-> sent[n].to]
      BY <1>2 DEF Pong
    <2>2. n \in DOMAIN sent /\ sent[n].to \in Edge
      BY <2>1, <1>1
    <2> QED
      BY <2>1, <2>2, <1>1 DEF Datagram
  <1>3. CASE m \in {[type |-> "EDGE_LIST", seq |-> n, edges |-> l] :
                      n \in {i \in DOMAIN sent : sent[i].type = "DISCOVER"}, l \in EdgeLists}
    BY <1>3 DEF Datagram
  <1>4. CASE m \in {[type |-> x, seq |-> 0] : x \in IF \E e \in Relays : Pings(e) # {} THEN Noise ELSE {}}
    <2>1. PICK x \in Noise : m = [type |-> x, seq |-> 0]
      BY <1>4
    <2> QED
      BY <2>1, ChoiceAssumption DEF Datagram, ChoiceAssumption
  <1> QED
    BY <1>2, <1>3, <1>4 DEF Answers

\* Requests and buffer stay in order: an answer that waits to be read keeps its
\* PING, whatever was sent since.
LEMMA BufferStep ==
  ASSUME SampleInv, Next
  PROVE  Requests' /\ Buffered' /\ PongsNameTheirPing'
  <1> USE DEF SampleInv
  <1>1. Requests'
    <2>1. CASE UNCHANGED sent
      BY <2>1 DEF Requests
    <2>2. ASSUME NEW type \in {"DISCOVER", "PING", "REGISTER"},
                 NEW to \in {"main", Current, server[1]},
                 sent' = Append(sent, [type |-> type, to |-> to]),
                 type = "DISCOVER" => to = "main",
                 type = "PING" => stage = "ping" /\ to = Current,
                 type = "REGISTER" => stage = "register" /\ to = server[1]
          PROVE  Requests'
      <3>1. CASE type = "DISCOVER"
        BY <2>2, <3>1 DEF Requests, Request
      <3>2. CASE type = "PING"
        <4>1. Current \in Edge
          BY <2>2, <3>2 DEF Turn, Current
        <4> QED
          BY <2>2, <3>2, <4>1 DEF Requests, Request
      <3>3. CASE type = "REGISTER"
        <4>1. server[1] \in Edge
          <5>1. server # <<>> /\ server \in Seq(Edge)
            BY <2>2, <3>3 DEF Chosen
          <5> QED
            BY <5>1
        <4> QED
          BY <2>2, <3>3, <4>1 DEF Requests, Request
      <3> QED
        BY <3>1, <3>2, <3>3
    <2> QED
      BY Traffic, <2>1, <2>2
  <1>2. /\ DOMAIN sent \subseteq DOMAIN sent'
        /\ \A n \in DOMAIN sent : sent'[n] = sent[n]
    <2>1. sent \in Seq(Request)
      BY DEF Requests
    <2>2. UNCHANGED sent \/ \E m : sent' = Append(sent, m)
      BY Traffic
    <2> QED
      BY <2>1, <2>2
  <1>3. CASE UNCHANGED inbox
    BY <1>1, <1>2, <1>3 DEF Buffered, PongsNameTheirPing
  <1>4. CASE inbox # <<>> /\ inbox' = Tail(inbox)
    <2>1. /\ inbox' \in Seq(Datagram)
          /\ \A i \in DOMAIN inbox' : i + 1 \in DOMAIN inbox /\ inbox'[i] = inbox[i + 1]
      BY <1>4 DEF Buffered
    <2> QED
      BY <1>1, <1>2, <2>1 DEF Buffered, PongsNameTheirPing
  <1>5. CASE \E m \in Answers : inbox' = Append(inbox, m)
    <2>1. PICK m \in Answers : inbox' = Append(inbox, m)
      BY <1>5
    <2>2. /\ inbox' \in Seq(Datagram)
          /\ \A i \in DOMAIN inbox' : (i \in DOMAIN inbox /\ inbox'[i] = inbox[i]) \/ inbox'[i] = m
      BY <2>1, AnswersAreDatagrams DEF Buffered
    <2>3. m.type = "PONG" => m.seq \in DOMAIN sent /\ m.from = sent[m.seq].to
      BY AnswersAreDatagrams
    <2> QED
      BY <1>1, <1>2, <2>2, <2>3 DEF Buffered, PongsNameTheirPing
  <1> QED
    BY Traffic, <1>1, <1>3, <1>4, <1>5

\* The end of a round keeps the samples, and may add the next endpoint's none.
LEMMA RoundEnds ==
  ASSUME NEW res \in Seq(Seq(Samples)), EndRound(res), stage = "ping",
         Len(res) \in 1..Len(edges), edges \in Seq(Edge)
  PROVE  /\ results' \in Seq(Seq(Samples))
         /\ stage' \in {"ping", "register"}
         /\ stage' = "ping" => Len(results') \in 1..Len(edges)
         /\ \A k \in DOMAIN results' : (k \in DOMAIN res /\ results'[k] = res[k]) \/ results'[k] = <<>>
  <1>1. CASE results' = res
    <2>1. stage' \in {"ping", "register"}
      BY <1>1 DEF EndRound, SelectBestEdge
    <2> QED
      BY <1>1, <2>1
  <1>2. CASE results' = Append(res, <<>>) /\ Len(res) < Len(edges) /\ UNCHANGED stage
    <2>1. <<>> \in Seq(Samples)
      OBVIOUS
    <2> QED
      BY <1>2, <2>1
  <1> QED
    BY <1>1, <1>2 DEF EndRound, SelectBestEdge

\* The numbers in the samples are sequence numbers.
LEMMA NumbersAreNaturals ==
  ASSUME results \in Seq(Seq(Samples))
  PROVE  \A k \in DOMAIN results : \A i \in DOMAIN results[k] : results[k][i].seq \in Nat
  <1> SUFFICES ASSUME NEW k \in DOMAIN results, NEW i \in DOMAIN results[k]
               PROVE  results[k][i].seq \in Nat
    OBVIOUS
  <1>1. results[k] \in Seq(Samples)
    OBVIOUS
  <1>2. results[k][i] \in Samples
    BY <1>1
  <1> QED
    BY <1>2 DEF Samples

\* What every step does to the samples and the turn.
LEMMA TurnStep ==
  ASSUME SampleInv, Next
  PROVE  Turn' /\ SampleNumbers' /\ SamplesAreOwn'
  <1> USE DEF SampleInv
  <1>0. Len(sent) \in Nat
    BY DEF Requests
  <1>use. ASSUME NEW list \in Seq(Edge), Use(list), UNCHANGED sent, waiting' = FALSE
          PROVE  Turn' /\ SampleNumbers' /\ SamplesAreOwn'
    <2>1. CASE list = <<>>
      <3>1. results' = <<>> /\ edges' = <<>> /\ stage' = "failed"
        BY <1>use, <2>1 DEF Use
      <3>2. edges' \in Seq(Edge) /\ results' \in Seq(Seq(Samples))
        BY <3>1
      <3>3. Turn'
        BY <3>1, <3>2, <1>use DEF Turn
      <3>4. SampleNumbers' /\ SamplesAreOwn'
        BY <3>1 DEF SampleNumbers, SamplesAreOwn
      <3> QED
        BY <3>3, <3>4
    <2>2. CASE list # <<>>
      <3>1. results' = << <<>> >> /\ edges' = list /\ stage' = "ping"
        BY <1>use, <2>2 DEF Use
      <3>2. edges' \in Seq(Edge) /\ results' \in Seq(Seq(Samples)) /\ Len(results') \in 1..Len(edges')
        <4>1. <<>> \in Seq(Samples)
          OBVIOUS
        <4>2. results' \in Seq(Seq(Samples)) /\ Len(results') = 1
          BY <3>1, <4>1
        <4>3. Len(list) \in Nat \ {0}
          BY <1>use, <2>2
        <4> QED
          BY <3>1, <4>2, <4>3, <1>use
      <3>3. Turn'
        BY <3>1, <3>2, <1>use DEF Turn
      <3>4. DOMAIN results' = {1} /\ results'[1] = <<>>
        BY <3>1
      <3>5. SampleNumbers' /\ SamplesAreOwn'
        BY <3>4 DEF SampleNumbers, SamplesAreOwn
      <3> QED
        BY <3>3, <3>5
    <2> QED
      BY <2>1, <2>2
  <1>same. ASSUME UNCHANGED <<results, edges>>, waiting' = FALSE, UNCHANGED sent,
                  stage' \in {stage, "failed"}
           PROVE  Turn' /\ SampleNumbers' /\ SamplesAreOwn'
    <2>1. Turn'
      BY <1>same DEF Turn
    <2>2. SampleNumbers'
      BY <1>same, <1>0 DEF SampleNumbers
    <2>3. SamplesAreOwn'
      BY <1>same DEF SamplesAreOwn
    <2> QED
      BY <2>1, <2>2, <2>3
  <1>round. ASSUME NEW res \in Seq(Seq(Samples)), Len(res) = Len(results), EndRound(res),
                   stage = "ping", waiting' = FALSE, UNCHANGED <<sent, edges>>,
                   \A k \in DOMAIN res : \A i \in DOMAIN res[k] :
                     /\ res[k][i].seq <= Len(sent) /\ res[k][i].from = edges[k]
                     /\ \A j \in DOMAIN res[k] : i # j => res[k][i].seq # res[k][j].seq
            PROVE  Turn' /\ SampleNumbers' /\ SamplesAreOwn'
    <2>1. Len(res) \in 1..Len(edges) /\ edges \in Seq(Edge)
      BY <1>round DEF Turn
    <2>2. /\ results' \in Seq(Seq(Samples))
          /\ stage' \in {"ping", "register"}
          /\ stage' = "ping" => Len(results') \in 1..Len(edges)
          /\ \A k \in DOMAIN results' : (k \in DOMAIN res /\ results'[k] = res[k]) \/ results'[k] = <<>>
      BY <1>round, <2>1, RoundEnds
    <2>3. Turn'
      BY <1>round, <2>1, <2>2 DEF Turn
    <2>4. \A k \in DOMAIN results' : \A i \in DOMAIN results'[k] :
            k \in DOMAIN res /\ results'[k] = res[k] /\ i \in DOMAIN res[k]
      BY <2>2
    <2>5. SampleNumbers'
      BY <1>round, <2>4 DEF SampleNumbers
    <2>6. SamplesAreOwn'
      BY <1>round, <2>4 DEF SamplesAreOwn
    <2> QED
      BY <2>3, <2>5, <2>6
  <1>1. ASSUME NEW useDiscovery \in BOOLEAN, Run(useDiscovery)
        PROVE  Turn' /\ SampleNumbers' /\ SamplesAreOwn'
    <2>1. stage = "start" /\ UNCHANGED <<waiting, sent>> /\ ~waiting /\ results = <<>>
      BY <1>1 DEF Run, Turn
    <2>2. CASE useDiscovery
      <3>1. stage' = "discover" /\ UNCHANGED <<edges, results>>
        BY <1>1, <2>2 DEF Run
      <3> QED
        BY <2>1, <3>1 DEF Turn, SampleNumbers, SamplesAreOwn
    <2>3. CASE ~useDiscovery
      BY <1>1, <1>use, <2>1, <2>3, ChoiceAssumption DEF Run, Turn, ChoiceAssumption
    <2> QED
      BY <2>2, <2>3
  <1>2. CASE SendDiscover
    <2>1. stage = "discover" /\ results = <<>> /\ UNCHANGED <<stage, edges, results>> /\ waiting' = TRUE
      BY <1>2 DEF SendDiscover, Turn
    <2> QED
      BY <2>1 DEF Turn, SampleNumbers, SamplesAreOwn
  <1>3. CASE RetryDiscover
    BY <1>3, <1>same DEF RetryDiscover
  <1>4. CASE Discovered
    <2>1. inbox # <<>> /\ Head(inbox).type = "EDGE_LIST"
      BY <1>4 DEF Discovered, Take, IsAnswer
    <2>2. Head(inbox) \in Datagram
      BY <2>1 DEF Buffered
    <2>3. Head(inbox).edges \in Seq(Edge)
      BY <2>1, <2>2, ChoiceAssumption DEF Datagram, ChoiceAssumption
    <2> QED
      BY <1>4, <2>3, <1>use DEF Discovered
  <1>5. CASE SendPing
    <2>1. /\ stage = "ping" /\ UNCHANGED <<stage, edges, results>> /\ waiting' = TRUE
          /\ sent' = Append(sent, [type |-> "PING", to |-> Current])
      BY <1>5 DEF SendPing, Send, Message
    <2>2. Len(sent') = Len(sent) + 1 /\ sent'[Len(sent')].to = Current
      BY <2>1, <1>0 DEF Requests
    <2>3. Current' = Current
      BY <2>1 DEF Current
    <2>4. Turn'
      BY <2>1, <2>2, <2>3, <1>0 DEF Turn
    <2>5. \A k \in DOMAIN results : \A i \in DOMAIN results[k] : results[k][i].seq \in Nat
      BY NumbersAreNaturals DEF Turn
    <2>6. SampleNumbers'
      BY <2>1, <2>2, <2>5, <1>0 DEF SampleNumbers
    <2>7. SamplesAreOwn'
      BY <2>1 DEF SamplesAreOwn
    <2> QED
      BY <2>4, <2>6, <2>7
  <1>6. ASSUME NEW rtt \in Rtt, Sample(rtt)
        PROVE  Turn' /\ SampleNumbers' /\ SamplesAreOwn'
    <2> DEFINE new == [rtt |-> rtt, from |-> Head(inbox).from, seq |-> Head(inbox).seq]
               last == Len(results)
               res == [results EXCEPT ![last] = Append(@, new)]
    <2>1. /\ stage = "ping" /\ waiting /\ inbox # <<>> /\ waiting' = FALSE
          /\ UNCHANGED <<sent, edges>> /\ EndRound(res)
          /\ Head(inbox).type = "PONG" /\ Head(inbox).seq = Len(sent)
      BY <1>6 DEF Sample, Take, IsAnswer
    <2>2. last \in DOMAIN results /\ results[last] \in Seq(Samples)
      BY <2>1 DEF Turn
    <2>3. new.from = edges[last] /\ new.seq = Len(sent)
      <3>1. 1 \in DOMAIN inbox /\ Head(inbox) = inbox[1]
        BY <2>1 DEF Buffered
      <3>2. Head(inbox).from = sent[Len(sent)].to
        BY <2>1, <3>1 DEF PongsNameTheirPing
      <3> QED
        BY <2>1, <3>2 DEF Turn, Current
    <2>4. new \in Samples
      <3>1. edges[last] \in Edge
        BY <2>1 DEF Turn
      <3> QED
        BY <2>3, <3>1, <1>0, <1>6 DEF Samples
    <2>5. /\ res \in Seq(Seq(Samples)) /\ Len(res) = Len(results)
          /\ DOMAIN res = DOMAIN results
          /\ res[last] = Append(results[last], new)
          /\ \A k \in DOMAIN results : k # last => res[k] = results[k]
      BY <2>2, <2>4 DEF Turn
    <2>6. \A k \in DOMAIN results : \A i \in DOMAIN results[k] :
            results[k][i].seq \in Nat /\ results[k][i].seq < Len(sent)
      <3>1. \A k \in DOMAIN results : \A i \in DOMAIN results[k] : results[k][i].seq \in Nat
        BY NumbersAreNaturals DEF Turn
      <3> QED
        BY <2>1, <3>1, <1>0 DEF SampleNumbers
    <2>7. ASSUME NEW k \in DOMAIN res, NEW i \in DOMAIN res[k]
          PROVE  \/ k \in DOMAIN results /\ i \in DOMAIN results[k] /\ res[k][i] = results[k][i]
                 \/ k = last /\ i = Len(results[last]) + 1 /\ res[k][i] = new
      BY <2>2, <2>5, <2>7
    <2>8. ASSUME NEW k \in DOMAIN res, NEW i \in DOMAIN res[k], NEW j \in DOMAIN res[k], i # j
          PROVE  res[k][i].seq # res[k][j].seq
      <3>1. CASE res[k][i] = results[k][i] /\ i \in DOMAIN results[k] /\ k \in DOMAIN results
        <4>1. CASE res[k][j] = results[k][j] /\ j \in DOMAIN results[k]
          BY <2>8, <3>1, <4>1 DEF SamplesAreOwn
        <4>2. CASE res[k][j] = new
          BY <3>1, <4>2, <2>3, <2>6, <1>0
        <4> QED
          BY <2>7, <4>1, <4>2
      <3>2. CASE k = last /\ i = Len(results[last]) + 1 /\ res[k][i] = new
        <4>1. j \in DOMAIN results[k] /\ k \in DOMAIN results /\ res[k][j] = results[k][j]
          BY <2>7, <2>8, <3>2
        <4> QED
          BY <3>2, <4>1, <2>3, <2>6, <1>0
      <3> QED
        BY <2>7, <3>1, <3>2
    <2>9. \A k \in DOMAIN res : \A i \in DOMAIN res[k] :
            res[k][i].seq <= Len(sent) /\ res[k][i].from = edges[k]
      BY <2>3, <2>6, <2>7, <1>0 DEF SamplesAreOwn
    <2> HIDE DEF res, new, last
    <2> QED
      BY <1>round, <2>1, <2>5, <2>8, <2>9
  <1>7. CASE NoSample
    <2>1. stage = "ping" /\ waiting' = FALSE /\ UNCHANGED <<sent, edges>> /\ EndRound(results)
      BY <1>7 DEF NoSample
    <2>2. results \in Seq(Seq(Samples))
      BY DEF Turn
    <2>3. \A k \in DOMAIN results : \A i \in DOMAIN results[k] :
            /\ results[k][i].seq <= Len(sent) /\ results[k][i].from = edges[k]
            /\ \A j \in DOMAIN results[k] : i # j => results[k][i].seq # results[k][j].seq
      BY DEF SampleNumbers, SamplesAreOwn
    <2> QED
      BY <1>round, <2>1, <2>2, <2>3
  <1>8. CASE Undecodable
    BY <1>8, <1>same DEF Undecodable
  <1>9. CASE \E m \in Answers : Arrive(m)
    <2>1. UNCHANGED <<stage, waiting, sent, edges, results>>
      BY <1>9 DEF Arrive
    <2> QED
      BY <2>1 DEF Turn, SampleNumbers, SamplesAreOwn, Current
  <1>10. CASE Register
    <2>1. /\ stage = "register" /\ stage' = "running" /\ UNCHANGED <<waiting, edges, results>>
          /\ sent' = Append(sent, [type |-> "REGISTER", to |-> server[1]])
      BY <1>10 DEF Register, Send, Message
    <2>2. Len(sent') = Len(sent) + 1
      BY <2>1 DEF Requests
    <2>3. \A k \in DOMAIN results : \A i \in DOMAIN results[k] : results[k][i].seq \in Nat
      BY NumbersAreNaturals DEF Turn
    <2>4. Turn'
      BY <2>1 DEF Turn
    <2>5. SampleNumbers'
      BY <2>1, <2>2, <2>3, <1>0 DEF SampleNumbers
    <2>6. SamplesAreOwn'
      BY <2>1 DEF SamplesAreOwn
    <2> QED
      BY <2>4, <2>5, <2>6
  <1> QED
    BY <1>1, <1>2, <1>3, <1>4, <1>5, <1>6, <1>7, <1>8, <1>9, <1>10 DEF Next, Client

\* The choice falls on a place of the list that no other beats: the median that
\* was chosen is no greater than the other's, and so not both of its halves exceed
\* both halves of that one.
LEMMA ChoiceIsNeverSlower ==
  ASSUME NEW res \in Seq(Seq(Samples)), SelectBestEdge(res), results' = res, UNCHANGED edges,
         edges \in Seq(Edge), Len(res) \in 1..Len(edges)
  PROVE  Chosen' /\ NeverSlower'
  <1>1. /\ Best(res) \in DOMAIN res
        /\ \A j \in DOMAIN res : Median(RttsOf(res[Best(res)])) <= Median(RttsOf(res[j]))
    <2>1. res # <<>>
      OBVIOUS
    <2> QED
      BY <2>1, BestIsBest
  <1>2. /\ edges[Best(res)] \in Edge
        /\ server' = <<edges[Best(res)]>> /\ stage' = "register"
    BY <1>1 DEF SelectBestEdge
  <1>3. Chosen'
    <2>1. server' \in Seq(Edge) /\ Len(server') = 1 /\ server' # <<>>
      BY <1>2
    <2> QED
      BY <1>2, <2>1 DEF Chosen
  <1>4. ASSUME NEW j \in DOMAIN res, res[j] # <<>>
        PROVE  \E a \in DOMAIN res[Best(res)], b \in DOMAIN res[j] :
                 res[Best(res)][a].rtt <= res[j][b].rtt
    <2> DEFINE k == Best(res)
    <2>1. res[k] \in Seq(Samples) /\ res[j] \in Seq(Samples)
      BY <1>1
    <2>2. PICK b1, b2 \in DOMAIN res[j] :
            /\ Median(RttsOf(res[j])) = res[j][b1].rtt + res[j][b2].rtt
            /\ res[j][b1].rtt \in Rtt /\ res[j][b2].rtt \in Rtt
      BY <2>1, <1>4, MedianIsOfTheirs
    <2>3. Median(RttsOf(res[k])) <= res[j][b1].rtt + res[j][b2].rtt
      BY <1>1, <2>2
    <2>4. res[k] # <<>>
      <3> SUFFICES ASSUME res[k] = <<>> PROVE FALSE
        OBVIOUS
      <3>1. Median(RttsOf(res[k])) = Infinite
        <4>1. RttsOf(res[k]) = <<>>
          BY DEF RttsOf
        <4> QED
          BY <4>1 DEF Median
      <3>2. res[j][b1].rtt + res[j][b2].rtt < Infinite /\ Infinite \in Nat
        BY <2>2, InfiniteExceedsAll
      <3>3. res[j][b1].rtt \in Nat /\ res[j][b2].rtt \in Nat
        BY <2>2, ChoiceAssumption DEF ChoiceAssumption
      <3> HIDE DEF k
      <3> QED
        BY <2>3, <3>1, <3>2, <3>3
    <2>5. PICK a1, a2 \in DOMAIN res[k] :
            /\ Median(RttsOf(res[k])) = res[k][a1].rtt + res[k][a2].rtt
            /\ res[k][a1].rtt \in Rtt /\ res[k][a2].rtt \in Rtt
      BY <2>1, <2>4, MedianIsOfTheirs
    <2>6. /\ res[k][a1].rtt \in Nat /\ res[k][a2].rtt \in Nat
          /\ res[j][b1].rtt \in Nat /\ res[j][b2].rtt \in Nat
      BY <2>2, <2>5, ChoiceAssumption DEF ChoiceAssumption
    <2> HIDE DEF k
    <2>7. res[k][a1].rtt <= res[j][b1].rtt \/ res[k][a2].rtt <= res[j][b2].rtt
      BY <2>3, <2>5, <2>6
    <2>8. \E a \in DOMAIN res[k], b \in DOMAIN res[j] : res[k][a].rtt <= res[j][b].rtt
      BY <2>7
    <2> QED
      BY <2>8 DEF k
  <1>5. NeverSlower'
    BY <1>1, <1>2, <1>4 DEF NeverSlower
  <1> QED
    BY <1>3, <1>5

\* The choice is made once, at the end of the last round, and not changed again.
LEMMA ChosenStep ==
  ASSUME SampleInv, Next
  PROVE  Chosen' /\ NeverSlower'
  <1> USE DEF SampleInv
  <1>keep. ASSUME UNCHANGED server,
                  server = <<>> \/ UNCHANGED <<edges, results>>,
                  stage' \in {"register", "running"} <=> stage \in {"register", "running"}
           PROVE  Chosen' /\ NeverSlower'
    <2>1. CASE server = <<>>
      BY <1>keep, <2>1 DEF Chosen, NeverSlower
    <2>2. CASE UNCHANGED <<edges, results>>
      BY <1>keep, <2>2 DEF Chosen, NeverSlower
    <2> QED
      BY <1>keep, <2>1, <2>2
  <1>early. stage \in {"start", "discover", "ping"} => server = <<>>
    BY DEF Chosen
  <1>use. ASSUME NEW list, Use(list), stage \in {"start", "discover"}, UNCHANGED server
          PROVE  Chosen' /\ NeverSlower'
    BY <1>use, <1>keep, <1>early DEF Use
  <1>round. ASSUME NEW res \in Seq(Seq(Samples)), Len(res) = Len(results), EndRound(res),
                   stage = "ping", UNCHANGED edges
            PROVE  Chosen' /\ NeverSlower'
    <2>1. edges \in Seq(Edge) /\ Len(res) \in 1..Len(edges)
      BY <1>round DEF Turn
    <2>2. CASE UNCHANGED <<stage, server>>
      BY <1>round, <1>keep, <1>early, <2>2
    <2>3. CASE SelectBestEdge(res) /\ results' = res
      BY <1>round, <2>1, <2>3, ChoiceIsNeverSlower
    <2> QED
      BY <1>round, <2>2, <2>3 DEF EndRound
  <1>1. ASSUME NEW useDiscovery \in BOOLEAN, Run(useDiscovery)
        PROVE  Chosen' /\ NeverSlower'
    <2>1. CASE useDiscovery
      BY <1>1, <1>keep, <1>early, <2>1 DEF Run
    <2>2. CASE ~useDiscovery
      BY <1>1, <1>use, <2>2 DEF Run
    <2> QED
      BY <2>1, <2>2
  <1>2. CASE SendDiscover
    BY <1>2, <1>keep DEF SendDiscover
  <1>3. CASE RetryDiscover
    BY <1>3, <1>keep DEF RetryDiscover
  <1>4. CASE Discovered
    BY <1>4, <1>use DEF Discovered
  <1>5. CASE SendPing
    BY <1>5, <1>keep DEF SendPing
  <1>6. ASSUME NEW rtt \in Rtt, Sample(rtt)
        PROVE  Chosen' /\ NeverSlower'
    <2> DEFINE new == [rtt |-> rtt, from |-> Head(inbox).from, seq |-> Head(inbox).seq]
               last == Len(results)
               res == [results EXCEPT ![last] = Append(@, new)]
    <2>1. /\ stage = "ping" /\ inbox # <<>> /\ Head(inbox).type = "PONG"
          /\ UNCHANGED edges /\ EndRound(res)
      BY <1>6 DEF Sample, Take, IsAnswer
    <2>2. new \in Samples
      <3>1. 1 \in DOMAIN inbox /\ Head(inbox) = inbox[1] /\ inbox[1] \in Datagram
        BY <2>1 DEF Buffered
      <3>2. Head(inbox).from \in Edge /\ Head(inbox).seq \in Nat
        BY <2>1, <3>1, ChoiceAssumption DEF Datagram, ChoiceAssumption
      <3> QED
        BY <3>2, <1>6 DEF Samples
    <2>3. last \in DOMAIN results /\ results[last] \in Seq(Samples)
      BY <2>1 DEF Turn
    <2>4. res \in Seq(Seq(Samples)) /\ Len(res) = Len(results)
      BY <2>2, <2>3 DEF Turn
    <2> HIDE DEF res
    <2> QED
      BY <1>round, <2>1, <2>4
  <1>7. CASE NoSample
    <2>1. stage = "ping" /\ UNCHANGED edges /\ EndRound(results)
      BY <1>7 DEF NoSample
    <2> QED
      BY <1>round, <2>1 DEF Turn
  <1>8. CASE Undecodable
    BY <1>8, <1>keep DEF Undecodable
  <1>9. CASE \E m \in Answers : Arrive(m)
    BY <1>9, <1>keep DEF Arrive
  <1>10. CASE Register
    BY <1>10, <1>keep DEF Register
  <1> QED
    BY <1>1, <1>2, <1>3, <1>4, <1>5, <1>6, <1>7, <1>8, <1>9, <1>10 DEF Next, Client

\* The inductive invariant: requests, buffer, turn and samples fit together.
THEOREM SamplesCorrect == Spec => []SampleInv
  <1>1. SampleInv /\ [Next]_vars => SampleInv'
    <2>1. ASSUME SampleInv, Next PROVE SampleInv'
      BY <2>1, BufferStep, TurnStep, ChosenStep DEF SampleInv
    <2>2. ASSUME SampleInv, UNCHANGED vars PROVE SampleInv'
      BY <2>2 DEF vars, SampleInv, Requests, Buffered, PongsNameTheirPing, Turn,
                  SampleNumbers, SamplesAreOwn, Current, Chosen, NeverSlower
    <2> QED
      BY <2>1, <2>2
  <1> QED
    BY SampleInit, <1>1, PTL DEF Spec

\* No sample is booked to another endpoint than the one that answered, and no
\* PONG makes two of them: what ping_endpoint's test of the seq is for.
THEOREM SamplesOwn == Spec => []SamplesAreOwn
  BY SamplesCorrect, PTL DEF SampleInv

\* The client registers with an endpoint that nothing it measured beats: what the
\* sort by median is for.
THEOREM ChoiceNeverSlower == Spec => []NeverSlower
  BY SamplesCorrect, PTL DEF SampleInv
-----------------------------------------------------------------------------
(* How many requests a run sends, how many samples it takes *)

Pending == IF waiting THEN 1 ELSE 0

\* Each attempt and each round sends one request, which is either still waited for
\* or counted; so all of them together stay below MaxSent and the guards of
\* SendDiscover and SendPing never bind.
Spent ==
  /\ stage = "start" => Len(sent) = 0 /\ attempt = 0 /\ ~waiting
  /\ stage = "discover" => Len(sent) = attempt + Pending /\ attempt < Attempts
  /\ stage = "ping" => Len(sent) <= Attempts + Rounds * (Len(results) - 1) + round + Pending
  /\ stage \in {"start", "discover"} => round = 0
  /\ stage # "running" => Len(sent) < MaxSent
  /\ Len(sent) <= MaxSent

\* The list is one that was answered, or the built-in one.
Listed == stage = "ping" => edges \in EdgeLists \cup {DummyEdges}

\* A round takes one sample at most.
Measured ==
  /\ \A k \in DOMAIN results : Len(results[k]) <= Rounds
  /\ stage = "ping" => Len(results[Len(results)]) <= round

Counted ==
  /\ attempt \in 0..Attempts /\ round \in 0..(Rounds - 1)
  /\ Len(inbox) <= BufferSize
  /\ Spent /\ Listed /\ Measured

\* What MaxSent leaves room for: all attempts, all rounds of any list, one more.
LEMMA MaxSentSuffices ==
  /\ MaxSent \in Nat /\ Attempts < MaxSent
  /\ \A l \in EdgeLists \cup {DummyEdges} : Attempts + Rounds * Len(l) < MaxSent
  <1> DEFINE lists == EdgeLists \cup {DummyEdges}
             lens == {Len(l) : l \in lists}
  <1>0. Attempts \in Nat \ {0} /\ Rounds \in Nat \ {0}
    BY ChoiceAssumption DEF ChoiceAssumption
  <1>1. \A l \in lists : Len(l) \in Nat
    BY ChoiceAssumption DEF ChoiceAssumption
  <1>2. IsFiniteSet(lens)
    <2>1. IsFiniteSet(lists)
      BY ChoiceAssumption, FS_AddElement DEF ChoiceAssumption
    <2> DEFINE f == [l \in lists |-> Len(l)]
    <2>2. f \in Surjection(lists, lens)
      BY DEF Surjection
    <2> HIDE DEF f, lens, lists
    <2> QED
      BY <2>1, <2>2, FS_Surjection
  <1>3. PICK top \in lens : \A n \in lens : n <= top
    <2>1. lens \in SUBSET Nat /\ lens # {}
      BY <1>1
    <2> HIDE DEF lens
    <2> QED
      BY <2>1, <1>2, Greatest
  <1>4. Max(lens) \in lens /\ \A n \in lens : n <= Max(lens)
    <2>1. lens \in SUBSET Nat
      BY <1>1
    <2> HIDE DEF lens
    <2> QED
      BY <2>1, <1>3 DEF Max
  <1>5. Max(lens) \in Nat /\ MaxSent = Attempts + Rounds * Max(lens) + 1
    BY <1>1, <1>4 DEF MaxSent
  <1>6. ASSUME NEW n \in Nat, n <= Max(lens)
        PROVE  Rounds * n \in Nat /\ Rounds * n <= Rounds * Max(lens) /\ Rounds * Max(lens) \in Nat
    <2> HIDE DEF lens
    <2>1. PICK d \in Nat : Max(lens) = n + d
      <3>1. Max(lens) - n \in Nat /\ Max(lens) = n + (Max(lens) - n)
        BY <1>5, <1>6
      <3> QED
        BY <3>1
    <2>2. Rounds * Max(lens) = Rounds * n + Rounds * d
      BY <1>0, <2>1, SMT
    <2>3. Rounds * n \in Nat /\ Rounds * d \in Nat
      BY <1>0, SMT
    <2> QED
      BY <2>2, <2>3
  <1>7. \A l \in lists : Len(l) \in Nat /\ Len(l) <= Max(lens)
    BY <1>1, <1>4
  <1> HIDE DEF lens, lists
  <1>8. MaxSent \in Nat /\ Attempts < MaxSent
    BY <1>0, <1>5, <1>6
  <1>9. \A l \in lists : Attempts + Rounds * Len(l) < MaxSent
    BY <1>0, <1>5, <1>6, <1>7
  <1> QED
    BY <1>8, <1>9 DEF lists

\* One more endpoint is Rounds more requests.
LEMMA OneMoreEndpoint ==
  ASSUME NEW n \in Nat \ {0}
  PROVE  /\ Rounds * n = Rounds * (n - 1) + Rounds
         /\ Rounds * n \in Nat /\ Rounds * (n - 1) \in Nat
  <1>1. Rounds \in Nat /\ n - 1 \in Nat
    BY ChoiceAssumption DEF ChoiceAssumption
  <1> QED
    BY <1>1, SMT

\* No endpoint but those of the list is pinged.
LEMMA FewerThanAll ==
  ASSUME NEW l \in EdgeLists \cup {DummyEdges}, NEW n \in 1..Len(l)
  PROVE  Attempts + Rounds * n < MaxSent
  <1>1. /\ Attempts \in Nat \ {0} /\ Rounds \in Nat \ {0} /\ Len(l) \in Nat /\ MaxSent \in Nat
        /\ Attempts + Rounds * Len(l) < MaxSent
    BY ChoiceAssumption, MaxSentSuffices DEF ChoiceAssumption
  <1>2. Len(l) - n \in Nat /\ Len(l) = n + (Len(l) - n)
    BY <1>1
  <1>3. PICK d \in Nat : Len(l) = n + d
    BY <1>2
  <1>4. Rounds * Len(l) = Rounds * n + Rounds * d
    BY <1>1, <1>3, SMT
  <1>5. Rounds * n \in Nat /\ Rounds * d \in Nat
    BY <1>1, <1>3, SMT
  <1> QED
    BY <1>1, <1>4, <1>5

\* Nothing is sent, and nothing counted, in a client just started.
LEMMA CountedInit == Init => Counted
  <1> SUFFICES ASSUME Init PROVE Counted
    OBVIOUS
  <1> USE DEF Init
  <1>1. /\ Attempts \in Nat \ {0} /\ Rounds \in Nat \ {0} /\ BufferSize \in Nat \ {0}
        /\ MaxSent \in Nat /\ Attempts < MaxSent
    BY ChoiceAssumption, MaxSentSuffices DEF ChoiceAssumption
  <1>2. Len(sent) = 0 /\ Len(inbox) = 0 /\ DOMAIN results = {}
    OBVIOUS
  <1>3. attempt \in 0..Attempts /\ round \in 0..(Rounds - 1) /\ Len(inbox) <= BufferSize
    BY <1>1, <1>2
  <1>4. Spent
    BY <1>1, <1>2 DEF Spent, Pending
  <1> QED
    BY <1>2, <1>3, <1>4 DEF Counted, Listed, Measured

\* The end of a round books the request waited for.
LEMMA RoundCounts ==
  ASSUME SampleInv, Counted, NEW res \in Seq(Seq(Samples)), EndRound(res), stage = "ping", waiting,
         Len(res) = Len(results),
         \A k \in DOMAIN res : Len(res[k]) <= Rounds, Len(res[Len(res)]) <= round + 1,
         waiting' = FALSE, UNCHANGED <<sent, attempt, edges>>
  PROVE  round' \in 0..(Rounds - 1) /\ Spent' /\ Listed' /\ Measured'
  <1> DEFINE n == Len(results)
  <1>1. /\ Attempts \in Nat \ {0} /\ Rounds \in Nat \ {0} /\ MaxSent \in Nat
        /\ Len(sent) \in Nat /\ round \in 0..(Rounds - 1) /\ n \in 1..Len(edges) /\ Len(edges) \in Nat
    BY ChoiceAssumption, MaxSentSuffices
       DEF ChoiceAssumption, SampleInv, Requests, Counted, Turn
  <1>2. edges \in EdgeLists \cup {DummyEdges}
    BY DEF Counted, Listed
  <1>3. Len(sent) <= Attempts + Rounds * (n - 1) + round + 1 /\ Len(sent) <= MaxSent /\ Len(sent) < MaxSent
    BY DEF Counted, Spent, Pending
  <1> HIDE DEF n
  <1>4. /\ Rounds * n = Rounds * (n - 1) + Rounds
        /\ Rounds * n \in Nat /\ Rounds * (n - 1) \in Nat
    BY <1>1, OneMoreEndpoint
  <1>5. Attempts + Rounds * n < MaxSent
    BY <1>1, <1>2, FewerThanAll
  <1>6. CASE ~LastRound /\ round' = round + 1 /\ results' = res /\ UNCHANGED <<stage, server>>
    <2>1. round' \in 0..(Rounds - 1)
      BY <1>1, <1>6 DEF LastRound
    <2>2. Len(sent) <= Attempts + Rounds * (n - 1) + round' + 0
      BY <1>1, <1>3, <1>4, <1>6
    <2>3. Len(results') = n /\ Pending' = 0 /\ sent' = sent /\ stage' = "ping"
      BY <1>6 DEF n, Pending
    <2>4. Len(sent') <= Attempts + Rounds * (Len(results') - 1) + round' + Pending'
      BY <2>2, <2>3
    <2>5. Spent'
      BY <1>3, <2>3, <2>4 DEF Spent
    <2>6. Listed' /\ Measured'
      BY <1>2, <1>6 DEF Listed, Measured
    <2> QED
      BY <2>1, <2>5, <2>6
  <1>7. CASE LastRound /\ round' = 0 /\ results' = Append(res, <<>>) /\ UNCHANGED <<stage, server>>
    <2>1. Len(results') = n + 1 /\ results'[n + 1] = <<>>
      BY <1>7 DEF n
    <2>2. \A k \in DOMAIN results' : results'[k] = <<>> \/ (k \in DOMAIN res /\ results'[k] = res[k])
      BY <1>7
    <2>3. round' \in 0..(Rounds - 1)
      BY <1>1, <1>7
    <2>4. Len(sent) <= Attempts + Rounds * n + 0 + 0
      BY <1>1, <1>3, <1>4, <1>7 DEF LastRound
    <2>5. Len(results') - 1 = n /\ Pending' = 0 /\ round' = 0 /\ sent' = sent /\ stage' = "ping"
      BY <1>1, <1>7, <2>1 DEF Pending
    <2>6. Spent'
      <3>1. Len(sent') <= Attempts + Rounds * (Len(results') - 1) + round' + Pending'
        BY <2>4, <2>5
      <3> QED
        BY <1>3, <2>5, <3>1 DEF Spent
    <2>7. Measured'
      <3>1. \A k \in DOMAIN results' : Len(results'[k]) <= Rounds
        BY <1>1, <2>2
      <3> QED
        BY <1>7, <2>1, <3>1 DEF Measured
    <2> QED
      BY <1>2, <1>7, <2>3, <2>6, <2>7 DEF Listed
  <1>8. CASE LastRound /\ round' = 0 /\ results' = res /\ stage' = "register"
    <2>1. Spent'
      BY <1>1, <1>3, <1>8 DEF Spent
    <2> QED
      BY <1>1, <1>8, <2>1 DEF Listed, Measured
  <1> QED
    BY <1>6, <1>7, <1>8 DEF EndRound, SelectBestEdge

\* Every step books what it sends and what it takes.
LEMMA CountedStep ==
  ASSUME SampleInv, Counted, Next
  PROVE  Counted'
  <1>0. /\ Attempts \in Nat \ {0} /\ Rounds \in Nat \ {0} /\ BufferSize \in Nat \ {0}
        /\ MaxSent \in Nat /\ Attempts < MaxSent
        /\ sent \in Seq(Request) /\ Len(sent) \in Nat /\ inbox \in Seq(Datagram) /\ Len(inbox) \in Nat
        /\ attempt \in 0..Attempts /\ round \in 0..(Rounds - 1) /\ Len(inbox) <= BufferSize
        /\ waiting \in BOOLEAN
    BY ChoiceAssumption, MaxSentSuffices
       DEF ChoiceAssumption, SampleInv, Requests, Buffered, Counted, Turn
  <1>1. Len(inbox') <= BufferSize
    <2>1. CASE UNCHANGED inbox
      BY <1>0, <2>1
    <2>2. CASE inbox # <<>> /\ inbox' = Tail(inbox)
      <3>1. Len(inbox') = Len(inbox) - 1
        BY <1>0, <2>2
      <3> QED
        BY <1>0, <3>1
    <2>3. CASE \E m \in Answers : Arrive(m)
      <3>1. Len(inbox) < BufferSize /\ Len(inbox') = Len(inbox) + 1
        BY <1>0, <2>3 DEF Arrive
      <3> QED
        BY <1>0, <3>1
    <2>4. CASE Client
      <3>1. UNCHANGED inbox \/ (inbox # <<>> /\ inbox' = Tail(inbox))
        BY <2>4 DEF Client, Run, SendDiscover, RetryDiscover, Discovered, SendPing, Sample,
                    NoSample, Undecodable, Register, Take, Timeout
      <3> QED
        BY <2>1, <2>2, <3>1
    <2> QED
      BY <2>3, <2>4 DEF Next
  <1>use. ASSUME NEW list, list \in EdgeLists \cup {DummyEdges}, Use(list), waiting' = FALSE,
                 UNCHANGED <<sent, attempt, round>>, round = 0, Len(sent) <= Attempts
          PROVE  Counted'
    <2>1. CASE list = <<>>
      <3>1. stage' = "failed" /\ results' = <<>>
        BY <1>use, <2>1 DEF Use
      <3>2. Spent'
        BY <1>0, <1>use, <3>1 DEF Spent
      <3> QED
        BY <1>0, <1>1, <1>use, <3>1, <3>2 DEF Counted, Listed, Measured
    <2>2. CASE list # <<>>
      <3>1. stage' = "ping" /\ results' = << <<>> >> /\ edges' = list
        BY <1>use, <2>2 DEF Use
      <3>2. Len(results') = 1 /\ DOMAIN results' = {1} /\ results'[1] = <<>>
        BY <3>1
      <3>3. Rounds * (1 - 1) = 0
        BY <1>0
      <3>4. Spent'
        BY <1>0, <1>use, <3>1, <3>2, <3>3 DEF Spent, Pending
      <3>5. Measured'
        BY <1>0, <1>use, <3>2 DEF Measured
      <3> QED
        BY <1>0, <1>1, <1>use, <3>1, <3>4, <3>5 DEF Counted, Listed
    <2> QED
      BY <2>1, <2>2
  <1>2. ASSUME NEW useDiscovery \in BOOLEAN, Run(useDiscovery)
        PROVE  Counted'
    <2>1. /\ stage = "start" /\ UNCHANGED <<waiting, sent, attempt, round>>
          /\ Len(sent) = 0 /\ attempt = 0 /\ ~waiting /\ round = 0 /\ results = <<>>
      BY <1>2 DEF Run, Counted, Spent, SampleInv, Turn
    <2>2. CASE useDiscovery
      <3>1. stage' = "discover" /\ UNCHANGED <<edges, results>>
        BY <1>2, <2>2 DEF Run
      <3>2. Spent'
        BY <1>0, <2>1, <3>1 DEF Spent, Pending
      <3> QED
        BY <1>0, <1>1, <2>1, <3>1, <3>2 DEF Counted, Listed, Measured
    <2>3. CASE ~useDiscovery
      <3>1. Use(DummyEdges)
        BY <1>2, <2>3 DEF Run
      <3>2. waiting' = FALSE
        BY <1>0, <2>1
      <3>3. Len(sent) <= Attempts
        BY <1>0, <2>1
      <3>4. DummyEdges \in EdgeLists \cup {DummyEdges}
        OBVIOUS
      <3> QED
        BY <1>use, <2>1, <3>1, <3>2, <3>3, <3>4
    <2> QED
      BY <2>2, <2>3
  <1>3. CASE SendDiscover
    <2>1. /\ stage = "discover" /\ UNCHANGED <<stage, attempt, edges, results, round>>
          /\ ~waiting /\ waiting' = TRUE /\ Len(sent') = Len(sent) + 1
      BY <1>0, <1>3 DEF SendDiscover, Send
    <2>2. Len(sent) = attempt /\ attempt < Attempts /\ round = 0
      BY <1>0, <2>1 DEF Counted, Spent, Pending
    <2>3. Spent'
      BY <1>0, <2>1, <2>2 DEF Spent, Pending
    <2> QED
      BY <1>0, <1>1, <2>1, <2>3 DEF Counted, Listed, Measured
  <1>4. CASE RetryDiscover
    <2>1. /\ stage = "discover" /\ waiting /\ waiting' = FALSE /\ attempt' = attempt + 1
          /\ stage' = IF attempt' < Attempts THEN "discover" ELSE "failed"
          /\ UNCHANGED <<sent, edges, results, round>>
      BY <1>4 DEF RetryDiscover, NextAttempt, Timeout, Take
    <2>2. Len(sent) = attempt + 1 /\ attempt < Attempts /\ round = 0
      BY <1>0, <2>1 DEF Counted, Spent, Pending
    <2>3. Spent'
      BY <1>0, <2>1, <2>2 DEF Spent, Pending
    <2>4. attempt' \in 0..Attempts
      BY <1>0, <2>1, <2>2
    <2> QED
      BY <1>0, <1>1, <2>1, <2>3, <2>4 DEF Counted, Listed, Measured
  <1>5. CASE Discovered
    <2>1. /\ stage = "discover" /\ waiting /\ waiting' = FALSE /\ inbox # <<>>
          /\ Head(inbox).type = "EDGE_LIST" /\ Use(Head(inbox).edges)
          /\ UNCHANGED <<sent, attempt, round>>
      BY <1>5 DEF Discovered, Take, IsAnswer
    <2>2. Len(sent) = attempt + 1 /\ attempt < Attempts /\ round = 0
      BY <1>0, <2>1 DEF Counted, Spent, Pending
    <2>3. Head(inbox).edges \in EdgeLists
      <3>1. Head(inbox) \in Datagram
        BY <1>0, <2>1
      <3> QED
        BY <2>1, <3>1, ChoiceAssumption DEF Datagram, ChoiceAssumption
    <2>4. Len(sent) <= Attempts
      BY <1>0, <2>2
    <2>5. Head(inbox).edges \in EdgeLists \cup {DummyEdges}
      BY <2>3
    <2> QED
      BY <1>use, <2>1, <2>2, <2>4, <2>5
  <1>6. CASE SendPing
    <2>1. /\ stage = "ping" /\ UNCHANGED <<stage, attempt, edges, results, round>>
          /\ ~waiting /\ waiting' = TRUE /\ Len(sent') = Len(sent) + 1
      BY <1>0, <1>6 DEF SendPing, Send
    <2> DEFINE n == Len(results)
    <2>2. /\ n \in 1..Len(edges) /\ Len(edges) \in Nat /\ edges \in EdgeLists \cup {DummyEdges}
          /\ Len(sent) <= Attempts + Rounds * (n - 1) + round
      <3>1. n \in 1..Len(edges) /\ Len(edges) \in Nat
        BY <2>1 DEF SampleInv, Turn
      <3>2. edges \in EdgeLists \cup {DummyEdges}
        BY <2>1 DEF Counted, Listed
      <3>3. Len(sent) <= Attempts + Rounds * (n - 1) + round + Pending /\ Pending = 0
        BY <2>1 DEF Counted, Spent, Pending
      <3>4. Rounds * (n - 1) \in Nat
        BY <3>1, OneMoreEndpoint
      <3> HIDE DEF n
      <3>5. Len(sent) <= Attempts + Rounds * (n - 1) + round
        BY <1>0, <3>3, <3>4
      <3> QED
        BY <3>1, <3>2, <3>5
    <2> HIDE DEF n
    <2>3. /\ Rounds * n = Rounds * (n - 1) + Rounds /\ Attempts + Rounds * n < MaxSent
          /\ Rounds * n \in Nat /\ Rounds * (n - 1) \in Nat
      BY <2>2, OneMoreEndpoint, FewerThanAll
    <2>4. Len(sent') <= Attempts + Rounds * (n - 1) + round + 1 /\ Len(sent') < MaxSent
      BY <1>0, <2>1, <2>2, <2>3
    <2>5. Spent'
      <3>1. Len(sent') <= Attempts + Rounds * (Len(results') - 1) + round' + Pending'
        BY <2>1, <2>4 DEF Pending, n
      <3> QED
        BY <1>0, <2>1, <2>4, <3>1 DEF Spent
    <2> QED
      BY <1>0, <1>1, <2>1, <2>5 DEF Counted, Listed, Measured
  <1>7. ASSUME NEW rtt \in Rtt, Sample(rtt)
        PROVE  Counted'
    <2> DEFINE new == [rtt |-> rtt, from |-> Head(inbox).from, seq |-> Head(inbox).seq]
               last == Len(results)
               res == [results EXCEPT ![last] = Append(@, new)]
    <2>1. /\ stage = "ping" /\ waiting /\ inbox # <<>> /\ Head(inbox).type = "PONG"
          /\ waiting' = FALSE /\ UNCHANGED <<sent, attempt, edges>> /\ EndRound(res)
      BY <1>7 DEF Sample, Take, IsAnswer
    <2>2. new \in Samples
      <3>1. Head(inbox) \in Datagram
        BY <1>0, <2>1
      <3>2. Head(inbox).from \in Edge /\ Head(inbox).seq \in Nat
        BY <2>1, <3>1, ChoiceAssumption DEF Datagram, ChoiceAssumption
      <3> QED
        BY <3>2, <1>7 DEF Samples
    <2>3. results \in Seq(Seq(Samples)) /\ last \in DOMAIN results /\ results[last] \in Seq(Samples)
      BY <2>1 DEF SampleInv, Turn
    <2> HIDE DEF new
    <2>4. /\ res \in Seq(Seq(Samples)) /\ Len(res) = Len(results) /\ DOMAIN res = DOMAIN results
          /\ Len(res[last]) = Len(results[last]) + 1
          /\ \A k \in DOMAIN res : k # last => res[k] = results[k]
      BY <2>2, <2>3
    <2>5. /\ \A k \in DOMAIN results : Len(results[k]) <= Rounds
          /\ Len(results[last]) <= round /\ Len(results[last]) \in Nat
      BY <2>1, <2>3 DEF Counted, Measured
    <2> HIDE DEF last, res
    <2>6. Len(res[last]) <= round + 1 /\ round + 1 <= Rounds /\ \A k \in DOMAIN res : Len(res[k]) <= Rounds
      BY <1>0, <2>4, <2>5
    <2>7. Len(res[Len(res)]) <= round + 1
      BY <2>4, <2>6 DEF last
    <2> QED
      BY <1>0, <1>1, <2>1, <2>4, <2>6, <2>7, RoundCounts DEF Counted
  <1>8. CASE NoSample
    <2>1. /\ stage = "ping" /\ waiting /\ waiting' = FALSE
          /\ UNCHANGED <<sent, attempt, edges>> /\ EndRound(results)
      BY <1>8 DEF NoSample, Timeout, Take
    <2>2. /\ results \in Seq(Seq(Samples)) /\ Len(results) \in DOMAIN results
          /\ \A k \in DOMAIN results : Len(results[k]) <= Rounds
          /\ Len(results[Len(results)]) <= round
      BY <2>1 DEF SampleInv, Turn, Counted, Measured
    <2>3. Len(results[Len(results)]) \in Nat
      BY <2>2
    <2>4. Len(results[Len(results)]) <= round + 1
      BY <1>0, <2>2, <2>3
    <2> QED
      BY <1>0, <1>1, <2>1, <2>2, <2>4, RoundCounts DEF Counted
  <1>9. CASE Undecodable
    <2>1. stage = "ping" /\ stage' = "failed" /\ UNCHANGED <<sent, attempt, edges, results, round>>
      BY <1>9 DEF Undecodable
    <2>2. Spent'
      BY <2>1 DEF Counted, Spent
    <2> QED
      BY <1>0, <1>1, <2>1, <2>2 DEF Counted, Listed, Measured
  <1>10. CASE Register
    <2>1. /\ stage = "register" /\ stage' = "running" /\ UNCHANGED <<attempt, edges, results, round>>
          /\ Len(sent') = Len(sent) + 1
      BY <1>0, <1>10 DEF Register, Send
    <2>2. Spent'
      BY <1>0, <2>1 DEF Counted, Spent
    <2> QED
      BY <1>0, <1>1, <2>1, <2>2 DEF Counted, Listed, Measured
  <1>11. CASE \E m \in Answers : Arrive(m)
    <2>1. UNCHANGED <<stage, waiting, sent, attempt, edges, results, round>>
      BY <1>11 DEF Arrive
    <2> QED
      BY <1>0, <1>1, <2>1 DEF Counted, Spent, Pending, Listed, Measured
  <1> QED
    BY <1>2, <1>3, <1>4, <1>5, <1>6, <1>7, <1>8, <1>9, <1>10, <1>11 DEF Next, Client

\* The second inductive invariant, on top of SampleInv.
THEOREM CountsCorrect == Spec => []Counted
  <1>1. SampleInv /\ Counted /\ [Next]_vars => Counted'
    <2>1. ASSUME SampleInv, Counted, UNCHANGED vars PROVE Counted'
      BY <2>1 DEF vars, Counted, Spent, Pending, Listed, Measured
    <2> QED
      BY <2>1, CountedStep
  <1> QED
    BY SamplesCorrect, CountedInit, <1>1, PTL DEF Spec

\* Every variable has its type, and no run sends more than MaxSent requests: the
\* attempts and the rounds are all the retries there are.
THEOREM TypeCorrect == Spec => []TypeOK
  <1>1. SampleInv /\ Counted => TypeOK
    <2> SUFFICES ASSUME SampleInv, Counted PROVE TypeOK
      OBVIOUS
    <2>1. \A n \in DOMAIN sent : sent[n] \in Request
      BY DEF SampleInv, Requests
    <2>2. \A k \in DOMAIN results : results[k] \in Seq(Samples)
      BY DEF SampleInv, Turn
    <2> QED
      BY <2>1, <2>2 DEF TypeOK, Request, SampleInv, Turn, Chosen, Counted, Spent, Measured
  <1> QED
    BY SamplesCorrect, CountsCorrect, <1>1, PTL DEF Spec

\* What a run may still do: two steps for each request not sent yet, one to read
\* for the request waited for, and the first.
ToGo == 2 * (MaxSent - Len(sent)) + Pending + (IF stage = "start" THEN 1 ELSE 0)

\* Whatever is lost or late, every step of the client brings its run nearer to the
\* end, no datagram takes it back, and there is an end to it: the part of RunEnds
\* that is no matter of fairness.
THEOREM RunIsFinite ==
  Spec => /\ [](ToGo \in Nat)
          /\ [][Client => ToGo' < ToGo]_vars
          /\ [][ToGo' <= ToGo]_vars
  <1>1. SampleInv /\ Counted => ToGo \in Nat
    <2> SUFFICES ASSUME SampleInv, Counted PROVE ToGo \in Nat
      OBVIOUS
    <2>1. Len(sent) \in Nat /\ Len(sent) <= MaxSent /\ MaxSent \in Nat
      BY MaxSentSuffices DEF SampleInv, Requests, Counted, Spent
    <2>2. Pending \in 0..1
      BY DEF Pending
    <2> QED
      BY <2>1, <2>2 DEF ToGo
  <1>2. SampleInv /\ SampleInv' /\ Counted /\ [Next]_vars => [Client => ToGo' < ToGo]_vars
    <2> SUFFICES ASSUME SampleInv, SampleInv', Counted, Client PROVE ToGo' < ToGo
      OBVIOUS
    <2>1. /\ MaxSent \in Nat /\ sent \in Seq(Request) /\ Len(sent) \in Nat
          /\ waiting \in BOOLEAN
      BY MaxSentSuffices DEF SampleInv, Requests, Turn
    <2>2. ASSUME stage # "start", stage' # "start", ~waiting, waiting' = TRUE, Len(sent') = Len(sent) + 1
          PROVE  ToGo' < ToGo
      BY <2>1, <2>2 DEF ToGo, Pending, MaxSent
    <2>3. ASSUME stage # "start", stage' # "start", waiting, waiting' = FALSE, UNCHANGED sent
          PROVE  ToGo' < ToGo
      BY <2>1, <2>3 DEF ToGo, Pending, MaxSent
    <2>4. ASSUME NEW useDiscovery \in BOOLEAN, Run(useDiscovery)
          PROVE  ToGo' < ToGo
      <3>1. stage = "start" /\ stage' # "start" /\ UNCHANGED <<waiting, sent>>
        BY <2>4 DEF Run, Use
      <3>2. Pending' = Pending /\ Pending \in 0..1
        BY <3>1 DEF Pending
      <3> QED
        BY <2>1, <3>1, <3>2 DEF ToGo, MaxSent
    <2>5. CASE SendDiscover \/ SendPing
      <3>1. Len(sent') = Len(sent) + 1
        BY <2>1, <2>5 DEF SendDiscover, SendPing, Send
      <3> QED
        BY <2>2, <2>5, <3>1 DEF SendDiscover, SendPing
    <2>6. CASE RetryDiscover \/ Discovered \/ (\E rtt \in Rtt : Sample(rtt)) \/ NoSample \/ Undecodable
      <3>1. stage # "start" /\ waiting /\ waiting' = FALSE /\ UNCHANGED sent
        BY <2>6 DEF RetryDiscover, Discovered, Sample, NoSample, Undecodable, Take, Timeout
      <3>2. stage' # "start"
        BY <2>6 DEF RetryDiscover, Discovered, Use, Sample, NoSample, EndRound, SelectBestEdge, Undecodable
      <3> QED
        BY <2>3, <3>1, <3>2
    <2>7. CASE Register
      <3>1. stage = "register" /\ stage' = "running" /\ UNCHANGED waiting /\ Len(sent') = Len(sent) + 1
        BY <2>1, <2>7 DEF Register, Send
      <3>2. Pending' = Pending /\ Pending \in 0..1
        BY <3>1 DEF Pending
      <3> QED
        BY <2>1, <3>1, <3>2 DEF ToGo, MaxSent
    <2> QED
      BY <2>4, <2>5, <2>6, <2>7 DEF Client
  <1>3. SampleInv /\ SampleInv' /\ Counted /\ ToGo \in Nat /\ (ToGo \in Nat)' /\ [Next]_vars
        => [ToGo' <= ToGo]_vars
    <2> SUFFICES ASSUME SampleInv, SampleInv', Counted, ToGo \in Nat, (ToGo \in Nat)', Next
                 PROVE  ToGo' <= ToGo
      OBVIOUS
    <2>1. ToGo \in Nat /\ ToGo' \in Nat
      OBVIOUS
    <2>2. CASE Client
      <3>1. ToGo' < ToGo \/ UNCHANGED vars
        BY <1>2, <2>2
      <3> QED
        BY <2>1, <3>1 DEF vars, ToGo, Pending, MaxSent
    <2>3. ASSUME NEW m \in Answers, Arrive(m) PROVE ToGo' <= ToGo
      <3>1. UNCHANGED <<sent, stage, waiting>>
        BY <2>3 DEF Arrive
      <3>2. Pending' = Pending
        BY <3>1 DEF Pending
      <3>3. ToGo' = ToGo
        BY <3>1, <3>2 DEF ToGo, MaxSent
      <3> QED
        BY <2>1, <3>3
    <2> QED
      BY <2>2, <2>3 DEF Next
  <1> QED
    BY SamplesCorrect, CountsCorrect, <1>1, <1>2, <1>3, PTL DEF Spec
=============================================================================
