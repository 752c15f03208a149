------------------------------ MODULE Mailbox ------------------------------
(***************************************************************************)
(* What the network side of a game process promises its game thread: a     *)
(* mailbox.  Each prediction put into it replaces what is shown of its     *)
(* sender and, if it carries an action, queues that action, in one step.   *)
(* Taking empties it in one step: the game sees the latest prediction of   *)
(* every sender and is given every action exactly once, in order.          *)
(***************************************************************************)
EXTENDS Naturals, Sequences

CONSTANT Peer         \* the players predictions come from

VARIABLES
  count,              \* predictions put so far; the i-th has number i
  latest,             \* per sender, the number of its latest, 0 if none
  queue,              \* actions not yet taken: [src, id]
  shown,              \* per sender, the prediction the game saw last
  given               \* the actions the game was given, in order

mvars == <<count, latest, queue, shown, given>>

Init ==
  /\ count = 0
  /\ latest = [p \in Peer |-> 0] /\ shown = [p \in Peer |-> 0]
  /\ queue = <<>> /\ given = <<>>

Put(p, hasAction) ==
  /\ count' = count + 1
  /\ latest' = [latest EXCEPT ![p] = count']
  /\ queue' = IF hasAction THEN Append(queue, [src |-> p, id |-> count']) ELSE queue
  /\ UNCHANGED <<shown, given>>

Take ==
  /\ shown' = latest
  /\ given' = given \o queue
  /\ queue' = <<>>
  /\ UNCHANGED <<count, latest>>

Next == Take \/ \E p \in Peer, b \in BOOLEAN : Put(p, b)

Spec == Init /\ [][Next]_mvars
=============================================================================
