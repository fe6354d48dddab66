-------------------------------- MODULE Inbox --------------------------------
(***************************************************************************)
(* What the bus (itc_queue.hpp) promises of an inbox, and the reactors     *)
(* rely on: one FIFO queue per producer; a pop delivers the oldest message *)
(* of some producer and says "empty" only when it has seen the queue of    *)
(* every producer empty, at some moment of the call, each at its own.      *)
(***************************************************************************)
EXTENDS Sequences

CONSTANTS Producer, Message, NoMessage

VARIABLES
  queue,     \* the messages of each producer that were pushed and not popped
  popped,    \* the message this pop has delivered last
  outcome,   \* of the pop that is under way or was the last
  scanned    \* the producers this pop has seen empty

vars == <<queue, popped, outcome, scanned>>

Empty == {p \in Producer : queue[p] = <<>>}

Init ==
  /\ queue = [p \in Producer |-> <<>>]
  /\ popped = NoMessage
  /\ outcome = "none"
  /\ scanned = {}

\* Only the queue of p changes: message m is put behind the others.
Push(p) ==
  /\ UNCHANGED <<popped, outcome, scanned>>
  /\ LET q == queue[p]
     IN queue'[p] \in {Append(q, m) : m \in Message}
  /\ \A o \in Producer \ {p} : queue'[o] = queue[o]

Call ==
  /\ outcome' = "none"
  /\ popped' = NoMessage
  /\ scanned' \in SUBSET Producer
  /\ scanned' \subseteq Empty
  /\ UNCHANGED queue

See(p) ==
  /\ p \notin scanned
  /\ scanned' = scanned \union {p}
  /\ p \in Empty
  /\ UNCHANGED <<queue, popped, outcome>>

Pop(p) ==
  /\ outcome' = "found"
  /\ UNCHANGED scanned
  /\ queue[p] # <<>>
  /\ popped' = Head(queue[p])
  /\ queue' = [queue EXCEPT ![p] = Tail(@)]

SayEmpty ==
  /\ outcome = "none"
  /\ scanned = Producer
  /\ outcome' = "empty"
  /\ UNCHANGED <<queue, popped, scanned>>

Next == Call \/ SayEmpty \/ \E p \in Producer : Push(p) \/ See(p) \/ Pop(p)

Spec == Init /\ [][Next]_vars
=============================================================================
