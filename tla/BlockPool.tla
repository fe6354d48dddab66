------------------------------ MODULE BlockPool ------------------------------
(***************************************************************************)
(* What the queue of an inbox relies on when it takes a block from its     *)
(* free list or puts one back (concurrentqueue.h): a block is in one hand  *)
(* or in none; it is handed out once before it is put back, and put back   *)
(* once before it is handed out.  Nothing is promised about a taker        *)
(* finding the list empty: a block that is being put back may be missed.   *)
(***************************************************************************)
EXTENDS Naturals

CONSTANT Node

VARIABLE hands    \* [Node -> in how many hands it is]

\* The blocks are in use to begin with.
Init == hands = [n \in Node |-> 1]

Take(n) == hands[n] = 0 /\ hands' = [hands EXCEPT ![n] = 1]

Give(n) == hands[n] = 1 /\ hands' = [hands EXCEPT ![n] = 0]

Next == \E n \in Node : Take(n) \/ Give(n)

Spec == Init /\ [][Next]_hands
=============================================================================
