------------------------------- MODULE FreeList -------------------------------
(***************************************************************************)
(* The lock-free free list of an inbox's queue (concurrentqueue.h): the    *)
(* blocks of the initial pool that the consuming reactor has emptied, from *)
(* which the reactors that push to the inbox take theirs.  One action per  *)
(* atomic operation of the code; memory is sequentially consistent.        *)
(*                                                                         *)
(* The top bit of freeListRefs, SHOULD_BE_ON_FREELIST, is the field        *)
(* shouldBeOn and the 31 bits below it the field refs; NoCarry is what     *)
(* makes that split faithful to the additions of the code.                 *)
(***************************************************************************)
EXTENDS Naturals, FiniteSets

CONSTANTS
  Node,    \* the blocks of the initial pool
  Taker,   \* the threads that take blocks: the reactors that push
  Giver,   \* the threads that give blocks back: the reactor that pops
  NoNode   \* the null pointer

Thread == Taker \union Giver

ASSUME NoNodeAssumption == NoNode \notin Node
ASSUME ThreadAssumption == IsFiniteSet(Thread)

VARIABLES
  freeListHead,   \* the top of the list
  freeListRefs,   \* the counter and the bit of every node
  freeListNext,   \* the link of every node
  used,           \* the nodes that are in the queue's hands
  pc,             \* what each thread does next, "idle" outside the list
  head, next,     \* the locals of try_get
  refs,           \* the counter try_get has read, to increment it
  node, top       \* the locals of add_knowing_refcount_is_zero

shared == <<freeListHead, freeListRefs, freeListNext>>
locals == <<head, next, refs, node, top>>
vars == <<shared, used, pc, locals>>

Counter == [shouldBeOn : BOOLEAN, refs : Nat]
Zero == [shouldBeOn |-> FALSE, refs |-> 0]

\* The nodes are in use to begin with: the initial pool hands each out once
\* before the list is asked for it.
Init ==
  /\ freeListHead = NoNode
  /\ freeListRefs = [n \in Node |-> Zero]
  /\ freeListNext = [n \in Node |-> NoNode]
  /\ used = Node
  /\ pc = [t \in Thread |-> "idle"]
  /\ head = [t \in Thread |-> NoNode]
  /\ next = [t \in Thread |-> NoNode]
  /\ refs = [t \in Thread |-> Zero]
  /\ node = [t \in Thread |-> NoNode]
  /\ top = [t \in Thread |-> NoNode]

Transition(t, from, to) == pc[t] = from /\ pc' = [pc EXCEPT ![t] = to]

\* The loop of try_get goes on as long as there is a head to look at; a call
\* of add has none.
Loop(h) == IF h = NoNode THEN "idle" ELSE "load"

\* A local that is not used any more is forgotten.
Forget(local, t) == [local EXCEPT ![t] = NoNode]

-----------------------------------------------------------------------------
\* try_get

\* The head is read when the call begins and again after each failure.
LoadHead(t) ==
  /\ \/ t \in Taker /\ pc[t] = "idle"
     \/ pc[t] = "reload"
  /\ head' = [head EXCEPT ![t] = freeListHead]
  /\ pc' = [pc EXCEPT ![t] = Loop(freeListHead)]
  /\ UNCHANGED <<shared, used, next, refs, node, top>>

LoadRefs(t) ==
  /\ Transition(t, "load", IF freeListRefs[head[t]].refs = 0 THEN "reload" ELSE "ref")
  /\ refs' = [refs EXCEPT ![t] = freeListRefs[head[t]]]
  /\ UNCHANGED <<shared, used, head, next, node, top>>

\* The counter is incremented unless it has changed since it was read.
Reference(t) ==
  LET same == freeListRefs[head[t]] = refs[t]
  IN /\ Transition(t, "ref", IF same THEN "next" ELSE "reload")
     /\ freeListRefs' = IF same
                        THEN [freeListRefs EXCEPT ![head[t]].refs = @ + 1]
                        ELSE freeListRefs
     /\ refs' = [refs EXCEPT ![t] = Zero]
     /\ UNCHANGED <<freeListHead, freeListNext, used, head, next, node, top>>

LoadNext(t) ==
  /\ Transition(t, "next", "unlink")
  /\ next' = [next EXCEPT ![t] = freeListNext[head[t]]]
  /\ UNCHANGED <<shared, used, head, refs, node, top>>

\* The CAS of the head: when it fails, head holds the new head and the node
\* that was looked at is prevHead.
Unlink(t) ==
  /\ pc[t] = "unlink"
  /\ \/ /\ freeListHead = head[t]
        /\ freeListHead' = next[t]
        /\ pc' = [pc EXCEPT ![t] = "got"]
        /\ UNCHANGED <<head, node>>
     \/ /\ freeListHead # head[t]
        /\ head' = [head EXCEPT ![t] = freeListHead]
        /\ node' = [node EXCEPT ![t] = head[t]]
        /\ pc' = [pc EXCEPT ![t] = "unref"]
        /\ UNCHANGED freeListHead
  /\ next' = Forget(next, t)
  /\ UNCHANGED <<freeListRefs, freeListNext, used, refs, top>>

\* Our reference and that of the list are dropped, and the node is returned.
Return(t) ==
  /\ Transition(t, "got", "idle")
  /\ freeListRefs' = [freeListRefs EXCEPT ![head[t]].refs = @ - 2]
  /\ used' = used \union {head[t]}
  /\ head' = Forget(head, t)
  /\ UNCHANGED <<freeListHead, freeListNext, next, refs, node, top>>

\* Mutant: whether the node should be on the list is not looked at.
LastToLeaveAny(n) == freeListRefs[n].refs = 1
LastToLeave(n) == freeListRefs[n] = [shouldBeOn |-> TRUE, refs |-> 1]

\* The thread that drops the last reference of a node that should be on the
\* list puts it there for the thread that asked for it.
Dereference(t) ==
  LET last == LastToLeave(node[t])
  IN /\ Transition(t, "unref", IF last THEN "top" ELSE Loop(head[t]))
     /\ freeListRefs' = [freeListRefs EXCEPT ![node[t]].refs = @ - 1]
     /\ node' = IF last THEN node ELSE Forget(node, t)
     /\ UNCHANGED <<freeListHead, freeListNext, used, head, next, refs, top>>

-----------------------------------------------------------------------------
\* add

\* The queue is done with a node: the call begins.
Add(t, n) ==
  /\ t \in Giver
  /\ Transition(t, "idle", "add")
  /\ n \in used
  /\ used' = used \ {n}
  /\ node' = [node EXCEPT ![t] = n]
  /\ UNCHANGED <<shared, head, next, refs, top>>

SetBit(t) ==
  LET unreferenced == freeListRefs[node[t]].refs = 0
  IN /\ Transition(t, "add", IF unreferenced THEN "top" ELSE "idle")
     /\ freeListRefs' = [freeListRefs EXCEPT ![node[t]].shouldBeOn = TRUE]
     /\ node' = IF unreferenced THEN node ELSE Forget(node, t)
     /\ UNCHANGED <<freeListHead, freeListNext, used, head, next, refs, top>>

-----------------------------------------------------------------------------
\* add_knowing_refcount_is_zero

LoadTop(t) ==
  /\ Transition(t, "top", "link")
  /\ top' = [top EXCEPT ![t] = freeListHead]
  /\ UNCHANGED <<shared, used, head, next, refs, node>>

StoreNext(t) ==
  /\ Transition(t, "link", "open")
  /\ freeListNext' = [freeListNext EXCEPT ![node[t]] = top[t]]
  /\ UNCHANGED <<freeListHead, freeListRefs, used, locals>>

\* Counted for the list, the bit clear.  Mutant: the bit stays.
ListedStillMarked == [shouldBeOn |-> TRUE, refs |-> 1]
Listed == [shouldBeOn |-> FALSE, refs |-> 1]

\* From here on other threads may refer to the node again.
StoreRefs(t) ==
  /\ Transition(t, "open", "push")
  /\ freeListRefs' = [freeListRefs EXCEPT ![node[t]] = Listed]
  /\ UNCHANGED <<freeListHead, freeListNext, used, locals>>

\* A CAS that fails leaves the head it found in top.  Mutant: it does not.
FoundStale(t) == top[t]
Found(t) == freeListHead

Push(t) ==
  /\ pc[t] = "push"
  /\ \/ /\ freeListHead = top[t]
        /\ freeListHead' = node[t]
        /\ pc' = [pc EXCEPT ![t] = Loop(head[t])]
        /\ top' = Forget(top, t)
        /\ node' = Forget(node, t)
     \/ /\ freeListHead # top[t]
        /\ top' = [top EXCEPT ![t] = Found(t)]
        /\ pc' = [pc EXCEPT ![t] = "retreat"]
        /\ UNCHANGED <<freeListHead, node>>
  /\ UNCHANGED <<freeListRefs, freeListNext, used, head, next, refs>>

\* The push failed: whoever brings the counter back to zero tries again.
\* Mutant: this is left to others.
LastOneNever(n) == FALSE
LastOne(n) == freeListRefs[n] = Listed

Retreat(t) ==
  LET again == LastOne(node[t])
  IN /\ Transition(t, "retreat", IF again THEN "link" ELSE Loop(head[t]))
     /\ freeListRefs' = [freeListRefs EXCEPT ![node[t]] =
                           [shouldBeOn |-> TRUE, refs |-> @.refs - 1]]
     /\ node' = IF again THEN node ELSE Forget(node, t)
     /\ top' = IF again THEN top ELSE Forget(top, t)
     /\ UNCHANGED <<freeListHead, freeListNext, used, head, next, refs>>

-----------------------------------------------------------------------------
\* One step of the call a thread is in.
Continue(t) ==
  \/ pc[t] # "idle" /\ LoadHead(t)
  \/ LoadRefs(t) \/ Reference(t) \/ LoadNext(t) \/ Unlink(t) \/ Return(t)
  \/ Dereference(t)
  \/ SetBit(t) \/ LoadTop(t) \/ StoreNext(t) \/ StoreRefs(t) \/ Push(t) \/ Retreat(t)

Begin(t) == LoadHead(t) \/ \E n \in Node : Add(t, n)

Next == \E t \in Thread : Begin(t) \/ Continue(t)

Spec == Init /\ [][Next]_vars

\* The scheduler never stops running the threads that are inside a call; it
\* need not be fair to each of them.
FairSpec == Spec /\ WF_vars(\E t \in Thread : Continue(t))

-----------------------------------------------------------------------------
\* Type correctness of the list and of the locals of the calls.
TypeOK ==
  /\ freeListHead \in Node \union {NoNode}
  /\ freeListRefs \in [Node -> Counter]
  /\ freeListNext \in [Node -> Node \union {NoNode}]
  /\ used \in SUBSET Node
  /\ pc \in [Thread -> {"idle", "load", "ref", "next", "unlink", "got", "unref", "reload",
                        "add", "top", "link", "open", "push", "retreat"}]
  /\ refs \in [Thread -> Counter]
  /\ {head, next, node, top} \subseteq [Thread -> Node \union {NoNode}]

\* What the code adds to and subtracts from a counter never carries over into
\* the bit above it: the bit is clear when it is set ("We know that the
\* should-be-on-freelist bit is 0 at this point") and when a node has just been
\* taken (the assertion in try_get), and a counter is at least what is
\* subtracted from it.
NoCarry == \A t \in Thread :
  /\ pc[t] = "got" => freeListRefs[head[t]].refs >= 2 /\ ~freeListRefs[head[t]].shouldBeOn
  /\ pc[t] = "unref" => freeListRefs[node[t]].refs >= 1
  /\ pc[t] = "add" => ~freeListRefs[node[t]].shouldBeOn
  /\ pc[t] = "retreat" => freeListRefs[node[t]].refs >= 1 /\ ~freeListRefs[node[t]].shouldBeOn

\* Node n can be reached from the head: it is in every set that holds the head
\* and, with a node, the node behind it.
OnList(n) ==
  \A S \in SUBSET Node :
    /\ freeListHead \in S \union {NoNode}
    /\ \A m \in S : freeListNext[m] \in S \union {NoNode}
    => n \in S

\* A node that was given back is not forgotten by threads that each leave it
\* to another: when no call is under way, every node that is not in use is on
\* the list.
NothingLost ==
  (\A t \in Thread : pc[t] = "idle") => \A n \in Node \ used : OnList(n)

\* The list is a block pool: two takers never get the same node, and a node
\* is not taken again before it was given back.  A node is in the hands of the
\* queue, or of a taker that has unlinked it.
Getters(n) == {t \in Thread : pc[t] = "got" /\ head[t] = n}
Hands == [n \in Node |-> (IF n \in used THEN 1 ELSE 0) + Cardinality(Getters(n))]

Pool == INSTANCE BlockPool WITH hands <- Hands
IsPool == Pool!Spec

\* The list is lock-free: however the scheduler chooses among the threads,
\* calls go on being completed, or no call is under way.
LockFree ==
  []<>(\A t \in Thread : pc[t] = "idle") \/ []<><<\E t \in Thread : pc[t] # "idle" /\ pc'[t] = "idle">>_vars
=============================================================================
