---------------------------- MODULE FreeListProofs ----------------------------
(***************************************************************************)
(* Proofs about FreeList, for any blocks and any threads: what the code    *)
(* asserts and counts on (NoCarry), that no node is lost (NothingLost), and*)
(* that the list is a block pool (IsPool).                                 *)
(***************************************************************************)
EXTENDS FreeList, FiniteSetTheorems, TLAPS

\* Thread t has incremented the counter of n and not decremented it yet.
Refers(t, n) ==
  \/ pc[t] \in {"next", "unlink", "got"} /\ head[t] = n
  \/ pc[t] = "unref" /\ node[t] = n
Holders(n) == {t \in Thread : Refers(t, n)}

\* Thread t has unlinked n.
Gets(t, n) == pc[t] = "got" /\ head[t] = n

\* Thread t is putting n on the list: it begins to, it prepares the node that
\* nobody refers to, it tries to push it.
Adds(t, n) == pc[t] = "add" /\ node[t] = n
Opens(t, n) == pc[t] \in {"top", "link", "open"} /\ node[t] = n
Pushes(t, n) == pc[t] \in {"push", "retreat"} /\ node[t] = n
Owns(t, n) == Adds(t, n) \/ Opens(t, n) \/ Pushes(t, n)

\* The counter of n has one more for the list: n is on it, or is being pushed,
\* or was unlinked and is not yet returned.
Counted(n) ==
  n \notin used /\ ~freeListRefs[n].shouldBeOn /\ \A t \in Thread : ~Adds(t, n)

OnIt(n) == Counted(n) /\ \A t \in Thread : ~Owns(t, n) /\ ~Gets(t, n)

-----------------------------------------------------------------------------
\* The inductive invariant

Locals == \A t \in Thread :
  /\ pc[t] \in {"load", "ref", "next", "unlink", "got"} => head[t] \in Node
  /\ pc[t] \in {"unref", "add", "top", "link", "open", "push", "retreat"} => node[t] \in Node
  /\ pc[t] = "ref" => refs[t].refs # 0
  /\ pc[t] = "unlink" => next[t] = freeListNext[head[t]]
  /\ pc[t] \in {"open", "push"} => freeListNext[node[t]] = top[t]

\* Nobody else has a node that a thread is putting on the list, or has taken.
Exclusive == \A n \in Node : \A t, u \in Thread :
  /\ Owns(t, n) \/ Gets(t, n) => n \notin used
  /\ Owns(t, n) => ~Gets(u, n)
  /\ Owns(t, n) /\ Owns(u, n) => t = u
  /\ Gets(t, n) /\ Gets(u, n) => t = u

\* The bit is set from when a node should be on the list to when a thread is
\* about to push it; nobody refers to it while it is prepared for that, and
\* until then somebody does, who will have to put it on the list.
MarkedAt(n) ==
  /\ freeListRefs[n].shouldBeOn =>
       n \notin used /\ \A t \in Thread : ~Gets(t, n) /\ ~Adds(t, n) /\ ~Pushes(t, n)
  /\ \A t \in Thread : Opens(t, n) =>
       freeListRefs[n].shouldBeOn /\ freeListRefs[n].refs = 0
  /\ freeListRefs[n].shouldBeOn =>
       freeListRefs[n].refs >= 1 \/ \E t \in Thread : Opens(t, n)
Marked == \A n \in Node : MarkedAt(n)

Counts == \A n \in Node :
  freeListRefs[n].refs = Cardinality(Holders(n)) + (IF Counted(n) THEN 1 ELSE 0)

\* The list, from the head on, and parts of it nobody could reach, if there
\* were any: no node is linked to twice.
Chain ==
  /\ freeListHead # NoNode => OnIt(freeListHead)
  /\ \A n \in Node : OnIt(n) /\ freeListNext[n] # NoNode =>
       /\ OnIt(freeListNext[n])
       /\ freeListNext[n] # freeListHead
       /\ \A m \in Node : OnIt(m) /\ freeListNext[m] = freeListNext[n] => m = n

\* The head leads to every node of the list.  A set that the links of the list
\* do not leave may hold other nodes, whose links may change.
Closed(S) ==
  /\ freeListHead \in S \union {NoNode}
  /\ \A m \in S : OnIt(m) => freeListNext[m] \in S \union {NoNode}

Reachable == \A S \in SUBSET Node : Closed(S) => \A n \in Node : OnIt(n) => n \in S

Inv == TypeOK /\ Locals /\ Exclusive /\ Marked /\ Counts /\ Chain /\ Reachable

-----------------------------------------------------------------------------
\* What the counters say

LEMMA HoldersFinite == \A n : IsFiniteSet(Holders(n)) /\ Cardinality(Holders(n)) \in Nat
<1> TAKE n
<1>1. Holders(n) \in SUBSET Thread  BY DEF Holders
<1>2. IsFiniteSet(Holders(n))  BY <1>1, ThreadAssumption, FS_Subset
<1> QED  BY <1>2, FS_CardinalityType

LEMMA Referred ==
  ASSUME Counts, NEW n \in Node, NEW t \in Thread, Refers(t, n)
  PROVE  freeListRefs[n].refs >= 1 /\ (Counted(n) => freeListRefs[n].refs >= 2)
<1>1. Holders(n) # {}  BY DEF Holders
<1>2. Cardinality(Holders(n)) # 0  BY <1>1, HoldersFinite, FS_EmptySet
<1> QED  BY <1>2, HoldersFinite DEF Counts

LEMMA Unreferred ==
  ASSUME Counts, NEW n \in Node, freeListRefs[n].refs = 0
  PROVE  Holders(n) = {} /\ ~Counted(n) /\ \A t \in Thread : ~Refers(t, n)
<1>1. Cardinality(Holders(n)) = 0 /\ ~Counted(n)  BY HoldersFinite DEF Counts
<1>2. Holders(n) = {}  BY <1>1, HoldersFinite, FS_EmptySet
<1> QED  BY <1>1, <1>2 DEF Holders

LEMMA Joined ==
  ASSUME NEW n, NEW t \in Thread, ~Refers(t, n), Holders(n)' = Holders(n) \union {t}
  PROVE  Cardinality(Holders(n))' = Cardinality(Holders(n)) + 1
<1>1. t \notin Holders(n)  BY DEF Holders
<1>2. Cardinality(Holders(n)') = Cardinality(Holders(n)) + 1
  BY <1>1, HoldersFinite, FS_AddElement
<1> QED  BY <1>2

LEMMA Left ==
  ASSUME NEW n, NEW t \in Thread, Refers(t, n), Holders(n)' = Holders(n) \ {t}
  PROVE  Cardinality(Holders(n))' = Cardinality(Holders(n)) - 1
<1>1. t \in Holders(n)  BY DEF Holders
<1>2. Cardinality(Holders(n)') = Cardinality(Holders(n)) - 1
  BY <1>1, HoldersFinite, FS_RemoveElement
<1> QED  BY <1>2

-----------------------------------------------------------------------------
\* Steps that neither change a counter nor whose a node is

SameParts == \A t \in Thread, n \in Node :
  /\ Refers(t, n)' <=> Refers(t, n)
  /\ Gets(t, n)' <=> Gets(t, n)
  /\ Adds(t, n)' <=> Adds(t, n)
  /\ Opens(t, n)' <=> Opens(t, n)
  /\ Pushes(t, n)' <=> Pushes(t, n)

LEMMA SamePartsKeep ==
  ASSUME Inv, SameParts, UNCHANGED <<freeListRefs, used>>
  PROVE  /\ Exclusive' /\ Marked' /\ Counts'
         /\ \A n \in Node : OnIt(n)' <=> OnIt(n)
<1>1. \A t \in Thread, n \in Node : Owns(t, n)' <=> Owns(t, n)  BY DEF SameParts, Owns
<1>2. \A n \in Node : Counted(n)' <=> Counted(n)  BY DEF SameParts, Counted
<1>3. Exclusive'  BY <1>1 DEF Inv, SameParts, Exclusive
<1>4. Marked'  BY DEF Inv, SameParts, Marked, MarkedAt
<1>5. \A n \in Node : Holders(n)' = Holders(n)  BY DEF SameParts, Holders
<1>6. Counts'
  <2> SUFFICES ASSUME NEW n \in Node
               PROVE  (freeListRefs[n].refs = Cardinality(Holders(n)) + (IF Counted(n) THEN 1 ELSE 0))'
    BY DEF Counts
  <2>1. Cardinality(Holders(n))' = Cardinality(Holders(n))  BY <1>5
  <2> QED  BY <1>2, <2>1 DEF Inv, Counts
<1>7. \A n \in Node : OnIt(n)' <=> OnIt(n)  BY <1>1, <1>2 DEF SameParts, OnIt
<1> QED  BY <1>3, <1>4, <1>6, <1>7

LEMMA ChainKeeps ==
  ASSUME Inv, \A n \in Node : OnIt(n)' <=> OnIt(n), UNCHANGED <<freeListHead, freeListNext>>
  PROVE  Chain' /\ Reachable'
<1>1. Chain'  BY DEF Inv, TypeOK, Chain
<1>2. Reachable'  BY DEF Inv, TypeOK, Reachable, Closed
<1> QED  BY <1>1, <1>2

LEMMA LoadHeadKeeps ==
  ASSUME Inv, NEW t \in Thread, LoadHead(t)
  PROVE  Inv'
<1> USE DEF LoadHead, Loop, shared
<1>1. TypeOK'  BY DEF Inv, TypeOK
<1>2. Locals'  BY NoNodeAssumption DEF Inv, TypeOK, Locals
<1>3. SameParts
  BY DEF Inv, TypeOK, SameParts, Refers, Gets, Adds, Opens, Pushes
<1> QED  BY <1>1, <1>2, <1>3, SamePartsKeep, ChainKeeps DEF Inv

LEMMA LoadRefsKeeps ==
  ASSUME Inv, NEW t \in Thread, LoadRefs(t)
  PROVE  Inv'
<1> USE DEF LoadRefs, Transition, shared
<1>1. TypeOK'  BY DEF Inv, TypeOK, Locals
<1>2. Locals'  BY DEF Inv, TypeOK, Locals
<1>3. SameParts
  BY DEF Inv, TypeOK, SameParts, Refers, Gets, Adds, Opens, Pushes
<1> QED  BY <1>1, <1>2, <1>3, SamePartsKeep, ChainKeeps DEF Inv

LEMMA LoadNextKeeps ==
  ASSUME Inv, NEW t \in Thread, LoadNext(t)
  PROVE  Inv'
<1> USE DEF LoadNext, Transition, shared
<1>1. TypeOK'  BY DEF Inv, TypeOK, Locals
<1>2. Locals'  BY DEF Inv, TypeOK, Locals
<1>3. SameParts
  BY DEF Inv, TypeOK, SameParts, Refers, Gets, Adds, Opens, Pushes
<1> QED  BY <1>1, <1>2, <1>3, SamePartsKeep, ChainKeeps DEF Inv

LEMMA LoadTopKeeps ==
  ASSUME Inv, NEW t \in Thread, LoadTop(t)
  PROVE  Inv'
<1> USE DEF LoadTop, Transition, shared
<1>1. TypeOK'  BY DEF Inv, TypeOK
<1>2. Locals'  BY DEF Inv, TypeOK, Locals
<1>3. SameParts
  BY DEF Inv, TypeOK, SameParts, Refers, Gets, Adds, Opens, Pushes
<1> QED  BY <1>1, <1>2, <1>3, SamePartsKeep, ChainKeeps DEF Inv

\* The link that changes is that of a node that nobody refers to, is linked to
\* or pushes.
LEMMA StoreNextKeeps ==
  ASSUME Inv, NEW t \in Thread, StoreNext(t)
  PROVE  Inv'
<1> USE DEF StoreNext, Transition, locals
<1>1. TypeOK'  BY DEF Inv, TypeOK, Locals
<1>2. node[t] \in Node /\ Opens(t, node[t])  BY DEF Inv, Locals, Opens
<1>3. freeListRefs[node[t]].refs = 0  BY <1>2 DEF Inv, Marked, MarkedAt
<1>4. \A u \in Thread : ~Refers(u, node[t])  BY <1>2, <1>3, Unreferred DEF Inv
<1>5. \A u \in Thread : u # t => ~Owns(u, node[t])  BY <1>2 DEF Inv, Exclusive, Owns
<1>6. Locals'
  <2> SUFFICES ASSUME NEW u \in Thread
               PROVE  /\ (pc[u] \in {"load", "ref", "next", "unlink", "got"} => head[u] \in Node)'
                      /\ (pc[u] \in {"unref", "add", "top", "link", "open", "push", "retreat"} => node[u] \in Node)'
                      /\ (pc[u] = "ref" => refs[u].refs # 0)'
                      /\ (pc[u] = "unlink" => next[u] = freeListNext[head[u]])'
                      /\ (pc[u] \in {"open", "push"} => freeListNext[node[u]] = top[u])'
    BY DEF Locals
  <2>1. pc[u] = "unlink" => head[u] # node[t]  BY <1>4 DEF Refers
  <2>2. u # t /\ pc[u] \in {"open", "push"} => node[u] # node[t]  BY <1>5 DEF Owns, Opens, Pushes
  <2> QED  BY <1>2, <2>1, <2>2 DEF Inv, TypeOK, Locals
<1>7. SameParts
  BY DEF Inv, TypeOK, SameParts, Refers, Gets, Adds, Opens, Pushes
<1>8. ~OnIt(node[t])  BY <1>2 DEF OnIt, Owns
<1>9. \A n \in Node : OnIt(n)' <=> OnIt(n)  BY <1>7, SamePartsKeep
<1>10. Chain'  BY <1>2, <1>8, <1>9 DEF Inv, TypeOK, Chain
<1>11. \A n \in Node : n # node[t] => freeListNext'[n] = freeListNext[n]  BY DEF Inv, TypeOK
<1>12. Reachable'  BY <1>8, <1>9, <1>11 DEF Inv, Reachable, Closed
<1> QED  BY <1>1, <1>6, <1>7, <1>10, <1>12, SamePartsKeep DEF Inv

-----------------------------------------------------------------------------
\* Steps that change a counter, or whose a node is

\* What the counters have to say after a step that changes that of n only.
LEMMA CountsKeep ==
  ASSUME Inv, NEW n \in Node,
         \A m \in Node : m # n =>
            /\ freeListRefs'[m] = freeListRefs[m]
            /\ \A t \in Thread : Refers(t, m)' <=> Refers(t, m)
            /\ Counted(m)' <=> Counted(m),
         (freeListRefs[n].refs = Cardinality(Holders(n)) + (IF Counted(n) THEN 1 ELSE 0))'
  PROVE  Counts'
<1> SUFFICES ASSUME NEW m \in Node, m # n
             PROVE  (freeListRefs[m].refs = Cardinality(Holders(m)) + (IF Counted(m) THEN 1 ELSE 0))'
  BY DEF Counts
<1>1. Holders(m)' = Holders(m)  BY DEF Holders
<1>2. Cardinality(Holders(m))' = Cardinality(Holders(m))  BY <1>1
<1> QED  BY <1>2 DEF Inv, Counts

LEMMA ReferenceKeeps ==
  ASSUME Inv, NEW t \in Thread, Reference(t)
  PROVE  Inv'
<1> USE DEF Reference, Transition
<1>1. TypeOK'  BY DEF Inv, TypeOK, Locals, Counter, Zero
<1>2. Locals'  BY DEF Inv, TypeOK, Locals, Zero
<1>3. CASE freeListRefs[head[t]] # refs[t]
  <2>1. SameParts
    BY <1>3 DEF Inv, TypeOK, SameParts, Refers, Gets, Adds, Opens, Pushes
  <2>2. UNCHANGED <<freeListRefs, used, freeListHead, freeListNext>>  BY <1>3
  <2> QED  BY <1>1, <1>2, <2>1, <2>2, SamePartsKeep, ChainKeeps DEF Inv
<1>4. CASE freeListRefs[head[t]] = refs[t]
  <2> DEFINE h == head[t]
  <2>1. h \in Node /\ freeListRefs[h].refs # 0  BY <1>4 DEF Inv, Locals
  <2>2. /\ freeListRefs'[h] = [freeListRefs[h] EXCEPT !.refs = @ + 1]
        /\ \A n \in Node : n # h => freeListRefs'[n] = freeListRefs[n]
    BY <1>4, <2>1 DEF Inv, TypeOK
  <2>3. \A u \in Thread, n \in Node :
          /\ Refers(u, n)' <=> Refers(u, n) \/ (u = t /\ n = h)
          /\ Gets(u, n)' <=> Gets(u, n)
          /\ Adds(u, n)' <=> Adds(u, n)
          /\ Opens(u, n)' <=> Opens(u, n)
          /\ Pushes(u, n)' <=> Pushes(u, n)
    BY <1>4 DEF Inv, TypeOK, Refers, Gets, Adds, Opens, Pushes
  <2>4. ~Refers(t, h)  BY DEF Refers
  <2>5. freeListRefs[h] \in Counter  BY <2>1 DEF Inv, TypeOK
  <2>6. /\ freeListRefs'[h].shouldBeOn = freeListRefs[h].shouldBeOn
        /\ freeListRefs'[h].refs = freeListRefs[h].refs + 1
    BY <2>2, <2>5 DEF Counter
  <2>7. \A n \in Node : Counted(n)' <=> Counted(n)  BY <2>2, <2>3, <2>6 DEF Counted
  <2>8. Exclusive'  BY <2>3 DEF Inv, Exclusive, Owns
  <2>9. Marked'
    <3>1. MarkedAt(h)'  BY <2>1, <2>3, <2>5, <2>6 DEF Inv, Marked, MarkedAt, Counter
    <3>2. \A n \in Node : n # h => MarkedAt(n)'  BY <2>2, <2>3 DEF Inv, Marked, MarkedAt
    <3> QED  BY <3>1, <3>2 DEF Marked
  <2>10. Counts'
    <3>1. Holders(h)' = Holders(h) \union {t}  BY <2>1, <2>3 DEF Holders
    <3>2. Cardinality(Holders(h))' = Cardinality(Holders(h)) + 1  BY <2>4, <3>1, Joined
    <3>3. freeListRefs[h].refs = Cardinality(Holders(h)) + (IF Counted(h) THEN 1 ELSE 0)
      BY <2>1 DEF Inv, Counts
    <3>4. (freeListRefs[h].refs = Cardinality(Holders(h)) + (IF Counted(h) THEN 1 ELSE 0))'
      BY <2>1, <2>6, <2>7, <3>2, <3>3, HoldersFinite
    <3> QED  BY <2>1, <2>2, <2>3, <2>7, <3>4, CountsKeep
  <2>11. \A n \in Node : OnIt(n)' <=> OnIt(n)  BY <2>3, <2>7 DEF OnIt, Owns
  <2>12. Chain' /\ Reachable'  BY <2>11, ChainKeeps
  <2> QED  BY <1>1, <1>2, <2>8, <2>9, <2>10, <2>12 DEF Inv
<1> QED  BY <1>3, <1>4

LEMMA UnlinkKeeps ==
  ASSUME Inv, NEW t \in Thread, Unlink(t)
  PROVE  Inv'
<1>1. TypeOK'  BY DEF Unlink, Forget, Inv, TypeOK, Locals
<1>2. Locals'  BY DEF Unlink, Forget, Inv, TypeOK, Locals
<1>3. head[t] \in Node  BY DEF Unlink, Inv, Locals
<1>4. CASE freeListHead # head[t]
  <2>1. SameParts
    BY <1>4 DEF Unlink, Inv, TypeOK, SameParts, Refers, Gets, Adds, Opens, Pushes
  <2>2. UNCHANGED <<freeListRefs, used, freeListHead, freeListNext>>  BY <1>4 DEF Unlink
  <2> QED  BY <1>1, <1>2, <2>1, <2>2, SamePartsKeep, ChainKeeps DEF Inv
<1>5. CASE freeListHead = head[t]
  <2> PICK h \in Node : h = head[t]  BY <1>3
  <2>1. OnIt(h)  BY <1>5, NoNodeAssumption DEF Inv, Chain
  <2>2. freeListHead' = freeListNext[h] /\ UNCHANGED <<freeListRefs, freeListNext, used, node>>
    BY <1>5 DEF Unlink, Inv, Locals
  <2>3. \A u \in Thread, n \in Node :
          /\ Refers(u, n)' <=> Refers(u, n)
          /\ Gets(u, n)' <=> Gets(u, n) \/ (u = t /\ n = h)
          /\ Adds(u, n)' <=> Adds(u, n)
          /\ Opens(u, n)' <=> Opens(u, n)
          /\ Pushes(u, n)' <=> Pushes(u, n)
    BY <1>5 DEF Unlink, Inv, TypeOK, Refers, Gets, Adds, Opens, Pushes
  <2>4. \A n \in Node : Counted(n)' <=> Counted(n)  BY <2>2, <2>3 DEF Counted
  <2>5. Exclusive'  BY <2>1, <2>2, <2>3 DEF Inv, Exclusive, Owns, OnIt, Counted
  <2>6. Marked'  BY <2>1, <2>2, <2>3 DEF Inv, Marked, MarkedAt, OnIt, Counted
  <2>7. Counts'
    <3>1. Holders(h)' = Holders(h)  BY <1>3, <2>3 DEF Holders
    <3>2. Cardinality(Holders(h))' = Cardinality(Holders(h))  BY <3>1
    <3>3. (freeListRefs[h].refs = Cardinality(Holders(h)) + (IF Counted(h) THEN 1 ELSE 0))'
      BY <1>3, <2>2, <2>4, <3>2 DEF Inv, Counts
    <3> QED  BY <1>3, <2>2, <2>3, <2>4, <3>3, CountsKeep
  <2>8. \A n \in Node : OnIt(n)' <=> OnIt(n) /\ n # h  BY <2>3, <2>4 DEF OnIt, Owns
  <2>9. Chain'  BY <1>3, <1>5, <2>1, <2>2, <2>8, NoNodeAssumption DEF Inv, TypeOK, Chain
  <2>10. Reachable'
    <3> SUFFICES ASSUME NEW S \in SUBSET Node, Closed(S)',
                        NEW n \in Node, OnIt(n)'
                 PROVE  n \in S
      BY DEF Reachable
    <3>1. Closed(S \union {h})  BY <1>5, <2>2, <2>8 DEF Closed
    <3>2. n \in S \union {h} /\ n # h  BY <2>8, <3>1 DEF Inv, Reachable
    <3> QED  BY <3>2
  <2> QED  BY <1>1, <1>2, <2>5, <2>6, <2>7, <2>9, <2>10 DEF Inv
<1> QED  BY <1>4, <1>5

LEMMA ReturnKeeps ==
  ASSUME Inv, NEW t \in Thread, Return(t)
  PROVE  Inv'
<1> PICK h \in Node : h = head[t]  BY DEF Return, Transition, Inv, Locals
<1>1. Gets(t, h) /\ Refers(t, h)  BY DEF Return, Transition, Inv, Locals, Gets, Refers
<1>2. Counted(h)  BY <1>1 DEF Inv, Exclusive, Marked, MarkedAt, Counted, Owns
<1>3. freeListRefs[h] \in Counter /\ freeListRefs[h].refs >= 2  BY <1>1, <1>2, Referred DEF Inv, TypeOK
<1>4. /\ freeListRefs'[h].shouldBeOn = freeListRefs[h].shouldBeOn
      /\ freeListRefs'[h].refs = freeListRefs[h].refs - 2
      /\ freeListRefs'[h] \in Counter
      /\ \A n \in Node : n # h => freeListRefs'[n] = freeListRefs[n]
      /\ freeListRefs' \in [Node -> Counter]
  <2>1. freeListRefs' = [freeListRefs EXCEPT ![h] = [freeListRefs[h] EXCEPT !.refs = freeListRefs[h].refs - 2]]
    BY DEF Return
  <2>2. [freeListRefs[h] EXCEPT !.refs = freeListRefs[h].refs - 2] \in Counter
    BY <1>3 DEF Counter
  <2>3. freeListRefs'[h] = [freeListRefs[h] EXCEPT !.refs = freeListRefs[h].refs - 2]
    BY <2>1 DEF Inv, TypeOK
  <2>4. freeListRefs' \in [Node -> Counter]  BY <2>1, <2>2 DEF Inv, TypeOK
  <2>5. \A n \in Node : n # h => freeListRefs'[n] = freeListRefs[n]  BY <2>1 DEF Inv, TypeOK
  <2> QED  BY <1>3, <2>2, <2>3, <2>4, <2>5 DEF Counter
<1>5. TypeOK'  BY <1>4 DEF Return, Transition, Forget, Inv, TypeOK
<1>6. Locals'  BY DEF Return, Transition, Forget, Inv, TypeOK, Locals
<1>7. \A u \in Thread, n \in Node :
        /\ Refers(u, n)' <=> Refers(u, n) /\ ~(u = t /\ n = h)
        /\ Gets(u, n)' <=> Gets(u, n) /\ ~(u = t /\ n = h)
        /\ Adds(u, n)' <=> Adds(u, n)
        /\ Opens(u, n)' <=> Opens(u, n)
        /\ Pushes(u, n)' <=> Pushes(u, n)
  BY DEF Return, Transition, Forget, Inv, TypeOK, Refers, Gets, Adds, Opens, Pushes
<1>0. UNCHANGED <<freeListHead, freeListNext>> /\ used' = used \union {h}  BY DEF Return
<1>8. ~Counted(h)' /\ \A n \in Node : n # h => (Counted(n)' <=> Counted(n))
  BY <1>0, <1>4, <1>7 DEF Counted
<1>9. Exclusive'  BY <1>0, <1>1, <1>7 DEF Inv, Exclusive, Owns
<1>10. Marked'  BY <1>0, <1>1, <1>2, <1>4, <1>7 DEF Inv, Marked, MarkedAt, Exclusive, Owns, Counted
<1>11. Counts'
  <2>1. Holders(h)' = Holders(h) \ {t}  BY <1>1, <1>7 DEF Holders
  <2>2. Cardinality(Holders(h))' = Cardinality(Holders(h)) - 1  BY <1>1, <2>1, Left
  <2>3. freeListRefs[h].refs = Cardinality(Holders(h)) + 1  BY <1>1, <1>2 DEF Inv, Counts
  <2>4. (freeListRefs[h].refs = Cardinality(Holders(h)) + (IF Counted(h) THEN 1 ELSE 0))'
    BY <1>4, <1>8, <2>2, <2>3, HoldersFinite
  <2> QED  BY <1>1, <1>4, <1>7, <1>8, <2>4, CountsKeep
<1>12. \A n \in Node : OnIt(n)' <=> OnIt(n)  BY <1>1, <1>7, <1>8 DEF OnIt, Owns
<1>13. Chain' /\ Reachable'  BY <1>0, <1>12, ChainKeeps
<1> QED  BY <1>5, <1>6, <1>9, <1>10, <1>11, <1>13 DEF Inv

LEMMA DereferenceKeeps ==
  ASSUME Inv, NEW t \in Thread, Dereference(t)
  PROVE  Inv'
<1> USE DEF Transition
<1> PICK d \in Node : d = node[t]  BY DEF Dereference, Inv, Locals
<1>1. Refers(t, d)  BY DEF Dereference, Refers
<1>2. freeListRefs[d] \in Counter /\ freeListRefs[d].refs >= 1  BY <1>1, Referred DEF Inv, TypeOK
<1>3. \A u \in Thread : ~Opens(u, d)  BY <1>2 DEF Inv, Marked, MarkedAt
<1>4. /\ freeListRefs'[d].shouldBeOn = freeListRefs[d].shouldBeOn
      /\ freeListRefs'[d].refs = freeListRefs[d].refs - 1
      /\ \A n \in Node : n # d => freeListRefs'[n] = freeListRefs[n]
      /\ freeListRefs' \in [Node -> Counter]
  <2>1. freeListRefs' = [freeListRefs EXCEPT ![d] = [freeListRefs[d] EXCEPT !.refs = freeListRefs[d].refs - 1]]
    BY DEF Dereference
  <2>2. [freeListRefs[d] EXCEPT !.refs = freeListRefs[d].refs - 1] \in Counter
    BY <1>2 DEF Counter
  <2>3. freeListRefs'[d] = [freeListRefs[d] EXCEPT !.refs = freeListRefs[d].refs - 1]
    BY <2>1 DEF Inv, TypeOK
  <2>4. freeListRefs' \in [Node -> Counter]  BY <2>1, <2>2 DEF Inv, TypeOK
  <2>5. \A n \in Node : n # d => freeListRefs'[n] = freeListRefs[n]  BY <2>1 DEF Inv, TypeOK
  <2> QED  BY <1>2, <2>2, <2>3, <2>4, <2>5 DEF Counter
<1>5. /\ UNCHANGED <<freeListHead, freeListNext, used, head, next, refs, top>>
      /\ pc[t] = "unref"
      /\ pc' = [pc EXCEPT ![t] = IF LastToLeave(d) THEN "top" ELSE Loop(head[t])]
      /\ node' = IF LastToLeave(d) THEN node ELSE Forget(node, t)
  BY DEF Dereference
<1>6. LastToLeave(d) <=> freeListRefs[d].shouldBeOn /\ freeListRefs[d].refs = 1
  <2>1. freeListRefs[d] = [shouldBeOn |-> freeListRefs[d].shouldBeOn, refs |-> freeListRefs[d].refs]
        /\ freeListRefs[d].shouldBeOn \in BOOLEAN
    BY <1>2 DEF Counter
  <2>2. ASSUME freeListRefs[d].shouldBeOn, freeListRefs[d].refs = 1
        PROVE  freeListRefs[d] = [shouldBeOn |-> TRUE, refs |-> 1]
    <3>1. freeListRefs[d].shouldBeOn = TRUE  BY <2>1, <2>2
    <3> QED  BY <2>1, <2>2, <3>1
  <2>3. ASSUME freeListRefs[d] = [shouldBeOn |-> TRUE, refs |-> 1]
        PROVE  freeListRefs[d].shouldBeOn /\ freeListRefs[d].refs = 1
    BY <2>3
  <2> QED  BY <2>2, <2>3 DEF LastToLeave
<1>7. TypeOK'  BY <1>4, <1>5 DEF Forget, Loop, Inv, TypeOK
<1>8. Locals'  BY <1>5 DEF Forget, Loop, Inv, TypeOK, Locals
<1>9. \A u \in Thread, n \in Node :
        /\ Refers(u, n)' <=> Refers(u, n) /\ ~(u = t /\ n = d)
        /\ Gets(u, n)' <=> Gets(u, n)
        /\ Adds(u, n)' <=> Adds(u, n)
        /\ Opens(u, n)' <=> Opens(u, n) \/ (u = t /\ n = d /\ LastToLeave(d))
        /\ Pushes(u, n)' <=> Pushes(u, n)
  BY <1>5 DEF Forget, Loop, Inv, TypeOK, Refers, Gets, Adds, Opens, Pushes
<1>10. \A n \in Node : Counted(n)' <=> Counted(n)  BY <1>4, <1>5, <1>9 DEF Counted
<1>11. LastToLeave(d) => d \notin used /\ \A u \in Thread : ~Owns(u, d) /\ ~Gets(u, d)
  BY <1>3, <1>6 DEF Inv, Marked, MarkedAt, Owns
<1>12. Exclusive'  BY <1>5, <1>9, <1>11 DEF Inv, Exclusive, Owns
<1>13. Marked'
  <2>1. MarkedAt(d)'  BY <1>2, <1>3, <1>4, <1>5, <1>6, <1>9 DEF Inv, Marked, MarkedAt, Counter
  <2>2. \A n \in Node : n # d => MarkedAt(n)'  BY <1>4, <1>5, <1>9 DEF Inv, Marked, MarkedAt
  <2> QED  BY <2>1, <2>2 DEF Marked
<1>14. Counts'
  <2>1. Holders(d)' = Holders(d) \ {t}  BY <1>1, <1>9 DEF Holders
  <2>2. Cardinality(Holders(d))' = Cardinality(Holders(d)) - 1  BY <1>1, <2>1, Left
  <2>3. freeListRefs[d].refs = Cardinality(Holders(d)) + (IF Counted(d) THEN 1 ELSE 0)
    BY DEF Inv, Counts
  <2>4. (freeListRefs[d].refs = Cardinality(Holders(d)) + (IF Counted(d) THEN 1 ELSE 0))'
    BY <1>4, <1>10, <2>2, <2>3, HoldersFinite
  <2> QED  BY <1>4, <1>9, <1>10, <2>4, CountsKeep
<1>15. \A n \in Node : OnIt(n)' <=> OnIt(n)  BY <1>6, <1>9, <1>10 DEF OnIt, Owns, Counted
<1>16. Chain' /\ Reachable'  BY <1>5, <1>15, ChainKeeps
<1> QED  BY <1>7, <1>8, <1>12, <1>13, <1>14, <1>16 DEF Inv

LEMMA AddKeeps ==
  ASSUME Inv, NEW t \in Thread, NEW d \in Node, Add(t, d)
  PROVE  Inv'
<1> USE DEF Add, Transition, shared
<1>1. TypeOK'  BY DEF Inv, TypeOK
<1>2. Locals'  BY DEF Inv, TypeOK, Locals
<1>3. \A u \in Thread, n \in Node :
        /\ Refers(u, n)' <=> Refers(u, n)
        /\ Gets(u, n)' <=> Gets(u, n)
        /\ Adds(u, n)' <=> Adds(u, n) \/ (u = t /\ n = d)
        /\ Opens(u, n)' <=> Opens(u, n)
        /\ Pushes(u, n)' <=> Pushes(u, n)
  BY DEF Inv, TypeOK, Refers, Gets, Adds, Opens, Pushes
<1>4. \A u \in Thread : ~Owns(u, d) /\ ~Gets(u, d)  BY DEF Inv, Exclusive
<1>5. ~freeListRefs[d].shouldBeOn  BY DEF Inv, Marked, MarkedAt
<1>6. \A n \in Node : Counted(n)' <=> Counted(n)  BY <1>3 DEF Counted
<1>7. Exclusive'  BY <1>3, <1>4 DEF Inv, Exclusive, Owns
<1>8. Marked'  BY <1>3, <1>5 DEF Inv, Marked, MarkedAt
<1>9. Counts'
  <2>1. Holders(d)' = Holders(d)  BY <1>3 DEF Holders
  <2>2. Cardinality(Holders(d))' = Cardinality(Holders(d))  BY <2>1
  <2>3. (freeListRefs[d].refs = Cardinality(Holders(d)) + (IF Counted(d) THEN 1 ELSE 0))'
    BY <1>6, <2>2 DEF Inv, Counts
  <2> QED  BY <1>3, <1>6, <2>3, CountsKeep
<1>10. \A n \in Node : OnIt(n)' <=> OnIt(n)  BY <1>3, <1>6 DEF OnIt, Owns, Counted
<1>11. Chain' /\ Reachable'  BY <1>10, ChainKeeps
<1> QED  BY <1>1, <1>2, <1>7, <1>8, <1>9, <1>11 DEF Inv

LEMMA SetBitKeeps ==
  ASSUME Inv, NEW t \in Thread, SetBit(t)
  PROVE  Inv'
<1> USE DEF Transition
<1> PICK d \in Node : d = node[t]  BY DEF SetBit, Inv, Locals
<1>1. Adds(t, d)  BY DEF SetBit, Adds
<1>2. /\ d \notin used
      /\ \A u \in Thread : ~Gets(u, d) /\ (Owns(u, d) => u = t)
      /\ ~Opens(t, d) /\ ~Pushes(t, d)
  BY <1>1 DEF Inv, Exclusive, Owns, Adds, Opens, Pushes
<1>3. /\ freeListRefs'[d].shouldBeOn
      /\ freeListRefs'[d].refs = freeListRefs[d].refs
      /\ \A n \in Node : n # d => freeListRefs'[n] = freeListRefs[n]
      /\ freeListRefs' \in [Node -> Counter]
  <2>1. freeListRefs' = [freeListRefs EXCEPT ![d] = [freeListRefs[d] EXCEPT !.shouldBeOn = TRUE]]
    BY DEF SetBit
  <2>2. freeListRefs[d] \in Counter  BY DEF Inv, TypeOK
  <2>3. [freeListRefs[d] EXCEPT !.shouldBeOn = TRUE] \in Counter  BY <2>2 DEF Counter
  <2>4. /\ freeListRefs' \in [Node -> Counter]
        /\ freeListRefs'[d] = [freeListRefs[d] EXCEPT !.shouldBeOn = TRUE]
        /\ \A n \in Node : n # d => freeListRefs'[n] = freeListRefs[n]
    BY <2>1, <2>3 DEF Inv, TypeOK
  <2> QED  BY <2>2, <2>4 DEF Counter
<1>4. /\ UNCHANGED <<freeListHead, freeListNext, used, head, next, refs, top>>
      /\ pc[t] = "add"
      /\ pc' = [pc EXCEPT ![t] = IF freeListRefs[d].refs = 0 THEN "top" ELSE "idle"]
      /\ node' = IF freeListRefs[d].refs = 0 THEN node ELSE Forget(node, t)
  BY DEF SetBit
<1>5. TypeOK'  BY <1>3, <1>4 DEF Forget, Inv, TypeOK
<1>6. Locals'  BY <1>4 DEF Forget, Inv, TypeOK, Locals
<1>7. \A u \in Thread, n \in Node :
        /\ Refers(u, n)' <=> Refers(u, n)
        /\ Gets(u, n)' <=> Gets(u, n)
        /\ Adds(u, n)' <=> Adds(u, n) /\ ~(u = t /\ n = d)
        /\ Opens(u, n)' <=> Opens(u, n) \/ (u = t /\ n = d /\ freeListRefs[d].refs = 0)
        /\ Pushes(u, n)' <=> Pushes(u, n)
  BY <1>4 DEF Forget, Inv, TypeOK, Refers, Gets, Adds, Opens, Pushes
<1>8. \A n \in Node : Counted(n)' <=> Counted(n)  BY <1>1, <1>3, <1>4, <1>7 DEF Counted
<1>9. Exclusive'  BY <1>2, <1>4, <1>7 DEF Inv, Exclusive, Owns
<1>10. Marked'
  <2>1. freeListRefs[d].refs \in Nat  BY DEF Inv, TypeOK, Counter
  <2>2. MarkedAt(d)'  BY <1>2, <1>3, <1>4, <1>7, <2>1 DEF Inv, Marked, MarkedAt, Owns
  <2>3. \A n \in Node : n # d => MarkedAt(n)'  BY <1>3, <1>4, <1>7 DEF Inv, Marked, MarkedAt
  <2> QED  BY <2>2, <2>3 DEF Marked
<1>11. Counts'
  <2>1. Holders(d)' = Holders(d)  BY <1>7 DEF Holders
  <2>2. Cardinality(Holders(d))' = Cardinality(Holders(d))  BY <2>1
  <2>3. (freeListRefs[d].refs = Cardinality(Holders(d)) + (IF Counted(d) THEN 1 ELSE 0))'
    BY <1>3, <1>8, <2>2 DEF Inv, Counts
  <2> QED  BY <1>3, <1>7, <1>8, <2>3, CountsKeep
<1>12. \A n \in Node : OnIt(n)' <=> OnIt(n)
  <2>1. ~Counted(d)'  BY <1>3 DEF Counted
  <2>2. \A n \in Node : n # d => (OnIt(n)' <=> OnIt(n))  BY <1>7, <1>8 DEF OnIt, Owns
  <2> QED  BY <1>8, <2>1, <2>2 DEF OnIt
<1>13. Chain' /\ Reachable'  BY <1>4, <1>12, ChainKeeps
<1> QED  BY <1>5, <1>6, <1>9, <1>10, <1>11, <1>13 DEF Inv

LEMMA StoreRefsKeeps ==
  ASSUME Inv, NEW t \in Thread, StoreRefs(t)
  PROVE  Inv'
<1> USE DEF StoreRefs, Transition, locals
<1> PICK d \in Node : d = node[t]  BY DEF Inv, Locals
<1>1. Opens(t, d)  BY DEF Opens
<1>2. /\ d \notin used
      /\ \A u \in Thread : ~Gets(u, d) /\ (Owns(u, d) => u = t)
      /\ ~Adds(t, d) /\ ~Pushes(t, d)
  BY <1>1 DEF Inv, Exclusive, Owns, Adds, Opens, Pushes
<1>3. freeListRefs[d].refs = 0  BY <1>1 DEF Inv, Marked, MarkedAt
<1>4. Holders(d) = {}  BY <1>3, Unreferred DEF Inv
<1>5. /\ freeListRefs'[d] = Listed
      /\ \A n \in Node : n # d => freeListRefs'[n] = freeListRefs[n]
  BY DEF Inv, TypeOK
<1>6. TypeOK'  BY DEF Inv, TypeOK, Counter, Listed
<1>7. Locals'  BY DEF Inv, TypeOK, Locals
<1>8. \A u \in Thread, n \in Node :
        /\ Refers(u, n)' <=> Refers(u, n)
        /\ Gets(u, n)' <=> Gets(u, n)
        /\ Adds(u, n)' <=> Adds(u, n)
        /\ Opens(u, n)' <=> Opens(u, n) /\ ~(u = t /\ n = d)
        /\ Pushes(u, n)' <=> Pushes(u, n) \/ (u = t /\ n = d)
  BY DEF Inv, TypeOK, Refers, Gets, Adds, Opens, Pushes
<1>9. Counted(d)' /\ \A n \in Node : n # d => (Counted(n)' <=> Counted(n))
  BY <1>2, <1>5, <1>8 DEF Counted, Owns, Listed
<1>10. Exclusive'  BY <1>2, <1>8 DEF Inv, Exclusive, Owns
<1>11. Marked'
  <2>1. \A u \in Thread : ~Opens(u, d)'  BY <1>2, <1>8 DEF Owns
  <2>2. ~freeListRefs'[d].shouldBeOn  BY <1>5 DEF Listed
  <2> QED  BY <1>5, <1>8, <2>1, <2>2 DEF Inv, Marked, MarkedAt
<1>12. Counts'
  <2>1. Holders(d)' = {}  BY <1>4, <1>8 DEF Holders
  <2>2. Cardinality(Holders(d))' = 0  BY <2>1, FS_EmptySet
  <2>3. (freeListRefs[d].refs = Cardinality(Holders(d)) + (IF Counted(d) THEN 1 ELSE 0))'
    BY <1>5, <1>9, <2>2 DEF Listed
  <2> QED  BY <1>5, <1>8, <1>9, <2>3, CountsKeep
<1>13. \A n \in Node : OnIt(n)' <=> OnIt(n)  BY <1>1, <1>8, <1>9 DEF OnIt, Owns
<1>14. Chain' /\ Reachable'  BY <1>13, ChainKeeps
<1> QED  BY <1>6, <1>7, <1>10, <1>11, <1>12, <1>14 DEF Inv

LEMMA PushKeeps ==
  ASSUME Inv, NEW t \in Thread, Push(t)
  PROVE  Inv'
<1> PICK d \in Node : d = node[t]  BY DEF Push, Inv, Locals
<1>1. Pushes(t, d)  BY DEF Push, Pushes
<1>2. /\ d \notin used
      /\ \A u \in Thread : ~Gets(u, d) /\ (Owns(u, d) => u = t)
      /\ ~Adds(t, d) /\ ~Opens(t, d)
  BY <1>1 DEF Inv, Exclusive, Owns, Adds, Opens, Pushes
<1>3. TypeOK'  BY DEF Push, Found, Forget, Loop, Inv, TypeOK
<1>4. Locals'  BY NoNodeAssumption DEF Push, Found, Forget, Loop, Inv, TypeOK, Locals
<1>5. CASE freeListHead # top[t]
  <2>1. SameParts
    BY <1>5 DEF Push, Inv, TypeOK, SameParts, Refers, Gets, Adds, Opens, Pushes
  <2>2. UNCHANGED <<freeListRefs, used, freeListHead, freeListNext>>  BY <1>5 DEF Push
  <2> QED  BY <1>3, <1>4, <2>1, <2>2, SamePartsKeep, ChainKeeps DEF Inv
<1>6. CASE freeListHead = top[t]
  <2>1. /\ freeListHead' = d /\ freeListNext[d] = freeListHead
        /\ UNCHANGED <<freeListRefs, freeListNext, used>>
    BY <1>6 DEF Push, Inv, Locals
  <2>2. \A u \in Thread, n \in Node :
          /\ Refers(u, n)' <=> Refers(u, n)
          /\ Gets(u, n)' <=> Gets(u, n)
          /\ Adds(u, n)' <=> Adds(u, n)
          /\ Opens(u, n)' <=> Opens(u, n)
          /\ Pushes(u, n)' <=> Pushes(u, n) /\ ~(u = t /\ n = d)
    BY <1>6 DEF Push, Forget, Loop, Inv, TypeOK, Refers, Gets, Adds, Opens, Pushes
  <2>3. \A n \in Node : Counted(n)' <=> Counted(n)  BY <2>1, <2>2 DEF Counted
  <2>4. Counted(d)  BY <1>1, <1>2 DEF Inv, Marked, MarkedAt, Counted, Owns
  <2>5. Exclusive'  BY <2>1, <2>2 DEF Inv, Exclusive, Owns
  <2>6. Marked'  BY <2>1, <2>2 DEF Inv, Marked, MarkedAt
  <2>7. Counts'
    <3>1. Holders(d)' = Holders(d)  BY <2>2 DEF Holders
    <3>2. Cardinality(Holders(d))' = Cardinality(Holders(d))  BY <3>1
    <3>3. (freeListRefs[d].refs = Cardinality(Holders(d)) + (IF Counted(d) THEN 1 ELSE 0))'
      BY <2>1, <2>3, <3>2 DEF Inv, Counts
    <3> QED  BY <2>1, <2>2, <2>3, <3>3, CountsKeep
  <2>8. \A n \in Node : OnIt(n)' <=> OnIt(n) \/ n = d
    BY <1>2, <2>2, <2>3, <2>4 DEF OnIt, Owns
  <2>9. ~OnIt(d)  BY <1>1 DEF OnIt, Owns
  <2>10. Chain'  BY <2>1, <2>8, <2>9 DEF Inv, TypeOK, Chain
  <2>11. Reachable'
    <3> SUFFICES ASSUME NEW S \in SUBSET Node, Closed(S)',
                        NEW n \in Node, OnIt(n)'
                 PROVE  n \in S
      BY DEF Reachable
    <3>1. d \in S  BY <2>1, NoNodeAssumption DEF Closed
    <3>2. Closed(S)  BY <2>1, <2>8, <3>1 DEF Closed
    <3> QED  BY <2>8, <3>1, <3>2 DEF Inv, Reachable
  <2> QED  BY <1>3, <1>4, <2>5, <2>6, <2>7, <2>10, <2>11 DEF Inv
<1> QED  BY <1>5, <1>6

LEMMA RetreatKeeps ==
  ASSUME Inv, NEW t \in Thread, Retreat(t)
  PROVE  Inv'
<1> USE DEF Transition
<1> PICK d \in Node : d = node[t]  BY DEF Retreat, Inv, Locals
<1>1. Pushes(t, d)  BY DEF Retreat, Pushes
<1>2. /\ d \notin used
      /\ \A u \in Thread : ~Gets(u, d) /\ (Owns(u, d) => u = t)
      /\ ~Adds(t, d) /\ ~Opens(t, d)
  BY <1>1 DEF Inv, Exclusive, Owns, Adds, Opens, Pushes
<1>3. Counted(d)  BY <1>1, <1>2 DEF Inv, Marked, MarkedAt, Counted, Owns
<1>4. freeListRefs[d] \in Counter /\ freeListRefs[d].refs = Cardinality(Holders(d)) + 1
  BY <1>3 DEF Inv, TypeOK, Counts
<1>5. /\ freeListRefs'[d].shouldBeOn
      /\ freeListRefs'[d].refs = freeListRefs[d].refs - 1
      /\ \A n \in Node : n # d => freeListRefs'[n] = freeListRefs[n]
      /\ freeListRefs' \in [Node -> Counter]
  <2>1. freeListRefs' = [freeListRefs EXCEPT ![d] =
                          [shouldBeOn |-> TRUE, refs |-> freeListRefs[d].refs - 1]]
    BY DEF Retreat
  <2>2. [shouldBeOn |-> TRUE, refs |-> freeListRefs[d].refs - 1] \in Counter
    BY <1>4, HoldersFinite DEF Counter
  <2> QED  BY <2>1, <2>2 DEF Inv, TypeOK
<1>6. /\ UNCHANGED <<freeListHead, freeListNext, used, head, next, refs>>
      /\ pc[t] = "retreat"
      /\ pc' = [pc EXCEPT ![t] = IF LastOne(d) THEN "link" ELSE Loop(head[t])]
      /\ node' = IF LastOne(d) THEN node ELSE Forget(node, t)
      /\ top' = IF LastOne(d) THEN top ELSE Forget(top, t)
  BY DEF Retreat
<1>7. LastOne(d) <=> freeListRefs[d].refs = 1
  <2>1. freeListRefs[d] = [shouldBeOn |-> freeListRefs[d].shouldBeOn, refs |-> freeListRefs[d].refs]
        /\ freeListRefs[d].shouldBeOn = FALSE
    BY <1>3, <1>4 DEF Counter, Counted
  <2>2. ASSUME freeListRefs[d].refs = 1 PROVE freeListRefs[d] = Listed  BY <2>1, <2>2 DEF Listed
  <2>3. ASSUME freeListRefs[d] = Listed PROVE freeListRefs[d].refs = 1  BY <2>3 DEF Listed
  <2> QED  BY <2>2, <2>3 DEF LastOne
<1>8. TypeOK'  BY <1>5, <1>6 DEF Forget, Loop, Inv, TypeOK
<1>9. Locals'  BY <1>6 DEF Forget, Loop, Inv, TypeOK, Locals
<1>10. \A u \in Thread, n \in Node :
        /\ Refers(u, n)' <=> Refers(u, n)
        /\ Gets(u, n)' <=> Gets(u, n)
        /\ Adds(u, n)' <=> Adds(u, n)
        /\ Opens(u, n)' <=> Opens(u, n) \/ (u = t /\ n = d /\ LastOne(d))
        /\ Pushes(u, n)' <=> Pushes(u, n) /\ ~(u = t /\ n = d)
  BY <1>6 DEF Forget, Loop, Inv, TypeOK, Refers, Gets, Adds, Opens, Pushes
<1>11. ~Counted(d)' /\ \A n \in Node : n # d => (Counted(n)' <=> Counted(n))
  BY <1>5, <1>6, <1>10 DEF Counted
<1>12. Exclusive'  BY <1>2, <1>6, <1>10 DEF Inv, Exclusive, Owns
<1>13. Marked'
  <2>1. MarkedAt(d)'
    BY <1>2, <1>4, <1>5, <1>6, <1>7, <1>10, HoldersFinite DEF Inv, Marked, MarkedAt, Owns
  <2>2. \A n \in Node : n # d => MarkedAt(n)'  BY <1>5, <1>6, <1>10 DEF Inv, Marked, MarkedAt
  <2> QED  BY <2>1, <2>2 DEF Marked
<1>14. Counts'
  <2>1. Holders(d)' = Holders(d)  BY <1>10 DEF Holders
  <2>2. Cardinality(Holders(d))' = Cardinality(Holders(d))  BY <2>1
  <2>3. (freeListRefs[d].refs = Cardinality(Holders(d)) + (IF Counted(d) THEN 1 ELSE 0))'
    BY <1>4, <1>5, <1>11, <2>2, HoldersFinite
  <2> QED  BY <1>5, <1>10, <1>11, <2>3, CountsKeep
<1>15. \A n \in Node : OnIt(n)' <=> OnIt(n)
  <2>1. ~OnIt(d) /\ ~OnIt(d)'  BY <1>1, <1>11 DEF OnIt, Owns
  <2>2. \A n \in Node : n # d => (OnIt(n)' <=> OnIt(n))  BY <1>10, <1>11 DEF OnIt, Owns
  <2> QED  BY <2>1, <2>2
<1>16. Chain' /\ Reachable'  BY <1>6, <1>15, ChainKeeps
<1> QED  BY <1>8, <1>9, <1>12, <1>13, <1>14, <1>16 DEF Inv

-----------------------------------------------------------------------------
\* The invariant holds

LEMMA InitInv == Init => Inv
<1> SUFFICES ASSUME Init PROVE Inv  OBVIOUS
<1> USE DEF Init
<1>1. TypeOK  BY DEF TypeOK, Counter, Zero
<1>2. Locals  BY DEF Locals
<1>3. \A t \in Thread, n \in Node :
        ~Refers(t, n) /\ ~Gets(t, n) /\ ~Adds(t, n) /\ ~Opens(t, n) /\ ~Pushes(t, n)
  BY DEF Refers, Gets, Adds, Opens, Pushes
<1>4. Exclusive  BY <1>3 DEF Exclusive, Owns
<1>5. Marked  BY <1>3 DEF Marked, MarkedAt, Zero
<1>6. Counts
  <2> SUFFICES ASSUME NEW n \in Node
               PROVE  freeListRefs[n].refs = Cardinality(Holders(n)) + (IF Counted(n) THEN 1 ELSE 0)
    BY DEF Counts
  <2>1. Holders(n) = {}  BY <1>3 DEF Holders
  <2>2. Cardinality(Holders(n)) = 0 /\ ~Counted(n)  BY <2>1, FS_EmptySet DEF Counted
  <2> QED  BY <2>2 DEF Zero
<1>7. Chain  BY DEF Chain, OnIt, Counted
<1>8. Reachable  BY DEF Reachable, OnIt, Counted
<1> QED  BY <1>1, <1>2, <1>4, <1>5, <1>6, <1>7, <1>8 DEF Inv

LEMMA NextInv == Inv /\ [Next]_vars => Inv'
<1> SUFFICES ASSUME Inv, [Next]_vars PROVE Inv'  OBVIOUS
<1>1. CASE UNCHANGED vars
  <2>1. TypeOK' /\ Locals' /\ SameParts
    BY <1>1 DEF vars, shared, locals, Inv, TypeOK, Locals, SameParts, Refers, Gets, Adds, Opens, Pushes
  <2> QED  BY <1>1, <2>1, SamePartsKeep, ChainKeeps DEF vars, shared, Inv
<1>2. ASSUME NEW t \in Thread, NEW n \in Node, Add(t, n) PROVE Inv'  BY <1>2, AddKeeps
<1>3. ASSUME NEW t \in Thread, LoadHead(t) PROVE Inv'  BY <1>3, LoadHeadKeeps
<1>4. ASSUME NEW t \in Thread,
             LoadRefs(t) \/ Reference(t) \/ LoadNext(t) \/ Unlink(t) \/ Return(t) \/ Dereference(t)
      PROVE  Inv'
  BY <1>4, LoadRefsKeeps, ReferenceKeeps, LoadNextKeeps, UnlinkKeeps, ReturnKeeps, DereferenceKeeps
<1>5. ASSUME NEW t \in Thread,
             SetBit(t) \/ LoadTop(t) \/ StoreNext(t) \/ StoreRefs(t) \/ Push(t) \/ Retreat(t)
      PROVE  Inv'
  BY <1>5, SetBitKeeps, LoadTopKeeps, StoreNextKeeps, StoreRefsKeeps, PushKeeps, RetreatKeeps
<1> QED  BY <1>1, <1>2, <1>3, <1>4, <1>5 DEF Next, Begin, Continue

LEMMA Invariant == Spec => []Inv
BY InitInv, NextInv, PTL DEF Spec

\* The variables and locals of the free list keep their types, for any number
\* of blocks and threads.
THEOREM TypeCorrect == Spec => []TypeOK
BY Invariant, PTL DEF Inv

LEMMA NothingCarries == Inv => NoCarry
<1> SUFFICES ASSUME Inv, NEW t \in Thread
             PROVE  /\ pc[t] = "got" => freeListRefs[head[t]].refs >= 2 /\ ~freeListRefs[head[t]].shouldBeOn
                    /\ pc[t] = "unref" => freeListRefs[node[t]].refs >= 1
                    /\ pc[t] = "add" => ~freeListRefs[node[t]].shouldBeOn
                    /\ pc[t] = "retreat" => freeListRefs[node[t]].refs >= 1 /\ ~freeListRefs[node[t]].shouldBeOn
  BY DEF NoCarry
<1>1. ASSUME pc[t] = "got"
      PROVE  freeListRefs[head[t]].refs >= 2 /\ ~freeListRefs[head[t]].shouldBeOn
  <2>1. head[t] \in Node /\ Gets(t, head[t]) /\ Refers(t, head[t])
    BY <1>1 DEF Inv, Locals, Gets, Refers
  <2>2. Counted(head[t])  BY <2>1 DEF Inv, Exclusive, Marked, MarkedAt, Counted, Owns
  <2> QED  BY <2>1, <2>2, Referred DEF Inv, Counted
<1>2. ASSUME pc[t] = "unref" PROVE freeListRefs[node[t]].refs >= 1
  <2>1. node[t] \in Node /\ Refers(t, node[t])  BY <1>2 DEF Inv, Locals, Refers
  <2> QED  BY <2>1, Referred DEF Inv
<1>3. ASSUME pc[t] = "add" PROVE ~freeListRefs[node[t]].shouldBeOn
  BY <1>3 DEF Inv, Locals, Marked, MarkedAt, Adds
<1>4. ASSUME pc[t] = "retreat"
      PROVE  freeListRefs[node[t]].refs >= 1 /\ ~freeListRefs[node[t]].shouldBeOn
  <2>1. node[t] \in Node /\ Pushes(t, node[t])  BY <1>4 DEF Inv, Locals, Pushes
  <2>2. Counted(node[t])  BY <2>1 DEF Inv, Exclusive, Marked, MarkedAt, Counted, Owns, Adds, Pushes
  <2> QED  BY <2>1, <2>2, HoldersFinite DEF Inv, Counts, Counted
<1> QED  BY <1>1, <1>2, <1>3, <1>4

\* No addition to a counter, and no subtraction, reaches the bit above it, and
\* the assertion in try_get holds, for any number of blocks and threads.
THEOREM NothingEverCarries == Spec => []NoCarry
BY Invariant, NothingCarries, PTL

-----------------------------------------------------------------------------
\* No node is lost

LEMMA EachIsReached == Inv => NothingLost
<1> SUFFICES ASSUME Inv, \A t \in Thread : pc[t] = "idle", NEW n \in Node \ used
             PROVE  OnList(n)
  BY DEF NothingLost
<1>1. \A t \in Thread : ~Refers(t, n) /\ ~Owns(t, n) /\ ~Gets(t, n)
  BY DEF Refers, Owns, Adds, Opens, Pushes, Gets
<1>2. ~freeListRefs[n].shouldBeOn
  <2> SUFFICES ASSUME freeListRefs[n].shouldBeOn PROVE FALSE  OBVIOUS
  <2>1. freeListRefs[n].refs >= 1  BY <1>1 DEF Inv, Marked, MarkedAt, Owns
  <2>2. Holders(n) = {} /\ ~Counted(n)  BY <1>1 DEF Holders, Counted
  <2>3. Cardinality(Holders(n)) = 0  BY <2>2, FS_EmptySet
  <2> QED  BY <2>1, <2>2, <2>3 DEF Inv, Counts
<1>3. OnIt(n)  BY <1>1, <1>2 DEF OnIt, Counted, Owns
<1> QED  BY <1>3 DEF Inv, Reachable, Closed, OnList

\* A node that threads leave to each other to put on the list gets there: when
\* no call is under way the head leads to every node that is not in use, for
\* any number of blocks and threads.
THEOREM NoNodeIsLost == Spec => []NothingLost
BY Invariant, EachIsReached, PTL

-----------------------------------------------------------------------------
\* The list is a block pool

InHand(n) == n \in used \/ \E t \in Thread : Gets(t, n)

LEMMA HandsAre == Inv => Hands = [n \in Node |-> IF InHand(n) THEN 1 ELSE 0]
<1> SUFFICES ASSUME Inv, NEW n \in Node
             PROVE  (IF n \in used THEN 1 ELSE 0) + Cardinality(Getters(n)) = IF InHand(n) THEN 1 ELSE 0
  BY DEF Hands
<1>1. CASE \A t \in Thread : ~Gets(t, n)
  <2>1. Getters(n) = {}  BY <1>1 DEF Getters, Gets
  <2>2. Cardinality(Getters(n)) = 0  BY <2>1, FS_EmptySet
  <2> QED  BY <1>1, <2>2 DEF InHand
<1>2. CASE \E t \in Thread : Gets(t, n)
  <2> PICK t \in Thread : Gets(t, n)  BY <1>2
  <2>1. n \notin used  BY DEF Inv, Exclusive
  <2>2. Getters(n) = {t}  BY DEF Inv, Exclusive, Getters, Gets
  <2>3. Cardinality(Getters(n)) = 1  BY <2>2, FS_Singleton
  <2> QED  BY <1>2, <2>1, <2>3 DEF InHand
<1> QED  BY <1>1, <1>2

\* The two steps that move a node, and all the others.
LEMMA Moves ==
  ASSUME Inv, [Next]_vars
  PROVE  \/ \A n \in Node : InHand(n)' <=> InHand(n)
         \/ \E d \in Node : /\ \A n \in Node : n # d => (InHand(n)' <=> InHand(n))
                            /\ InHand(d)' <=> ~InHand(d)
<1> DEFINE Stays == \A n \in Node : InHand(n)' <=> InHand(n)
<1>1. CASE UNCHANGED vars  BY <1>1 DEF vars, shared, locals, InHand, Gets
<1>2. ASSUME NEW t \in Thread, NEW d \in Node, Add(t, d)
      PROVE  /\ \A n \in Node : n # d => (InHand(n)' <=> InHand(n))
             /\ InHand(d)' <=> ~InHand(d)
  <2>1. \A u \in Thread, n \in Node : Gets(u, n)' <=> Gets(u, n)
    BY <1>2 DEF Add, Transition, shared, Inv, TypeOK, Gets
  <2>2. d \in used /\ used' = used \ {d}  BY <1>2 DEF Add
  <2>3. \A u \in Thread : ~Gets(u, d)  BY <2>2 DEF Inv, Exclusive
  <2> QED  BY <2>1, <2>2, <2>3 DEF InHand
<1>3. ASSUME NEW t \in Thread, Unlink(t), freeListHead = head[t]
      PROVE  \E d \in Node : /\ \A n \in Node : n # d => (InHand(n)' <=> InHand(n))
                             /\ InHand(d)' <=> ~InHand(d)
  <2> PICK d \in Node : d = head[t]  BY <1>3 DEF Unlink, Inv, Locals
  <2>1. \A u \in Thread, n \in Node : Gets(u, n)' <=> Gets(u, n) \/ (u = t /\ n = d)
    BY <1>3 DEF Unlink, Inv, TypeOK, Gets
  <2>2. OnIt(d)  BY <1>3, NoNodeAssumption DEF Inv, Chain
  <2>3. used' = used  BY <1>3 DEF Unlink
  <2>4. ~InHand(d)  BY <2>2 DEF OnIt, Counted, InHand
  <2> QED  BY <2>1, <2>3, <2>4 DEF InHand
<1>4. ASSUME NEW t \in Thread, Return(t) PROVE Stays
  <2> PICK d \in Node : d = head[t]  BY <1>4 DEF Return, Transition, Inv, Locals
  <2>1. \A u \in Thread, n \in Node : Gets(u, n)' <=> Gets(u, n) /\ ~(u = t /\ n = d)
    BY <1>4 DEF Return, Transition, Forget, Inv, TypeOK, Gets
  <2>2. Gets(t, d) /\ used' = used \union {d}  BY <1>4 DEF Return, Transition, Gets
  <2> QED  BY <2>1, <2>2 DEF InHand, Gets
<1>5. ASSUME NEW t \in Thread,
             \/ LoadHead(t) \/ LoadRefs(t) \/ Reference(t) \/ LoadNext(t)
             \/ Unlink(t) /\ freeListHead # head[t]
             \/ Dereference(t)
             \/ SetBit(t) \/ LoadTop(t) \/ StoreNext(t) \/ StoreRefs(t) \/ Push(t) \/ Retreat(t)
      PROVE  Stays
  <2>1. \A u \in Thread, n \in Node : Gets(u, n)' <=> Gets(u, n)
    BY <1>5 DEF LoadHead, LoadRefs, Reference, LoadNext, Unlink, Dereference, SetBit, LoadTop,
       StoreNext, StoreRefs, Push, Retreat, Transition, Loop, locals, Inv, TypeOK, Gets
  <2>2. used' = used
    BY <1>5 DEF LoadHead, LoadRefs, Reference, LoadNext, Unlink, Dereference, SetBit, LoadTop,
       StoreNext, StoreRefs, Push, Retreat
  <2> QED  BY <2>1, <2>2 DEF InHand
<1> QED  BY <1>1, <1>2, <1>3, <1>4, <1>5 DEF Next, Begin, Continue

\* A step of the list is a step of the pool.
LEMMA PoolStep == Inv /\ Inv' /\ [Next]_vars => [Pool!Next]_Hands
<1> SUFFICES ASSUME Inv, Inv', [Next]_vars PROVE [Pool!Next]_Hands  OBVIOUS
<1>1. Hands = [n \in Node |-> IF InHand(n) THEN 1 ELSE 0]  BY HandsAre
<1>2. Hands' = [n \in Node |-> IF InHand(n)' THEN 1 ELSE 0]
  <2>1. (Inv => Hands = [n \in Node |-> IF InHand(n) THEN 1 ELSE 0])'  BY HandsAre, PTL
  <2> QED  BY <2>1
<1>3. CASE \A n \in Node : InHand(n)' <=> InHand(n)  BY <1>1, <1>2, <1>3
<1>4. ASSUME NEW d \in Node, \A n \in Node : n # d => (InHand(n)' <=> InHand(n)), InHand(d)' <=> ~InHand(d)
      PROVE  Pool!Take(d) \/ Pool!Give(d)
  BY <1>1, <1>2, <1>4 DEF Pool!Take, Pool!Give
<1>5. ASSUME NEW d \in Node, Pool!Take(d) \/ Pool!Give(d) PROVE Pool!Next
  BY <1>5 DEF Pool!Next
<1> QED  BY <1>3, <1>4, <1>5, Moves

\* The free list implements the block pool: no block is handed out twice, or
\* again before it was given back, for any number of blocks and threads.
THEOREM ImplementsPool == Spec => IsPool
<1>1. Init => Pool!Init
  <2> SUFFICES ASSUME Init PROVE Hands = [n \in Node |-> 1]  BY DEF Pool!Init
  <2>1. Hands = [n \in Node |-> IF InHand(n) THEN 1 ELSE 0]  BY InitInv, HandsAre
  <2> QED  BY <2>1 DEF Init, InHand
<1> QED  BY <1>1, Invariant, PoolStep, PTL DEF Spec, IsPool, Pool!Spec
=============================================================================
