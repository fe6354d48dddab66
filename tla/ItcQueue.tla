------------------------------- MODULE ItcQueue -------------------------------
(***************************************************************************)
(* The inbox of one reactor (ITCContext in itc_queue.hpp): a moodycamel    *)
(* ConcurrentQueue (concurrentqueue.h) to which the other reactors push    *)
(* and from which this one pops.  Every producer has a queue of its own: a *)
(* chain of blocks, the index of the first element (headIndex) and of the  *)
(* next one to come (tailIndex), and a block index, a ring of entries that *)
(* says which block holds which indices and that is replaced by one twice  *)
(* as large when it is full.                                               *)
(*                                                                         *)
(* One action is what a thread does between two accesses to what others    *)
(* may change meanwhile; memory is sequentially consistent.  The integers  *)
(* of the indices wrap around at IndexRange (2^64 in the code).  Finding   *)
(* the producer of a thread is ProducerHash, the free list is the pool     *)
(* that FreeList implements.  There is one consumer: what the code does    *)
(* for several is dead (ClaimSucceeds) and not modelled.                   *)
(***************************************************************************)
EXTENDS Integers, Sequences, FiniteSets, SequencesExt

CONSTANTS
  Producer,                    \* the reactors that push
  BLOCK_SIZE,                  \* elements of a block
  IMPLICIT_INITIAL_INDEX_SIZE, \* capacity of a first block index
  IndexRange,                  \* how many values an index_t has
  InitialPool,                 \* blocks allocated with the queue
  Heap,                        \* bound: blocks that malloc can provide
  MallocMayFail,               \* whether malloc fails for no reason of the model's
  BulkSizes,                   \* bound: the sizes of the pop_bulk calls
  Limits,                      \* bound: the index at which each producer stops, one
                               \* function per scenario; IndexRange if it never does
  null                         \* the null pointer, no message

ASSUME QueueAssumption ==
  /\ BLOCK_SIZE \in Nat \ {0, 1}
  /\ IndexRange \in Nat \ {0} /\ IndexRange % BLOCK_SIZE = 0
  /\ IMPLICIT_INITIAL_INDEX_SIZE \in Nat \ {0, 1}
  /\ InitialPool \in Nat /\ Heap \in Nat /\ InitialPool + Heap > 0
  \* No more blocks than the difference of two indices can tell apart.
  /\ 2 * BLOCK_SIZE * (InitialPool + Heap) <= IndexRange
  /\ MallocMayFail \in BOOLEAN
  /\ BulkSizes \subseteq Nat \ {0}
  /\ Limits \subseteq [Producer -> Nat]
  /\ null \notin Nat /\ null \notin Producer

Index == 0 .. IndexRange - 1
Block == 1 .. InitialPool + Heap

VARIABLES
  \* the queue of each producer
  producers,       \* the producers that have enqueued, the last one first
  tailIndex, headIndex,
  dequeueOptimisticCount, dequeueOvercommit,
  tailBlock,       \* the block that takes the next element
  headers,         \* the block indexes so far, the current one last
  entries,         \* the entries they point to
  \* blocks
  elements,        \* [Block -> [offset -> the message or null]]
  elementsCompletelyDequeued,
  initialBlockPoolIndex,
  hands,           \* of the initial pool: 0 for a block on the free list, else 1
  heap,            \* the dynamically allocated blocks
  \* threads
  pc,              \* what each producer does next, "idle" outside enqueue
  idxEntry,        \* the entry an enqueue has found for its block
  consumer,        \* the consumer: what it does next and its locals
  limit            \* the scenario

queues == <<producers, tailIndex, tailBlock, headers, entries>>
dequeued == <<headIndex, dequeueOptimisticCount, dequeueOvercommit>>
blocks == <<elements, elementsCompletelyDequeued>>
store == <<initialBlockPoolIndex, hands, heap>>
threads == <<pc, idxEntry, consumer>>
vars == <<queues, dequeued, blocks, store, threads, limit>>

FreeBlocks == INSTANCE BlockPool WITH Node <- 1 .. InitialPool

\* The locals between two pops.
Resting == [pc |-> "idle", todo |-> <<>>, best |-> null, bestSize |-> 0, nonEmptyCount |-> 0,
            max |-> 0, count |-> 0, index |-> 0, end |-> 0, start |-> 0,
            localBlockIndex |-> 0, tail |-> 0, indexIndex |-> 0, block |-> null,
            item |-> null, outcome |-> "none", scanned |-> {}]

Init ==
  /\ producers = <<>>
  /\ tailIndex = [p \in Producer |-> 0]
  /\ headIndex = [p \in Producer |-> 0]
  /\ dequeueOptimisticCount = [p \in Producer |-> 0]
  /\ dequeueOvercommit = [p \in Producer |-> 0]
  /\ tailBlock = [p \in Producer |-> null]
  /\ headers = [p \in Producer |-> <<>>]
  /\ entries = [p \in Producer |-> <<>>]
  /\ elements = [b \in Block |-> [i \in 0 .. BLOCK_SIZE - 1 |-> null]]
  /\ elementsCompletelyDequeued = [b \in Block |-> 0]
  /\ initialBlockPoolIndex = 0
  /\ FreeBlocks!Init
  /\ heap = {}
  /\ pc = [p \in Producer |-> "idle"]
  /\ idxEntry = [p \in Producer |-> 0]
  /\ consumer = Resting
  /\ limit \in Limits

-----------------------------------------------------------------------------
\* Indices

Plus(i, n) == (i + n) % IndexRange
Minus(i, j) == (i - j) % IndexRange

\* details::circular_less_than
circular_less_than(i, j) == Minus(i, j) > IndexRange \div 2

Signed(i) == IF i < IndexRange \div 2 THEN i ELSE i - IndexRange

BlockStart(i) == i - (i % BLOCK_SIZE)

INVALID_BLOCK_BASE == 1

\* ProducerBase::size_approx
size_approx(p) ==
  IF circular_less_than(headIndex[p], tailIndex[p]) THEN Minus(tailIndex[p], headIndex[p]) ELSE 0

-----------------------------------------------------------------------------
\* The block index of a producer

Current(p) == headers[p][Len(headers[p])]

NextBlockIndexCapacity(p) ==
  IF headers[p] = <<>> THEN IMPLICIT_INITIAL_INDEX_SIZE ELSE 2 * Current(p).capacity

\* new_block_index: as many entries again, behind those of the index so far in
\* the order of their use; the entries themselves stay where they are.
PreviousEntries(p) ==
  IF headers[p] = <<>> THEN <<>>
  ELSE LET h == Current(p)
       IN [i \in 1 .. h.capacity |-> h.index[((h.tail + i) % h.capacity) + 1]]

FreshEntries(p) ==
  LET old == PreviousEntries(p)
      n == IF old = <<>> THEN NextBlockIndexCapacity(p) ELSE Len(old)
  IN [i \in 1 .. n |-> Len(entries[p]) + i]

new_block_index(p) ==
  /\ entries' = [entries EXCEPT ![p] =
       @ \o [i \in DOMAIN FreshEntries(p) |-> [key |-> INVALID_BLOCK_BASE, value |-> null]]]
  /\ headers' = [headers EXCEPT ![p] = Append(@,
       [capacity |-> NextBlockIndexCapacity(p),
        tail |-> (Len(PreviousEntries(p)) - 1) % NextBlockIndexCapacity(p),
        index |-> PreviousEntries(p) \o FreshEntries(p)])]

\* The entry behind the tail of block index h.
AfterTail(h) == h.index[((h.tail + 1) % h.capacity) + 1]

-----------------------------------------------------------------------------
\* enqueue.  A producer's messages are told apart by the index they will have.

Transition(p, from, to) == pc[p] = from /\ pc' = [pc EXCEPT ![p] = to]

\* The first enqueue of a thread creates its queue; when the block index of a
\* new queue cannot be allocated, the queue does without.
CreateProducer(p) ==
  /\ producers' = <<p>> \o producers
  /\ \/ new_block_index(p)
     \/ MallocMayFail /\ UNCHANGED <<headers, entries>>

\* A new block is due at the end of the last one; the call fails when the
\* queue would be longer than indices can tell.
Room(p) == circular_less_than(headIndex[p], Plus(tailIndex[p], BLOCK_SIZE))

Enqueue(p) ==
  /\ tailIndex[p] # limit[p]
  /\ Transition(p, "idle", IF tailIndex[p] % BLOCK_SIZE # 0 THEN "construct"
                           ELSE IF Room(p) THEN "slot" ELSE "idle")
  /\ IF p \in ToSet(producers)
     THEN UNCHANGED <<producers, headers, entries>>
     ELSE CreateProducer(p)
  /\ UNCHANGED <<tailIndex, tailBlock, dequeued, blocks, store, idxEntry, consumer>>

\* insert_block_index_entry: an entry is vacant when it was never used or its
\* block is gone.  Mutant: the ring is never found full.
VacantAlways(e) == TRUE
Vacant(e) == e.key = INVALID_BLOCK_BASE \/ e.value = null

FindSlot(p) ==
  /\ pc[p] = "slot"
  /\ \/ /\ headers[p] = <<>>
        /\ pc' = [pc EXCEPT ![p] = "idle"]
        /\ UNCHANGED idxEntry
     \/ /\ headers[p] # <<>>
        /\ LET e == AfterTail(Current(p))
           IN IF Vacant(entries[p][e])
              THEN pc' = [pc EXCEPT ![p] = "insert"] /\ idxEntry' = [idxEntry EXCEPT ![p] = e]
              ELSE pc' = [pc EXCEPT ![p] = "grow"] /\ UNCHANGED idxEntry
  /\ UNCHANGED <<queues, dequeued, blocks, store, consumer>>

Grow(p) ==
  /\ pc[p] = "grow"
  /\ \/ /\ new_block_index(p)
        /\ idxEntry' = [idxEntry EXCEPT ![p] = AfterTail(Last(headers'[p]))]
        /\ pc' = [pc EXCEPT ![p] = "insert"]
     \/ /\ MallocMayFail
        /\ pc' = [pc EXCEPT ![p] = "idle"]
        /\ UNCHANGED <<headers, entries, idxEntry>>
  /\ UNCHANGED <<producers, tailIndex, tailBlock, dequeued, blocks, store, consumer>>

\* Mutant: the tail runs out of the ring.
MoveTailStraight(p, n) ==
  LET h == Current(p)
  IN headers' = [headers EXCEPT ![p][Len(headers[p])].tail = h.tail + n]
MoveTail(p, n) ==
  LET h == Current(p)
  IN headers' = [headers EXCEPT ![p][Len(headers[p])].tail = (h.tail + n) % h.capacity]

\* The key is in the entry before the tail shows it.
Insert(p) ==
  /\ Transition(p, "insert", "block")
  /\ entries' = [entries EXCEPT ![p][idxEntry[p]].key = tailIndex[p]]
  /\ MoveTail(p, 1)
  /\ UNCHANGED <<producers, tailIndex, tailBlock, dequeued, blocks, store, idxEntry, consumer>>

\* requisition_block: from the initial pool, else from the free list, which
\* may be missed, else from malloc.
requisition_block(b) ==
  \/ /\ b = initialBlockPoolIndex + 1 /\ b <= InitialPool
     /\ initialBlockPoolIndex' = b
     /\ UNCHANGED <<hands, heap>>
  \/ /\ initialBlockPoolIndex = InitialPool
     /\ b <= InitialPool /\ FreeBlocks!Take(b)
     /\ UNCHANGED <<initialBlockPoolIndex, heap>>
  \/ /\ initialBlockPoolIndex = InitialPool
     /\ b > InitialPool /\ b \notin heap
     /\ InitialPool + 1 .. b - 1 \subseteq heap  \* addresses do not matter
     /\ heap' = heap \union {b}
     /\ UNCHANGED <<initialBlockPoolIndex, hands>>

SetEntry(p, b) ==
  /\ entries' = [entries EXCEPT ![p][idxEntry[p]].value = b]
  /\ idxEntry' = [idxEntry EXCEPT ![p] = 0]

\* A block that is taken may have been used before.  Mutant: its counter stays.
ResetNothing(b) == UNCHANGED elementsCompletelyDequeued
reset_empty(b) == elementsCompletelyDequeued' = [elementsCompletelyDequeued EXCEPT ![b] = 0]

\* The new block is in the index before any element of it is announced.
TakeBlock(p) ==
  /\ Transition(p, "block", "construct")
  /\ \E b \in Block :
       /\ requisition_block(b)
       /\ reset_empty(b)
       /\ SetEntry(p, b)
       /\ tailBlock' = [tailBlock EXCEPT ![p] = b]
  /\ UNCHANGED <<producers, tailIndex, headers, dequeued, elements, consumer>>

\* There is no block: the tail of the block index goes back.
Rewind(p) ==
  /\ Transition(p, "block", "idle")
  /\ initialBlockPoolIndex = InitialPool
  /\ MallocMayFail \/ Cardinality(heap) = Heap
  /\ MoveTail(p, -1)
  /\ SetEntry(p, null)
  /\ UNCHANGED <<producers, tailIndex, tailBlock, dequeued, blocks, store, consumer>>

Construct(p) ==
  /\ Transition(p, "construct", "commit")
  /\ elements' = [elements EXCEPT ![tailBlock[p]][tailIndex[p] % BLOCK_SIZE] = tailIndex[p]]
  /\ UNCHANGED <<queues, dequeued, elementsCompletelyDequeued, store, idxEntry, consumer>>

Commit(p) ==
  /\ Transition(p, "commit", "idle")
  /\ tailIndex' = [tailIndex EXCEPT ![p] = Plus(@, 1)]
  /\ UNCHANGED <<producers, tailBlock, headers, entries, dequeued, blocks, store,
                 idxEntry, consumer>>

Push(p) ==
  \/ Enqueue(p) \/ FindSlot(p) \/ Grow(p) \/ Insert(p) \/ TakeBlock(p) \/ Rewind(p)
  \/ Construct(p) \/ Commit(p)

-----------------------------------------------------------------------------
\* try_dequeue and try_dequeue_bulk: which producer, and how many elements

Producing == <<queues, pc, idxEntry>>

\* A pop ends; what it delivered and what it saw are remembered.
Returned(c, outcome) ==
  [Resting EXCEPT !.item = c.item, !.outcome = outcome, !.scanned = c.scanned]

\* A call begins (max is 0 for a try_dequeue): the producers are walked from
\* the one that came last.
Call(max) ==
  /\ consumer.pc = "idle"
  /\ consumer' = [Resting EXCEPT
       !.pc = IF max = 0 THEN "score" ELSE "bulk",
       !.max = max, !.todo = producers,
       !.scanned = Producer \ ToSet(producers)]
  /\ UNCHANGED <<Producing, dequeued, blocks, store>>

\* try_dequeue looks for the longest of the first three queues that are not
\* empty.
Score ==
  LET c == consumer
      p == Head(c.todo)
      size == size_approx(p)
  IN /\ c.pc = "score" /\ c.todo # <<>> /\ c.nonEmptyCount < 3
     /\ consumer' =
          IF size = 0
          THEN [c EXCEPT !.todo = Tail(@), !.scanned = @ \union {p}]
          ELSE [c EXCEPT !.todo = Tail(@), !.nonEmptyCount = @ + 1,
                         !.best = IF size > c.bestSize THEN p ELSE @,
                         !.bestSize = IF size > @ THEN size ELSE @]
     /\ UNCHANGED <<Producing, dequeued, blocks, store>>

SayEmpty ==
  LET c == consumer
  IN /\ c.pc = "score" /\ c.todo = <<>> /\ c.nonEmptyCount = 0
     /\ consumer' = Returned(c, "empty")
     /\ UNCHANGED <<Producing, dequeued, blocks, store>>

\* The elements of p's queue that nobody has laid claim to.
Available(p) ==
  Minus(tailIndex[p], Minus(dequeueOptimisticCount[p], dequeueOvercommit[p]))

\* The head moves behind n elements.  Mutant: only the claim is noted.
MoveHeadNot(p, n) == UNCHANGED headIndex
MoveHead(p, n) == headIndex' = [headIndex EXCEPT ![p] = Plus(@, n)]

\* The count of the claims.  Mutant: of one too many.
CountClaimsAndOne(p, n) ==
  dequeueOptimisticCount' = [dequeueOptimisticCount EXCEPT ![p] = Plus(@, n + 1)]
CountClaims(p, n) ==
  dequeueOptimisticCount' = [dequeueOptimisticCount EXCEPT ![p] = Plus(@, n)]

\* n elements are claimed and the head moves behind them.
Claim(p, n) ==
  /\ CountClaims(p, n)
  /\ MoveHead(p, n)
  /\ consumer' = [consumer EXCEPT !.pc = "index", !.best = p, !.index = headIndex[p],
                   !.start = headIndex[p], !.end = Plus(headIndex[p], n),
                   !.bestSize = 0, !.nonEmptyCount = 0]
  /\ UNCHANGED <<Producing, dequeueOvercommit, blocks, store>>

DequeueBest ==
  LET c == consumer
  IN /\ c.pc = "score" /\ c.nonEmptyCount > 0
     /\ c.todo = <<>> \/ c.nonEmptyCount = 3
     /\ Claim(c.best, 1)

\* dequeue_bulk takes as many as there are and are still wanted.
AtOnce(p, wanted) == IF Available(p) < wanted THEN Available(p) ELSE wanted

DequeueBulk ==
  LET c == consumer
      p == Head(c.todo)
      wanted == c.max - c.count
  IN /\ c.pc = "bulk" /\ c.todo # <<>>
     /\ circular_less_than(0, Available(p))
     /\ Claim(p, AtOnce(p, wanted))

PassOver ==
  LET c == consumer
      p == Head(c.todo)
  IN /\ c.pc = "bulk" /\ c.todo # <<>>
     /\ ~circular_less_than(0, Available(p))
     /\ consumer' = [c EXCEPT !.todo = Tail(@), !.scanned = @ \union {p}]
     /\ UNCHANGED <<Producing, dequeued, blocks, store>>

EndBulk ==
  LET c == consumer
  IN /\ c.pc = "bulk" /\ c.todo = <<>>
     /\ consumer' = Returned(c, IF c.count = 0 THEN "empty" ELSE "found")
     /\ UNCHANGED <<Producing, dequeued, blocks, store>>

-----------------------------------------------------------------------------
\* dequeue and dequeue_bulk: the claimed elements of producer c.best, block by
\* block

At(pc0) == consumer.pc = pc0

EntryOf(c) == headers[c.best][c.localBlockIndex].index[c.indexIndex + 1]

ReadIndex ==
  /\ At("index")
  /\ consumer' = [consumer EXCEPT !.pc = "tail", !.localBlockIndex = Len(headers[consumer.best])]
  /\ UNCHANGED <<Producing, dequeued, blocks, store>>

ReadTail ==
  /\ At("tail")
  /\ consumer' = [consumer EXCEPT !.pc = "find",
                     !.tail = headers[consumer.best][consumer.localBlockIndex].tail]
  /\ UNCHANGED <<Producing, dequeued, blocks, store>>

\* get_block_index_index_for_index: the position in the ring, counted from the
\* block at the tail.  The difference wraps around, its sign is kept.
IndexIndex(c) ==
  LET h == headers[c.best][c.localBlockIndex]
      tailBase == entries[c.best][h.index[c.tail + 1]].key
      offset == Signed(Minus(BlockStart(c.index), tailBase)) \div BLOCK_SIZE
  IN (c.tail + offset) % h.capacity

FindBlock ==
  LET found == [consumer EXCEPT !.pc = "take", !.indexIndex = IndexIndex(consumer), !.tail = 0]
  IN /\ At("find")
     /\ consumer' = [found EXCEPT !.block = entries[consumer.best][EntryOf(found)].value]
     /\ UNCHANGED <<Producing, dequeued, blocks, store>>

\* The element is moved out and destroyed.
TakeElement ==
  LET c == consumer
      i == c.index % BLOCK_SIZE
  IN /\ At("take")
     /\ elements' = [elements EXCEPT ![c.block][i] = null]
     /\ consumer' = [c EXCEPT !.item = elements[c.block][i], !.outcome = "found",
                        !.index = Plus(@, 1), !.count = @ + 1,
                        !.pc = IF Plus(c.index, 1) \in {c.end, BlockStart(Plus(c.index, 1))}
                               THEN "count" ELSE "take"]
     /\ UNCHANGED <<Producing, dequeued, elementsCompletelyDequeued, store>>

\* After a block: the next one of the claim, the next producer of a bulk pop,
\* or the end of the call.
NextBlock(c) ==
  LET d == [c EXCEPT !.pc = "take", !.start = c.index,
              !.indexIndex = (@ + 1) % headers[c.best][c.localBlockIndex].capacity]
  IN [d EXCEPT !.block = entries[d.best][EntryOf(d)].value]

BlockDone(c) ==
  IF c.index # c.end THEN NextBlock(c)
  ELSE IF c.max = c.count \/ c.max = 0 THEN Returned(c, "found")
  ELSE [Returned(c, "found") EXCEPT !.pc = "bulk", !.todo = Tail(c.todo),
          !.max = c.max, !.count = c.count]

\* set_empty and set_many_empty: whether these were the last elements.
CountEmpty ==
  LET c == consumer
      n == elementsCompletelyDequeued[c.block] + Minus(c.index, c.start)
  IN /\ At("count")
     /\ elementsCompletelyDequeued' = [elementsCompletelyDequeued EXCEPT ![c.block] = n]
     /\ consumer' = IF n = BLOCK_SIZE THEN [c EXCEPT !.pc = "remove"] ELSE BlockDone(c)
     /\ UNCHANGED <<Producing, dequeued, elements, store>>

\* Mutant: the block stays in the index.
ForgetBlockNot(p, e) == UNCHANGED entries
ForgetBlock(p, e) == entries' = [entries EXCEPT ![p][e].value = null]

RemoveBlock ==
  /\ At("remove")
  /\ ForgetBlock(consumer.best, EntryOf(consumer))
  /\ consumer' = [consumer EXCEPT !.pc = "free"]
  /\ UNCHANGED <<producers, tailIndex, tailBlock, headers, pc, idxEntry, dequeued, blocks, store>>

\* add_block_to_free_list: a dynamically allocated block is destroyed.
FreeBlock ==
  LET b == consumer.block
  IN /\ At("free")
     /\ IF b > InitialPool
        THEN heap' = heap \ {b} /\ UNCHANGED hands
        ELSE FreeBlocks!Give(b) /\ UNCHANGED heap
     /\ consumer' = BlockDone(consumer)
     /\ UNCHANGED <<Producing, dequeued, blocks, initialBlockPoolIndex>>

Pop ==
  \/ \E max \in {0} \union BulkSizes : Call(max)
  \/ Score \/ SayEmpty \/ DequeueBest \/ DequeueBulk \/ PassOver \/ EndBulk
  \/ ReadIndex \/ ReadTail \/ FindBlock \/ TakeElement
  \/ CountEmpty \/ RemoveBlock \/ FreeBlock

Next == (Pop \/ \E p \in Producer : Push(p)) /\ UNCHANGED limit

Spec == Init /\ [][Next]_vars

-----------------------------------------------------------------------------
BlockOrNull == Block \union {null}

\* Type correctness of the queues, the blocks and the threads.
TypeOK ==
  /\ producers \in Seq(Producer)
  /\ {tailIndex, headIndex, dequeueOptimisticCount, dequeueOvercommit} \subseteq [Producer -> Index]
  /\ tailBlock \in [Producer -> BlockOrNull]
  /\ \A p \in Producer :
       /\ entries[p] \in Seq([key : Index, value : BlockOrNull])
       /\ \A h \in ToSet(headers[p]) :
            /\ h.tail \in 0 .. h.capacity - 1
            /\ h.index \in [1 .. h.capacity -> DOMAIN entries[p]]
  /\ elements \in [Block -> [0 .. BLOCK_SIZE - 1 -> Index \union {null}]]
  /\ elementsCompletelyDequeued \in [Block -> 0 .. BLOCK_SIZE]
  /\ initialBlockPoolIndex \in 0 .. InitialPool
  /\ hands \in [1 .. InitialPool -> 0 .. 1]
  /\ heap \subseteq InitialPool + 1 .. InitialPool + Heap
  /\ pc \in [Producer -> {"idle", "slot", "grow", "insert", "block", "construct", "commit"}]
  /\ consumer.pc \in {"idle", "score", "bulk", "index", "tail", "find", "take", "count",
                      "remove", "free"}
  /\ limit \in Limits

\* What the code asserts when the consumer looks for a block
\* (get_block_index_index_for_index): the block index has the block that the
\* element is in, whichever way the ring was turned, replaced by a larger one
\* or moved back meanwhile.
IndexFindsBlock ==
  At("find") =>
    LET c == consumer
        h == headers[c.best][c.localBlockIndex]
        e == entries[c.best][h.index[IndexIndex(c) + 1]]
    IN /\ entries[c.best][h.index[c.tail + 1]].key # INVALID_BLOCK_BASE
       /\ e.key = BlockStart(c.index)
       /\ e.value # null

\* Why the code for a claim that came too late is dead with one consumer: what
\* the consumer has seen in a queue is still there when it claims it, by the
\* code's own comparison, however far the indices have wrapped around.
ClaimSucceeds ==
  At("score") /\ consumer.best # null =>
    LET p == consumer.best
    IN circular_less_than(Minus(dequeueOptimisticCount[p], dequeueOvercommit[p]), tailIndex[p])

\* The blocks somebody may still read or write: those in a block index, the
\* one a producer constructs its element in, and the one the consumer is at.
Holdings ==
  UNION {{<<p, e>> : e \in {e \in DOMAIN entries[p] : entries[p][e].value # null}} : p \in Producer}
BlockOf(x) == entries[x[1]][x[2]].value

Unused == {b \in 1 .. InitialPool : hands[b] = 0} \union (initialBlockPoolIndex + 1 .. InitialPool)
               \union ((InitialPool + 1 .. InitialPool + Heap) \ heap)

\* A block has one owner: it is in one entry of one producer, or unused, never
\* both, so that no two producers construct elements in it, and nobody touches
\* it once it was destroyed or is on the free list.
OneOwnerPerBlock ==
  /\ \A x, y \in Holdings : BlockOf(x) = BlockOf(y) => x = y
  /\ \A x \in Holdings : BlockOf(x) \notin Unused
  /\ \A p \in Producer : pc[p] = "construct" => tailBlock[p] \notin Unused
  /\ consumer.pc \in {"take", "count", "remove", "free"} => consumer.block \notin Unused

\* A block whose elements were all popped goes back: between calls every block
\* in an index is one that holds an element or will hold the next.
NoBlockLost ==
  At("idle") /\ (\A p \in Producer : pc[p] = "idle") =>
    /\ \A p \in Producer : \A e \in DOMAIN entries[p] :
         entries[p][e].value # null =>
           \/ Minus(BlockStart(tailIndex[p]), entries[p][e].key)
                <= Minus(BlockStart(tailIndex[p]), BlockStart(headIndex[p]))
    /\ Cardinality(Holdings) + Cardinality(Unused) = Cardinality(Block)

-----------------------------------------------------------------------------
\* The inbox: the elements from the head on, as the consumer would find them.

EntryAt(p, i) ==
  CHOOSE e \in ToSet(entries[p]) : e.key = BlockStart(i) /\ e.value # null

First(p) == IF consumer.best = p /\ consumer.pc # "score" THEN consumer.index ELSE headIndex[p]

Contents(p) ==
  [n \in 1 .. Minus(tailIndex[p], First(p)) |->
     LET i == Plus(First(p), n - 1)
     IN elements[EntryAt(p, i).value][i % BLOCK_SIZE]]

\* The queue implements the inbox: every producer's messages are delivered
\* once, in the order of its pushes, pushes that fail leave no trace, and a pop
\* says "empty" only after it has seen every queue empty.
AbstractInbox == INSTANCE Inbox WITH
  Message <- Index, NoMessage <- null,
  queue <- [p \in Producer |-> Contents(p)],
  popped <- consumer.item, outcome <- consumer.outcome, scanned <- consumer.scanned
IsInbox == AbstractInbox!Spec
=============================================================================
