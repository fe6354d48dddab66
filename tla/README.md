# DbSync in TLA+

A verification development for DbSync, the multi-reactor key-value server of this
repository: TLA+ modules of its reactors, the bus between them and the lock-free queue that
the bus is made of, the ownership of keys, the append-only file, and what one client's byte
stream becomes; checked by TLC on small instances, with theorems checked by TLAPS for all
instances.

## 1. The system

`main` starts one reactor thread per two logical cores. The threads share one object, the
`ITCContext g_itc`; everything else belongs to one thread.

| Component | State it keeps | Operations | Source |
|---|---|---|---|
| Reactor event loop | io_uring, `fd_to_conn`, two signal masks, the batch being parsed | drain, signal, flush, submit and wait, handle one completion, parse and execute a batch, `submit_response` | `src/main.cpp` |
| Connection and pool | `type`, `fd`, `pending_itc`, `pipeline_results`, `response_data`, `suspended`; `free_indices` | `reset`, `acquire`, `release` | `include/connection.hpp` |
| ITC bus | an inbox and an eventfd per reactor | `push`, `pop`, `pop_bulk`, `signal` | `include/itc_queue.hpp` |
| Concurrent queue (vendored) | per inbox: one queue per producer with its blocks and block index, the initial pool of blocks and their free list, the hash table and the list of producers | `enqueue`, `try_dequeue`, `try_dequeue_bulk` of implicit producers | `include/concurrentqueue.h` |
| Engine | the shards of one reactor; `reactor_id`, shard range | `set`, `get`, `fast_owner`, `owns_key` | `include/dbsync_engine.hpp` |
| Append-only file | `aof_active`, `aof_flush`, `aof_in_flight`, the file | `append_aof_set`, flush, completion, `recover_from_aof` | `include/dbsync_engine.hpp`, `src/main.cpp` |
| RESP parser, command handler | none | `parse`, `parse_ttl`, the replies | `include/resp_parser.hpp`, `include/command_handler.hpp` |
| Janitor, `io_context.hpp`, `reactor.*` | – | commented out, unused or empty | `include/`, `src/` |

How they interact. A client is served by the reactor that accepted it. A GET or SET whose
key another reactor owns (`fast_owner`) leaves an empty string in `pipeline_results`, counts
in `pending_itc`, is pushed to the owner's inbox, and the owner's eventfd is written. The
owner pops it in its next drain, executes it and pushes a `RESP` back. When the last `RESP`
of a pipeline was popped, `submit_response` sends all replies together. Each SET is also
encoded into `aof_active`, which the loop swaps with `aof_flush` and writes in one piece when
no write is in flight. An inbox has a queue per producing thread; the threads find theirs in
a lock-free hash table, take blocks for it from a pool that they share, and the consumer,
who walks the list of all producers, gives emptied blocks back.

What is hard about it, and what makes each part correct:

* **Wakeups.** Drain, signal, submit, wait and re-arming of the eventfd interleave with
  pushes and signals of the others. No message may be left without somebody to see to it.
* **Pipelines.** Answers come back in any order, from several owners, while the client may
  have hung up and the kernel may have given its descriptor away. `README.md:83` of the
  repository says that a `generation` id guards against this. The code has none; what guards
  it is that a connection with commands on the bus has no operation outstanding, so nothing
  can close it. The models state exactly that, and it is proved to suffice.
* **Replies.** All reactors together must look like one store to the clients.
* **Resources.** The send buffer and the AOF buffer belong to the kernel while an operation
  is outstanding; Connections are taken from and given back to a pool of 4096.
* **The queue.** Blocks change hands between threads without locks: ABA on the free list, a
  block index that is replaced while it is read, allocations that fail half way, indices
  that wrap around. Every message must arrive once, in the order of its producer.
* **Ownership.** An engine indexes its shards without a check, so it must be asked only for
  keys of its own.
* **The log.** Partial writes, failures and crashes must not reorder or lose what was flushed.
* **The stream.** A 4096-byte read ends where it ends, and the parser keeps nothing of a
  command that was cut.

The full list, each at its line, is under `hazards` in `PROJECT.json`.

## 2. The modules

| Module | Models | Extends / instantiates |
|---|---|---|
| `Engine` | one key's entry, expiry on access, the replies | – |
| `Reactor` | `run_reactor`, the bus, the pool, the eventfds | `Engine` |
| `KVStore` | abstract: one store, pipelines of commands, replies in order | `Engine` |
| `ReactorKV` | the refinement mapping from `Reactor` to `KVStore` | `Reactor`, `KVStore` |
| `Inbox` | abstract: what the bus promises of an inbox | – |
| `ItcQueue` | `enqueue`, `try_dequeue`, `try_dequeue_bulk`, blocks and block indexes; implements `Inbox` | `Inbox`, `BlockPool` |
| `ProducerHash` | `get_or_add_implicit_producer`, `add_producer` | – |
| `BlockPool` | abstract: a block is in one hand or in none | – |
| `FreeList` | the lock-free free list; implements `BlockPool` | `BlockPool` |
| `Sharding` | the ownership arithmetic, with the code's names | – |
| `ShardedReactors` | the owner of a key and its shard, computed from its hash, in `Reactor` | `ReactorKV`, `Sharding` |
| `Routing` | the ways a key reaches an engine, restarts on other machines (proved about, not run) | `Sharding` |
| `AofLog` | the double buffer, the write and its completion, crash and replay | – |
| `ClientStream` | the bytes of one client: reads, `parse`, the batch loop, `parse_ttl`, sends | – |
| `ReactorProofs` | theorems about `Reactor` and the refinement of `KVStore` | `ReactorKV` |
| `InboxProofs` | the theorem about the refinement of `Inbox` | `ItcQueueProofs` |
| `ItcQueueProofs`, `FreeListProofs`, `ProducerHashProofs`, `RoutingProofs` (with `Sharding`), `AofProofs`, `ClientStreamProofs` | theorems | the module they name |
| `MCReactor`, `MCReactorKV` (`ShardedReactors`), `MCItcQueue`, `MCProducerHash`, `MCClientStream` | instances for TLC (`AofLog` and `FreeList` need none) | the module they name |

How they fit together. `Reactor` takes FIFOs between reactors for granted, with a pop that
looks at the producers one after the other: that is `Inbox`, and `ItcQueue` is shown to
implement it. `ItcQueue` takes for granted that a thread has one queue, which the consumer
can reach (`ProducerHash`: `SameProducer`, `OneProducer`, `OnTheList`), and that the free list is
a pool of blocks (`BlockPool`, which `FreeList` implements). `KVStore` is what the reactors
together implement. `ClientStream` explains what a batch of `Reactor` is, `AofLog` what its
AOF flag stands for, `Routing` why its function `Owner` is the same for all reactors.

### Reactor

`pc[r]` is where thread `r` stands: `drain`, `signal`, `wait`, `batch`, `respond`, or `down` if
its socket could not be set up. An action is one step between two points where another
thread, the kernel or a client can interfere.

| Code | Variable |
|---|---|
| the inbox of a reactor, one FIFO per producer | `inboxes[producer][consumer]` |
| progress of `try_dequeue` over the producers | `scanned` |
| the masks `signal_mask` and `remote_signal_mask` (never both in use) | `signal_mask` |
| the eventfd counter, and the io_uring read of it | `event_fd`, `itc_read` |
| `fd_to_conn` and the Connections in it | `conn`, with `op` for the operation outstanding |
| `free_indices.size()`, the outstanding accept | `pool_free`, `accepting` |
| the engines, the AOF buffers | `shards`, `aof` |

`PopGet`, `PopSet`, `PopResp`, `SeeEmpty`, `DrainEnds` are phase 1; `Signal` is one eventfd write
of either mask; `Submit`, `WaitFails`, `KernelReadsEventfd` and the `Handle...` actions are
phase 2 (one per kind of completion, with the error branch as `HandleClose`, `ItcReadFails`
and `AcceptFails`); `LocalGet`, `LocalSet`, `RemoteGet`, `RemoteSet`, `OtherCommand`, `BatchEnds`,
`Respond` are the handler of a read. Popping a request, executing it and pushing the answer
is one action: only the popping thread consumes from its inbox, so nobody can tell it from a
pop immediately before the push.

The faults are constants: a socket that cannot be set up (`SetupMayFail`; the thread returns
and stays the owner of its keys), a push without memory (`PushMayFail`), a failed read of the
eventfd (`ItcReadMayFail`) or accept. The eventfds are `EFD_NONBLOCK` (`itc_queue.hpp:78`): where
io_uring heeds that, the read of one at 0 does not wait but completes with `-EAGAIN`, and the
error branch closes the eventfd. That is `ItcReadFails`, which may come to any read; a reactor it
happened to is deaf, and `SuspendedResumes` excepts the pipelines that wait for it. The signal masks have 64 bits and the code shifts by the reactor's id:
`SameBit` gives the reactors that share a bit, as ids 64 apart do with the shifts of the
machines this is built for. Undefined behaviour appears in one more place: the value a RESP
to a SET carries is whatever was in the memory of the message, any member of `Leftovers`.

### KVStore and the refinement

`KVStore` is what a client may rely on: a command takes effect once, between being read and
being answered; commands of one connection on one key take effect in order; the replies of a
pipeline are sent together in the order of the commands; closing a connection takes nothing
back. `ReactorKV` maps the engines to one store (`kv[k]` is the entry at `Owner[k]`) and a
pipeline to its slots: a placeholder is still a command while its request is in flight, and a
reply from the moment the owner executed it. `LinearizableStore` is `KVStore`'s specification
under that mapping, checked as a temporal property (safety) and proved in `ReactorProofs`. It is about
when commands take effect and which reply stands in which slot. `Deliver` empties the pipeline at
once; what is done with `response_data` afterwards `KVStore` does not observe, but `ResponsesComplete`
and `SendBufferStable` do, and the part of it that the client receives is in `ClientStream`.

### ItcQueue, ProducerHash, FreeList

All three have one action per access to what other threads may change, over sequentially
consistent memory: the code's acquire and release orders are taken to be enough for that,
which the models cannot show.

* `ItcQueue`. A producer constructs its element, inserts a block into the ring of its block
  index when the last one is full (`slot`, `grow`, `insert`, `block`), and publishes the index; an
  allocation may fail at each step and is rolled back. The consumer scores the producers,
  claims elements of the best one, looks for their block, takes them, and gives the block
  back when all were taken. Indices wrap around at `IndexRange`. `Contents` reads off what the
  consumer would find, and `IsInbox` says that it is a FIFO per producer.
* `ProducerHash`. A thread probes the current table, then older ones, re-adds itself to the
  current one when it was found in an older one, and otherwise creates its producer, resizing
  the table if it is half full, with one thread at a time resizing.
* `FreeList`. `freeListRefs` is a counter with a flag in its top bit; the model keeps them
  apart, and `NoCarry` is what makes that right.

### Sharding, ShardedReactors, Routing

A key is its hash. `ShardedReactors` computes the `Owner` of `Reactor` from the hashes
(`OwnerByHash`), so that the run `store` checks the arithmetic of `Sharding` in the reactors: its
`EngineOwnsKey` says that what an engine holds, or is sent, lies in its vector of shards.

`Routing` leaves the bus and the connections out to say what the reactors cannot: it keeps, per
reactor, the keys in its engine and its file, the requests on the bus, and the latest access;
after an access outside the vector (undefined behaviour) it stops. Every way in is there: local
commands, forwarded commands with the key as `set_key` cut it, and the replay after a restart
with the number of reactors of that machine. Its two invariants fail with an empty key, a cut
key or another number of cores, and what they need is stated and proved in `RoutingProofs`, for
all numbers; no run repeats that for some of them.

### AofLog

SETs are numbered; the encoding of one is `Parts` pieces, because a write may end inside it.
`Set` is `engine.set` with `append_aof_set`; `Flush` the swap; `KernelWrites` a complete or partial
write to the file, `KernelFails` a failed one; `HandleFailure`, `HandlePartial`, `HandleComplete`
the three branches of the completion, of which the second may find no sqe for the rest;
`Restart` is `recover_from_aof`, which passes over empty values (`Empties`) and stops at a cut
record, or, if something was appended behind it, may take that for the rest of the record
(SET 0: one that nobody sent). `troubles` remembers failed writes and missing sqes, so that
the properties can say up to when they hold.

### ClientStream

The stream is a sequence of lines (a header, then for each argument its length and itself), and a
read may end between two lines or at any byte of one. What the parser tells apart decides what is
kept of a line that was cut: its start (`StartOf`) is no line, because its CRLF is missing; its end
(`EndOf`) is a line again for the next read, whose text matters only if it begins with `*`
(`Remainders`: the constant `Rests` says which texts have such an end).

`parse` looks at the first byte of the buffer and nothing else (`StartsWithStar`,
`resp_parser.hpp:22`), and reads the number behind it in whatever line that is (`NumArgs`,
`resp_parser.hpp:36-37`). So an argument such as `*2`, or the end of `v*1`, is a header to a read
that starts with it: `Star` gives the number of every such text, 0 for one like `**`. `SET *2 GET
EX 60`, cut before its key, makes the reactor execute `GET EX`. Then it skips a line and takes the
next, as often as the number says; a line that is not there is an empty argument, and all lines
taken are consumed. `executed` is compared with what the client meant (`Meaning`) while no read was
cut, and with the stream itself (`Excerpts`) when one was. `OnlyBlanks` is what remains of it for
clients whose arguments do not look like headers.

`tests/test_main_integration.cpp:197-203` expects `INCOMPLETE`, and nothing consumed, for a command
that is cut; the parser returns the command with empty arguments instead. The run `incomplete` shows it.

The lengths are skipped unread, so an argument that contains CRLF is several lines to `parse`. The
commands of the model have none (section 5).

## 3. What TLC checks

Each `pass` run is exhaustive for its constants.

| Run | Instance | Shows |
|---|---|---|
| `pipeline` | 2 reactors that share a bit of the mask, 1 descriptor, pipelines of 2 on a key of one of them, pushes that may be lost, the AOF, a pool of 5 | messages, placeholders and `pending_itc` agree; responses are complete; nothing stale reaches a reused descriptor |
| `clients` | 2 reactors of which any may be down, 2 descriptors, GETs both ways, accepts and eventfd reads that may fail, fairness | no wakeup is lost, no connection forgotten, no Connection released twice, no send buffer touched; every suspended pipeline is resumed unless it waits for a deaf reactor |
| `store` | 2 clients, pipelines of 2, one key, SETs with TTL; 2 shards per reactor, hashes of which modulo and division by shards give different reactors | the reactors implement `KVStore`; entries and requests are where their hash says |
| `queue` | one producer that pushes for ever and wraps around, or two that push 5 and 2 messages; blocks of 2, an index range of 16, a pool of 1 block and 2 from the heap, allocations that fail | the queue implements `Inbox`; blocks are found, have one owner and go back |
| `producers` | 3 threads, a table of 2 slots, then of 4 and 8; two of the threads on the last slot of each and one on the first | one producer per thread, on the list, no table full, every call returns |
| `freelist` | 3 blocks, 2 takers, 1 giver, fairness | the list implements `BlockPool`; no block is forgotten, no carry, calls go on completing |
| `aof` | 4 SETs of 2 pieces, one with an empty value, 2 crashes, failed writes, missing sqes, fairness | order, completeness and recovery of the log; everything is written in the end |
| `stream` | 2 commands of 8 forms, of which a key is `*2`, a value ends with `*1` and one is `**`; a buffer of 14 lines, reads that end at any line or inside any, sends that are cut | framed commands are executed exactly; what is executed after a cut is whole lines of the stream behind a `*`, and without such arguments a command that only loses its last ones; replies in order |

The bounds. Two reactors are the least that forward to each other, and the theorems of
section 4 hold for any number. `MaxPipeline` commands per read: a forwarded command before and
after a local one, or two that are forwarded. `Fds`: one descriptor that is closed and reused
shows stale replies, two show clients of both reactors at once (they are interchangeable:
`SYMMETRY Clients`, in the run `store` only, which has no liveness). One key is local to one
reactor and remote to the other, two make both forward. `PoolSize` counts the three
Connections a reactor takes for itself: with four it accepts one client, with five two, one
after the other or together. `MaxSets`: a cut record, one behind it and one in each buffer;
`Parts`: a record can be cut. In `queue` a block index starts with room for two blocks, so it
is replaced by a larger one, and the range of indices is over twice what the blocks can hold,
below which the code cannot tell indices apart (`QueueAssumption`). In `producers` there are more
threads than the first table has slots, so a table could be filled: it is replaced, twice, by
threads that overtake each other, and without the test for three quarters (mutant of `Fits`) it
does fill up. `stream` has commands of 3 to 11 lines: a read may take all of one
and a part of the next, or none of it whole. The queues of `Reactor` need no
bound: a connection has at most one batch on the bus.

Four runs are expected to find a violation; each shows a place where the code departs from
what a document or comment of the repository says, quoted under `findings` in `PROJECT.json`:

* `accept_leak`: the Connection of a completed accept is never given back, so a reactor stops
  accepting for good once its pool was used up.
* `remote_replies`: the reply to a SET or to a GET of an empty value that another reactor executed.
* `aof_two_crashes`: a record that a crash has cut hides what is appended behind it.
* `incomplete`: a command of which only the first lines were read is consumed, where a test
  expects that it is left alone.

Other limits are part of the properties that pass. `PiecesInOrder` holds until there is no sqe
for the rest of a partial write, since then the buffers change places. `RepliesInOrder` holds
until a send is short, `FramedExact` until a read is cut. `NothingMissing` holds until the first crash or
trouble. What no property says of such a limit is noted at its hazard in `PROJECT.json`. `OnlyWhatWasSet` and `FlushedSurvive` fail with the
second crash, and with a write that fails after a part of it.

`CHECK_DEADLOCK FALSE` is set where the system or the model really stops: `AofLog` (SETs and
crashes are bounded), `stream` (commands are), and `clients`, where no reactor may have come up.

### Fairness

* `Reactor!Fairness`: weak fairness for the steps a running thread takes by itself (drain,
  signals, submit, the end of a batch, the response) and for the kernel's completion of the
  read of a readable eventfd. `HandleItcEvent` has strong fairness: the thread may handle other
  completions first, but the completion queue is a FIFO, so a completed read is handled in the
  end. Nothing is assumed of clients: they need not send, read or hang up.
* `AofLog`: weak fairness for the flush, which every iteration of the loop passes, the kernel's
  write, and the handling of its completion; not for SETs, crashes or failures.
* `FreeList`: weak fairness for *some* thread that is inside a call: that is what lock-freedom
  promises. `ProducerHash`: weak fairness for every thread inside a call, the operating system's
  scheduler; a call may wait for the thread that resizes the table.
* `ClientStream`: weak fairness for the reactor and the kernel together.

## 4. What is proved

All theorems hold for every value of the constants that the modules' assumptions admit
(`ConstantsAssumption`, `EmptyValueAssumption`, `ShardCountAssumption`, `NoNodeAssumption`, `ThreadAssumption`, `QueueAssumption`, `HashAssumption`, `AofAssumption`,
`StreamAssumption`): any number of reactors, clients, commands, threads, blocks, SETs, with any
of the faults, except where a bullet names what else it assumes. Every invariant that a passing
run checks is a theorem (but the `EngineOwnsKey` of `store`, of which `RoutingProofs` has the
arithmetic), and so are the refinements `LinearizableStore`, `IsPool` and `IsInbox`
(safety).

* `ReactorProofs!TypeCorrect`. `TypeOK` alone is not inductive: a command of a batch names
  `cur[r]`, so `CurrentOK` is added: a reactor that processes a batch has a connection. One
  lemma per operator (what `Submitted`, `Filled`, `Exchanged` return), one per group of actions.
* `ReactorProofs!NoWakeupIsLost`. The invariant is strengthened by two facts: a reactor sends
  nothing to itself, which matters because a drain looks at the queues of the others; and a
  drain starts with nothing scanned. Then every step is of one of few kinds: it leaves the
  bus alone, pushes and notes whom to signal, turns a note into a readable eventfd, a
  readable eventfd into a completion, or a completion into a drain.
* `ReactorProofs`, on connections: `NoReplyIsStale`, `NothingIsAnsweredTwice`, `PendingIsRight`,
  `OnlyCompleteResponses`. The four are inductive only together: `CurrentIdle` (the connection
  being processed has no operation outstanding), `AllAwaited` (a message is about an idle
  connection with a placeholder), `Unique` (one message per placeholder) and `AllSound`
  (`pending_itc` counts the placeholders; none is in a response). Popping a RESP fills the one
  placeholder that no other message is about, so the count goes down by one and what remains
  is still awaited.
* Also there: `NothingIsForgotten`, with `IdleWaits` and `Covered` (an idle connection is
  being processed or suspended with answers to come, and each of its placeholders is covered by
  a message, unless a push may be lost); `SendsAreLeftAlone`, an action property from
  the same invariant; `PoolIsNotOverdrawn`, where each action gives back at most what it held.
* `ReactorProofs!ReactorsImplementStore`: every behaviour of the reactors is one of `KVStore` under
  the mapping. It assumes `StoreAssumption`: no push fails, and the replies the store may give
  are at least the ones the code gives (a SET may be answered with a leftover of the message's
  memory). The invariant `StoreInv` adds three things to the one of `NoReplyIsStale`: a client has
  one reactor, and responses only while it is idle (`HomeInv`); a request is in an inbox of the
  owner of its key, and the requests of one producer follow the order of the pipeline
  (`RequestInv`: so commands on one key, which have one owner, take effect in order). The
  mapping asks for *the* message about a placeholder, which `Unique` makes well defined. Then a
  step executes a command (locally, or when the owner pops it), issues one (forwarding), delivers
  a pipeline (the response, or the RESP that fills the last placeholder), or is a stutter.
* `FreeListProofs`: `NothingEverCarries`, `NoNodeIsLost` and `ImplementsPool`, the refinement of
  `BlockPool`.
  The invariant says what each thread's locals mean (`Locals`), that a node belongs to one
  thread or the list (`Exclusive`), what the flag means (`Marked`), that the counter is the
  number of threads that refer to a node plus the list's own reference (`Counts`), and that
  the links from the head reach only nodes of the list (`Chain`). A head that was read is
  referred to before its link is, so its link does not change under a compare-and-swap.
  `NoNodeIsLost` reads the same invariant at rest: no thread refers to a node, so a node in no
  hand is not owed to anybody and has to be on the list.
* `ItcQueueProofs`: `TypeCorrect`, `BlockIsFound`, `ClaimIsKept`, `BlockHasOneOwner`,
  `BlocksAreKept`, from one invariant `Inv` (`Invariance`). The variables wrap around, so the
  invariant is about numbers that do not, which exist for every producer (`Queue`): `T` elements
  pushed, `H` claimed, `F` moved out, `S` counted in their blocks, `C` blocks put in the block
  index, the first `L` of them gone; the entry `E[m]` of block `m`; and `N[j]`, the blocks that
  there were when the tail of block index `j` moved last. `Order` relates the numbers and keeps
  them in a window of less than half the range, in which two indices can be compared; `Chain`
  says what the entries from `L` on hold, `Rings` that each block index, the replaced ones too,
  has these entries counted back from its tail, `Hand` what the producer knows at each step,
  `Working` what the consumer does, `Emptied` how many elements of a block are counted. The
  consumer may hold a tail that the producer has moved since, or one whose entry was withdrawn
  because there was no memory for its block (`TailRead`): the position it computes is right in
  each case. `Owners` (a block is in one entry, unused, or about to be given back) is what
  `BlockHasOneOwner` and, by counting the blocks, `BlocksAreKept` read off. `QueueAssumption`
  asks that twice the elements of all blocks fit in the range of an index: 2^64 in the code, more
  than the memory of a machine holds. `ClaimIsKept` uses the code's own comparison
(`circular_less_than` of the wrapped indices), which is right within that window only.
* `InboxProofs!ImplementsInbox`: every behaviour of the queue is one of `Inbox` under the mapping
  `Contents`. The mapping looks an element up by its index, so first `Legible`, read off `Inv`: for
  each index that is left there is exactly one entry, and its block. From there on the numbers
  without bound are not needed. A step is one of three kinds: it leaves the entries and the elements
  that are left alone (`Stays`: no two elements share a place in a block, `SlotsDiffer`, so what a
  producer constructs and the consumer moves out is of one element only), or it is the commit
  of an element that was constructed (`Committed`), or it takes the element at the head. `Recalled`
  says that what the consumer has not walked over yet, and nothing else, is missing from
  `scanned`, and that a pop which claimed something says so.
* `ProducerHashProofs`: `TypesAreRight`, `NoTableIsFull`, `OneProducerEach`, `AlwaysTheSame`,
  `AllOnTheList`, for any number of threads, calls and tables. A thread's entry is written once
  and the tables only get larger ones in front, so a lookup that ends without an entry has
  passed every place where one could be (`Scans`: up to where it stands, each place of the
  probe holds another thread's entry; `Paths`: on the way to an entry that is there, no place
  is empty). That a probe ends needs that no table is ever full. A thread counts itself before
  it writes, and a count below three quarters of the table lets it in, so its number is a
  ticket: never more than n threads have a number up to n (`Tickets`), and an entry that moves
  on moves to a table at least as large (`Growing`). `NoTableIsFull` counts slots: no two slots of
  a table hold one key (`Once`), so there are no more of them than threads with a number.
* `ClientStreamProofs`: `TypesOfStream`, `WholeReadsAreExact`, `ExecutedStandsInStream`,
  `CutsOnlyBlank`, `RepliesComeInOrder`, for any commands and arguments, any number of them and any
  buffer. As long as no read was cut, the client's commands fall into three parts: executed, in
  the buffer, on the way (`Divided`). A stream of commands can be cut cleanly between two of them
  only, and `parse` takes exactly the first one of a buffer that holds it whole. With cuts, what
  remains true is `Located`: what was not read yet is the rest of the stream, and what was read and
  not parsed stands somewhere in it, line by line as it was sent, but for a line that a read cut,
  of which one has the start and the other the end. So the lines that `parse`
  takes are lines of the stream at the same distance from each other, behind one that begins with
  `*` or was cut before a `*` (`Excerpts`, inductive with `Located`). `CutsOnlyBlank` follows: if no argument looks like
  a header, the line at the start is a real one, and the excerpt stays inside its command.
* `RoutingProofs`, on `Sharding`: `OwnerIsReactor`, `OwnsIffOwner`, `InRangeIffOwner`: the owner
  of a key is a reactor, `fast_owner` and `owns_key` agree, and the local index is in the vector exactly at
  the owner.
* `RoutingProofs`, on `Routing`: under `RoutingAssumption` (the types of its constants),
  `WholeKeys` (no key is empty or cut by the bus) and `SameCores`,
  `EnginesOwnTheirKeys` and `RequestsStayOwned`, inductive together.
* `AofProofs`: `AofTypeCorrect`, `FileIsInOrder`, `NoSetIsMissing`, `FlushedSurvivesCrash`,
  `NothingMadeUp`. What the file, the unwritten rest of `aof_flush` and `aof_active` hold, one
  after the other, is the `Log`. A step leaves it alone, adds the record of the next SET, or,
  with a failure or a crash, drops a part of it (`NextLog`); that keeps it in order, and whole
  until something is dropped. So a first crash leaves the beginning of the encoding, of which
  recovery yields exactly the records whose end is there (`RegularReplay`) and no cut one is
  followed by others (`RegularCut`); that it holds what was flushed needs that a completion to
  be handled reports nothing that is not in the file (`InFile`).

Induction. The library's induction theorems take an operator as a parameter, which the provers
here cannot instantiate. The proofs that need one state it of a set instead: a set of naturals
that has 0 and with n also n + 1 is `Nat` (`Least`, `Induction`), and the same of sequences
(`SeqInduction`).

Only model-checked. Liveness under fairness (`SuspendedResumes`, `EventuallyWritten`, `LockFree`,
`CallsReturn`, `Answered`) is out of the prover's reach. That is all that is not proved of what
the passing runs check.

## 5. What is not modelled

* Of the vendored queue, what nobody calls: explicit producers and tokens, `enqueue_bulk`,
  `try_enqueue`, move and swap, several consumers of one queue; also its destructors, the end of
  a thread (reactors never end), and memory orders weaker than sequential consistency.
* Bytes: the parser of the log (complete and cut records instead), the encoding of replies;
  arguments that contain CRLF, which `RespParser::parse` splits there, since it never reads the
  lengths, and what such a value does to the parser of the log.
* A value cut at 383 bytes on the bus: the owner stores the cut value, as no property forbids.
* Time: a TTL has passed or not, as a choice at each access. `EXPIRE` and `CONFIG` change nothing in the code
  and are answered at once, like `PING`. A TTL of 2^64/1000 seconds and more wraps around in `parse_ttl`,
  which `ClientStream` models (`TtlRange`) but its run leaves out. Log records have no TTL, so an
  expired key is back after a restart.
* A full submission queue outside the AOF: `io_uring_get_sqe` then returns null, which most
  callers do not check; the reuse of the number of an eventfd that was closed after a failed
  read; a crash of the machine (nothing is ever synced).
* A drain that other reactors keep busy for ever: with two reactors each has only so many
  requests under way, which the run `clients` relies on.
* Unused code: `del`, `clear_signal`, `DEL_REQ`, `io_context.hpp`, `reactor.*`, the janitor
  (commented out, although `main` prints that it is active); console output, tests, benchmarks.

## 6. Plan

Everything planned at first is there: the reactors and the store they implement, ownership and
the log, the parser and the stream, the queue, its free list and its producers, and the proofs
of the safety invariants of all modules, of the store, the inbox and the pool of blocks. What
would add most:

1. `AofLog` with values and TTLs, checked against the store before the crash, and composed with
   `Reactor`: a crash of the whole server and what clients saw.
2. Weaker memory orders for `FreeList` and `ItcQueue`, as stores that others see late.
