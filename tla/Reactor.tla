------------------------------ MODULE Reactor ------------------------------
(***************************************************************************)
(* The shared-nothing reactors of DbSync (src/src/main.cpp) and the bus    *)
(* between them (src/include/itc_queue.hpp).  Each reactor is one thread   *)
(* that repeats: drain the inbox, signal the reactors it wrote to, hand    *)
(* the AOF buffer and the prepared operations to io_uring, wait for one    *)
(* completion and handle it.  A command on a key of another reactor leaves *)
(* a placeholder in the connection's pipeline, travels to the owner in the *)
(* owner's inbox and comes back as a RESP that fills the placeholder.      *)
(*                                                                         *)
(* One action is one step of a thread between two points where the other   *)
(* threads, the kernel or the clients can interfere.  Popping a message,   *)
(* handling it and pushing the answer is one action: a pop touches what    *)
(* only its own thread consumes, so no other thread can tell it from a pop *)
(* right before the push.                                                  *)
(*                                                                         *)
(* Keys are the non-empty keys that fit in an ITCMessage and Values the    *)
(* values that do; the entries and the replies are those of Engine.        *)
(***************************************************************************)
EXTENDS Engine, Integers, Sequences, FiniteSets

CONSTANTS
    Reactors,      \* the reactor threads
    Fds, None,     \* descriptors the kernel may give to clients; no descriptor
    Keys,          \* the keys the clients use
    Owner,         \* engine.fast_owner, as a function from Keys to Reactors
    Ttls,          \* whether the SETs the clients send carry a TTL
    Leftovers,     \* what the unset value of a RESP to a SET may hold
    MaxPipeline,   \* bound: commands in one 4096-byte read
    PoolSize,      \* MAX_CONN_PER_THREAD
    AofOpen,       \* whether the AOF files could be opened (aof_fd >= 0)
    SameBit,       \* the reactors whose bit of a 64-bit mask is that of each:
                   \* itself, and those 64 ids away, if there are so many
    SetupMayFail,  \* whether create_shared_socket may fail
    PushMayFail,   \* whether enqueue may fail (out of memory)
    ItcReadMayFail, \* whether a read of the eventfd may fail: as one at a
                   \* counter of 0 does with -EAGAIN if the kernel heeds
                   \* EFD_NONBLOCK (itc_queue.hpp:78)
    AcceptMayFail   \* whether an accept may fail

ASSUME ConstantsAssumption ==
    /\ None \notin Fds
    /\ Owner \in [Keys -> Reactors]
    /\ Ttls \subseteq BOOLEAN
    /\ Leftovers \subseteq Values
    /\ MaxPipeline \in Nat
    /\ PoolSize \in Nat /\ PoolSize >= 3
    /\ AofOpen \in BOOLEAN
    /\ SameBit \in [Reactors -> SUBSET Reactors]
    /\ \A r \in Reactors : r \in SameBit[r]
    /\ SetupMayFail \in BOOLEAN
    /\ PushMayFail \in BOOLEAN
    /\ ItcReadMayFail \in BOOLEAN
    /\ AcceptMayFail \in BOOLEAN

VARIABLES
    pc,           \* [Reactors -> where the loop of run_reactor stands]
    cur,          \* [Reactors -> the connection whose batch is processed, if any]
    scanned,      \* [Reactors -> producers the running pop found empty]
    signal_mask,  \* [Reactors -> reactors still to be signalled]
    inboxes,      \* [producer -> [consumer -> sequence of messages]]
    event_fd,     \* [Reactors -> whether the eventfd counter is above 0]
    itc_read,     \* [Reactors -> state of the read of the own eventfd]
    conn,         \* [Reactors -> [Fds -> Connection]], fd_to_conn
    pool_free,    \* [Reactors -> size of free_indices of the pool]
    accepting,    \* [Reactors -> whether an accept is outstanding]
    shards,       \* [Reactors -> [Keys -> Entry]], the engines
    aof           \* [Reactors -> the AOF buffers]

(* What the steps leave alone, by part of the system.                      *)
loop == <<cur, scanned, signal_mask>>
bus  == <<inboxes, event_fd, itc_read>>
pool == <<pool_free, accepting>>
data == <<shards, aof>>
vars == <<pc, loop, bus, conn, pool, data>>

-----------------------------------------------------------------------------
(* Messages.  sender_reactor is the producer whose queue holds the message.*)
GetReq(f, i, k)       == [type |-> "GET_REQ", fd |-> f, idx |-> i, key |-> k]
SetReq(f, i, k, v, t) == [type |-> "SET_REQ", fd |-> f, idx |-> i, key |-> k,
                          val |-> v, ttl |-> t]
Resp(m, found, v)     == [type |-> "RESP", fd |-> m.fd, idx |-> m.idx,
                          found |-> found, val |-> v]

Index == Nat \ {0}
Request ==
         [type : {"GET_REQ"}, fd : Fds, idx : Index, key : Keys]
    \cup [type : {"SET_REQ"}, fd : Fds, idx : Index, key : Keys,
          val : Values, ttl : BOOLEAN]
Response == [type : {"RESP"}, fd : Fds, idx : Index, found : BOOLEAN,
             val : Values]
Message == Request \cup Response

(* The reply a RESP is turned into, whatever command it answers.           *)
Answer(m) == IF ~m.found THEN NIL
             ELSE IF m.val = EmptyValue THEN OK
             ELSE Bulk(m.val)

(* ITCContext::push, whose result every caller ignores.                    *)
Sent == IF PushMayFail THEN BOOLEAN ELSE {TRUE}
Pushed(q, m, sent) == IF sent THEN Append(q, m) ELSE q

-----------------------------------------------------------------------------
(* Connections.  op is the operation outstanding on the descriptor: "read"*)
(* and "write" for OpType READ and WRITE, "idle" when none is, "closed"    *)
(* when no Connection is registered for the descriptor.                    *)
Connection == [op : {"closed", "idle", "read", "write"},
               pending_itc : Int,
               pipeline_results : Seq(Reply),
               response_data : Seq(Reply),
               suspended : BOOLEAN]

NoConnection == [op |-> "closed", pending_itc |-> 0, pipeline_results |-> <<>>,
                 response_data |-> <<>>, suspended |-> FALSE]

(* reset(), then the first read of an accepted client.                     *)
Accepted == [NoConnection EXCEPT !.op = "read"]

IsOpen(r, f) == conn[r][f].op # "closed"

(* submit_response.  Mutants: waits for one answer too few; sends at once  *)
(* what is there.                                                          *)
SubmittedOneEarly(c) ==
    IF c.pending_itc > 1 THEN [c EXCEPT !.suspended = TRUE]
    ELSE [c EXCEPT !.pipeline_results = <<>>,
                   !.response_data = c.pipeline_results,
                   !.op = IF c.pipeline_results # <<>> THEN "write" ELSE "read"]

SubmittedAtOnce(c) ==
    [c EXCEPT !.suspended = c.pending_itc > 0,
              !.response_data = c.pipeline_results,
              !.op = IF c.pipeline_results # <<>> THEN "write" ELSE "read"]

Submitted(c) ==
    IF c.pending_itc > 0 THEN [c EXCEPT !.suspended = TRUE]
    ELSE LET reply == IF c.pipeline_results # <<>> THEN c.pipeline_results
                      ELSE c.response_data
         IN  [c EXCEPT !.pipeline_results = <<>>,
                       !.response_data = reply,
                       !.op = IF reply # <<>> THEN "write" ELSE "read"]

(* A command was forwarded: a placeholder is pushed and pending_itc counts *)
(* it.  pipeline_idx is cmd_idx, the number of results pushed before it.   *)
(* Mutant: not counted.                                                    *)
ExpectingUncounted(c) ==
    [c EXCEPT !.pipeline_results = Append(@, Placeholder)]
Expecting(c) ==
    [c EXCEPT !.pipeline_results = Append(@, Placeholder), !.pending_itc = @ + 1]

NextIndex(c) == Len(c.pipeline_results) + 1

(* The connection after a RESP for it was popped.  Mutant: the connection  *)
(* is never resumed.                                                       *)
FilledNotResumed(c, m) ==
    [c EXCEPT !.pipeline_results[m.idx] = Answer(m), !.pending_itc = @ - 1]

Filled(c, m) ==
    LET results == IF m.idx <= Len(c.pipeline_results)
                   THEN [c.pipeline_results EXCEPT ![m.idx] = Answer(m)]
                   ELSE c.pipeline_results
        d == [c EXCEPT !.pipeline_results = results, !.pending_itc = @ - 1]
    IN  IF d.pending_itc = 0 /\ d.suspended
        THEN Submitted([d EXCEPT !.suspended = FALSE])
        ELSE d

(* ConnectionPool: the free indices after an acquire, which may find none, *)
(* and after a release.  Mutants: the empty pool is not noticed; the       *)
(* Connection is released by the handler and by its caller.                *)
AcquiredUnchecked(n) == n - 1
Acquired(n) == IF n > 0 THEN n - 1 ELSE 0

ReleasedTwice(n) == n + 2
Released(n) == n + 1

-----------------------------------------------------------------------------
(* Initial states: what recover_from_aof may leave in the engines (values  *)
(* that are not empty, no TTL), the pool after the accept, the eventfd and *)
(* the AOF connections were taken, both operations prepared.  A reactor    *)
(* without a socket is down: its thread has returned before all that, and  *)
(* it stays the owner of its keys.                                         *)
Recovered ==
    {s \in [Reactors -> [Keys -> {Absent} \cup
                {Stored(v, FALSE) : v \in Values \ {EmptyValue}}]] :
        \A r \in Reactors, k \in Keys : s[r][k].found => Owner[k] = r}

Up(r) == pc[r] # "down"

Init ==
    /\ pc \in [Reactors -> {"drain"} \cup (IF SetupMayFail THEN {"down"} ELSE {})]
    /\ cur = [r \in Reactors |-> None]
    /\ scanned = [r \in Reactors |-> {}]
    /\ signal_mask = [r \in Reactors |-> {}]
    /\ inboxes = [p \in Reactors |-> [q \in Reactors |-> <<>>]]
    /\ event_fd = [r \in Reactors |-> FALSE]
    /\ itc_read = [r \in Reactors |-> IF Up(r) THEN "prepared" ELSE "off"]
    /\ conn = [r \in Reactors |-> [f \in Fds |-> NoConnection]]
    /\ pool_free = [r \in Reactors |-> PoolSize - (IF Up(r) THEN 3 ELSE 0)]
    /\ accepting = [r \in Reactors |-> Up(r)]
    /\ shards \in Recovered
    /\ aof = [r \in Reactors |-> [active |-> FALSE, in_flight |-> FALSE]]

Goto(r, l) == pc' = [pc EXCEPT ![r] = l]

(* append_aof_set: aof_active becomes non-empty unless the file is closed. *)
Appended(a) == [a EXCEPT !.active = a.active \/ AofOpen]

-----------------------------------------------------------------------------
(* Phase 1: draining the inbox.                                            *)

(* try_dequeue takes the oldest message of any producer's queue.           *)
Popped(r, p, t) ==
    /\ pc[r] = "drain"
    /\ inboxes[p][r] # <<>>
    /\ Head(inboxes[p][r]).type = t
    /\ scanned' = [scanned EXCEPT ![r] = {}]

(* The inboxes after r popped a request of p and pushed its answer.        *)
(* Mutant: the request stays in the queue.                                 *)
ExchangedNotPopped(r, p, resp, sent) ==
    [inboxes EXCEPT ![r][p] = Pushed(@, resp, sent)]
Exchanged(r, p, resp, sent) ==
    [inboxes EXCEPT ![p][r] = Tail(@), ![r][p] = Pushed(@, resp, sent)]

(* Whom to signal, noted with each push in a mask of 64 bits.  (A shift by *)
(* 64 and more is one by 64 less on the machines this is built for.)       *)
(* Mutant: the sender, not the target.                                     *)
NotedSelf(r, q) == [signal_mask EXCEPT ![r] = @ \cup {r}]
Noted(r, q) == [signal_mask EXCEPT ![r] = @ \cup SameBit[q]]

(* A GET or SET of another reactor was executed, its answer goes back.     *)
Answered(r, p, resp) ==
    /\ \E sent \in Sent : inboxes' = Exchanged(r, p, resp, sent)
    /\ signal_mask' = Noted(r, p)
    /\ UNCHANGED <<pc, cur, event_fd, itc_read, conn, pool>>

PopGet(r, p) ==
    /\ Popped(r, p, "GET_REQ")
    /\ LET m == Head(inboxes[p][r])
       IN  \E e \in Lookups(shards[r][m.key]) :
             /\ shards' = [shards EXCEPT ![r][m.key] = e]
             /\ Answered(r, p, Resp(m, e.found, e.val))
    /\ UNCHANGED aof

(* process_local_set.  Mutant: the TTL that came with the request is lost. *)
EntryWithoutTtl(m) == Stored(m.val, FALSE)
EntryOf(m) == Stored(m.val, m.ttl)

PopSet(r, p) ==
    /\ Popped(r, p, "SET_REQ")
    /\ LET m == Head(inboxes[p][r])
       IN  /\ shards' = [shards EXCEPT ![r][m.key] = EntryOf(m)]
           /\ \E left \in Leftovers : Answered(r, p, Resp(m, TRUE, left))
    /\ aof' = [aof EXCEPT ![r] = Appended(@)]

(* An answer to a command this reactor forwarded.                          *)
PopResp(r, p) ==
    /\ Popped(r, p, "RESP")
    /\ LET m == Head(inboxes[p][r])
       IN  conn' = IF IsOpen(r, m.fd)
                   THEN [conn EXCEPT ![r][m.fd] = Filled(@, m)]
                   ELSE conn
    /\ inboxes' = [inboxes EXCEPT ![p][r] = Tail(@)]
    /\ UNCHANGED <<pc, cur, signal_mask, event_fd, itc_read, pool, data>>

(* try_dequeue looks at the producers one after the other and fails when   *)
(* each was empty at the moment it was looked at.                          *)
SeeEmpty(r, p) ==
    /\ pc[r] = "drain"
    /\ p \in Reactors \ ({r} \cup scanned[r])
    /\ inboxes[p][r] = <<>>
    /\ scanned' = [scanned EXCEPT ![r] = @ \cup {p}]
    /\ UNCHANGED <<pc, cur, signal_mask, bus, conn, pool, data>>

AllScanned(r) == scanned[r] = Reactors \ {r}

DrainEnds(r) ==
    /\ pc[r] = "drain"
    /\ AllScanned(r)
    /\ Goto(r, "signal")
    /\ scanned' = [scanned EXCEPT ![r] = {}]
    /\ UNCHANGED <<cur, signal_mask, bus, conn, pool, data>>

(* ITCContext::signal, for each reactor in the mask: after the drain and   *)
(* after a batch.  The code goes through the mask in the order of the ids. *)
Signal(r, q) ==
    /\ pc[r] \in {"signal", "respond"}
    /\ q \in signal_mask[r]
    /\ signal_mask' = [signal_mask EXCEPT ![r] = @ \ {q}]
    /\ event_fd' = [event_fd EXCEPT ![q] = itc_read[q] # "off"]
    /\ UNCHANGED <<pc, cur, scanned, inboxes, itc_read, conn, pool, data>>

-----------------------------------------------------------------------------
(* Phase 2: the AOF flush and the operations prepared so far go to the     *)
(* kernel, then the thread waits for a completion.                         *)
Submit(r) ==
    /\ pc[r] = "signal"
    /\ signal_mask[r] = {}
    /\ aof' = [aof EXCEPT ![r] = IF @.active /\ ~@.in_flight
                                 THEN [active |-> FALSE, in_flight |-> TRUE]
                                 ELSE @]
    /\ itc_read' = [itc_read EXCEPT ![r] = IF @ = "prepared" THEN "armed"
                                           ELSE @]
    /\ Goto(r, "wait")
    /\ UNCHANGED <<loop, inboxes, event_fd, conn, pool, shards>>

(* io_uring_wait_cqe returns an error: the loop starts again.              *)
WaitFails(r) ==
    /\ pc[r] = "wait"
    /\ Goto(r, "drain")
    /\ UNCHANGED <<loop, bus, conn, pool, data>>

(* The kernel completes the read of an eventfd: the counter is reset.      *)
KernelReadsEventfd(r) ==
    /\ itc_read[r] = "armed"
    /\ event_fd[r]
    /\ event_fd' = [event_fd EXCEPT ![r] = FALSE]
    /\ itc_read' = [itc_read EXCEPT ![r] = "done"]
    /\ UNCHANGED <<pc, loop, inboxes, conn, pool, data>>

-----------------------------------------------------------------------------
(* Handling one completion, after which the loop starts again.             *)
Handles(r) == pc[r] = "wait" /\ Goto(r, "drain")

(* submit_itc_read.  Mutant: the eventfd is not read again.                *)
SubmitItcReadForgotten(r) == itc_read' = [itc_read EXCEPT ![r] = "off"]
SubmitItcRead(r) == itc_read' = [itc_read EXCEPT ![r] = "prepared"]

HandleItcEvent(r) ==
    /\ Handles(r)
    /\ itc_read[r] = "done"
    /\ SubmitItcRead(r)
    /\ UNCHANGED <<loop, inboxes, event_fd, conn, pool, data>>

(* The read of the eventfd failed: the error branch of every operation     *)
(* closes the eventfd and releases itc_conn; it is never read again.       *)
ItcReadFails(r) ==
    /\ Handles(r)
    /\ ItcReadMayFail
    /\ itc_read[r] = "armed"
    /\ itc_read' = [itc_read EXCEPT ![r] = "off"]
    /\ event_fd' = [event_fd EXCEPT ![r] = FALSE]
    /\ pool_free' = [pool_free EXCEPT ![r] = Released(@)]
    /\ UNCHANGED <<loop, inboxes, conn, accepting, data>>

(* The flush landed or failed and was dropped; or a part of it was written *)
(* and the remainder is submitted again, which changes nothing here.       *)
HandleAof(r) ==
    /\ Handles(r)
    /\ aof[r].in_flight
    /\ \E partial \in BOOLEAN : aof' = [aof EXCEPT ![r].in_flight = partial]
    /\ UNCHANGED <<loop, bus, conn, pool, shards>>

(* A client connected: a Connection for it if the pool has one, otherwise  *)
(* the descriptor is closed; then submit_accept takes another Connection   *)
(* and gives up if there is none.  The one of the accept is not released.  *)
HandleAccept(r, f) ==
    /\ Handles(r)
    /\ accepting[r]
    /\ \A q \in Reactors : ~IsOpen(q, f)
    /\ conn' = IF pool_free[r] > 0 THEN [conn EXCEPT ![r][f] = Accepted]
               ELSE conn
    /\ pool_free' = [pool_free EXCEPT ![r] = Acquired(Acquired(@))]
    /\ accepting' = [accepting EXCEPT ![r] = pool_free[r] > 1]
    /\ UNCHANGED <<loop, bus, data>>

(* An accept failed: nothing is done, submit_accept included.              *)
AcceptFails(r) ==
    /\ Handles(r)
    /\ AcceptMayFail
    /\ accepting[r]
    /\ accepting' = [accepting EXCEPT ![r] = FALSE]
    /\ UNCHANGED <<loop, bus, conn, pool_free, data>>

(* End of file on a read, or an error of a read or write: only a           *)
(* connection with an operation outstanding gets a completion.  Mutant: a  *)
(* client that hung up is noticed whatever the connection does.            *)
ClosableAlways(c) == c.op # "closed"
Closable(c) == c.op \in {"read", "write"}

HandleClose(r, f) ==
    /\ Handles(r)
    /\ Closable(conn[r][f])
    /\ conn' = [conn EXCEPT ![r][f] = NoConnection]
    /\ pool_free' = [pool_free EXCEPT ![r] = Released(@)]
    /\ UNCHANGED <<loop, bus, accepting, data>>

HandleWrite(r, f) ==
    /\ Handles(r)
    /\ conn[r][f].op = "write"
    /\ conn' = [conn EXCEPT ![r][f].op = "read", ![r][f].response_data = <<>>]
    /\ UNCHANGED <<loop, bus, pool, data>>

HandleRead(r, f) ==
    /\ pc[r] = "wait" /\ Goto(r, "batch")
    /\ conn[r][f].op = "read"
    /\ conn' = [conn EXCEPT ![r][f].op = "idle",
                            ![r][f].response_data = <<>>,
                            ![r][f].pipeline_results = <<>>,
                            ![r][f].pending_itc = 0]
    /\ cur' = [cur EXCEPT ![r] = f]
    /\ UNCHANGED <<scanned, signal_mask, bus, pool, data>>

-----------------------------------------------------------------------------
(* Phase 3: the commands of one read, each with its own step.              *)

Current(r) == conn[r][cur[r]]

Parsing(r) ==
    /\ pc[r] = "batch"
    /\ Len(Current(r).pipeline_results) < MaxPipeline
    /\ UNCHANGED <<pc, cur, scanned, event_fd, itc_read, pool>>

(* A command answered on the spot.                                         *)
Replied(r, reply) ==
    /\ conn' = [conn EXCEPT ![r][cur[r]].pipeline_results = Append(@, reply)]
    /\ UNCHANGED <<inboxes, signal_mask>>

LocalSet(r, k, v, t) ==
    /\ Parsing(r)
    /\ Owner[k] = r
    /\ shards' = [shards EXCEPT ![r][k] = Stored(v, t)]
    /\ aof' = [aof EXCEPT ![r] = Appended(@)]
    /\ Replied(r, OK)

LocalGet(r, k) ==
    /\ Parsing(r)
    /\ Owner[k] = r
    /\ \E e \in Lookups(shards[r][k]) :
          /\ shards' = [shards EXCEPT ![r][k] = e]
          /\ Replied(r, GetReply(e))
    /\ UNCHANGED aof

(* PING, CONFIG, EXPIRE and everything that is not understood: answered    *)
(* without touching the engine.                                            *)
OtherCommand(r) ==
    /\ Parsing(r)
    /\ Replied(r, Other)
    /\ UNCHANGED data

(* A command on another reactor's key is pushed to the owner's inbox.      *)
Forward(r, m) ==
    /\ \E sent \in Sent :
          inboxes' = [inboxes EXCEPT ![r][Owner[m.key]] = Pushed(@, m, sent)]
    /\ signal_mask' = Noted(r, Owner[m.key])
    /\ conn' = [conn EXCEPT ![r][cur[r]] = Expecting(@)]
    /\ UNCHANGED data

RemoteSet(r, k, v, t) ==
    /\ Parsing(r)
    /\ Owner[k] # r
    /\ Forward(r, SetReq(cur[r], NextIndex(Current(r)), k, v, t))

RemoteGet(r, k) ==
    /\ Parsing(r)
    /\ Owner[k] # r
    /\ Forward(r, GetReq(cur[r], NextIndex(Current(r)), k))

(* Nothing (more) to parse in the buffer.                                  *)
BatchEnds(r) ==
    /\ pc[r] = "batch" /\ Goto(r, "respond")
    /\ UNCHANGED <<loop, bus, conn, pool, data>>

(* submit_response(conn), once the owners were signalled.                  *)
Respond(r) ==
    /\ pc[r] = "respond" /\ Goto(r, "drain")
    /\ signal_mask[r] = {}
    /\ conn' = [conn EXCEPT ![r][cur[r]] = Submitted(@)]
    /\ cur' = [cur EXCEPT ![r] = None]
    /\ UNCHANGED <<scanned, signal_mask, bus, pool, data>>

-----------------------------------------------------------------------------
Drain(r) == \/ \E p \in Reactors : PopGet(r, p) \/ PopSet(r, p)
                                   \/ PopResp(r, p) \/ SeeEmpty(r, p)
            \/ DrainEnds(r)

Command(r) ==
    \/ \E k \in Keys : LocalGet(r, k) \/ RemoteGet(r, k)
    \/ \E k \in Keys, v \in Values, t \in Ttls :
          LocalSet(r, k, v, t) \/ RemoteSet(r, k, v, t)
    \/ OtherCommand(r)

Completions(r) ==
    \/ HandleItcEvent(r) \/ ItcReadFails(r)
    \/ HandleAof(r) \/ AcceptFails(r)
    \/ \E f \in Fds : \/ HandleAccept(r, f) \/ HandleClose(r, f)
                      \/ HandleWrite(r, f) \/ HandleRead(r, f)

Next == \E r \in Reactors :
            \/ Drain(r)
            \/ \E q \in Reactors : Signal(r, q)
            \/ Submit(r) \/ WaitFails(r) \/ KernelReadsEventfd(r)
            \/ Completions(r)
            \/ Command(r) \/ BatchEnds(r) \/ Respond(r)

Spec == Init /\ [][Next]_vars

(* The threads run whenever they have something to do, the kernel completes*)
(* the read of a readable eventfd, and a completed read is handled however *)
(* many other completions there are: the completion queue is a FIFO.       *)
Fairness == \A r \in Reactors :
    /\ WF_vars(Drain(r))
    /\ WF_vars(\E q \in Reactors : Signal(r, q))
    /\ WF_vars(Submit(r))
    /\ WF_vars(BatchEnds(r))
    /\ WF_vars(Respond(r))
    /\ WF_vars(KernelReadsEventfd(r))
    /\ SF_vars(HandleItcEvent(r))

FairSpec == Spec /\ Fairness

-----------------------------------------------------------------------------
(* Properties.                                                             *)

(* Type correctness: every variable holds values of its kind (the state of *)
(* run_reactor and ITCContext).                                            *)
TypeOK ==
    /\ pc \in [Reactors -> {"drain", "signal", "wait", "batch", "respond", "down"}]
    /\ cur \in [Reactors -> Fds \cup {None}]
    /\ scanned \in [Reactors -> SUBSET Reactors]
    /\ signal_mask \in [Reactors -> SUBSET Reactors]
    /\ inboxes \in [Reactors -> [Reactors -> Seq(Message)]]
    /\ event_fd \in [Reactors -> BOOLEAN]
    /\ itc_read \in [Reactors -> {"prepared", "armed", "done", "off"}]
    /\ conn \in [Reactors -> [Fds -> Connection]]
    /\ pool_free \in [Reactors -> Nat]
    /\ accepting \in [Reactors -> BOOLEAN]
    /\ shards \in [Reactors -> [Keys -> Entry]]
    /\ aof \in [Reactors -> [active : BOOLEAN, in_flight : BOOLEAN]]

(* No lost wakeup: a message in the inbox of a reactor that still reads    *)
(* its eventfd is never left without somebody who will see to it.  Its     *)
(* producer has yet to signal, or the eventfd is readable, or its read has *)
(* completed, or the drain in progress has not looked at that producer;    *)
(* and a reactor that waits has the read of the eventfd outstanding (the   *)
(* order push, mask, signal against read, drain, re-arm, wait).            *)
Noticed(p, r) ==
    \/ r \in signal_mask[p]
    \/ event_fd[r]
    \/ itc_read[r] = "done"
    \/ pc[r] = "drain" /\ p \notin scanned[r]

NoLostWakeup ==
    \A r \in Reactors : itc_read[r] # "off" =>
        /\ \A p \in Reactors : inboxes[p][r] # <<>> => Noticed(p, r)
        /\ pc[r] = "wait" => itc_read[r] # "prepared"

(* The reactor whose client a message in the queue from p to q is about.   *)
Home(p, q, m) == IF m.type = "RESP" THEN q ELSE p

AwaitsAnswer(r, f, i) ==
    /\ conn[r][f].op = "idle"
    /\ i \in DOMAIN conn[r][f].pipeline_results
    /\ conn[r][f].pipeline_results[i] = Placeholder

(* No stale reply: whatever is in flight on the bus, request or RESP, is   *)
(* about a connection that is open, has no operation outstanding and holds *)
(* a placeholder at that index.  So a RESP never reaches a recycled        *)
(* descriptor, although it names its connection by descriptor only         *)
(* (fd_to_conn.find(msg.conn_fd)) and nothing carries a generation.        *)
NoStaleReply ==
    \A p, q \in Reactors : \A n \in DOMAIN inboxes[p][q] :
        LET m == inboxes[p][q][n]
        IN  AwaitsAnswer(Home(p, q, m), m.fd, m.idx)

(* At most one message in flight for one placeholder: no command is        *)
(* executed twice and no reply stored twice.                               *)
OneMessagePerPlaceholder ==
    \A p, q, p2, q2 \in Reactors :
      \A n \in DOMAIN inboxes[p][q], n2 \in DOMAIN inboxes[p2][q2] :
        LET m == inboxes[p][q][n]
            m2 == inboxes[p2][q2][n2]
        IN  /\ m.fd = m2.fd /\ m.idx = m2.idx
            /\ Home(p, q, m) = Home(p2, q2, m2)
            => <<p, q, n>> = <<p2, q2, n2>>

Placeholders(c) ==
    {i \in DOMAIN c.pipeline_results : c.pipeline_results[i] = Placeholder}

(* pending_itc counts the placeholders of the pipeline, whatever order the *)
(* answers come in; it is what decides that a pipeline is complete.        *)
PendingCountsPlaceholders ==
    \A r \in Reactors, f \in Fds :
        conn[r][f].pending_itc = Cardinality(Placeholders(conn[r][f]))

(* A response handed to the kernel has the reply of every command: no      *)
(* placeholder is left in it (submit_response).                            *)
ResponsesComplete ==
    \A r \in Reactors, f \in Fds :
        LET reply == conn[r][f].response_data
        IN  \A i \in DOMAIN reply : reply[i] # Placeholder

(* No forgotten connection: a connection without an operation outstanding  *)
(* is being processed, or is suspended, still waits for an answer, and a   *)
(* message about it is in flight (unless a push may be lost).              *)
NoForgottenConnection ==
    \A r \in Reactors, f \in Fds : conn[r][f].op = "idle" =>
        \/ cur[r] = f
        \/ /\ conn[r][f].suspended
           /\ conn[r][f].pending_itc > 0
           /\ PushMayFail \/ \E p, q \in Reactors :
                \E n \in DOMAIN inboxes[p][q] :
                   /\ inboxes[p][q][n].fd = f
                   /\ Home(p, q, inboxes[p][q][n]) = r

(* While a send is outstanding the kernel may still read response_data, so *)
(* no step of the reactor changes it before the completion.                *)
SendBufferStable ==
    [][\A r \in Reactors, f \in Fds :
          conn[r][f].op = "write" /\ conn'[r][f].op = "write"
          => conn'[r][f].response_data = conn[r][f].response_data]_vars

(* No Connection is released twice: the free indices, the open clients and *)
(* the Connections held by the reactor itself (AOF, the eventfd until its  *)
(* read fails, the accept outstanding) never exceed the pool.              *)
PoolNotOverdrawn ==
    \A r \in Reactors :
        pool_free[r] + Cardinality({f \in Fds : IsOpen(r, f)})
          + (IF Up(r) THEN 1 ELSE 0) + (IF itc_read[r] = "off" THEN 0 ELSE 1)
          + (IF accepting[r] THEN 1 ELSE 0) <= PoolSize

(* Clients can connect: at least while a reactor has no client at all, it  *)
(* has an accept outstanding (benchmarks/v5_benchmarks.md:287 says "Always *)
(* keep one accept pending").                                              *)
AcceptPending ==
    \A r \in Reactors : Up(r) /\ (\A f \in Fds : ~IsOpen(r, f)) => accepting[r]

(* Every pipeline that waits for answers of other reactors is resumed,     *)
(* unless its reactor does not read its eventfd any more, or one of the    *)
(* requests is left in the inbox of a reactor that does not, or is down.   *)
Unanswerable(r, f) ==
    \/ itc_read[r] = "off"
    \/ \E q \in Reactors : itc_read[q] = "off" /\
         \E n \in DOMAIN inboxes[r][q] : inboxes[r][q][n].fd = f

SuspendedResumes ==
    \A r \in Reactors, f \in Fds :
        conn[r][f].suspended ~> ~conn[r][f].suspended \/ Unanswerable(r, f)
=============================================================================
