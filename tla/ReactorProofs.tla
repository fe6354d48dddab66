--------------------------- MODULE ReactorProofs ---------------------------
(***************************************************************************)
(* Proofs about Reactor, for any number of reactors, descriptors, keys and *)
(* values, any pipeline length and pool size, and with any of the faults   *)
(* the constants allow: no wakeup is lost; answers reach the placeholder   *)
(* they were asked for; no connection is forgotten, none is touched while  *)
(* the kernel sends from it, none is released twice.  And about ReactorKV: *)
(* the reactors implement KVStore, as long as no push fails.               *)
(***************************************************************************)
EXTENDS ReactorKV, SequenceTheorems, FiniteSetTheorems, TLAPS

(* TypeOK is not inductive: the requests of a batch name the connection    *)
(* that is processed, so there must be one.                                *)
CurrentOK == \A r \in Reactors : pc[r] \in {"batch", "respond"} => cur[r] \in Fds

TypeInv == TypeOK /\ CurrentOK

-----------------------------------------------------------------------------
(* What the operators of the module return.                                *)

LEMMA ReplyTypes ==
    /\ OK \in Reply /\ NIL \in Reply /\ Other \in Reply /\ Placeholder \in Reply
    /\ \A v \in Values : Bulk(v) \in Reply
    /\ \A e \in Entry : GetReply(e) \in Reply
BY EmptyValueAssumption
   DEF OK, NIL, Other, Placeholder, Plain, Bulk, Reply, GetReply, Entry

LEMMA EntryTypes ==
    /\ Absent \in Entry
    /\ \A v \in Values, t \in BOOLEAN : Stored(v, t) \in Entry
    /\ \A e \in Entry : Lookups(e) \subseteq Entry
<1>1. Absent \in Entry  BY EmptyValueAssumption DEF Absent, Entry
<1>2. ASSUME NEW v \in Values, NEW t \in BOOLEAN PROVE Stored(v, t) \in Entry
  BY DEF Stored, Entry
<1>3. ASSUME NEW e \in Entry PROVE Lookups(e) \subseteq Entry
  BY <1>1 DEF Lookups
<1>4. QED  BY <1>1, <1>2, <1>3

LEMMA MessageFields ==
    ASSUME NEW m \in Message
    PROVE  /\ m.fd \in Fds /\ m.idx \in Index
           /\ m.type = "GET_REQ" => m.key \in Keys
           /\ m.type = "SET_REQ" => m.key \in Keys /\ m.val \in Values /\ m.ttl \in BOOLEAN
           /\ m.type = "RESP" => m.found \in BOOLEAN /\ m.val \in Values
BY DEF Message, Request, Response

LEMMA RequestTypes ==
    ASSUME NEW f \in Fds, NEW i \in Index, NEW k \in Keys
    PROVE  /\ GetReq(f, i, k) \in Message
           /\ \A v \in Values, t \in BOOLEAN : SetReq(f, i, k, v, t) \in Message
           /\ GetReq(f, i, k).key = k
           /\ \A v \in Values, t \in BOOLEAN : SetReq(f, i, k, v, t).key = k
BY DEF GetReq, SetReq, Message, Request

LEMMA RespType ==
    ASSUME NEW m \in Message, NEW found \in BOOLEAN, NEW v \in Values
    PROVE  Resp(m, found, v) \in Message
BY MessageFields DEF Resp, Message, Response

LEMMA AnswerType ==
    ASSUME NEW m \in Message, m.type = "RESP"
    PROVE  Answer(m) \in Reply
BY MessageFields, ReplyTypes DEF Answer

LEMMA PushedType ==
    ASSUME NEW q \in Seq(Message), NEW m \in Message, NEW sent \in BOOLEAN
    PROVE  Pushed(q, m, sent) \in Seq(Message)
BY DEF Pushed

LEMMA WithResults ==
    ASSUME NEW c \in Connection, NEW results \in Seq(Reply), NEW n \in Int
    PROVE  [c EXCEPT !.pipeline_results = results, !.pending_itc = n] \in Connection
BY DEF Connection

LEMMA SubmittedType ==
    ASSUME NEW c \in Connection
    PROVE  Submitted(c) \in Connection
<1> DEFINE reply == IF c.pipeline_results # <<>> THEN c.pipeline_results
                    ELSE c.response_data
<1>1. reply \in Seq(Reply)  BY DEF Connection
<1>2. <<>> \in Seq(Reply)  BY EmptySeq
<1>3. [c EXCEPT !.suspended = TRUE] \in Connection  BY DEF Connection
<1>4. [c EXCEPT !.pipeline_results = <<>>,
                !.response_data = reply,
                !.op = IF reply # <<>> THEN "write" ELSE "read"] \in Connection
  <2> HIDE DEF reply
  <2>1. QED  BY <1>1, <1>2 DEF Connection
<1>5. QED  BY <1>3, <1>4 DEF Submitted

LEMMA ExpectingType ==
    ASSUME NEW c \in Connection
    PROVE  Expecting(c) \in Connection /\ NextIndex(c) \in Index
<1>1. c.pipeline_results \in Seq(Reply)  BY DEF Connection
<1>2. Append(c.pipeline_results, Placeholder) \in Seq(Reply)
  BY <1>1, ReplyTypes, AppendProperties
<1>3. c.pending_itc + 1 \in Int  BY DEF Connection
<1>4. Expecting(c) \in Connection  BY <1>2, <1>3, WithResults DEF Expecting
<1>5. NextIndex(c) \in Index  BY <1>1, LenProperties DEF NextIndex, Index
<1>6. QED  BY <1>4, <1>5

LEMMA FilledType ==
    ASSUME NEW c \in Connection, NEW m \in Message, m.type = "RESP"
    PROVE  Filled(c, m) \in Connection
<1> DEFINE results == IF m.idx <= Len(c.pipeline_results)
                      THEN [c.pipeline_results EXCEPT ![m.idx] = Answer(m)]
                      ELSE c.pipeline_results
           d == [c EXCEPT !.pipeline_results = results, !.pending_itc = @ - 1]
<1>1. Answer(m) \in Reply  BY AnswerType
<1>2. c.pipeline_results \in Seq(Reply)  BY DEF Connection
<1>3. results \in Seq(Reply)
  <2>1. CASE m.idx <= Len(c.pipeline_results)
    BY <2>1, <1>1, <1>2, ExceptSeq, MessageFields DEF Index
  <2>2. CASE ~(m.idx <= Len(c.pipeline_results))  BY <2>2, <1>2
  <2>3. QED  BY <2>1, <2>2
<1> HIDE DEF results
<1>4. d \in Connection
  <2>1. c.pending_itc - 1 \in Int  BY DEF Connection
  <2>2. QED  BY <1>3, <2>1, WithResults
<1> HIDE DEF d
<1>5. [d EXCEPT !.suspended = FALSE] \in Connection  BY <1>4 DEF Connection
<1>6. QED
  <2>1. Submitted([d EXCEPT !.suspended = FALSE]) \in Connection
    BY <1>5, SubmittedType
  <2>2. Filled(c, m) = IF d.pending_itc = 0 /\ d.suspended
                       THEN Submitted([d EXCEPT !.suspended = FALSE]) ELSE d
    BY DEF Filled, results, d
  <2>3. QED  BY <1>4, <2>1, <2>2

LEMMA AppendedType ==
    ASSUME NEW a \in [active : BOOLEAN, in_flight : BOOLEAN]
    PROVE  Appended(a) \in [active : BOOLEAN, in_flight : BOOLEAN]
<1>1. (a.active \/ AofOpen) \in BOOLEAN  OBVIOUS
<1>2. QED  BY <1>1 DEF Appended

(* Appending to the buffer of one reactor keeps the type of aof.           *)
LEMMA AofReplaced ==
    ASSUME TypeOK, NEW r \in Reactors, aof' = [aof EXCEPT ![r] = Appended(aof[r])]
    PROVE  aof' \in [Reactors -> [active : BOOLEAN, in_flight : BOOLEAN]]
<1>1. aof[r] \in [active : BOOLEAN, in_flight : BOOLEAN]  BY DEF TypeOK
<1>2. Appended(aof[r]) \in [active : BOOLEAN, in_flight : BOOLEAN]
  BY <1>1, AppendedType
<1>3. QED  BY <1>2 DEF TypeOK

LEMMA ConnectionTypes == NoConnection \in Connection /\ Accepted \in Connection
<1>1. <<>> \in Seq(Reply)  BY EmptySeq
<1>2. NoConnection \in Connection  BY <1>1 DEF NoConnection, Connection
<1>3. QED  BY <1>2 DEF Accepted, Connection

-----------------------------------------------------------------------------
(* Type correctness.                                                       *)

LEMMA InitType == Init => TypeInv
<1> SUFFICES ASSUME Init PROVE TypeInv  OBVIOUS
<1>1. inboxes \in [Reactors -> [Reactors -> Seq(Message)]]
  BY EmptySeq DEF Init
<1>2. conn \in [Reactors -> [Fds -> Connection]]  BY ConnectionTypes DEF Init
<1>3. shards \in [Reactors -> [Keys -> Entry]]
  <2> DEFINE S == {Absent} \cup {Stored(v, FALSE) : v \in Values \ {EmptyValue}}
  <2>1. S \subseteq Entry
    <3>1. \A v \in Values : Stored(v, FALSE) \in Entry  BY EntryTypes
    <3>2. QED  BY <3>1, EntryTypes
  <2>2. shards \in [Reactors -> [Keys -> S]]  BY DEF Init, Recovered
  <2> HIDE DEF S
  <2>3. QED  BY <2>1, <2>2
<1>4. pool_free \in [Reactors -> Nat]  BY ConstantsAssumption DEF Init
<1>5. aof \in [Reactors -> [active : BOOLEAN, in_flight : BOOLEAN]]  BY DEF Init
<1>6. pc \in [Reactors -> {"drain", "down"}]  BY DEF Init
<1>7. itc_read \in [Reactors -> {"prepared", "armed", "done", "off"}]  BY DEF Init
<1>8. accepting \in [Reactors -> BOOLEAN]  BY DEF Init, Up
<1>9. /\ cur \in [Reactors -> Fds \cup {None}]
      /\ scanned \in [Reactors -> SUBSET Reactors]
      /\ signal_mask \in [Reactors -> SUBSET Reactors]
      /\ event_fd \in [Reactors -> BOOLEAN]
  BY DEF Init
<1>10. TypeOK
  BY <1>1, <1>2, <1>3, <1>4, <1>5, <1>6, <1>7, <1>8, <1>9 DEF TypeOK
<1>11. QED  BY <1>6, <1>10 DEF TypeInv, CurrentOK

(* The message a pop takes, and the queues it and a push leave behind.     *)
LEMMA PoppedType ==
    ASSUME TypeOK, NEW r \in Reactors, NEW p \in Reactors, inboxes[p][r] # <<>>
    PROVE  /\ Head(inboxes[p][r]) \in Message
           /\ Tail(inboxes[p][r]) \in Seq(Message)
<1>1. inboxes[p][r] \in Seq(Message)  BY DEF TypeOK
<1>2. QED  BY <1>1, HeadTailProperties

LEMMA ExchangedType ==
    ASSUME TypeOK, NEW r \in Reactors, NEW p \in Reactors, NEW m \in Message,
           NEW sent \in BOOLEAN, inboxes[p][r] # <<>>
    PROVE  Exchanged(r, p, m, sent) \in [Reactors -> [Reactors -> Seq(Message)]]
<1> DEFINE popped == [inboxes EXCEPT ![p][r] = Tail(@)]
<1>1. popped \in [Reactors -> [Reactors -> Seq(Message)]]
  <2>1. Tail(inboxes[p][r]) \in Seq(Message)  BY PoppedType
  <2>2. QED  BY <2>1 DEF TypeOK
<1>2. Exchanged(r, p, m, sent) =
        [popped EXCEPT ![r][p] = Pushed(inboxes[r][p], m, sent)]
  BY <1>1 DEF Exchanged
<1> HIDE DEF popped
<1>3. Pushed(inboxes[r][p], m, sent) \in Seq(Message)
  <2>1. inboxes[r][p] \in Seq(Message)  BY DEF TypeOK
  <2>2. QED  BY <2>1, PushedType
<1>4. QED  BY <1>1, <1>2, <1>3

LEMMA AnsweredType ==
    ASSUME TypeOK, NEW r \in Reactors, NEW p \in Reactors, NEW m \in Message,
           inboxes[p][r] # <<>>, Answered(r, p, m)
    PROVE  /\ inboxes' \in [Reactors -> [Reactors -> Seq(Message)]]
           /\ signal_mask' \in [Reactors -> SUBSET Reactors]
<1>1. PICK sent \in Sent : inboxes' = Exchanged(r, p, m, sent)  BY DEF Answered
<1>2. sent \in BOOLEAN  BY <1>1 DEF Sent
<1>3. inboxes' \in [Reactors -> [Reactors -> Seq(Message)]]
  BY <1>1, <1>2, ExchangedType
<1>4. QED  BY <1>3, ConstantsAssumption DEF Answered, Noted, TypeOK

LEMMA DrainType ==
    ASSUME TypeInv, NEW r \in Reactors, Drain(r)
    PROVE  TypeInv'
<1> USE DEF TypeInv
<1>1. CASE \E p \in Reactors : PopGet(r, p)
  <2>1. PICK p \in Reactors : PopGet(r, p)  BY <1>1
  <2> DEFINE m == Head(inboxes[p][r])
  <2>2. m \in Message /\ m.key \in Keys
    BY <2>1, PoppedType, MessageFields DEF PopGet, Popped
  <2>3. PICK e \in Lookups(shards[r][m.key]) :
          /\ shards' = [shards EXCEPT ![r][m.key] = e]
          /\ Answered(r, p, Resp(m, e.found, e.val))
    BY <2>1 DEF PopGet
  <2>4. e \in Entry  BY <2>2, <2>3, EntryTypes DEF TypeOK
  <2>5. e.found \in BOOLEAN /\ e.val \in Values  BY <2>4 DEF Entry
  <2>6. Resp(m, e.found, e.val) \in Message  BY <2>2, <2>5, RespType
  <2>7. /\ inboxes' \in [Reactors -> [Reactors -> Seq(Message)]]
        /\ signal_mask' \in [Reactors -> SUBSET Reactors]
    BY <2>1, <2>3, <2>6, AnsweredType DEF PopGet, Popped
  <2>8. shards' \in [Reactors -> [Keys -> Entry]]
    BY <2>2, <2>3, <2>4 DEF TypeOK
  <2>9. QED  BY <2>1, <2>3, <2>7, <2>8
             DEF PopGet, Popped, Answered, pool, TypeOK, CurrentOK
<1>2. CASE \E p \in Reactors : PopSet(r, p)
  <2>1. PICK p \in Reactors : PopSet(r, p)  BY <1>2
  <2> DEFINE m == Head(inboxes[p][r])
  <2>2. m \in Message /\ m.key \in Keys /\ EntryOf(m) \in Entry
    BY <2>1, PoppedType, MessageFields, EntryTypes DEF PopSet, Popped, EntryOf
  <2>3. PICK left \in Leftovers : Answered(r, p, Resp(m, TRUE, left))
    BY <2>1 DEF PopSet
  <2>4. Resp(m, TRUE, left) \in Message
    BY <2>2, RespType, ConstantsAssumption
  <2>5. /\ inboxes' \in [Reactors -> [Reactors -> Seq(Message)]]
        /\ signal_mask' \in [Reactors -> SUBSET Reactors]
    BY <2>1, <2>3, <2>4, AnsweredType DEF PopSet, Popped
  <2>6. shards' \in [Reactors -> [Keys -> Entry]]
    BY <2>1, <2>2 DEF PopSet, TypeOK
  <2>7. aof' \in [Reactors -> [active : BOOLEAN, in_flight : BOOLEAN]]
    BY <2>1, AofReplaced DEF PopSet
  <2>8. QED  BY <2>1, <2>3, <2>5, <2>6, <2>7
             DEF PopSet, Popped, Answered, pool, TypeOK, CurrentOK
<1>3. CASE \E p \in Reactors : PopResp(r, p)
  <2>1. PICK p \in Reactors : PopResp(r, p)  BY <1>3
  <2> DEFINE m == Head(inboxes[p][r])
  <2>2. /\ m \in Message /\ m.type = "RESP" /\ m.fd \in Fds
        /\ Tail(inboxes[p][r]) \in Seq(Message)
    BY <2>1, PoppedType, MessageFields DEF PopResp, Popped
  <2>3. Filled(conn[r][m.fd], m) \in Connection  BY <2>2, FilledType DEF TypeOK
  <2>4. conn' \in [Reactors -> [Fds -> Connection]]
    BY <2>1, <2>2, <2>3 DEF PopResp, TypeOK
  <2>5. inboxes' \in [Reactors -> [Reactors -> Seq(Message)]]
    BY <2>1, <2>2 DEF PopResp, TypeOK
  <2>6. QED  BY <2>1, <2>4, <2>5
             DEF PopResp, Popped, pool, data, TypeOK, CurrentOK
<1>4. CASE \E p \in Reactors : SeeEmpty(r, p)
  BY <1>4 DEF SeeEmpty, bus, pool, data, TypeOK, CurrentOK
<1>5. CASE DrainEnds(r)
  BY <1>5 DEF DrainEnds, Goto, bus, pool, data, TypeOK, CurrentOK
<1>6. QED  BY <1>1, <1>2, <1>3, <1>4, <1>5 DEF Drain

LEMMA SignalType ==
    ASSUME TypeInv, NEW r \in Reactors, NEW q \in Reactors, Signal(r, q)
    PROVE  TypeInv'
BY DEF TypeInv, Signal, pool, data, loop, bus, TypeOK, CurrentOK

LEMMA SubmitType ==
    ASSUME TypeInv, NEW r \in Reactors, Submit(r)
    PROVE  TypeInv'
<1>1. aof' \in [Reactors -> [active : BOOLEAN, in_flight : BOOLEAN]]
  <2> DEFINE swapped == [active |-> FALSE, in_flight |-> TRUE]
  <2>1. swapped \in [active : BOOLEAN, in_flight : BOOLEAN]  OBVIOUS
  <2> HIDE DEF swapped
  <2>2. aof' = [aof EXCEPT ![r] = IF @.active /\ ~@.in_flight THEN swapped ELSE @]
    BY DEF Submit, swapped
  <2>3. QED  BY <2>1, <2>2 DEF TypeInv, TypeOK
<1>2. /\ pc' \in [Reactors -> {"drain", "signal", "wait", "batch", "respond", "down"}]
      /\ itc_read' \in [Reactors -> {"prepared", "armed", "done", "off"}]
  BY DEF TypeInv, TypeOK, Submit, Goto
<1>3. CurrentOK'  BY DEF TypeInv, TypeOK, CurrentOK, Submit, Goto, loop
<1>4. QED  BY <1>1, <1>2, <1>3 DEF TypeInv, TypeOK, Submit, loop, pool

LEMMA KernelType ==
    ASSUME TypeInv, NEW r \in Reactors, WaitFails(r) \/ KernelReadsEventfd(r)
    PROVE  TypeInv'
<1>1. CASE WaitFails(r)
  BY <1>1 DEF TypeInv, WaitFails, Goto, loop, bus, pool, data, TypeOK, CurrentOK
<1>2. CASE KernelReadsEventfd(r)
  BY <1>2 DEF TypeInv, KernelReadsEventfd, loop, pool, data, TypeOK, CurrentOK
<1>3. QED  BY <1>1, <1>2

(* The Connections the handlers of a read and a write leave behind.        *)
LEMMA HandledTypes ==
    ASSUME NEW c \in Connection
    PROVE  /\ [c EXCEPT !.op = "read", !.response_data = <<>>] \in Connection
           /\ [c EXCEPT !.op = "idle", !.response_data = <<>>,
                        !.pipeline_results = <<>>, !.pending_itc = 0] \in Connection
<1>1. <<>> \in Seq(Reply)  BY EmptySeq
<1>2. [c EXCEPT !.op = "read", !.response_data = <<>>] \in Connection
  BY <1>1 DEF Connection
<1>3. [c EXCEPT !.op = "idle", !.response_data = <<>>,
                !.pipeline_results = <<>>, !.pending_itc = 0] \in Connection
  <2> DEFINE d == [c EXCEPT !.op = "idle", !.response_data = <<>>]
  <2>1. d \in Connection  BY <1>1 DEF Connection
  <2>2. [d EXCEPT !.pipeline_results = <<>>, !.pending_itc = 0] \in Connection
    <3> HIDE DEF d
    <3>1. 0 \in Int  OBVIOUS
    <3>2. QED  BY <1>1, <2>1, <3>1, WithResults, Zenon
  <2>3. QED  BY <2>2
<1>4. QED  BY <1>2, <1>3

LEMMA CompletionsType ==
    ASSUME TypeInv, NEW r \in Reactors, Completions(r)
    PROVE  TypeInv'
<1> USE DEF TypeInv
<1>1. CASE HandleItcEvent(r)
  BY <1>1 DEF HandleItcEvent, Handles, SubmitItcRead, Goto, loop, bus, pool, data,
              TypeOK, CurrentOK
<1>2. CASE ItcReadFails(r)
  BY <1>2 DEF ItcReadFails, Handles, Released, Goto, loop, data, TypeOK, CurrentOK
<1>3. CASE HandleAof(r)
  <2>1. PICK partial \in BOOLEAN : aof' = [aof EXCEPT ![r].in_flight = partial]
    BY <1>3 DEF HandleAof
  <2>2. aof' \in [Reactors -> [active : BOOLEAN, in_flight : BOOLEAN]]
    BY <2>1 DEF TypeOK
  <2>3. QED  BY <1>3, <2>2 DEF HandleAof, Handles, Goto, loop, bus, pool,
                               TypeOK, CurrentOK
<1>4. CASE AcceptFails(r)
  BY <1>4 DEF AcceptFails, Handles, Goto, loop, bus, data, TypeOK, CurrentOK
<1>5. ASSUME NEW f \in Fds, HandleAccept(r, f) PROVE TypeInv'
  <2>1. conn' \in [Reactors -> [Fds -> Connection]]
    BY <1>5, ConnectionTypes DEF HandleAccept, TypeOK
  <2>2. Acquired(Acquired(pool_free[r])) \in Nat  BY DEF Acquired, TypeOK
  <2>3. pool_free' \in [Reactors -> Nat]  BY <1>5, <2>2 DEF HandleAccept, TypeOK
  <2>4. accepting' \in [Reactors -> BOOLEAN]
    <3>1. (pool_free[r] > 1) \in BOOLEAN  OBVIOUS
    <3>2. QED  BY <1>5, <3>1, Zenon DEF HandleAccept, TypeOK
  <2>5. QED  BY <1>5, <2>1, <2>3, <2>4
             DEF HandleAccept, Handles, Goto, loop, bus, data, TypeOK, CurrentOK
<1>6. ASSUME NEW f \in Fds, HandleClose(r, f) PROVE TypeInv'
  BY <1>6, ConnectionTypes
     DEF HandleClose, Handles, Released, Goto, loop, bus, data, TypeOK, CurrentOK
<1>7. ASSUME NEW f \in Fds, HandleWrite(r, f) PROVE TypeInv'
  <2> DEFINE c == [conn[r][f] EXCEPT !.op = "read", !.response_data = <<>>]
  <2>1. c \in Connection
    <3>1. conn[r][f] \in Connection  BY DEF TypeOK
    <3>2. QED  BY <3>1, HandledTypes
  <2>2. conn' = [conn EXCEPT ![r][f] = c]  BY <1>7 DEF HandleWrite, TypeOK
  <2> HIDE DEF c
  <2>3. conn' \in [Reactors -> [Fds -> Connection]]  BY <2>1, <2>2 DEF TypeOK
  <2>4. QED  BY <1>7, <2>3 DEF HandleWrite, Handles, Goto, loop, bus, pool, data,
                               TypeOK, CurrentOK
<1>8. ASSUME NEW f \in Fds, HandleRead(r, f) PROVE TypeInv'
  <2> DEFINE c == [conn[r][f] EXCEPT !.op = "idle", !.response_data = <<>>,
                        !.pipeline_results = <<>>, !.pending_itc = 0]
  <2>1. c \in Connection
    <3>1. conn[r][f] \in Connection  BY DEF TypeOK
    <3>2. QED  BY <3>1, HandledTypes
  <2>2. conn' = [conn EXCEPT ![r][f] = c]  BY <1>8 DEF HandleRead, TypeOK
  <2> HIDE DEF c
  <2>3. conn' \in [Reactors -> [Fds -> Connection]]  BY <2>1, <2>2 DEF TypeOK
  <2>4. QED  BY <1>8, <2>3 DEF HandleRead, Goto, bus, pool, data,
                               TypeOK, CurrentOK
<1>9. QED  BY <1>1, <1>2, <1>3, <1>4, <1>5, <1>6, <1>7, <1>8 DEF Completions

(* A step that replaces one Connection keeps the type of conn.             *)
LEMMA ConnReplaced ==
    ASSUME TypeOK, NEW r \in Reactors, NEW f \in Fds, NEW c \in Connection,
           conn' = [conn EXCEPT ![r][f] = c]
    PROVE  conn' \in [Reactors -> [Fds -> Connection]]
BY DEF TypeOK

LEMMA RepliedType ==
    ASSUME TypeInv, NEW r \in Reactors, pc[r] = "batch", NEW reply \in Reply,
           Replied(r, reply)
    PROVE  conn' \in [Reactors -> [Fds -> Connection]]
<1> DEFINE c == conn[r][cur[r]]
           d == [c EXCEPT !.pipeline_results = Append(c.pipeline_results, reply)]
<1>1. cur[r] \in Fds  BY DEF TypeInv, CurrentOK
<1>2. c \in Connection  BY <1>1 DEF TypeInv, TypeOK
<1>3. conn' = [conn EXCEPT ![r][cur[r]] = d]  BY <1>1 DEF Replied, TypeInv, TypeOK
<1> HIDE DEF c
<1>4. Append(c.pipeline_results, reply) \in Seq(Reply)
  BY <1>2, AppendProperties DEF Connection
<1>5. d \in Connection  BY <1>2, <1>4 DEF Connection
<1> HIDE DEF d
<1>6. QED  BY <1>1, <1>3, <1>5, ConnReplaced DEF TypeInv

LEMMA ForwardType ==
    ASSUME TypeInv, NEW r \in Reactors, pc[r] = "batch", NEW m \in Message,
           m.key \in Keys, Forward(r, m)
    PROVE  /\ conn' \in [Reactors -> [Fds -> Connection]]
           /\ inboxes' \in [Reactors -> [Reactors -> Seq(Message)]]
           /\ signal_mask' \in [Reactors -> SUBSET Reactors]
<1> DEFINE q == Owner[m.key]
<1>1. q \in Reactors  BY ConstantsAssumption
<1>2. cur[r] \in Fds  BY DEF TypeInv, CurrentOK
<1>3. conn' \in [Reactors -> [Fds -> Connection]]
  <2> DEFINE c == Expecting(conn[r][cur[r]])
  <2>1. c \in Connection  BY <1>2, ExpectingType DEF TypeInv, TypeOK
  <2>2. conn' = [conn EXCEPT ![r][cur[r]] = c]  BY DEF Forward
  <2> HIDE DEF c
  <2>3. QED  BY <1>2, <2>1, <2>2, ConnReplaced DEF TypeInv
<1>4. inboxes' \in [Reactors -> [Reactors -> Seq(Message)]]
  <2>1. PICK sent \in Sent :
          inboxes' = [inboxes EXCEPT ![r][q] = Pushed(inboxes[r][q], m, sent)]
    BY DEF Forward
  <2>2. sent \in BOOLEAN  BY <2>1 DEF Sent
  <2>3. inboxes[r][q] \in Seq(Message)  BY <1>1 DEF TypeInv, TypeOK
  <2>4. Pushed(inboxes[r][q], m, sent) \in Seq(Message)
    BY <2>2, <2>3, PushedType
  <2>5. QED  BY <1>1, <2>1, <2>4 DEF TypeInv, TypeOK
<1>5. signal_mask' \in [Reactors -> SUBSET Reactors]
  BY <1>1, ConstantsAssumption DEF Forward, Noted, TypeInv, TypeOK
<1>6. QED  BY <1>3, <1>4, <1>5

LEMMA CommandType ==
    ASSUME TypeInv, NEW r \in Reactors, Command(r)
    PROVE  TypeInv'
<1>1. ASSUME NEW k \in Keys, LocalGet(r, k) PROVE TypeInv'
  <2>1. PICK e \in Lookups(shards[r][k]) :
          /\ shards' = [shards EXCEPT ![r][k] = e]
          /\ Replied(r, GetReply(e))
    BY <1>1 DEF LocalGet
  <2>2. shards[r][k] \in Entry  BY DEF TypeInv, TypeOK
  <2>3. e \in Entry /\ GetReply(e) \in Reply  BY <2>1, <2>2, EntryTypes, ReplyTypes
  <2>4. shards' \in [Reactors -> [Keys -> Entry]]
    BY <2>1, <2>3 DEF TypeInv, TypeOK
  <2>5. conn' \in [Reactors -> [Fds -> Connection]]
    BY <1>1, <2>1, <2>3, RepliedType DEF LocalGet, Parsing
  <2>6. QED  BY <1>1, <2>1, <2>4, <2>5
             DEF LocalGet, Parsing, Replied, pool, TypeInv, TypeOK, CurrentOK
<1>2. ASSUME NEW k \in Keys, RemoteGet(r, k) PROVE TypeInv'
  <2> DEFINE m == GetReq(cur[r], NextIndex(Current(r)), k)
  <2>1. cur[r] \in Fds  BY <1>2 DEF RemoteGet, Parsing, TypeInv, CurrentOK
  <2>2. NextIndex(Current(r)) \in Index
    BY <2>1, ExpectingType DEF Current, TypeInv, TypeOK
  <2>3. m \in Message /\ m.key \in Keys  BY <2>1, <2>2, RequestTypes
  <2>4. Forward(r, m) /\ pc[r] = "batch"  BY <1>2 DEF RemoteGet, Parsing
  <2> HIDE DEF m
  <2>5. /\ conn' \in [Reactors -> [Fds -> Connection]]
        /\ inboxes' \in [Reactors -> [Reactors -> Seq(Message)]]
        /\ signal_mask' \in [Reactors -> SUBSET Reactors]
    BY <2>3, <2>4, ForwardType
  <2>6. QED  BY <1>2, <2>4, <2>5
             DEF RemoteGet, Parsing, Forward, pool, data, TypeInv, TypeOK, CurrentOK
<1>3. ASSUME NEW k \in Keys, NEW v \in Values, NEW t \in Ttls, LocalSet(r, k, v, t)
      PROVE TypeInv'
  <2>1. Stored(v, t) \in Entry  BY EntryTypes, ConstantsAssumption
  <2>2. shards' \in [Reactors -> [Keys -> Entry]]
    BY <1>3, <2>1 DEF LocalSet, TypeInv, TypeOK
  <2>3. aof' \in [Reactors -> [active : BOOLEAN, in_flight : BOOLEAN]]
    <3>1. aof' = [aof EXCEPT ![r] = Appended(aof[r])]  BY <1>3 DEF LocalSet
    <3>2. QED  BY <3>1, AofReplaced DEF TypeInv
  <2>4. conn' \in [Reactors -> [Fds -> Connection]]
    BY <1>3, ReplyTypes, RepliedType DEF LocalSet, Parsing
  <2>5. QED  BY <1>3, <2>2, <2>3, <2>4
             DEF LocalSet, Parsing, Replied, pool, TypeInv, TypeOK, CurrentOK
<1>4. ASSUME NEW k \in Keys, NEW v \in Values, NEW t \in Ttls, RemoteSet(r, k, v, t)
      PROVE TypeInv'
  <2> DEFINE m == SetReq(cur[r], NextIndex(Current(r)), k, v, t)
  <2>1. cur[r] \in Fds  BY <1>4 DEF RemoteSet, Parsing, TypeInv, CurrentOK
  <2>2. NextIndex(Current(r)) \in Index
    BY <2>1, ExpectingType DEF Current, TypeInv, TypeOK
  <2>3. m \in Message /\ m.key \in Keys
    BY <2>1, <2>2, RequestTypes, ConstantsAssumption
  <2>4. Forward(r, m) /\ pc[r] = "batch"  BY <1>4 DEF RemoteSet, Parsing
  <2> HIDE DEF m
  <2>5. /\ conn' \in [Reactors -> [Fds -> Connection]]
        /\ inboxes' \in [Reactors -> [Reactors -> Seq(Message)]]
        /\ signal_mask' \in [Reactors -> SUBSET Reactors]
    BY <2>3, <2>4, ForwardType
  <2>6. QED  BY <1>4, <2>4, <2>5
             DEF RemoteSet, Parsing, Forward, pool, data, TypeInv, TypeOK, CurrentOK
<1>5. ASSUME OtherCommand(r) PROVE TypeInv'
  <2>1. conn' \in [Reactors -> [Fds -> Connection]]
    BY <1>5, ReplyTypes, RepliedType DEF OtherCommand, Parsing
  <2>2. QED  BY <1>5, <2>1
             DEF OtherCommand, Parsing, Replied, pool, data, TypeInv, TypeOK, CurrentOK
<1>6. QED  BY <1>1, <1>2, <1>3, <1>4, <1>5 DEF Command

LEMMA RespondType ==
    ASSUME TypeInv, NEW r \in Reactors, BatchEnds(r) \/ Respond(r)
    PROVE  TypeInv'
<1>1. CASE BatchEnds(r)
  BY <1>1 DEF BatchEnds, Goto, loop, bus, pool, data, TypeInv, TypeOK, CurrentOK
<1>2. CASE Respond(r)
  <2> DEFINE c == Submitted(conn[r][cur[r]])
  <2>1. cur[r] \in Fds  BY <1>2 DEF Respond, TypeInv, CurrentOK
  <2>2. c \in Connection  BY <2>1, SubmittedType DEF TypeInv, TypeOK
  <2>3. conn' = [conn EXCEPT ![r][cur[r]] = c]  BY <1>2 DEF Respond
  <2> HIDE DEF c
  <2>4. conn' \in [Reactors -> [Fds -> Connection]]
    BY <2>1, <2>2, <2>3, ConnReplaced DEF TypeInv
  <2>5. QED  BY <1>2, <2>4
             DEF Respond, Goto, bus, pool, data, TypeInv, TypeOK, CurrentOK
<1>3. QED  BY <1>1, <1>2

LEMMA NextType == TypeInv /\ [Next]_vars => TypeInv'
<1> SUFFICES ASSUME TypeInv, [Next]_vars PROVE TypeInv'  OBVIOUS
<1>1. CASE Next
  <2>1. PICK r \in Reactors :
          \/ Drain(r)
          \/ \E q \in Reactors : Signal(r, q)
          \/ Submit(r) \/ WaitFails(r) \/ KernelReadsEventfd(r)
          \/ Completions(r)
          \/ Command(r) \/ BatchEnds(r) \/ Respond(r)
    BY <1>1 DEF Next
  <2>2. QED  BY <2>1, DrainType, SignalType, SubmitType, KernelType,
                CompletionsType, CommandType, RespondType
<1>2. CASE UNCHANGED vars
  BY <1>2 DEF vars, loop, bus, pool, data, TypeInv, TypeOK, CurrentOK
<1>3. QED  BY <1>1, <1>2

LEMMA TypeInvariance == Spec => []TypeInv
BY InitType, NextType, PTL DEF Spec

(* Every variable of run_reactor and ITCContext keeps its type: the index  *)
(* and the descriptor a message carries are usable where they are used, and*)
(* an engine only ever holds entries of its own kind.                      *)
THEOREM TypeCorrect == Spec => []TypeOK
BY TypeInvariance, PTL DEF TypeInv

-----------------------------------------------------------------------------
(* No wakeup is lost.                                                      *)

(* The inductive strengthening.  A reactor sends nothing to itself, or a   *)
(* drain, which never looks at its own queue, would leave it behind; and a *)
(* drain starts with nothing scanned, or it would skip a producer.         *)
NothingToItself == \A r \in Reactors : inboxes[r][r] = <<>>
ScansAfresh     == \A r \in Reactors : pc[r] # "drain" => scanned[r] = {}

WakeInv == TypeOK /\ NoLostWakeup /\ NothingToItself /\ ScansAfresh

LEMMA InitWakes == Init /\ TypeOK => WakeInv
BY DEF Init, Up, WakeInv, NoLostWakeup, NothingToItself, ScansAfresh

(* Steps that leave the bus and the scan alone and start or end no drain   *)
(* other than by returning to its beginning.                               *)
LEMMA WakesElsewhere ==
    ASSUME WakeInv, TypeOK', NEW r \in Reactors,
           UNCHANGED <<scanned, signal_mask, inboxes, event_fd, itc_read>>,
           NEW l, pc' = [pc EXCEPT ![r] = l], l # "wait", pc[r] # "drain"
    PROVE  WakeInv'
<1>1. NoLostWakeup'
  BY DEF WakeInv, TypeOK, NoLostWakeup, Noticed
<1>2. NothingToItself' /\ ScansAfresh'
  BY DEF WakeInv, TypeOK, NothingToItself, ScansAfresh
<1>3. QED  BY <1>1, <1>2 DEF WakeInv

(* Steps that change none of it.                                           *)
LEMMA WakesUntouched ==
    ASSUME WakeInv, TypeOK', UNCHANGED <<pc, scanned, signal_mask, bus>>
    PROVE  WakeInv'
BY DEF WakeInv, bus, NoLostWakeup, Noticed, NothingToItself, ScansAfresh

(* A push is always noted for a signal.                                    *)
LEMMA WakesAfterPush ==
    ASSUME WakeInv, TypeOK', NEW r \in Reactors, NEW q \in Reactors, r # q,
           \A s, t \in Reactors : inboxes'[s][t] # <<>> =>
              inboxes[s][t] # <<>> \/ (s = r /\ t = q),
           signal_mask' = Noted(r, q),
           UNCHANGED <<pc, event_fd, itc_read>>,
           \A s \in Reactors : scanned'[s] \in {scanned[s], {}}
    PROVE  WakeInv'
<1>1. \A s \in Reactors : signal_mask[s] \subseteq signal_mask'[s]
  BY DEF Noted, WakeInv, TypeOK
<1>2. q \in signal_mask'[r]  BY ConstantsAssumption DEF Noted, WakeInv, TypeOK
<1>3. \A s, t \in Reactors : Noticed(s, t) => Noticed(s, t)'
  BY <1>1 DEF Noticed
<1>4. Noticed(r, q)'  BY <1>2 DEF Noticed
<1>5. NoLostWakeup'  BY <1>3, <1>4 DEF WakeInv, NoLostWakeup
<1>6. NothingToItself' /\ ScansAfresh'
  BY DEF WakeInv, NothingToItself, ScansAfresh
<1>7. QED  BY <1>5, <1>6 DEF WakeInv

LEMMA AnsweredWakes ==
    ASSUME WakeInv, TypeOK', NEW r \in Reactors, NEW p \in Reactors,
           inboxes[p][r] # <<>>, scanned' = [scanned EXCEPT ![r] = {}],
           NEW m, Answered(r, p, m)
    PROVE  WakeInv'
<1>1. r # p  BY DEF WakeInv, NothingToItself
<1>2. PICK sent \in Sent : inboxes' = Exchanged(r, p, m, sent)  BY DEF Answered
<1>3. ASSUME NEW s \in Reactors, NEW t \in Reactors, inboxes'[s][t] # <<>>
      PROVE  inboxes[s][t] # <<>> \/ (s = r /\ t = p)
  <2>1. CASE s = p /\ t = r  BY <2>1
  <2>2. CASE ~(s = p /\ t = r) /\ ~(s = r /\ t = p)
    <3> DEFINE x == Tail(inboxes[p][r])
               y == Pushed(inboxes[r][p], m, sent)
    <3>1. inboxes' = [inboxes EXCEPT ![p][r] = x, ![r][p] = y]
      BY <1>2 DEF Exchanged
    <3> HIDE DEF x, y
    <3>2. inboxes \in [Reactors -> [Reactors -> Seq(Message)]]
      BY DEF WakeInv, TypeOK
    <3>3. inboxes'[s][t] = inboxes[s][t]
      <4>1. CASE s = p
        <5>1. t # r /\ s # r  BY <1>1, <2>2, <4>1
        <5>2. QED  BY <3>1, <3>2, <4>1, <5>1
      <4>2. CASE s = r
        <5>1. t # p /\ s # p  BY <1>1, <2>2, <4>2
        <5>2. QED  BY <3>1, <3>2, <4>2, <5>1
      <4>3. CASE s # p /\ s # r  BY <3>1, <3>2, <4>3
      <4>4. QED  BY <4>1, <4>2, <4>3
    <3>4. QED  BY <1>3, <3>3
  <2>3. QED  BY <2>1, <2>2
<1>4. \A s \in Reactors : scanned'[s] \in {scanned[s], {}}
  BY DEF WakeInv, TypeOK
<1>5. QED  BY <1>1, <1>3, <1>4, WakesAfterPush DEF Answered

LEMMA DrainWakes ==
    ASSUME WakeInv, TypeOK', NEW r \in Reactors, Drain(r)
    PROVE  WakeInv'
<1>1. ASSUME NEW p \in Reactors, PopGet(r, p) PROVE WakeInv'
  <2>1. PICK m : Answered(r, p, m)  BY <1>1 DEF PopGet
  <2>2. QED  BY <1>1, <2>1, AnsweredWakes DEF PopGet, Popped
<1>2. ASSUME NEW p \in Reactors, PopSet(r, p) PROVE WakeInv'
  <2>1. PICK m : Answered(r, p, m)  BY <1>2 DEF PopSet
  <2>2. QED  BY <1>2, <2>1, AnsweredWakes DEF PopSet, Popped
<1>3. ASSUME NEW p \in Reactors, PopResp(r, p) PROVE WakeInv'
  <2>1. \A s, t \in Reactors : inboxes'[s][t] # <<>> => inboxes[s][t] # <<>>
    BY <1>3 DEF PopResp, Popped, WakeInv, TypeOK
  <2>2. scanned' = [scanned EXCEPT ![r] = {}]  BY <1>3 DEF PopResp, Popped
  <2>3. UNCHANGED <<pc, signal_mask, event_fd, itc_read>>  BY <1>3 DEF PopResp
  <2>4. NoLostWakeup'
    <3>1. \A s, t \in Reactors : Noticed(s, t) => Noticed(s, t)'
      BY <2>2, <2>3 DEF WakeInv, TypeOK, Noticed
    <3>2. QED  BY <2>1, <2>3, <3>1 DEF WakeInv, NoLostWakeup
  <2>5. NothingToItself' /\ ScansAfresh'
    BY <2>1, <2>2, <2>3 DEF WakeInv, TypeOK, NothingToItself, ScansAfresh
  <2>6. QED  BY <2>4, <2>5 DEF WakeInv
<1>4. ASSUME NEW p \in Reactors, SeeEmpty(r, p) PROVE WakeInv'
  <2>1. NoLostWakeup'
    BY <1>4 DEF SeeEmpty, bus, WakeInv, TypeOK, NoLostWakeup, Noticed
  <2>2. NothingToItself' /\ ScansAfresh'
    BY <1>4 DEF SeeEmpty, bus, WakeInv, TypeOK, NothingToItself, ScansAfresh
  <2>3. QED  BY <2>1, <2>2 DEF WakeInv
<1>5. CASE DrainEnds(r)
  <2>1. NoLostWakeup'
    BY <1>5 DEF DrainEnds, AllScanned, Goto, bus, WakeInv, TypeOK, NoLostWakeup,
                Noticed, NothingToItself
  <2>2. NothingToItself' /\ ScansAfresh'
    BY <1>5 DEF DrainEnds, Goto, bus, WakeInv, TypeOK, NothingToItself, ScansAfresh
  <2>3. QED  BY <2>1, <2>2 DEF WakeInv
<1>6. QED  BY <1>1, <1>2, <1>3, <1>4, <1>5 DEF Drain

(* A signal leaves the eventfd of its target readable, unless its target   *)
(* no longer has one.                                                      *)
LEMMA SignalWakes ==
    ASSUME WakeInv, TypeOK', NEW r \in Reactors, NEW q \in Reactors, Signal(r, q)
    PROVE  WakeInv'
<1>1. UNCHANGED <<pc, scanned, inboxes, itc_read>>  BY DEF Signal
<1>2. \A s, t \in Reactors : itc_read[t] # "off" /\ Noticed(s, t) => Noticed(s, t)'
  <2> SUFFICES ASSUME NEW s \in Reactors, NEW t \in Reactors,
                      itc_read[t] # "off", Noticed(s, t)
               PROVE  Noticed(s, t)'
    OBVIOUS
  <2>1. CASE t = q
    <3>1. event_fd'[q] = TRUE  BY <2>1 DEF Signal, WakeInv, TypeOK
    <3>2. QED  BY <2>1, <3>1 DEF Noticed
  <2>2. CASE t # q
    <3>1. event_fd'[t] = event_fd[t]  BY <2>2 DEF Signal, WakeInv, TypeOK
    <3>2. t \in signal_mask[s] => t \in signal_mask'[s]
      BY <2>2 DEF Signal, WakeInv, TypeOK
    <3>3. QED  BY <1>1, <3>1, <3>2 DEF Noticed
  <2>3. QED  BY <2>1, <2>2
<1>3. NoLostWakeup'  BY <1>1, <1>2 DEF WakeInv, NoLostWakeup
<1>4. NothingToItself' /\ ScansAfresh'
  BY <1>1 DEF WakeInv, NothingToItself, ScansAfresh
<1>5. QED  BY <1>3, <1>4 DEF WakeInv

LEMMA SubmitWakes ==
    ASSUME WakeInv, TypeOK', NEW r \in Reactors, Submit(r)
    PROVE  WakeInv'
<1>1. NoLostWakeup'
  BY DEF Submit, Goto, loop, WakeInv, TypeOK, NoLostWakeup, Noticed
<1>2. NothingToItself' /\ ScansAfresh'
  BY DEF Submit, Goto, loop, WakeInv, TypeOK, NothingToItself, ScansAfresh
<1>3. QED  BY <1>1, <1>2 DEF WakeInv

(* The kernel moves the notice from the eventfd to a completion.           *)
LEMMA KernelWakes ==
    ASSUME WakeInv, TypeOK', NEW r \in Reactors, KernelReadsEventfd(r)
    PROVE  WakeInv'
<1>1. NoLostWakeup'
  BY DEF KernelReadsEventfd, loop, WakeInv, TypeOK, NoLostWakeup, Noticed
<1>2. NothingToItself' /\ ScansAfresh'
  BY DEF KernelReadsEventfd, loop, WakeInv, TypeOK, NothingToItself, ScansAfresh
<1>3. QED  BY <1>1, <1>2 DEF WakeInv

LEMMA CompletionsWake ==
    ASSUME WakeInv, TypeOK', NEW r \in Reactors, Completions(r)
    PROVE  WakeInv'
<1>1. CASE HandleItcEvent(r)
  <2>1. NoLostWakeup'
    BY <1>1 DEF HandleItcEvent, Handles, SubmitItcRead, Goto, loop, WakeInv, TypeOK,
                NoLostWakeup, Noticed, ScansAfresh
  <2>2. NothingToItself' /\ ScansAfresh'
    BY <1>1 DEF HandleItcEvent, Handles, Goto, loop, WakeInv, TypeOK,
                NothingToItself, ScansAfresh
  <2>3. QED  BY <2>1, <2>2 DEF WakeInv
<1>2. CASE ItcReadFails(r)
  <2>1. NoLostWakeup'
    BY <1>2 DEF ItcReadFails, Handles, Goto, loop, WakeInv, TypeOK,
                NoLostWakeup, Noticed
  <2>2. NothingToItself' /\ ScansAfresh'
    BY <1>2 DEF ItcReadFails, Handles, Goto, loop, WakeInv, TypeOK,
                NothingToItself, ScansAfresh
  <2>3. QED  BY <2>1, <2>2 DEF WakeInv
<1>3. CASE HandleAof(r)
  BY <1>3, WakesElsewhere DEF HandleAof, Handles, Goto, loop, bus
<1>4. CASE AcceptFails(r)
  BY <1>4, WakesElsewhere DEF AcceptFails, Handles, Goto, loop, bus
<1>5. ASSUME NEW f \in Fds, HandleAccept(r, f) PROVE WakeInv'
  BY <1>5, WakesElsewhere DEF HandleAccept, Handles, Goto, loop, bus
<1>6. ASSUME NEW f \in Fds, HandleClose(r, f) PROVE WakeInv'
  BY <1>6, WakesElsewhere DEF HandleClose, Handles, Goto, loop, bus
<1>7. ASSUME NEW f \in Fds, HandleWrite(r, f) PROVE WakeInv'
  BY <1>7, WakesElsewhere DEF HandleWrite, Handles, Goto, loop, bus
<1>8. ASSUME NEW f \in Fds, HandleRead(r, f) PROVE WakeInv'
  BY <1>8, WakesElsewhere DEF HandleRead, Goto, bus
<1>9. QED  BY <1>1, <1>2, <1>3, <1>4, <1>5, <1>6, <1>7, <1>8 DEF Completions

LEMMA ForwardWakes ==
    ASSUME WakeInv, TypeOK', NEW r \in Reactors, NEW m, Parsing(r), Forward(r, m),
           Owner[m.key] \in Reactors, Owner[m.key] # r
    PROVE  WakeInv'
<1> DEFINE q == Owner[m.key]
<1>1. PICK sent \in Sent :
        inboxes' = [inboxes EXCEPT ![r][q] = Pushed(inboxes[r][q], m, sent)]
  BY DEF Forward
<1>2. ASSUME NEW s \in Reactors, NEW t \in Reactors, inboxes'[s][t] # <<>>
      PROVE  inboxes[s][t] # <<>> \/ (s = r /\ t = q)
  BY <1>1, <1>2 DEF WakeInv, TypeOK
<1>3. signal_mask' = Noted(r, q)  BY DEF Forward
<1>4. QED  BY <1>2, <1>3, WakesAfterPush DEF Parsing

LEMMA CommandWakes ==
    ASSUME WakeInv, TypeOK', NEW r \in Reactors, Command(r)
    PROVE  WakeInv'
<1>1. ASSUME NEW k \in Keys, LocalGet(r, k) PROVE WakeInv'
  BY <1>1, WakesUntouched DEF LocalGet, Parsing, Replied, bus
<1>2. ASSUME NEW k \in Keys, RemoteGet(r, k) PROVE WakeInv'
  <2>1. PICK m : m.key = k /\ Forward(r, m)
    BY <1>2 DEF RemoteGet, GetReq
  <2>2. QED  BY <1>2, <2>1, ForwardWakes, ConstantsAssumption DEF RemoteGet
<1>3. ASSUME NEW k \in Keys, NEW v \in Values, NEW t \in Ttls, LocalSet(r, k, v, t)
      PROVE WakeInv'
  BY <1>3, WakesUntouched DEF LocalSet, Parsing, Replied, bus
<1>4. ASSUME NEW k \in Keys, NEW v \in Values, NEW t \in Ttls, RemoteSet(r, k, v, t)
      PROVE WakeInv'
  <2>1. PICK m : m.key = k /\ Forward(r, m)
    BY <1>4 DEF RemoteSet, SetReq
  <2>2. QED  BY <1>4, <2>1, ForwardWakes, ConstantsAssumption DEF RemoteSet
<1>5. ASSUME OtherCommand(r) PROVE WakeInv'
  BY <1>5, WakesUntouched DEF OtherCommand, Parsing, Replied, bus
<1>6. QED  BY <1>1, <1>2, <1>3, <1>4, <1>5 DEF Command

LEMMA NextWakes == WakeInv /\ TypeOK' /\ [Next]_vars => WakeInv'
<1> SUFFICES ASSUME WakeInv, TypeOK', [Next]_vars PROVE WakeInv'  OBVIOUS
<1>1. CASE Next
  <2>1. PICK r \in Reactors :
          \/ Drain(r)
          \/ \E q \in Reactors : Signal(r, q)
          \/ Submit(r) \/ WaitFails(r) \/ KernelReadsEventfd(r)
          \/ Completions(r)
          \/ Command(r) \/ BatchEnds(r) \/ Respond(r)
    BY <1>1 DEF Next
  <2>2. CASE WaitFails(r)
    BY <2>2, WakesElsewhere DEF WaitFails, Goto, loop, bus
  <2>3. CASE BatchEnds(r)
    BY <2>3, WakesElsewhere DEF BatchEnds, Goto, loop, bus
  <2>4. CASE Respond(r)
    BY <2>4, WakesElsewhere DEF Respond, Goto, bus
  <2>5. QED  BY <2>1, <2>2, <2>3, <2>4, DrainWakes, SignalWakes, SubmitWakes,
                KernelWakes, CompletionsWake, CommandWakes
<1>2. CASE UNCHANGED vars
  BY <1>2, WakesUntouched DEF vars, loop
<1>3. QED  BY <1>1, <1>2

(* A message in the inbox of a reactor that still reads its eventfd always *)
(* has somebody who will see to it, and a reactor never waits for          *)
(* completions without the read of its eventfd submitted: the order in     *)
(* which run_reactor drains, signals, submits, waits and re-arms, and push *)
(* before signal on the side of the producer, lose no wakeup.              *)
THEOREM NoWakeupIsLost == Spec => []NoLostWakeup
<1>1. Spec => []TypeOK  BY TypeCorrect
<1>2. Init /\ TypeOK => WakeInv  BY InitWakes
<1>3. WakeInv /\ TypeOK' /\ [Next]_vars => WakeInv'  BY NextWakes
<1>4. WakeInv => NoLostWakeup  BY DEF WakeInv
<1>5. QED  BY <1>1, <1>2, <1>3, <1>4, PTL DEF Spec

-----------------------------------------------------------------------------
(* Queues.  Two messages, requests or answers, may be about one            *)
(* placeholder; B is a value of inboxes.                                   *)
Queues == [Reactors -> [Reactors -> Seq(Message)]]

SamePlaceholder(p, q, m, p2, q2, m2) ==
    Home(p, q, m) = Home(p2, q2, m2) /\ m.fd = m2.fd /\ m.idx = m2.idx

Carries(B, p, q, m) == \E n \in DOMAIN B[p][q] : B[p][q][n] = m

Unique(B) ==
    \A p, q, p2, q2 \in Reactors :
      \A n \in DOMAIN B[p][q], n2 \in DOMAIN B[p2][q2] :
        SamePlaceholder(p, q, B[p][q][n], p2, q2, B[p2][q2][n2]) => p = p2 /\ q = q2 /\ n = n2

Unrelated(B, p, q, m) ==
    \A s, t \in Reactors : \A x : Carries(B, s, t, x) => ~SamePlaceholder(p, q, m, s, t, x)

(* C is B after a push of m, which may have failed.                        *)
Extends(C, B, p, q, m) == C = B \/ C = [B EXCEPT ![p][q] = Append(B[p][q], m)]

LEMMA UniqueIsOne == OneMessagePerPlaceholder <=> Unique(inboxes)
BY DEF OneMessagePerPlaceholder, Unique, SamePlaceholder

(* After a pop no message is about what the popped one was.                *)
LEMMA PopQueue ==
    ASSUME NEW B \in Queues, Unique(B), NEW p \in Reactors, NEW r \in Reactors,
           B[p][r] # <<>>, NEW C, C = [B EXCEPT ![p][r] = Tail(B[p][r])]
    PROVE  /\ C \in Queues /\ Unique(C)
           /\ \A s, t \in Reactors : \A m : Carries(C, s, t, m) =>
                 Carries(B, s, t, m) /\ ~SamePlaceholder(p, r, Head(B[p][r]), s, t, m)
<1> DEFINE off(s, t) == IF s = p /\ t = r THEN 1 ELSE 0
<1>1. B[p][r] \in Seq(Message)  BY DEF Queues
<1>2. /\ Head(B[p][r]) = B[p][r][1] /\ 1 \in DOMAIN B[p][r]
      /\ Tail(B[p][r]) \in Seq(Message)
      /\ DOMAIN Tail(B[p][r]) = 1 .. Len(B[p][r]) - 1
      /\ \A n \in DOMAIN Tail(B[p][r]) : Tail(B[p][r])[n] = B[p][r][n + 1]
      /\ DOMAIN B[p][r] = 1 .. Len(B[p][r]) /\ Len(B[p][r]) \in Nat
  BY <1>1, HeadTailProperties, LenProperties, EmptySeq
<1>3. /\ C \in Queues
      /\ C[p][r] = Tail(B[p][r])
      /\ \A s, t \in Reactors : ~(s = p /\ t = r) => C[s][t] = B[s][t]
  BY <1>2 DEF Queues
<1>4. ASSUME NEW s \in Reactors, NEW t \in Reactors, NEW n \in DOMAIN C[s][t]
      PROVE  /\ n + off(s, t) \in DOMAIN B[s][t]
             /\ C[s][t][n] = B[s][t][n + off(s, t)]
             /\ s = p /\ t = r => n + off(s, t) # 1
             /\ n \in Int
  <2>1. CASE s = p /\ t = r
    <3>1. n \in 1 .. Len(B[p][r]) - 1 /\ C[p][r][n] = B[p][r][n + 1]
      BY <1>2, <1>3, <1>4, <2>1
    <3>2. n \in Int /\ n + 1 \in 1 .. Len(B[p][r]) /\ n + 1 # 1  BY <1>2, <3>1
    <3>3. off(s, t) = 1  BY <2>1
    <3> HIDE DEF off
    <3>4. n + off(s, t) = n + 1  BY <3>3
    <3>5. DOMAIN B[s][t] = 1 .. Len(B[p][r]) /\ C[s][t] = C[p][r] /\ B[s][t] = B[p][r]
      BY <1>2, <2>1, Zenon
    <3>6. n + off(s, t) \in DOMAIN B[s][t]  BY <3>2, <3>4, <3>5, Zenon
    <3>7. C[s][t][n] = B[s][t][n + off(s, t)]  BY <3>1, <3>4, <3>5, Zenon
    <3> QED  BY <3>2, <3>4, <3>6, <3>7, Zenon
  <2>2. CASE ~(s = p /\ t = r)
    <3>1. C[s][t] = B[s][t] /\ off(s, t) = 0  BY <1>3, <2>2
    <3>2. n \in Int  BY ONLY <1>4, <3>1, LenProperties DEF Queues
    <3> QED  BY <1>4, <2>2, <3>1, <3>2
  <2> QED  BY <2>1, <2>2
<1>5. Unique(C)
  <2> SUFFICES ASSUME NEW s \in Reactors, NEW t \in Reactors,
                      NEW s2 \in Reactors, NEW t2 \in Reactors,
                      NEW n \in DOMAIN C[s][t], NEW n2 \in DOMAIN C[s2][t2],
                      SamePlaceholder(s, t, C[s][t][n], s2, t2, C[s2][t2][n2])
               PROVE  s = s2 /\ t = t2 /\ n = n2
    BY DEF Unique
  <2>1. s = s2 /\ t = t2 /\ n + off(s, t) = n2 + off(s2, t2)
    <3> PICK i : i = n + off(s, t)  OBVIOUS
    <3> PICK j : j = n2 + off(s2, t2)  OBVIOUS
    <3> HIDE DEF off
    <3>1. i \in DOMAIN B[s][t] /\ C[s][t][n] = B[s][t][i]  BY <1>4
    <3>2. j \in DOMAIN B[s2][t2] /\ C[s2][t2][n2] = B[s2][t2][j]  BY <1>4
    <3>3. SamePlaceholder(s, t, B[s][t][i], s2, t2, B[s2][t2][j])  BY <3>1, <3>2
    <3>4. s = s2 /\ t = t2 /\ i = j  BY <3>1, <3>2, <3>3, Zenon DEF Unique
    <3> QED  BY <3>4
  <2>2. off(s, t) = off(s2, t2) /\ off(s, t) \in Int  BY <2>1
  <2>3. n \in Int /\ n2 \in Int  BY <1>4
  <2> HIDE DEF off
  <2> QED  BY <2>1, <2>2, <2>3
<1>6. ASSUME NEW s \in Reactors, NEW t \in Reactors, NEW m, Carries(C, s, t, m)
      PROVE  Carries(B, s, t, m) /\ ~SamePlaceholder(p, r, Head(B[p][r]), s, t, m)
  <2> PICK n \in DOMAIN C[s][t] : C[s][t][n] = m  BY <1>6 DEF Carries
  <2>1. Carries(B, s, t, m)  BY <1>4 DEF Carries
  <2>2. ~SamePlaceholder(p, r, B[p][r][1], s, t, B[s][t][n + off(s, t)])
    <3> PICK i : i = n + off(s, t)  OBVIOUS
    <3> HIDE DEF off
    <3>1. i \in DOMAIN B[s][t] /\ (s = p /\ t = r => i # 1)  BY <1>4
    <3>2. 1 \in DOMAIN B[p][r]  BY <1>2
    <3> QED  BY <3>1, <3>2 DEF Unique
  <2> HIDE DEF off
  <2>3. B[s][t][n + off(s, t)] = m /\ B[p][r][1] = Head(B[p][r])  BY <1>2, <1>4
  <2> QED  BY <2>1, <2>2, <2>3
<1> QED  BY <1>3, <1>5, <1>6

LEMMA PushQueue ==
    ASSUME NEW B \in Queues, Unique(B), NEW p \in Reactors, NEW q \in Reactors,
           NEW m \in Message,
           Unrelated(B, p, q, m), NEW C, Extends(C, B, p, q, m)
    PROVE  /\ C \in Queues /\ Unique(C)
           /\ \A s, t \in Reactors : \A x : Carries(C, s, t, x) =>
                 Carries(B, s, t, x) \/ (s = p /\ t = q /\ x = m)
<1>1. CASE C = B  BY <1>1
<1>2. CASE C = [B EXCEPT ![p][q] = Append(B[p][q], m)]
  <2> DEFINE l == Len(B[p][q]) + 1
  <2>1. B[p][q] \in Seq(Message)  BY DEF Queues
  <2>2. /\ Append(B[p][q], m) \in Seq(Message)
        /\ DOMAIN Append(B[p][q], m) = 1 .. l
        /\ DOMAIN B[p][q] = 1 .. Len(B[p][q]) /\ Len(B[p][q]) \in Nat
        /\ \A n \in 1 .. Len(B[p][q]) : Append(B[p][q], m)[n] = B[p][q][n]
        /\ Append(B[p][q], m)[l] = m
    BY <2>1, AppendProperties, LenProperties
  <2>3. /\ C \in Queues
        /\ C[p][q] = Append(B[p][q], m)
        /\ \A s, t \in Reactors : ~(s = p /\ t = q) => C[s][t] = B[s][t]
    BY <1>2, <2>2 DEF Queues
  <2>4. ASSUME NEW s \in Reactors, NEW t \in Reactors, NEW n \in DOMAIN C[s][t]
        PROVE  \/ n \in DOMAIN B[s][t] /\ C[s][t][n] = B[s][t][n]
               \/ s = p /\ t = q /\ n = l /\ C[s][t][n] = m
    <3>1. CASE s = p /\ t = q
      <4>1. C[s][t] = Append(B[p][q], m) /\ B[s][t] = B[p][q]  BY <2>3, <3>1
      <4>2. n \in 1 .. l /\ (n = l \/ n \in 1 .. Len(B[p][q]))  BY <2>2, <2>4, <4>1
      <4>3. CASE n = l  BY <2>2, <3>1, <4>1, <4>3
      <4>4. CASE n \in 1 .. Len(B[p][q])  BY <2>2, <4>1, <4>4
      <4> QED  BY <4>2, <4>3, <4>4
    <3>2. CASE ~(s = p /\ t = q)  BY <2>3, <2>4, <3>2
    <3> QED  BY <3>1, <3>2
  <2>5. ASSUME NEW s \in Reactors, NEW t \in Reactors, NEW n \in DOMAIN B[s][t]
        PROVE  ~SamePlaceholder(p, q, m, s, t, B[s][t][n]) /\ ~SamePlaceholder(s, t, B[s][t][n], p, q, m)
    <3>1. Carries(B, s, t, B[s][t][n])  BY DEF Carries
    <3> QED  BY <3>1 DEF SamePlaceholder, Unrelated
  <2>6. Unique(C)
    <3> SUFFICES ASSUME NEW s \in Reactors, NEW t \in Reactors,
                        NEW s2 \in Reactors, NEW t2 \in Reactors,
                        NEW n \in DOMAIN C[s][t], NEW n2 \in DOMAIN C[s2][t2],
                        SamePlaceholder(s, t, C[s][t][n], s2, t2, C[s2][t2][n2])
                 PROVE  s = s2 /\ t = t2 /\ n = n2
      BY DEF Unique
    <3>1. CASE n \in DOMAIN B[s][t] /\ C[s][t][n] = B[s][t][n]
               /\ n2 \in DOMAIN B[s2][t2] /\ C[s2][t2][n2] = B[s2][t2][n2]
      BY <3>1 DEF Unique
    <3> QED  BY <2>4, <2>5, <3>1
  <2>7. ASSUME NEW s \in Reactors, NEW t \in Reactors, NEW x, Carries(C, s, t, x)
        PROVE  Carries(B, s, t, x) \/ (s = p /\ t = q /\ x = m)
    BY <2>4, <2>7 DEF Carries
  <2> QED  BY <2>3, <2>6, <2>7
<1> QED  BY <1>1, <1>2 DEF Extends

-----------------------------------------------------------------------------
(* Connections.                                                            *)

Awaits(c, i) ==
    /\ c.op = "idle"
    /\ i \in DOMAIN c.pipeline_results
    /\ c.pipeline_results[i] = Placeholder

Sound(c) ==
    /\ c.pending_itc = Cardinality(Placeholders(c))
    /\ \A i \in DOMAIN c.response_data : c.response_data[i] # Placeholder

LEMMA RealReplies ==
    /\ OK # Placeholder /\ NIL # Placeholder /\ Other # Placeholder
    /\ \A v : Bulk(v) # Placeholder
    /\ \A e : GetReply(e) # Placeholder
    /\ \A m : Answer(m) # Placeholder
<1>1. Placeholder.kind = "placeholder" /\ OK.kind = "OK" /\ NIL.kind = "NIL" /\ Other.kind = "other"
  BY DEF Placeholder, OK, NIL, Other, Plain
<1>2. \A v : Bulk(v).kind = "bulk"  BY DEF Bulk
<1>3. /\ OK # Placeholder /\ NIL # Placeholder /\ Other # Placeholder
      /\ \A v : Bulk(v) # Placeholder
  BY <1>1, <1>2
<1> QED  BY <1>3 DEF GetReply, Answer

LEMMA PlaceholdersFinite ==
    ASSUME NEW c \in Connection
    PROVE  /\ DOMAIN c.pipeline_results = 1 .. Len(c.pipeline_results)
           /\ Len(c.pipeline_results) \in Nat
           /\ IsFiniteSet(Placeholders(c)) /\ Cardinality(Placeholders(c)) \in Nat
<1>1. c.pipeline_results \in Seq(Reply)  BY DEF Connection
<1>2. /\ DOMAIN c.pipeline_results = 1 .. Len(c.pipeline_results)
      /\ Len(c.pipeline_results) \in Nat
  BY <1>1, LenProperties
<1>3. IsFiniteSet(1 .. Len(c.pipeline_results))  BY <1>2, FS_Interval
<1>4. Placeholders(c) \subseteq 1 .. Len(c.pipeline_results)  BY <1>2 DEF Placeholders
<1>5. IsFiniteSet(Placeholders(c))  BY <1>3, <1>4, FS_Subset
<1> QED  BY <1>2, <1>5, FS_CardinalityType

LEMMA NobodyWaiting ==
    ASSUME NEW c, c.pipeline_results = <<>>
    PROVE  Placeholders(c) = {} /\ Cardinality(Placeholders(c)) = 0
BY FS_EmptySet DEF Placeholders

(* A Connection that was just registered, one that is gone, and those that *)
(* the handlers of a write and of a read leave behind.                     *)
LEMMA FreshSound ==
    /\ Sound(NoConnection) /\ Sound(Accepted)
    /\ \A i : ~Awaits(NoConnection, i) /\ ~Awaits(Accepted, i)
<1>1. /\ NoConnection.pipeline_results = <<>> /\ NoConnection.pending_itc = 0
      /\ NoConnection.response_data = <<>>
      /\ Accepted.pipeline_results = <<>> /\ Accepted.pending_itc = 0
      /\ Accepted.response_data = <<>>
  BY DEF NoConnection, Accepted
<1> QED  BY <1>1, NobodyWaiting DEF Sound, Awaits

LEMMA HandledSound ==
    ASSUME NEW c \in Connection, Sound(c), NEW d,
           \/ d = [c EXCEPT !.op = "read", !.response_data = <<>>]
           \/ d = [c EXCEPT !.op = "idle", !.response_data = <<>>,
                            !.pipeline_results = <<>>, !.pending_itc = 0]
    PROVE  /\ Sound(d)
           /\ d.op = "idle" => d.pipeline_results = <<>>
<1>1. CASE d = [c EXCEPT !.op = "read", !.response_data = <<>>]
  <2>1. /\ d.pipeline_results = c.pipeline_results /\ d.pending_itc = c.pending_itc
        /\ d.response_data = <<>> /\ d.op = "read"
    BY <1>1 DEF Connection
  <2>2. Placeholders(d) = Placeholders(c)  BY <2>1 DEF Placeholders
  <2> QED  BY <2>1, <2>2 DEF Sound
<1>2. CASE d = [c EXCEPT !.op = "idle", !.response_data = <<>>,
                         !.pipeline_results = <<>>, !.pending_itc = 0]
  <2>1. /\ d.pipeline_results = <<>> /\ d.pending_itc = 0
        /\ d.response_data = <<>>
    BY <1>2 DEF Connection
  <2> QED  BY <2>1, NobodyWaiting DEF Sound
<1> QED  BY <1>1, <1>2

LEMMA RepliedSound ==
    ASSUME NEW c \in Connection, Sound(c), NEW reply \in Reply, reply # Placeholder,
           NEW d, d = [c EXCEPT !.pipeline_results = Append(c.pipeline_results, reply)]
    PROVE  Sound(d) /\ d.op = c.op /\ \A i : Awaits(c, i) => Awaits(d, i)
<1> DEFINE l == Len(c.pipeline_results)
<1>1. /\ d.pipeline_results = Append(c.pipeline_results, reply)
      /\ d.pending_itc = c.pending_itc
      /\ d.response_data = c.response_data /\ d.op = c.op
      /\ c.pipeline_results \in Seq(Reply)
  BY DEF Connection
<1>2. /\ DOMAIN d.pipeline_results = 1 .. l + 1 /\ l \in Nat
      /\ DOMAIN c.pipeline_results = 1 .. l
      /\ \A i \in 1 .. l : d.pipeline_results[i] = c.pipeline_results[i]
      /\ d.pipeline_results[l + 1] = reply
  BY <1>1, AppendProperties, LenProperties
<1> HIDE DEF l
<1>3. Placeholders(d) = Placeholders(c)  BY <1>2 DEF Placeholders
<1> QED  BY <1>1, <1>2, <1>3 DEF Sound, Awaits

LEMMA ExpectingSound ==
    ASSUME NEW c \in Connection, Sound(c), c.op = "idle"
    PROVE  /\ Sound(Expecting(c)) /\ Expecting(c).op = "idle"
           /\ \A i : Awaits(c, i) => Awaits(Expecting(c), i)
           /\ Awaits(Expecting(c), NextIndex(c)) /\ ~Awaits(c, NextIndex(c))
<1> DEFINE l == Len(c.pipeline_results)
           d == Expecting(c)
<1>1. /\ d.pipeline_results = Append(c.pipeline_results, Placeholder)
      /\ d.pending_itc = c.pending_itc + 1
      /\ d.response_data = c.response_data /\ d.op = c.op
      /\ c.pipeline_results \in Seq(Reply)
      /\ NextIndex(c) = l + 1
  BY DEF Connection, Expecting, NextIndex
<1> HIDE DEF d
<1>2. /\ DOMAIN d.pipeline_results = 1 .. l + 1 /\ l \in Nat
      /\ DOMAIN c.pipeline_results = 1 .. l
      /\ \A i \in 1 .. l : d.pipeline_results[i] = c.pipeline_results[i]
      /\ d.pipeline_results[l + 1] = Placeholder
  BY <1>1, AppendProperties, LenProperties, ReplyTypes
<1> HIDE DEF l
<1>3. Placeholders(d) = Placeholders(c) \union {l + 1} /\ l + 1 \notin Placeholders(c)
  BY <1>2 DEF Placeholders
<1>4. Cardinality(Placeholders(d)) = Cardinality(Placeholders(c)) + 1
  BY <1>3, PlaceholdersFinite, FS_AddElement
<1>5. Sound(d)  BY <1>1, <1>4 DEF Sound
<1>6. l + 1 \notin DOMAIN c.pipeline_results /\ l + 1 \in DOMAIN d.pipeline_results
  BY <1>2
<1>7. d = Expecting(c)  BY DEF d
<1> QED  BY <1>1, <1>2, <1>5, <1>6, <1>7 DEF Awaits

LEMMA SubmittedSound ==
    ASSUME NEW c \in Connection, Sound(c)
    PROVE  Sound(Submitted(c)) /\ \A i : Awaits(c, i) => Awaits(Submitted(c), i)
<1> DEFINE d == Submitted(c)
<1>1. CASE c.pending_itc > 0
  <2>1. /\ d.pipeline_results = c.pipeline_results /\ d.pending_itc = c.pending_itc
        /\ d.response_data = c.response_data /\ d.op = c.op
    BY <1>1 DEF Submitted, Connection
  <2>2. Placeholders(d) = Placeholders(c)  BY <2>1 DEF Placeholders
  <2> QED  BY <2>1, <2>2 DEF Sound, Awaits
<1>2. CASE ~(c.pending_itc > 0)
  <2>1. c.pending_itc = 0 /\ Placeholders(c) = {}
    BY <1>2, PlaceholdersFinite, FS_EmptySet DEF Sound
  <2>2. \A i : ~Awaits(c, i)  BY <2>1 DEF Placeholders, Awaits
  <2>3. \A i \in DOMAIN c.pipeline_results : c.pipeline_results[i] # Placeholder
    BY <2>1 DEF Placeholders
  <2>4. /\ d.pipeline_results = <<>> /\ d.pending_itc = 0
        /\ d.response_data = c.pipeline_results \/ d.response_data = c.response_data
    BY <1>2, <2>1 DEF Submitted, Connection
  <2> HIDE DEF d
  <2>5. Sound(d)  BY <2>3, <2>4, NobodyWaiting DEF Sound
  <2> QED  BY <2>2, <2>5 DEF d
<1> QED  BY <1>1, <1>2

LEMMA FilledSound ==
    ASSUME NEW c \in Connection, Sound(c), NEW m \in Message, m.type = "RESP", Awaits(c, m.idx)
    PROVE  /\ Sound(Filled(c, m))
           /\ \A i : Awaits(c, i) /\ i # m.idx => Awaits(Filled(c, m), i)
<1> DEFINE results == [c.pipeline_results EXCEPT ![m.idx] = Answer(m)]
           d == [c EXCEPT !.pipeline_results = results, !.pending_itc = c.pending_itc - 1]
           e == [d EXCEPT !.suspended = FALSE]
<1>1. Answer(m) \in Reply /\ Answer(m) # Placeholder  BY AnswerType, RealReplies
<1>2. /\ c.pipeline_results \in Seq(Reply)
      /\ DOMAIN c.pipeline_results = 1 .. Len(c.pipeline_results)
      /\ Len(c.pipeline_results) \in Nat
  BY LenProperties DEF Connection
<1>3. m.idx \in 1 .. Len(c.pipeline_results)  BY <1>2 DEF Awaits
<1>4. results \in Seq(Reply)  BY <1>1, <1>2, <1>3, ExceptSeq
<1>5. /\ DOMAIN results = DOMAIN c.pipeline_results
      /\ \A i \in DOMAIN results : results[i] = IF i = m.idx THEN Answer(m) ELSE c.pipeline_results[i]
  OBVIOUS
<1> HIDE DEF results
<1>6. /\ d \in Connection
      /\ d.pipeline_results = results /\ d.pending_itc = c.pending_itc - 1
      /\ d.response_data = c.response_data /\ d.op = c.op
  <2>1. c.pending_itc - 1 \in Int  BY DEF Connection
  <2>2. d \in Connection  BY <1>4, <2>1, WithResults
  <2> QED  BY <2>2 DEF Connection
<1>7. Filled(c, m) = IF d.pending_itc = 0 /\ d.suspended THEN Submitted(e) ELSE d
  BY <1>3 DEF Filled, results
<1> HIDE DEF d
<1>8. Placeholders(d) = Placeholders(c) \ {m.idx} /\ m.idx \in Placeholders(c)
  BY <1>1, <1>5, <1>6 DEF Placeholders, Awaits
<1>9. Cardinality(Placeholders(d)) = Cardinality(Placeholders(c)) - 1
  BY <1>8, PlaceholdersFinite, FS_RemoveElement
<1>10. Sound(d)  BY <1>6, <1>9 DEF Sound
<1>11. \A i : Awaits(c, i) /\ i # m.idx => Awaits(d, i)  BY <1>5, <1>6 DEF Awaits
<1>12. /\ e \in Connection
       /\ e.pipeline_results = d.pipeline_results /\ e.pending_itc = d.pending_itc
       /\ e.response_data = d.response_data /\ e.op = d.op
  BY <1>6 DEF Connection
<1> HIDE DEF e
<1>13. Sound(e) /\ \A i : Awaits(d, i) => Awaits(e, i)
  <2>1. Placeholders(e) = Placeholders(d)  BY <1>12 DEF Placeholders
  <2> QED  BY <1>10, <1>12, <2>1 DEF Sound, Awaits
<1>14. Sound(Submitted(e)) /\ \A i : Awaits(e, i) => Awaits(Submitted(e), i)
  BY <1>12, <1>13, SubmittedSound
<1> QED  BY <1>7, <1>10, <1>11, <1>13, <1>14

-----------------------------------------------------------------------------
(* The inductive invariant.  Base is what was proved before: types, and    *)
(* that a reactor sends nothing to itself, so that a pop and the push of   *)
(* the answer are of different queues.                                     *)
Base == WakeInv /\ CurrentOK

(* The connection whose batch is processed has no operation outstanding,   *)
(* so nobody can close it meanwhile.                                       *)
CurrentIdle ==
    \A r \in Reactors : pc[r] \in {"batch", "respond"} => conn[r][cur[r]].op = "idle"

AllAwaited ==
    \A p, q \in Reactors : \A m : Carries(inboxes, p, q, m) =>
        Awaits(conn[Home(p, q, m)][m.fd], m.idx)

AllSound == \A r \in Reactors, f \in Fds : Sound(conn[r][f])

PipeInv == CurrentIdle /\ AllAwaited /\ Unique(inboxes) /\ AllSound

LEMMA CarriedType ==
    ASSUME NEW B \in Queues, NEW p \in Reactors, NEW q \in Reactors, NEW m, Carries(B, p, q, m)
    PROVE  m \in Message /\ m.fd \in Fds /\ Home(p, q, m) \in Reactors
<1>1. PICK n \in DOMAIN B[p][q] : B[p][q][n] = m  BY DEF Carries
<1>2. B[p][q] \in Seq(Message)  BY DEF Queues
<1>3. m \in Message  BY <1>1, <1>2, LenProperties, ElementOfSeq
<1> QED  BY <1>3, MessageFields DEF Home

LEMMA HeadCarried ==
    ASSUME NEW B \in Queues, NEW p \in Reactors, NEW q \in Reactors, B[p][q] # <<>>
    PROVE  Carries(B, p, q, Head(B[p][q]))
<1>1. B[p][q] \in Seq(Message)  BY DEF Queues
<1>2. 1 \in DOMAIN B[p][q] /\ Head(B[p][q]) = B[p][q][1]  BY <1>1, LenProperties, EmptySeq
<1> QED  BY <1>2 DEF Carries

(* Steps that touch neither a message nor a connection.                    *)
LEMMA PipesUntouched ==
    ASSUME PipeInv, UNCHANGED <<inboxes, conn>>,
           \A s \in Reactors : pc'[s] \in {"batch", "respond"} =>
              pc[s] \in {"batch", "respond"} /\ cur'[s] = cur[s]
    PROVE  PipeInv'
BY DEF PipeInv, CurrentIdle, AllAwaited, AllSound

(* Steps that replace one connection.                                      *)
LEMMA PipesReplaced ==
    ASSUME Base, PipeInv, NEW r \in Reactors, NEW f \in Fds, NEW d,
           conn' = [conn EXCEPT ![r][f] = d], UNCHANGED inboxes,
           Sound(d), \A i : Awaits(conn[r][f], i) => Awaits(d, i),
           \A s \in Reactors \ {r} : pc'[s] = pc[s] /\ cur'[s] = cur[s],
           pc'[r] \in {"batch", "respond"} => cur'[r] = f /\ d.op = "idle"
    PROVE  PipeInv'
<1>1. conn \in [Reactors -> [Fds -> Connection]] /\ inboxes \in Queues
  BY DEF Base, WakeInv, TypeOK, Queues
<1>2. /\ \A s \in Reactors, g \in Fds : conn'[s][g] = IF s = r /\ g = f THEN d ELSE conn[s][g]
      /\ \A s \in Reactors : s # r => conn'[s] = conn[s]
  BY <1>1
<1>3. CurrentIdle'  BY <1>2 DEF PipeInv, CurrentIdle
<1>4. AllSound'  BY <1>2 DEF PipeInv, AllSound
<1>5. AllAwaited'
  <2> SUFFICES ASSUME NEW p \in Reactors, NEW q \in Reactors, NEW m, Carries(inboxes, p, q, m)
               PROVE  Awaits(conn'[Home(p, q, m)][m.fd], m.idx)
    BY DEF AllAwaited
  <2>1. m.fd \in Fds /\ Home(p, q, m) \in Reactors  BY <1>1, CarriedType
  <2>2. Awaits(conn[Home(p, q, m)][m.fd], m.idx)  BY DEF PipeInv, AllAwaited
  <2> QED  BY <1>2, <2>1, <2>2
<1> QED  BY <1>3, <1>4, <1>5 DEF PipeInv

LEMMA AnsweredPipes ==
    ASSUME Base, PipeInv, NEW r \in Reactors, NEW p \in Reactors, inboxes[p][r] # <<>>,
           Head(inboxes[p][r]).type # "RESP", NEW found \in BOOLEAN, NEW v \in Values,
           Answered(r, p, Resp(Head(inboxes[p][r]), found, v))
    PROVE  PipeInv'
<1> DEFINE m == Head(inboxes[p][r])
           resp == Resp(m, found, v)
           C == [inboxes EXCEPT ![p][r] = Tail(inboxes[p][r])]
<1>1. inboxes \in Queues /\ Unique(inboxes) /\ r # p
  BY DEF Base, WakeInv, TypeOK, NothingToItself, Queues, PipeInv
<1>2. m \in Message /\ Carries(inboxes, p, r, m)  BY <1>1, HeadCarried, CarriedType
<1>3. resp \in Message /\ resp.type = "RESP" /\ resp.fd = m.fd /\ resp.idx = m.idx
  BY <1>2, RespType DEF Resp
<1>4. Home(p, r, m) = p /\ Home(r, p, resp) = p  BY <1>3 DEF Home
<1>5. Awaits(conn[p][m.fd], m.idx)  BY <1>2, <1>4 DEF PipeInv, AllAwaited
<1>6. PICK sent \in BOOLEAN : inboxes' = Exchanged(r, p, resp, sent)
  BY DEF Answered, Sent
<1>7. /\ C \in Queues /\ Unique(C)
      /\ \A s, t \in Reactors : \A x : Carries(C, s, t, x) =>
            Carries(inboxes, s, t, x) /\ ~SamePlaceholder(p, r, m, s, t, x)
  BY <1>1, PopQueue
<1>8. C[r][p] = inboxes[r][p]  BY <1>1 DEF Queues
<1>9. inboxes' = [C EXCEPT ![r][p] = Pushed(C[r][p], resp, sent)]
  BY <1>1, <1>6, <1>8 DEF Exchanged, Queues
<1> HIDE DEF C, m, resp
<1>10. Unrelated(C, r, p, resp)  BY <1>3, <1>4, <1>7 DEF SamePlaceholder, Unrelated
<1> PICK D : D = [C EXCEPT ![r][p] = Pushed(C[r][p], resp, sent)]  OBVIOUS
<1>pushed. Extends(D, C, r, p, resp)  BY <1>7 DEF Pushed, Queues, Extends
<1>11. /\ Unique(D)
       /\ \A s, t \in Reactors : \A x : Carries(D, s, t, x) =>
             Carries(C, s, t, x) \/ (s = r /\ t = p /\ x = resp)
  <2>1. C \in Queues /\ Unique(C)  BY <1>7
  <2>2. resp \in Message  BY <1>3
  <2>3. Unique(D)  BY <2>1, <2>2, <1>10, <1>pushed, PushQueue
  <2>4. \A s, t \in Reactors : \A x : Carries(D, s, t, x) =>
            Carries(C, s, t, x) \/ (s = r /\ t = p /\ x = resp)
    BY <2>1, <2>2, <1>10, <1>pushed, PushQueue
  <2> QED  BY <2>3, <2>4
<1>12. UNCHANGED <<pc, cur, conn>>  BY DEF Answered
<1>13. AllAwaited'
  <2> SUFFICES ASSUME NEW s \in Reactors, NEW t \in Reactors, NEW x, Carries(D, s, t, x)
               PROVE  Awaits(conn[Home(s, t, x)][x.fd], x.idx)
    BY <1>9, <1>12 DEF AllAwaited, Carries
  <2>1. CASE Carries(inboxes, s, t, x)  BY <2>1 DEF PipeInv, AllAwaited
  <2>2. CASE s = r /\ t = p /\ x = resp  BY <1>3, <1>4, <1>5, <2>2
  <2>3. Carries(C, s, t, x) \/ (s = r /\ t = p /\ x = resp)  BY <1>11
  <2>4. Carries(C, s, t, x) => Carries(inboxes, s, t, x)  BY <1>7
  <2> QED  BY <2>1, <2>2, <2>3, <2>4
<1>14. Unique(inboxes)'  BY <1>9, <1>11 DEF Unique
<1> QED  BY <1>12, <1>13, <1>14 DEF PipeInv, CurrentIdle, AllSound

(* A RESP finds the placeholder it is for, and no other message is about   *)
(* it.                                                                     *)
LEMMA PopRespPipes ==
    ASSUME Base, PipeInv, NEW r \in Reactors, NEW p \in Reactors, PopResp(r, p)
    PROVE  PipeInv'
<1> DEFINE m == Head(inboxes[p][r])
           c == conn[r][m.fd]
           d == Filled(c, m)
           C == [inboxes EXCEPT ![p][r] = Tail(inboxes[p][r])]
<1>1. inboxes \in Queues /\ Unique(inboxes) /\ conn \in [Reactors -> [Fds -> Connection]]
  BY DEF Base, WakeInv, TypeOK, Queues, PipeInv
<1>2. inboxes[p][r] # <<>> /\ m.type = "RESP" /\ inboxes' = C /\ pc[r] = "drain"
  BY DEF PopResp, Popped
<1>3. m \in Message /\ m.fd \in Fds /\ Carries(inboxes, p, r, m)
  BY <1>1, <1>2, HeadCarried, CarriedType
<1>4. Awaits(c, m.idx)  BY <1>2, <1>3 DEF PipeInv, AllAwaited, Home
<1>5. c \in Connection /\ Sound(c)
  <2>1. c \in Connection  BY <1>1, <1>3, Zenon
  <2>2. Sound(c)  BY <1>3, Zenon DEF PipeInv, AllSound
  <2> QED  BY <2>1, <2>2, Zenon
<1>6. Sound(d) /\ \A i : Awaits(c, i) /\ i # m.idx => Awaits(d, i)
  BY <1>2, <1>3, <1>4, <1>5, FilledSound
<1>7. conn' = [conn EXCEPT ![r][m.fd] = d]  BY <1>4 DEF PopResp, IsOpen, Awaits
<1>8. /\ C \in Queues /\ Unique(C)
      /\ \A s, t \in Reactors : \A x : Carries(C, s, t, x) =>
            Carries(inboxes, s, t, x) /\ ~SamePlaceholder(p, r, m, s, t, x)
  BY <1>1, <1>2, PopQueue
<1>9. UNCHANGED <<pc, cur>>  BY DEF PopResp
<1>10. Home(p, r, m) = r  BY <1>2 DEF Home
<1> HIDE DEF m, d, C
<1>11. /\ \A s \in Reactors, g \in Fds : conn'[s][g] = IF s = r /\ g = m.fd THEN d ELSE conn[s][g]
       /\ \A s \in Reactors : s # r => conn'[s] = conn[s]
  BY <1>1, <1>3, <1>7
<1>12. CurrentIdle'  BY <1>2, <1>9, <1>11 DEF PipeInv, CurrentIdle
<1>13. AllSound'  BY <1>6, <1>11 DEF PipeInv, AllSound
<1>14. AllAwaited'
  <2> SUFFICES ASSUME NEW s \in Reactors, NEW t \in Reactors, NEW x, Carries(C, s, t, x)
               PROVE  Awaits(conn'[Home(s, t, x)][x.fd], x.idx)
    BY <1>2 DEF AllAwaited, Carries
  <2>1. x.fd \in Fds /\ Home(s, t, x) \in Reactors  BY <1>8, CarriedType
  <2>2. Awaits(conn[Home(s, t, x)][x.fd], x.idx)  BY <1>8 DEF PipeInv, AllAwaited
  <2>3. ~(Home(s, t, x) = r /\ x.fd = m.fd /\ x.idx = m.idx)
    BY <1>8, <1>10 DEF SamePlaceholder
  <2> QED  BY <1>6, <1>11, <2>1, <2>2, <2>3
<1>15. Unique(inboxes)'  BY <1>2, <1>8 DEF Unique
<1> QED  BY <1>12, <1>13, <1>14, <1>15 DEF PipeInv

LEMMA ForwardPipes ==
    ASSUME Base, PipeInv, NEW r \in Reactors, pc[r] = "batch", NEW m \in Message,
           m.key \in Keys, m.type # "RESP", m.fd = cur[r], m.idx = NextIndex(Current(r)),
           Forward(r, m), UNCHANGED <<pc, cur>>
    PROVE  PipeInv'
<1> DEFINE q == Owner[m.key]
           c == conn[r][cur[r]]
           d == Expecting(c)
<1>1. inboxes \in Queues /\ Unique(inboxes) /\ conn \in [Reactors -> [Fds -> Connection]]
  BY DEF Base, WakeInv, TypeOK, Queues, PipeInv
<1>2. q \in Reactors /\ cur[r] \in Fds  BY ConstantsAssumption DEF Base, CurrentOK
<1>3. c \in Connection /\ Sound(c) /\ c.op = "idle"
  BY <1>1, <1>2 DEF PipeInv, AllSound, CurrentIdle
<1>4. /\ Sound(d) /\ d.op = "idle" /\ \A i : Awaits(c, i) => Awaits(d, i)
      /\ Awaits(d, m.idx) /\ ~Awaits(c, m.idx)
  BY <1>3, ExpectingSound DEF Current
<1>5. PICK sent \in BOOLEAN : inboxes' = [inboxes EXCEPT ![r][q] = Pushed(inboxes[r][q], m, sent)]
  BY DEF Forward, Sent
<1>6. conn' = [conn EXCEPT ![r][cur[r]] = d]  BY DEF Forward
<1>7. Home(r, q, m) = r  BY DEF Home
<1> HIDE DEF q, d
<1>8. Unrelated(inboxes, r, q, m)
  BY <1>4, <1>7 DEF PipeInv, AllAwaited, SamePlaceholder, Unrelated
<1> PICK D : D = [inboxes EXCEPT ![r][q] = Pushed(inboxes[r][q], m, sent)]  OBVIOUS
<1>pushed. Extends(D, inboxes, r, q, m)  BY <1>1, <1>2 DEF Pushed, Queues, Extends
<1>9. /\ Unique(D)
      /\ \A s, t \in Reactors : \A x : Carries(D, s, t, x) =>
            Carries(inboxes, s, t, x) \/ (s = r /\ t = q /\ x = m)
  <2>1. inboxes \in Queues  BY <1>1
  <2>2. Unique(inboxes)  BY <1>1
  <2>3. q \in Reactors  BY <1>2
  <2>4. Unique(D)  BY <2>1, <2>2, <2>3, <1>8, <1>pushed, PushQueue
  <2>5. \A s, t \in Reactors : \A x : Carries(D, s, t, x) =>
            Carries(inboxes, s, t, x) \/ (s = r /\ t = q /\ x = m)
    BY <2>1, <2>2, <2>3, <1>8, <1>pushed, PushQueue
  <2> QED  BY <2>4, <2>5
<1>10. /\ \A s \in Reactors, g \in Fds : conn'[s][g] = IF s = r /\ g = cur[r] THEN d ELSE conn[s][g]
       /\ \A s \in Reactors : s # r => conn'[s] = conn[s]
  BY <1>1, <1>2, <1>6
<1>11. CurrentIdle'  BY <1>2, <1>4, <1>10 DEF PipeInv, CurrentIdle
<1>12. AllSound'  BY <1>4, <1>10 DEF PipeInv, AllSound
<1>13. AllAwaited'
  <2> SUFFICES ASSUME NEW s \in Reactors, NEW t \in Reactors, NEW x, Carries(D, s, t, x)
               PROVE  Awaits(conn'[Home(s, t, x)][x.fd], x.idx)
    BY <1>5 DEF AllAwaited, Carries
  <2>1. CASE Carries(inboxes, s, t, x)
    <3>1. x.fd \in Fds /\ Home(s, t, x) \in Reactors  BY <1>1, <2>1, CarriedType
    <3>2. Awaits(conn[Home(s, t, x)][x.fd], x.idx)  BY <2>1 DEF PipeInv, AllAwaited
    <3> QED  BY <1>4, <1>10, <3>1, <3>2
  <2>2. CASE s = r /\ t = q /\ x = m  BY <1>2, <1>4, <1>7, <1>10, <2>2
  <2> QED  BY <1>9, <2>1, <2>2
<1>14. Unique(inboxes)'  BY <1>5, <1>9 DEF Unique
<1> QED  BY <1>11, <1>12, <1>13, <1>14 DEF PipeInv

LEMMA DrainPipes ==
    ASSUME Base, PipeInv, NEW r \in Reactors, Drain(r)
    PROVE  PipeInv'
<1>1. ASSUME NEW p \in Reactors, PopGet(r, p) PROVE PipeInv'
  <2> DEFINE m == Head(inboxes[p][r])
  <2>1. inboxes[p][r] # <<>> /\ m.type = "GET_REQ"  BY <1>1 DEF PopGet, Popped
  <2>2. m \in Message /\ m.key \in Keys
    BY <2>1, PoppedType, MessageFields DEF Base, WakeInv
  <2>3. PICK e \in Lookups(shards[r][m.key]) : Answered(r, p, Resp(m, e.found, e.val))
    BY <1>1 DEF PopGet
  <2>4. shards[r][m.key] \in Entry  BY <2>2 DEF Base, WakeInv, TypeOK
  <2>5. e \in Entry  BY <2>3, <2>4, EntryTypes
  <2>6. e.found \in BOOLEAN /\ e.val \in Values  BY <2>5 DEF Entry
  <2> QED  BY <2>1, <2>3, <2>6, AnsweredPipes
<1>2. ASSUME NEW p \in Reactors, PopSet(r, p) PROVE PipeInv'
  <2> DEFINE m == Head(inboxes[p][r])
  <2>1. inboxes[p][r] # <<>> /\ m.type = "SET_REQ"  BY <1>2 DEF PopSet, Popped
  <2>2. PICK left \in Leftovers : Answered(r, p, Resp(m, TRUE, left))  BY <1>2 DEF PopSet
  <2>3. left \in Values  BY <2>2, ConstantsAssumption
  <2> QED  BY <2>1, <2>2, <2>3, AnsweredPipes
<1>3. ASSUME NEW p \in Reactors, PopResp(r, p) PROVE PipeInv'  BY <1>3, PopRespPipes
<1>4. ASSUME NEW p \in Reactors, SeeEmpty(r, p) PROVE PipeInv'
  BY <1>4, PipesUntouched DEF SeeEmpty, bus
<1>5. CASE DrainEnds(r)
  <2>1. UNCHANGED <<inboxes, conn, cur>> /\ pc' = [pc EXCEPT ![r] = "signal"]
    BY <1>5 DEF DrainEnds, Goto, bus
  <2> QED  BY <2>1, PipesUntouched DEF Base, WakeInv, TypeOK
<1> QED  BY <1>1, <1>2, <1>3, <1>4, <1>5 DEF Drain

LEMMA CompletionsPipe ==
    ASSUME Base, PipeInv, NEW r \in Reactors, Completions(r)
    PROVE  PipeInv'
<1>0. /\ pc \in [Reactors -> {"drain", "signal", "wait", "batch", "respond", "down"}]
      /\ cur \in [Reactors -> Fds \cup {None}]
      /\ conn \in [Reactors -> [Fds -> Connection]]
  BY DEF Base, WakeInv, TypeOK
<1>1. CASE HandleItcEvent(r) \/ ItcReadFails(r) \/ HandleAof(r) \/ AcceptFails(r)
  <2>1. UNCHANGED <<inboxes, conn, cur>> /\ pc' = [pc EXCEPT ![r] = "drain"]
    BY <1>1 DEF HandleItcEvent, ItcReadFails, HandleAof, AcceptFails, Handles, Goto, loop, bus
  <2> QED  BY <1>0, <2>1, PipesUntouched
<1>2. ASSUME NEW f \in Fds, HandleAccept(r, f) PROVE PipeInv'
  <2>1. UNCHANGED <<inboxes, cur>> /\ pc' = [pc EXCEPT ![r] = "drain"]
    BY <1>2 DEF HandleAccept, Handles, Goto, loop, bus
  <2>2. CASE pool_free[r] > 0
    <3>1. conn' = [conn EXCEPT ![r][f] = Accepted]  BY <1>2, <2>2 DEF HandleAccept
    <3>2. \A i : ~Awaits(conn[r][f], i)  BY <1>2 DEF HandleAccept, IsOpen, Awaits
    <3> QED  BY <1>0, <2>1, <3>1, <3>2, FreshSound, PipesReplaced
  <2>3. CASE ~(pool_free[r] > 0)
    <3>1. conn' = conn  BY <1>2, <2>3 DEF HandleAccept
    <3> QED  BY <1>0, <2>1, <3>1, PipesUntouched
  <2> QED  BY <2>2, <2>3
<1>3. ASSUME NEW f \in Fds, HandleClose(r, f) PROVE PipeInv'
  <2>1. UNCHANGED <<inboxes, cur>> /\ pc' = [pc EXCEPT ![r] = "drain"]
    BY <1>3 DEF HandleClose, Handles, Goto, loop, bus
  <2>2. conn' = [conn EXCEPT ![r][f] = NoConnection]  BY <1>3 DEF HandleClose
  <2>3. \A i : ~Awaits(conn[r][f], i)  BY <1>3 DEF HandleClose, Closable, Awaits
  <2> QED  BY <1>0, <2>1, <2>2, <2>3, FreshSound, PipesReplaced
<1>4. ASSUME NEW f \in Fds, HandleWrite(r, f) PROVE PipeInv'
  <2> DEFINE d == [conn[r][f] EXCEPT !.op = "read", !.response_data = <<>>]
  <2>1. UNCHANGED <<inboxes, cur>> /\ pc' = [pc EXCEPT ![r] = "drain"]
    BY <1>4 DEF HandleWrite, Handles, Goto, loop, bus
  <2>2. conn' = [conn EXCEPT ![r][f] = d]  BY <1>0, <1>4 DEF HandleWrite
  <2>3. \A i : ~Awaits(conn[r][f], i)  BY <1>4 DEF HandleWrite, Awaits
  <2>4. conn[r][f] \in Connection /\ Sound(conn[r][f])  BY <1>0 DEF PipeInv, AllSound
  <2>5. Sound(d)  BY <2>4, HandledSound
  <2> HIDE DEF d
  <2> QED  BY <1>0, <2>1, <2>2, <2>3, <2>5, PipesReplaced
<1>5. ASSUME NEW f \in Fds, HandleRead(r, f) PROVE PipeInv'
  <2> DEFINE d == [conn[r][f] EXCEPT !.op = "idle", !.response_data = <<>>,
                                     !.pipeline_results = <<>>, !.pending_itc = 0]
  <2>1. UNCHANGED inboxes /\ pc' = [pc EXCEPT ![r] = "batch"] /\ cur' = [cur EXCEPT ![r] = f]
    BY <1>5 DEF HandleRead, Goto, bus
  <2>2. conn' = [conn EXCEPT ![r][f] = d]  BY <1>0, <1>5 DEF HandleRead
  <2>3. \A i : ~Awaits(conn[r][f], i)  BY <1>5 DEF HandleRead, Awaits
  <2>4. conn[r][f] \in Connection /\ Sound(conn[r][f])  BY <1>0 DEF PipeInv, AllSound
  <2>5. Sound(d)  BY <2>4, HandledSound
  <2>6. d.op = "idle"  BY <2>4 DEF Connection
  <2> HIDE DEF d
  <2> QED  BY <1>0, <2>1, <2>2, <2>3, <2>5, <2>6, PipesReplaced
<1> QED  BY <1>1, <1>2, <1>3, <1>4, <1>5 DEF Completions

LEMMA ReplyPipes ==
    ASSUME Base, PipeInv, NEW r \in Reactors, Parsing(r), NEW reply \in Reply,
           reply # Placeholder, Replied(r, reply)
    PROVE  PipeInv'
<1> DEFINE f == cur[r]
           c == conn[r][f]
           d == [c EXCEPT !.pipeline_results = Append(c.pipeline_results, reply)]
<1>1. pc[r] = "batch" /\ f \in Fds /\ UNCHANGED <<pc, cur, inboxes>>
  BY DEF Parsing, Replied, Base, CurrentOK
<1>2. conn \in [Reactors -> [Fds -> Connection]]  BY DEF Base, WakeInv, TypeOK
<1>3. c \in Connection /\ Sound(c) /\ c.op = "idle"
  BY <1>1, <1>2 DEF PipeInv, AllSound, CurrentIdle
<1>4. conn' = [conn EXCEPT ![r][f] = d]  BY <1>1, <1>2 DEF Replied
<1>5. Sound(d) /\ d.op = "idle" /\ \A i : Awaits(c, i) => Awaits(d, i)
  BY <1>3, RepliedSound
<1> HIDE DEF d
<1> QED  BY <1>1, <1>4, <1>5, PipesReplaced

LEMMA CommandPipes ==
    ASSUME Base, PipeInv, NEW r \in Reactors, Command(r)
    PROVE  PipeInv'
<1>1. ASSUME NEW k \in Keys, LocalGet(r, k) PROVE PipeInv'
  <2>1. PICK e \in Lookups(shards[r][k]) : Replied(r, GetReply(e))  BY <1>1 DEF LocalGet
  <2>2. shards[r][k] \in Entry  BY DEF Base, WakeInv, TypeOK
  <2>3. GetReply(e) \in Reply  BY <2>1, <2>2, EntryTypes, ReplyTypes
  <2> QED  BY <1>1, <2>1, <2>3, RealReplies, ReplyPipes DEF LocalGet
<1>2. ASSUME NEW k \in Keys, NEW v \in Values, NEW t \in Ttls, LocalSet(r, k, v, t)
      PROVE PipeInv'
  BY <1>2, ReplyTypes, RealReplies, ReplyPipes DEF LocalSet
<1>3. ASSUME OtherCommand(r) PROVE PipeInv'
  BY <1>3, ReplyTypes, RealReplies, ReplyPipes DEF OtherCommand
<1>4. ASSUME Parsing(r)
      PROVE  cur[r] \in Fds /\ NextIndex(Current(r)) \in Index /\ pc[r] = "batch" /\ UNCHANGED <<pc, cur>>
  <2>1. cur[r] \in Fds /\ pc[r] = "batch" /\ UNCHANGED <<pc, cur>>
    BY <1>4 DEF Parsing, Base, CurrentOK
  <2> QED  BY <2>1, ExpectingType DEF Current, Base, WakeInv, TypeOK
<1>5. ASSUME NEW k \in Keys, RemoteGet(r, k) PROVE PipeInv'
  <2> DEFINE m == GetReq(cur[r], NextIndex(Current(r)), k)
  <2>1. Parsing(r) /\ Forward(r, m)  BY <1>5 DEF RemoteGet
  <2>2. m \in Message /\ m.key \in Keys  BY <1>4, <2>1, RequestTypes
  <2>3. m.type # "RESP" /\ m.fd = cur[r] /\ m.idx = NextIndex(Current(r))  BY DEF GetReq
  <2> HIDE DEF m
  <2> QED  BY <1>4, <2>1, <2>2, <2>3, ForwardPipes
<1>6. ASSUME NEW k \in Keys, NEW v \in Values, NEW t \in Ttls, RemoteSet(r, k, v, t)
      PROVE PipeInv'
  <2> DEFINE m == SetReq(cur[r], NextIndex(Current(r)), k, v, t)
  <2>1. Parsing(r) /\ Forward(r, m)  BY <1>6 DEF RemoteSet
  <2>2. m \in Message /\ m.key \in Keys  BY <1>4, <2>1, RequestTypes, ConstantsAssumption
  <2>3. m.type # "RESP" /\ m.fd = cur[r] /\ m.idx = NextIndex(Current(r))  BY DEF SetReq
  <2> HIDE DEF m
  <2> QED  BY <1>4, <2>1, <2>2, <2>3, ForwardPipes
<1> QED  BY <1>1, <1>2, <1>3, <1>5, <1>6 DEF Command

LEMMA RespondPipes ==
    ASSUME Base, PipeInv, NEW r \in Reactors, Respond(r)
    PROVE  PipeInv'
<1> DEFINE f == cur[r]
           d == Submitted(conn[r][f])
<1>1. /\ pc[r] = "respond" /\ pc' = [pc EXCEPT ![r] = "drain"] /\ cur' = [cur EXCEPT ![r] = None]
      /\ UNCHANGED inboxes /\ f \in Fds /\ conn' = [conn EXCEPT ![r][f] = d]
  BY DEF Respond, Goto, bus, Base, CurrentOK
<1>2. /\ pc \in [Reactors -> {"drain", "signal", "wait", "batch", "respond", "down"}]
      /\ cur \in [Reactors -> Fds \cup {None}]
      /\ conn \in [Reactors -> [Fds -> Connection]]
  BY DEF Base, WakeInv, TypeOK
<1>3. conn[r][f] \in Connection /\ Sound(conn[r][f])
  BY <1>1, <1>2 DEF PipeInv, AllSound
<1>4. Sound(d) /\ \A i : Awaits(conn[r][f], i) => Awaits(d, i)  BY <1>3, SubmittedSound
<1> HIDE DEF d
<1> QED  BY <1>1, <1>2, <1>4, PipesReplaced

LEMMA NextPipes == Base /\ PipeInv /\ [Next]_vars => PipeInv'
<1> SUFFICES ASSUME Base, PipeInv, [Next]_vars PROVE PipeInv'  OBVIOUS
<1>1. CASE Next
  <2>1. PICK r \in Reactors :
          \/ Drain(r)
          \/ \E q \in Reactors : Signal(r, q)
          \/ Submit(r) \/ WaitFails(r) \/ KernelReadsEventfd(r)
          \/ Completions(r)
          \/ Command(r) \/ BatchEnds(r) \/ Respond(r)
    BY <1>1 DEF Next
  <2>2. pc \in [Reactors -> {"drain", "signal", "wait", "batch", "respond", "down"}]
    BY DEF Base, WakeInv, TypeOK
  <2>3. CASE \E q \in Reactors : Signal(r, q)
    BY <2>3, PipesUntouched DEF Signal
  <2>4. CASE Submit(r) \/ WaitFails(r)
    <3>1. UNCHANGED <<inboxes, conn, cur>> /\ \E l \in {"wait", "drain"} : pc' = [pc EXCEPT ![r] = l]
      BY <2>4 DEF Submit, WaitFails, Goto, loop, bus
    <3> QED  BY <2>2, <3>1, PipesUntouched
  <2>5. CASE KernelReadsEventfd(r)
    BY <2>5, PipesUntouched DEF KernelReadsEventfd, loop
  <2>6. CASE BatchEnds(r)
    <3>1. UNCHANGED <<inboxes, conn, cur>> /\ pc[r] = "batch" /\ pc' = [pc EXCEPT ![r] = "respond"]
      BY <2>6 DEF BatchEnds, Goto, loop, bus
    <3> QED  BY <2>2, <3>1, PipesUntouched
  <2> QED  BY <2>1, <2>3, <2>4, <2>5, <2>6, DrainPipes, CompletionsPipe, CommandPipes, RespondPipes
<1>2. CASE UNCHANGED vars
  BY <1>2, PipesUntouched DEF vars, loop, bus
<1> QED  BY <1>1, <1>2

LEMMA InitPipes == Init => PipeInv
<1> SUFFICES ASSUME Init PROVE PipeInv  OBVIOUS
<1>1. CurrentIdle  BY DEF Init, CurrentIdle
<1>2. \A p, q \in Reactors : DOMAIN inboxes[p][q] = {}  BY DEF Init
<1>3. AllAwaited /\ Unique(inboxes)  BY <1>2 DEF AllAwaited, Carries, Unique
<1>4. AllSound  BY FreshSound DEF Init, AllSound
<1> QED  BY <1>1, <1>3, <1>4 DEF PipeInv

LEMMA PipesInvariance == Spec => [](Base /\ PipeInv)
<1>1. Init /\ TypeOK => WakeInv  BY InitWakes
<1>2. WakeInv /\ TypeOK' /\ [Next]_vars => WakeInv'  BY NextWakes
<1>3. TypeInv <=> TypeOK /\ CurrentOK  BY DEF TypeInv
<1>4. Base <=> WakeInv /\ CurrentOK  BY DEF Base
<1> QED  BY <1>1, <1>2, <1>3, <1>4, TypeInvariance, InitPipes, NextPipes, PTL DEF Spec

LEMMA PipesShow ==
    Base /\ PipeInv => /\ NoStaleReply /\ OneMessagePerPlaceholder
                       /\ PendingCountsPlaceholders /\ ResponsesComplete
<1> SUFFICES ASSUME Base, PipeInv
             PROVE  /\ NoStaleReply /\ OneMessagePerPlaceholder
                    /\ PendingCountsPlaceholders /\ ResponsesComplete
  BY SMTT(25)
<1>1. NoStaleReply
  <2> SUFFICES ASSUME NEW p \in Reactors, NEW q \in Reactors, NEW n \in DOMAIN inboxes[p][q],
                      NEW m, m = inboxes[p][q][n]
               PROVE  AwaitsAnswer(Home(p, q, m), m.fd, m.idx)
    BY DEF NoStaleReply
  <2>1. Carries(inboxes, p, q, m)  BY DEF Carries
  <2> QED  BY <2>1 DEF PipeInv, AllAwaited, Awaits, AwaitsAnswer
<1>2. OneMessagePerPlaceholder  BY UniqueIsOne DEF PipeInv
<1>3. PendingCountsPlaceholders /\ ResponsesComplete
  BY DEF PipeInv, AllSound, Sound, PendingCountsPlaceholders, ResponsesComplete
<1> QED  BY <1>1, <1>2, <1>3

(* A message in flight, request or answer, is about a connection that is   *)
(* open, has no operation outstanding and holds a placeholder at its index:*)
(* without a generation number, no answer reaches a descriptor that was    *)
(* given to another client.                                                *)
THEOREM NoReplyIsStale == Spec => []NoStaleReply
BY PipesInvariance, PipesShow, PTL

(* For one placeholder there is one message in flight at most.             *)
THEOREM NothingIsAnsweredTwice == Spec => []OneMessagePerPlaceholder
BY PipesInvariance, PipesShow, PTL

(* pending_itc is the number of placeholders left.                         *)
THEOREM PendingIsRight == Spec => []PendingCountsPlaceholders
BY PipesInvariance, PipesShow, PTL

(* submit_response sends nothing with a placeholder in it.                 *)
THEOREM OnlyCompleteResponses == Spec => []ResponsesComplete
BY PipesInvariance, PipesShow, PTL

-----------------------------------------------------------------------------
(* What remains in the queues after a pop and a push.                      *)

Less(B, p, r)    == [B EXCEPT ![p][r] = Tail(B[p][r])]
More(B, p, q, m) == [B EXCEPT ![p][q] = Append(B[p][q], m)]

LEMMA PopRest ==
    ASSUME NEW B \in Queues, NEW p \in Reactors, NEW r \in Reactors, B[p][r] # <<>>,
           NEW s \in Reactors, NEW t \in Reactors, NEW x, Carries(B, s, t, x)
    PROVE  Carries(Less(B, p, r), s, t, x) \/ (s = p /\ t = r /\ x = Head(B[p][r]))
<1> DEFINE C == Less(B, p, r)
<1>1. PICK n \in DOMAIN B[s][t] : B[s][t][n] = x  BY DEF Carries
<1>2. CASE s = p /\ t = r
  <2>1. B[p][r] \in Seq(Message)  BY DEF Queues
  <2>2. /\ Head(B[p][r]) = B[p][r][1]
        /\ DOMAIN B[p][r] = 1 .. Len(B[p][r]) /\ Len(B[p][r]) \in Nat
        /\ DOMAIN Tail(B[p][r]) = 1 .. Len(B[p][r]) - 1
        /\ \A k \in DOMAIN Tail(B[p][r]) : Tail(B[p][r])[k] = B[p][r][k + 1]
    BY <2>1, HeadTailProperties, LenProperties, EmptySeq
  <2>3. C[p][r] = Tail(B[p][r])  BY DEF Queues, Less
  <2>4. CASE n = 1  BY <1>1, <1>2, <2>2, <2>4
  <2>5. CASE n # 1
    <3>1. n - 1 \in DOMAIN Tail(B[p][r]) /\ Tail(B[p][r])[n - 1] = x
      BY <1>1, <1>2, <2>2, <2>5
    <3> QED  BY <1>2, <2>3, <3>1 DEF Carries
  <2> QED  BY <2>4, <2>5
<1>3. CASE ~(s = p /\ t = r)
  <2>1. C[s][t] = B[s][t]  BY <1>3 DEF Queues, Less
  <2> QED  BY <1>1, <2>1 DEF Carries
<1> QED  BY <1>2, <1>3

LEMMA PushRest ==
    ASSUME NEW B \in Queues, NEW p \in Reactors, NEW q \in Reactors, NEW m \in Message
    PROVE  /\ Carries(More(B, p, q, m), p, q, m)
           /\ \A s, t \in Reactors : \A x :
                 Carries(B, s, t, x) => Carries(More(B, p, q, m), s, t, x)
<1> DEFINE C == More(B, p, q, m)
<1>1. B[p][q] \in Seq(Message)  BY DEF Queues
<1>2. /\ DOMAIN Append(B[p][q], m) = 1 .. Len(B[p][q]) + 1
      /\ DOMAIN B[p][q] = 1 .. Len(B[p][q]) /\ Len(B[p][q]) \in Nat
      /\ \A n \in 1 .. Len(B[p][q]) : Append(B[p][q], m)[n] = B[p][q][n]
      /\ Append(B[p][q], m)[Len(B[p][q]) + 1] = m
  BY <1>1, AppendProperties, LenProperties
<1>3. /\ C[p][q] = Append(B[p][q], m)
      /\ \A s, t \in Reactors : ~(s = p /\ t = q) => C[s][t] = B[s][t]
  BY DEF Queues, More
<1> HIDE DEF C
<1>4. Carries(C, p, q, m)  BY <1>2, <1>3 DEF Carries
<1>5. ASSUME NEW s \in Reactors, NEW t \in Reactors, NEW x, Carries(B, s, t, x)
      PROVE  Carries(C, s, t, x)
  <2>1. PICK n \in DOMAIN B[s][t] : B[s][t][n] = x  BY <1>5 DEF Carries
  <2>2. n \in DOMAIN C[s][t] /\ C[s][t][n] = x
    <3>1. CASE s = p /\ t = q
      <4>1. n \in 1 .. Len(B[p][q]) /\ B[p][q][n] = x  BY <1>2, <2>1, <3>1
      <4>2. C[s][t] = Append(B[p][q], m)  BY <1>3, <3>1
      <4>3. n \in DOMAIN Append(B[p][q], m)  BY <1>2, <4>1
      <4>4. Append(B[p][q], m)[n] = x  BY <1>2, <4>1
      <4> QED  BY <4>2, <4>3, <4>4
    <3>2. CASE ~(s = p /\ t = q)
      <4>1. C[s][t] = B[s][t]  BY <1>3, <3>2
      <4> QED  BY <2>1, <4>1
    <3> QED  BY <3>1, <3>2
  <2> QED  BY <2>2 DEF Carries
<1> QED  BY <1>4, <1>5 DEF C

-----------------------------------------------------------------------------
(* Connections that wait for answers.                                      *)
Waits(c) == c.suspended /\ c.pending_itc > 0

LEMMA SubmittedWaits ==
    ASSUME NEW c \in Connection
    PROVE  /\ Submitted(c).op = "idle" => Waits(Submitted(c))
           /\ \A i : Awaits(Submitted(c), i) => Awaits(c, i)
<1> DEFINE d == Submitted(c)
<1>1. CASE c.pending_itc > 0
  <2>1. /\ d.pipeline_results = c.pipeline_results /\ d.pending_itc = c.pending_itc
        /\ d.suspended /\ d.op = c.op
    BY <1>1 DEF Submitted, Connection
  <2> HIDE DEF d
  <2>2. Waits(d) /\ \A i : Awaits(d, i) => Awaits(c, i)  BY <1>1, <2>1 DEF Waits, Awaits
  <2> QED  BY <2>2 DEF d
<1>2. CASE ~(c.pending_itc > 0)
  <2>1. d.op \in {"write", "read"}  BY <1>2 DEF Submitted, Connection
  <2> QED  BY <2>1 DEF Awaits
<1> QED  BY <1>1, <1>2

LEMMA FilledWaits ==
    ASSUME NEW c \in Connection, Waits(c), NEW m \in Message, m.type = "RESP", Awaits(c, m.idx)
    PROVE  /\ Filled(c, m).op = "idle" => Waits(Filled(c, m))
           /\ \A i : Awaits(Filled(c, m), i) => Awaits(c, i) /\ i # m.idx
<1> DEFINE results == [c.pipeline_results EXCEPT ![m.idx] = Answer(m)]
           d == [c EXCEPT !.pipeline_results = results, !.pending_itc = c.pending_itc - 1]
           e == [d EXCEPT !.suspended = FALSE]
<1>1. Answer(m) \in Reply /\ Answer(m) # Placeholder  BY AnswerType, RealReplies
<1>2. /\ c.pipeline_results \in Seq(Reply) /\ m.idx \in 1 .. Len(c.pipeline_results)
  BY LenProperties DEF Connection, Awaits
<1>3. results \in Seq(Reply)  BY <1>1, <1>2, ExceptSeq
<1>4. /\ DOMAIN results = DOMAIN c.pipeline_results
      /\ \A i \in DOMAIN results : results[i] = IF i = m.idx THEN Answer(m) ELSE c.pipeline_results[i]
  OBVIOUS
<1> HIDE DEF results
<1>5. /\ d \in Connection
      /\ d.pipeline_results = results /\ d.pending_itc = c.pending_itc - 1
      /\ d.suspended = c.suspended /\ d.op = c.op
  <2>1. c.pending_itc - 1 \in Int  BY DEF Connection
  <2>2. d \in Connection  BY <1>3, <2>1, WithResults
  <2> QED  BY <2>2 DEF Connection
<1>6. Filled(c, m) = IF d.pending_itc = 0 /\ d.suspended THEN Submitted(e) ELSE d
  BY <1>2 DEF Filled, results
<1> HIDE DEF d
<1>7. \A i : Awaits(d, i) => Awaits(c, i) /\ i # m.idx  BY <1>1, <1>4, <1>5 DEF Awaits
<1>8. c.suspended /\ c.pending_itc > 0 /\ c.pending_itc \in Int  BY DEF Waits, Connection
<1>9. CASE d.pending_itc = 0
  <2>1. e.pending_itc = 0  BY <1>5, <1>9 DEF Connection
  <2>2. Submitted(e).op \in {"write", "read"}
    <3>1. e \in Connection  BY <1>5 DEF Connection
    <3> HIDE DEF e
    <3> QED  BY <2>1, <3>1 DEF Submitted, Connection
  <2>3. Filled(c, m) = Submitted(e)  BY <1>5, <1>6, <1>8, <1>9
  <2> QED  BY <2>2, <2>3 DEF Awaits
<1>10. CASE d.pending_itc # 0
  <2>1. Filled(c, m) = d  BY <1>6, <1>10
  <2>2. Waits(d)  BY <1>5, <1>8, <1>10 DEF Waits
  <2> QED  BY <1>7, <2>1, <2>2
<1> QED  BY <1>9, <1>10

-----------------------------------------------------------------------------
(* The inductive invariant: a connection without an operation outstanding  *)
(* is processed or waits, and something is under way for each placeholder  *)
(* it waits for.                                                           *)
Processed(r, f) == pc[r] \in {"batch", "respond"} /\ cur[r] = f

IdleWaits ==
    \A r \in Reactors, f \in Fds :
        conn[r][f].op = "idle" => Processed(r, f) \/ Waits(conn[r][f])

Concerns(B, r, f, i) ==
    \E p, q \in Reactors : \E m :
        Carries(B, p, q, m) /\ Home(p, q, m) = r /\ m.fd = f /\ m.idx = i

Covered ==
    \A r \in Reactors, f \in Fds : \A i :
        Awaits(conn[r][f], i) => PushMayFail \/ Concerns(inboxes, r, f, i)

Known == Base /\ PipeInv
ResumeInv == IdleWaits /\ Covered

LEMMA ResumeUntouched ==
    ASSUME ResumeInv, UNCHANGED <<inboxes, conn>>,
           \A s \in Reactors : pc[s] \in {"batch", "respond"} =>
              pc'[s] \in {"batch", "respond"} /\ cur'[s] = cur[s]
    PROVE  ResumeInv'
<1>1. IdleWaits'  BY DEF ResumeInv, IdleWaits, Processed
<1>2. Covered'  BY DEF ResumeInv, Covered, Concerns
<1> QED  BY <1>1, <1>2 DEF ResumeInv

(* Steps that replace one connection and await nothing more.               *)
LEMMA ResumeReplaced ==
    ASSUME Known, ResumeInv, NEW r \in Reactors, NEW f \in Fds, NEW d,
           conn' = [conn EXCEPT ![r][f] = d], UNCHANGED inboxes,
           \A i : Awaits(d, i) => Awaits(conn[r][f], i),
           \A s \in Reactors \ {r} : pc'[s] = pc[s] /\ cur'[s] = cur[s],
           pc[r] \in {"batch", "respond"} => cur[r] = f,
           d.op = "idle" => Processed(r, f)' \/ Waits(d)
    PROVE  ResumeInv'
<1>1. conn \in [Reactors -> [Fds -> Connection]]  BY DEF Known, Base, WakeInv, TypeOK
<1>2. \A s \in Reactors, g \in Fds : conn'[s][g] = IF s = r /\ g = f THEN d ELSE conn[s][g]
  BY <1>1
<1>3. IdleWaits'  BY <1>2 DEF ResumeInv, IdleWaits, Processed
<1>4. \A i, s, g : Concerns(inboxes, s, g, i) <=> Concerns(inboxes, s, g, i)'  BY DEF Concerns, Carries
<1>5. Covered'
  <2> SUFFICES ASSUME NEW s \in Reactors, NEW g \in Fds, NEW i, Awaits(conn'[s][g], i)
               PROVE  PushMayFail \/ Concerns(inboxes, s, g, i)'
    BY DEF Covered
  <2>1. Awaits(conn[s][g], i)  BY <1>2
  <2> QED  BY <1>4, <2>1 DEF ResumeInv, Covered
<1> QED  BY <1>3, <1>5 DEF ResumeInv

(* A request goes, its answer comes.                                       *)
LEMMA AnsweredResumes ==
    ASSUME Known, ResumeInv, NEW r \in Reactors, NEW p \in Reactors, inboxes[p][r] # <<>>,
           Head(inboxes[p][r]).type # "RESP", NEW found \in BOOLEAN, NEW v \in Values,
           Answered(r, p, Resp(Head(inboxes[p][r]), found, v))
    PROVE  ResumeInv'
<1> DEFINE m == Head(inboxes[p][r])
           resp == Resp(m, found, v)
<1>1. inboxes \in Queues /\ r # p
  BY DEF Known, Base, WakeInv, TypeOK, NothingToItself, Queues
<1>2. m \in Message  BY <1>1, HeadCarried, CarriedType
<1>3. resp \in Message /\ resp.type = "RESP" /\ resp.fd = m.fd /\ resp.idx = m.idx
  BY <1>2, RespType DEF Resp
<1>4. Home(p, r, m) = p /\ Home(r, p, resp) = p  BY <1>3 DEF Home
<1>5. UNCHANGED <<pc, cur, conn>>  BY DEF Answered
<1>6. IdleWaits'  BY <1>5 DEF ResumeInv, IdleWaits, Processed
<1>7. ASSUME ~PushMayFail, NEW s \in Reactors, NEW g \in Fds, NEW i, Concerns(inboxes, s, g, i)
      PROVE  Concerns(inboxes, s, g, i)'
  <2> DEFINE C == Less(inboxes, p, r)
             D == More(C, r, p, resp)
  <2>1. Tail(inboxes[p][r]) \in Seq(Message)  BY PoppedType DEF Known, Base, WakeInv
  <2>2. C \in Queues /\ C[r][p] = inboxes[r][p]  BY <1>1, <2>1 DEF Queues, Less
  <2>3. inboxes' = D
    <3>1. inboxes' = Exchanged(r, p, resp, TRUE)  BY <1>7 DEF Answered, Sent
    <3> HIDE DEF resp, m
    <3> QED  BY <1>1, <2>2, <3>1 DEF Exchanged, Pushed, Queues, Less, More
  <2> HIDE DEF resp, m, C
  <2> PICK a \in Reactors, b \in Reactors : \E x :
         Carries(inboxes, a, b, x) /\ Home(a, b, x) = s /\ x.fd = g /\ x.idx = i
    BY <1>7 DEF Concerns
  <2>4. PICK x :
         Carries(inboxes, a, b, x) /\ Home(a, b, x) = s /\ x.fd = g /\ x.idx = i
    OBVIOUS
  <2>c. C \in Queues  BY <2>2
  <2>d. resp \in Message  BY <1>3
  <2>5. Carries(D, r, p, resp)  BY <2>c, <2>d, PushRest
  <2>kept. \A a2, b2 \in Reactors : \A y : Carries(C, a2, b2, y) => Carries(D, a2, b2, y)
    BY <2>c, <2>d, PushRest
  <2>6. Carries(C, a, b, x) \/ (a = p /\ b = r /\ x = m)
    <3>1. inboxes \in Queues  BY <1>1
    <3>2. Carries(inboxes, a, b, x)  BY <2>4
    <3>3. Carries(C, a, b, x) \/ (a = p /\ b = r /\ x = Head(inboxes[p][r]))
      BY <3>1, <3>2, PopRest DEF C
    <3> QED  BY <3>3 DEF m
  <2>7. CASE Carries(C, a, b, x)
    <3>1. Carries(D, a, b, x)  BY <2>kept, <2>7
    <3> QED  BY <2>3, <2>4, <3>1 DEF Concerns
  <2>8. CASE a = p /\ b = r /\ x = m
    <3>1. Carries(D, r, p, resp) /\ Home(r, p, resp) = s /\ resp.fd = g /\ resp.idx = i
      BY <1>3, <1>4, <2>4, <2>5, <2>8
    <3> QED  BY <2>3, <3>1 DEF Concerns
  <2> QED  BY <2>6, <2>7, <2>8
<1>8. Covered'  BY <1>5, <1>7 DEF ResumeInv, Covered
<1> QED  BY <1>6, <1>8 DEF ResumeInv

(* An answer goes, and its placeholder with it.                            *)
LEMMA PopRespResumes ==
    ASSUME Known, ResumeInv, NEW r \in Reactors, NEW p \in Reactors, PopResp(r, p)
    PROVE  ResumeInv'
<1> DEFINE m == Head(inboxes[p][r])
           c == conn[r][m.fd]
           d == Filled(c, m)
           C == Less(inboxes, p, r)
<1>1. inboxes \in Queues /\ conn \in [Reactors -> [Fds -> Connection]]
  BY DEF Known, Base, WakeInv, TypeOK, Queues
<1>2. inboxes[p][r] # <<>> /\ m.type = "RESP" /\ inboxes' = C /\ pc[r] = "drain"
  BY DEF PopResp, Popped, Less
<1>3. m \in Message /\ m.fd \in Fds /\ Carries(inboxes, p, r, m)
  BY <1>1, <1>2, HeadCarried, CarriedType
<1>4. Awaits(c, m.idx)  BY <1>2, <1>3 DEF Known, PipeInv, AllAwaited, Home
<1>5. c \in Connection /\ Waits(c)
  <2>1. c \in Connection  BY <1>1, <1>3, Zenon
  <2>2. c.op = "idle"  BY <1>4, Zenon DEF Awaits
  <2>3. pc[r] \notin {"batch", "respond"}  BY <1>2
  <2>4. Waits(c)  BY <1>3, <2>2, <2>3, Zenon DEF ResumeInv, IdleWaits, Processed
  <2> QED  BY <2>1, <2>4, Zenon
<1>6. /\ d.op = "idle" => Waits(d)
      /\ \A i : Awaits(d, i) => Awaits(c, i) /\ i # m.idx
  BY <1>2, <1>3, <1>4, <1>5, FilledWaits
<1>7. conn' = [conn EXCEPT ![r][m.fd] = d]  BY <1>4 DEF PopResp, IsOpen, Awaits
<1>8. Home(p, r, m) = r  BY <1>2 DEF Home
<1>9. ASSUME NEW s \in Reactors, NEW t \in Reactors, NEW x, Carries(inboxes, s, t, x)
      PROVE  Carries(C, s, t, x) \/ (s = p /\ t = r /\ x = m)
  <2>1. inboxes \in Queues  BY <1>1
  <2>2. inboxes[p][r] # <<>>  BY <1>2
  <2> QED  BY <1>9, <2>1, <2>2, PopRest
<1>10. UNCHANGED <<pc, cur>>  BY DEF PopResp
<1> HIDE DEF m, d, C
<1>11. \A s \in Reactors, g \in Fds : conn'[s][g] = IF s = r /\ g = m.fd THEN d ELSE conn[s][g]
  BY <1>1, <1>3, <1>7
<1>12. IdleWaits'  BY <1>6, <1>10, <1>11 DEF ResumeInv, IdleWaits, Processed
<1>13. Covered'
  <2> SUFFICES ASSUME ~PushMayFail, NEW s \in Reactors, NEW g \in Fds, NEW i, Awaits(conn'[s][g], i)
               PROVE  Concerns(C, s, g, i)
    BY <1>2 DEF Covered, Concerns, Carries
  <2>1. Awaits(conn[s][g], i) /\ ~(s = r /\ g = m.fd /\ i = m.idx)  BY <1>6, <1>11
  <2>2. Concerns(inboxes, s, g, i)  BY <2>1 DEF ResumeInv, Covered
  <2> PICK a \in Reactors, b \in Reactors : \E x :
         Carries(inboxes, a, b, x) /\ Home(a, b, x) = s /\ x.fd = g /\ x.idx = i
    BY <2>2 DEF Concerns
  <2>3. PICK x :
         Carries(inboxes, a, b, x) /\ Home(a, b, x) = s /\ x.fd = g /\ x.idx = i
    OBVIOUS
  <2>4. ~(a = p /\ b = r /\ x = m)  BY <1>8, <2>1, <2>3
  <2>5. Carries(C, a, b, x)  BY <1>9, <2>3, <2>4
  <2> QED  BY <2>3, <2>5 DEF Concerns
<1> QED  BY <1>12, <1>13 DEF ResumeInv

(* A placeholder comes, and its request with it.                           *)
LEMMA ForwardResumes ==
    ASSUME Known, ResumeInv, NEW r \in Reactors, pc[r] = "batch", NEW m \in Message,
           m.key \in Keys, m.type # "RESP", m.fd = cur[r], m.idx = NextIndex(Current(r)),
           Forward(r, m), UNCHANGED <<pc, cur>>
    PROVE  ResumeInv'
<1> DEFINE q == Owner[m.key]
           c == conn[r][cur[r]]
           d == Expecting(c)
<1>1. inboxes \in Queues /\ conn \in [Reactors -> [Fds -> Connection]]
  BY DEF Known, Base, WakeInv, TypeOK, Queues
<1>2. q \in Reactors /\ cur[r] \in Fds  BY ConstantsAssumption DEF Known, Base, CurrentOK
<1>3. c \in Connection  BY <1>1, <1>2
<1>4. \A i : Awaits(d, i) => Awaits(c, i) \/ i = m.idx
  <2>1. /\ d.pipeline_results = Append(c.pipeline_results, Placeholder) /\ d.op = c.op
        /\ c.pipeline_results \in Seq(Reply)
        /\ m.idx = Len(c.pipeline_results) + 1
    BY <1>3 DEF Connection, Expecting, NextIndex, Current
  <2>2. /\ DOMAIN d.pipeline_results = 1 .. m.idx /\ Len(c.pipeline_results) \in Nat
        /\ DOMAIN c.pipeline_results = 1 .. Len(c.pipeline_results)
        /\ \A i \in 1 .. Len(c.pipeline_results) : d.pipeline_results[i] = c.pipeline_results[i]
    BY <2>1, AppendProperties, LenProperties, ReplyTypes
  <2> HIDE DEF d, c
  <2> QED  BY <2>1, <2>2 DEF Awaits
<1>5. conn' = [conn EXCEPT ![r][cur[r]] = d]  BY DEF Forward
<1>6. Home(r, q, m) = r  BY DEF Home
<1> HIDE DEF d
<1>7. \A s \in Reactors, g \in Fds : conn'[s][g] = IF s = r /\ g = cur[r] THEN d ELSE conn[s][g]
  BY <1>1, <1>2, <1>5
<1>8. IdleWaits'
  <2>1. UNCHANGED <<pc, cur>>  OBVIOUS
  <2>2. Processed(r, cur[r])  BY DEF Processed
  <2> QED  BY <1>7, <2>1, <2>2 DEF ResumeInv, IdleWaits, Processed
<1>9. Covered'
  <2> SUFFICES ASSUME ~PushMayFail, NEW s \in Reactors, NEW g \in Fds, NEW i, Awaits(conn'[s][g], i)
               PROVE  Concerns(inboxes, s, g, i)'
    BY DEF Covered
  <2> DEFINE D == More(inboxes, r, q, m)
  <2>1. inboxes' = D  BY DEF Forward, Sent, Pushed, More
  <2> HIDE DEF q
  <2>b. inboxes \in Queues  BY <1>1
  <2>q. q \in Reactors  BY <1>2
  <2>2. Carries(D, r, q, m)  BY <2>b, <2>q, PushRest
  <2>kept. \A a, b \in Reactors : \A x : Carries(inboxes, a, b, x) => Carries(D, a, b, x)
    BY <2>b, <2>q, PushRest
  <2>3. CASE Awaits(conn[s][g], i)
    <3>1. Concerns(inboxes, s, g, i)  BY <2>3 DEF ResumeInv, Covered
    <3> PICK a \in Reactors, b \in Reactors : \E x :
           Carries(inboxes, a, b, x) /\ Home(a, b, x) = s /\ x.fd = g /\ x.idx = i
      BY <3>1 DEF Concerns
    <3>2. PICK x :
           Carries(inboxes, a, b, x) /\ Home(a, b, x) = s /\ x.fd = g /\ x.idx = i
      OBVIOUS
    <3>3. Carries(D, a, b, x)  BY <2>kept, <3>2
    <3> QED  BY <2>1, <3>2, <3>3 DEF Concerns
  <2>4. CASE s = r /\ g = cur[r] /\ i = m.idx
    <3>1. Carries(D, r, q, m) /\ Home(r, q, m) = s /\ m.fd = g /\ m.idx = i
      BY <1>6, <2>2, <2>4
    <3> QED  BY <1>2, <2>1, <3>1 DEF Concerns
  <2> QED  BY <1>4, <1>7, <2>3, <2>4
<1> QED  BY <1>8, <1>9 DEF ResumeInv

LEMMA DrainResumes ==
    ASSUME Known, ResumeInv, NEW r \in Reactors, Drain(r)
    PROVE  ResumeInv'
<1>1. ASSUME NEW p \in Reactors, PopGet(r, p) PROVE ResumeInv'
  <2> DEFINE m == Head(inboxes[p][r])
  <2>1. inboxes[p][r] # <<>> /\ m.type = "GET_REQ"  BY <1>1 DEF PopGet, Popped
  <2>2. m \in Message /\ m.key \in Keys
    BY <2>1, PoppedType, MessageFields DEF Known, Base, WakeInv
  <2>3. PICK e \in Lookups(shards[r][m.key]) : Answered(r, p, Resp(m, e.found, e.val))
    BY <1>1 DEF PopGet
  <2>4. shards[r][m.key] \in Entry  BY <2>2 DEF Known, Base, WakeInv, TypeOK
  <2>5. e \in Entry  BY <2>3, <2>4, EntryTypes
  <2>6. e.found \in BOOLEAN /\ e.val \in Values  BY <2>5 DEF Entry
  <2> QED  BY <2>1, <2>3, <2>6, AnsweredResumes
<1>2. ASSUME NEW p \in Reactors, PopSet(r, p) PROVE ResumeInv'
  <2> DEFINE m == Head(inboxes[p][r])
  <2>1. inboxes[p][r] # <<>> /\ m.type = "SET_REQ"  BY <1>2 DEF PopSet, Popped
  <2>2. PICK left \in Leftovers : Answered(r, p, Resp(m, TRUE, left))  BY <1>2 DEF PopSet
  <2>3. left \in Values  BY <2>2, ConstantsAssumption
  <2> QED  BY <2>1, <2>2, <2>3, AnsweredResumes
<1>3. ASSUME NEW p \in Reactors, PopResp(r, p) PROVE ResumeInv'  BY <1>3, PopRespResumes
<1>4. ASSUME NEW p \in Reactors, SeeEmpty(r, p) PROVE ResumeInv'
  BY <1>4, ResumeUntouched DEF SeeEmpty, bus
<1>5. CASE DrainEnds(r)
  <2>1. UNCHANGED <<inboxes, conn, cur>> /\ pc[r] = "drain" /\ pc' = [pc EXCEPT ![r] = "signal"]
    BY <1>5 DEF DrainEnds, Goto, bus
  <2> QED  BY <2>1, ResumeUntouched DEF Known, Base, WakeInv, TypeOK
<1> QED  BY <1>1, <1>2, <1>3, <1>4, <1>5 DEF Drain

LEMMA CompletionsResume ==
    ASSUME Known, ResumeInv, NEW r \in Reactors, Completions(r)
    PROVE  ResumeInv'
<1>0. /\ pc \in [Reactors -> {"drain", "signal", "wait", "batch", "respond", "down"}]
      /\ cur \in [Reactors -> Fds \cup {None}]
      /\ conn \in [Reactors -> [Fds -> Connection]]
  BY DEF Known, Base, WakeInv, TypeOK
<1>1. CASE HandleItcEvent(r) \/ ItcReadFails(r) \/ HandleAof(r) \/ AcceptFails(r)
  <2>1. UNCHANGED <<inboxes, conn, cur>> /\ pc[r] = "wait" /\ pc' = [pc EXCEPT ![r] = "drain"]
    BY <1>1 DEF HandleItcEvent, ItcReadFails, HandleAof, AcceptFails, Handles, Goto, loop, bus
  <2> QED  BY <1>0, <2>1, ResumeUntouched
<1>2. ASSUME NEW f \in Fds, HandleAccept(r, f) PROVE ResumeInv'
  <2>1. UNCHANGED <<inboxes, cur>> /\ pc[r] = "wait" /\ pc' = [pc EXCEPT ![r] = "drain"]
    BY <1>2 DEF HandleAccept, Handles, Goto, loop, bus
  <2>2. CASE pool_free[r] > 0
    <3>1. conn' = [conn EXCEPT ![r][f] = Accepted]  BY <1>2, <2>2 DEF HandleAccept
    <3>2. Accepted.op = "read"  BY DEF Accepted, NoConnection
    <3>3. \A i : ~Awaits(Accepted, i)  BY FreshSound
    <3> QED  BY <1>0, <2>1, <3>1, <3>2, <3>3, ResumeReplaced
  <2>3. CASE ~(pool_free[r] > 0)
    <3>1. conn' = conn  BY <1>2, <2>3 DEF HandleAccept
    <3> QED  BY <1>0, <2>1, <3>1, ResumeUntouched
  <2> QED  BY <2>2, <2>3
<1>3. ASSUME NEW f \in Fds, HandleClose(r, f) PROVE ResumeInv'
  <2>1. UNCHANGED <<inboxes, cur>> /\ pc[r] = "wait" /\ pc' = [pc EXCEPT ![r] = "drain"]
    BY <1>3 DEF HandleClose, Handles, Goto, loop, bus
  <2>2. conn' = [conn EXCEPT ![r][f] = NoConnection]  BY <1>3 DEF HandleClose
  <2>3. NoConnection.op = "closed"  BY DEF NoConnection
  <2>4. \A i : ~Awaits(NoConnection, i)  BY FreshSound
  <2> QED  BY <1>0, <2>1, <2>2, <2>3, <2>4, ResumeReplaced
<1>4. ASSUME NEW f \in Fds, HandleWrite(r, f) PROVE ResumeInv'
  <2> DEFINE d == [conn[r][f] EXCEPT !.op = "read", !.response_data = <<>>]
  <2>1. UNCHANGED <<inboxes, cur>> /\ pc[r] = "wait" /\ pc' = [pc EXCEPT ![r] = "drain"]
    BY <1>4 DEF HandleWrite, Handles, Goto, loop, bus
  <2>2. conn' = [conn EXCEPT ![r][f] = d]  BY <1>0, <1>4 DEF HandleWrite
  <2>3. d.op = "read"  BY <1>0 DEF Connection
  <2>4. \A i : ~Awaits(d, i)  BY <2>3 DEF Awaits
  <2> HIDE DEF d
  <2> QED  BY <1>0, <2>1, <2>2, <2>3, <2>4, ResumeReplaced
<1>5. ASSUME NEW f \in Fds, HandleRead(r, f) PROVE ResumeInv'
  <2> DEFINE d == [conn[r][f] EXCEPT !.op = "idle", !.response_data = <<>>,
                                     !.pipeline_results = <<>>, !.pending_itc = 0]
  <2>1. /\ UNCHANGED inboxes
        /\ pc[r] = "wait" /\ pc' = [pc EXCEPT ![r] = "batch"] /\ cur' = [cur EXCEPT ![r] = f]
    BY <1>5 DEF HandleRead, Goto, bus
  <2>2. conn' = [conn EXCEPT ![r][f] = d]  BY <1>0, <1>5 DEF HandleRead
  <2>3. d.pipeline_results = <<>>  BY <1>0 DEF Connection
  <2>4. \A i : ~Awaits(d, i)  BY <2>3 DEF Awaits
  <2>5. Processed(r, f)'  BY <1>0, <2>1 DEF Processed
  <2> HIDE DEF d
  <2> QED  BY <1>0, <2>1, <2>2, <2>4, <2>5, ResumeReplaced
<1> QED  BY <1>1, <1>2, <1>3, <1>4, <1>5 DEF Completions

LEMMA ReplyResumes ==
    ASSUME Known, ResumeInv, NEW r \in Reactors, Parsing(r), NEW reply \in Reply,
           reply # Placeholder, Replied(r, reply)
    PROVE  ResumeInv'
<1> DEFINE f == cur[r]
           c == conn[r][f]
           d == [c EXCEPT !.pipeline_results = Append(c.pipeline_results, reply)]
<1>1. pc[r] = "batch" /\ f \in Fds /\ UNCHANGED <<pc, cur, inboxes>>
  BY DEF Parsing, Replied, Known, Base, CurrentOK
<1>2. conn \in [Reactors -> [Fds -> Connection]]  BY DEF Known, Base, WakeInv, TypeOK
<1>3. c \in Connection  BY <1>1, <1>2
<1>4. conn' = [conn EXCEPT ![r][f] = d]  BY <1>1, <1>2 DEF Replied
<1>5. /\ d.pipeline_results = Append(c.pipeline_results, reply) /\ d.op = c.op
      /\ c.pipeline_results \in Seq(Reply)
  BY <1>3 DEF Connection
<1>6. /\ DOMAIN d.pipeline_results = 1 .. Len(c.pipeline_results) + 1
      /\ DOMAIN c.pipeline_results = 1 .. Len(c.pipeline_results)
      /\ Len(c.pipeline_results) \in Nat
      /\ \A i \in 1 .. Len(c.pipeline_results) : d.pipeline_results[i] = c.pipeline_results[i]
      /\ d.pipeline_results[Len(c.pipeline_results) + 1] = reply
  BY <1>5, AppendProperties, LenProperties
<1> HIDE DEF d
<1>7. \A i : Awaits(d, i) => Awaits(c, i)
  <2> HIDE DEF c
  <2> QED  BY <1>5, <1>6 DEF Awaits
<1>8. Processed(r, f)'  BY <1>1 DEF Processed
<1> QED  BY <1>1, <1>4, <1>7, <1>8, ResumeReplaced

LEMMA CommandResumes ==
    ASSUME Known, ResumeInv, NEW r \in Reactors, Command(r)
    PROVE  ResumeInv'
<1>1. ASSUME NEW k \in Keys, LocalGet(r, k) PROVE ResumeInv'
  <2>1. PICK e \in Lookups(shards[r][k]) : Replied(r, GetReply(e))  BY <1>1 DEF LocalGet
  <2>2. shards[r][k] \in Entry  BY DEF Known, Base, WakeInv, TypeOK
  <2>3. GetReply(e) \in Reply  BY <2>1, <2>2, EntryTypes, ReplyTypes
  <2> QED  BY <1>1, <2>1, <2>3, RealReplies, ReplyResumes DEF LocalGet
<1>2. ASSUME NEW k \in Keys, NEW v \in Values, NEW t \in Ttls, LocalSet(r, k, v, t)
      PROVE ResumeInv'
  BY <1>2, ReplyTypes, RealReplies, ReplyResumes DEF LocalSet
<1>3. ASSUME OtherCommand(r) PROVE ResumeInv'
  BY <1>3, ReplyTypes, RealReplies, ReplyResumes DEF OtherCommand
<1>4. ASSUME Parsing(r)
      PROVE  cur[r] \in Fds /\ NextIndex(Current(r)) \in Index /\ pc[r] = "batch" /\ UNCHANGED <<pc, cur>>
  <2>1. cur[r] \in Fds /\ pc[r] = "batch" /\ UNCHANGED <<pc, cur>>
    BY <1>4 DEF Parsing, Known, Base, CurrentOK
  <2> QED  BY <2>1, ExpectingType DEF Current, Known, Base, WakeInv, TypeOK
<1>5. ASSUME NEW k \in Keys, RemoteGet(r, k) PROVE ResumeInv'
  <2> DEFINE m == GetReq(cur[r], NextIndex(Current(r)), k)
  <2>1. Parsing(r) /\ Forward(r, m)  BY <1>5 DEF RemoteGet
  <2>2. m \in Message /\ m.key \in Keys  BY <1>4, <2>1, RequestTypes
  <2>3. m.type # "RESP" /\ m.fd = cur[r] /\ m.idx = NextIndex(Current(r))  BY DEF GetReq
  <2> HIDE DEF m
  <2> QED  BY <1>4, <2>1, <2>2, <2>3, ForwardResumes
<1>6. ASSUME NEW k \in Keys, NEW v \in Values, NEW t \in Ttls, RemoteSet(r, k, v, t)
      PROVE ResumeInv'
  <2> DEFINE m == SetReq(cur[r], NextIndex(Current(r)), k, v, t)
  <2>1. Parsing(r) /\ Forward(r, m)  BY <1>6 DEF RemoteSet
  <2>2. m \in Message /\ m.key \in Keys  BY <1>4, <2>1, RequestTypes, ConstantsAssumption
  <2>3. m.type # "RESP" /\ m.fd = cur[r] /\ m.idx = NextIndex(Current(r))  BY DEF SetReq
  <2> HIDE DEF m
  <2> QED  BY <1>4, <2>1, <2>2, <2>3, ForwardResumes
<1> QED  BY <1>1, <1>2, <1>3, <1>5, <1>6 DEF Command

LEMMA RespondResumes ==
    ASSUME Known, ResumeInv, NEW r \in Reactors, Respond(r)
    PROVE  ResumeInv'
<1> DEFINE f == cur[r]
           d == Submitted(conn[r][f])
<1>1. /\ pc[r] = "respond" /\ pc' = [pc EXCEPT ![r] = "drain"] /\ cur' = [cur EXCEPT ![r] = None]
      /\ UNCHANGED inboxes /\ f \in Fds /\ conn' = [conn EXCEPT ![r][f] = d]
  BY DEF Respond, Goto, bus, Known, Base, CurrentOK
<1>2. /\ pc \in [Reactors -> {"drain", "signal", "wait", "batch", "respond", "down"}]
      /\ cur \in [Reactors -> Fds \cup {None}]
      /\ conn \in [Reactors -> [Fds -> Connection]]
  BY DEF Known, Base, WakeInv, TypeOK
<1>3. conn[r][f] \in Connection  BY <1>1, <1>2
<1>4. d.op = "idle" => Waits(d)  BY <1>3, SubmittedWaits
<1>5. \A i : Awaits(d, i) => Awaits(conn[r][f], i)  BY <1>3, SubmittedWaits
<1> HIDE DEF d
<1> QED  BY <1>1, <1>2, <1>4, <1>5, ResumeReplaced

LEMMA NextResumes == Known /\ ResumeInv /\ [Next]_vars => ResumeInv'
<1> SUFFICES ASSUME Known, ResumeInv, [Next]_vars PROVE ResumeInv'  OBVIOUS
<1>1. CASE Next
  <2>1. PICK r \in Reactors :
          \/ Drain(r)
          \/ \E q \in Reactors : Signal(r, q)
          \/ Submit(r) \/ WaitFails(r) \/ KernelReadsEventfd(r)
          \/ Completions(r)
          \/ Command(r) \/ BatchEnds(r) \/ Respond(r)
    BY <1>1 DEF Next
  <2>2. pc \in [Reactors -> {"drain", "signal", "wait", "batch", "respond", "down"}]
    BY DEF Known, Base, WakeInv, TypeOK
  <2>3. CASE \E q \in Reactors : Signal(r, q)
    BY <2>3, ResumeUntouched DEF Signal
  <2>4. CASE Submit(r) \/ WaitFails(r)
    <3>1. /\ UNCHANGED <<inboxes, conn, cur>> /\ pc[r] \in {"signal", "wait"}
          /\ \E l \in {"wait", "drain"} : pc' = [pc EXCEPT ![r] = l]
      BY <2>4 DEF Submit, WaitFails, Goto, loop, bus
    <3> QED  BY <2>2, <3>1, ResumeUntouched
  <2>5. CASE KernelReadsEventfd(r)
    BY <2>5, ResumeUntouched DEF KernelReadsEventfd, loop
  <2>6. CASE BatchEnds(r)
    <3>1. UNCHANGED <<inboxes, conn, cur>> /\ pc' = [pc EXCEPT ![r] = "respond"]
      BY <2>6 DEF BatchEnds, Goto, loop, bus
    <3> QED  BY <2>2, <3>1, ResumeUntouched
  <2> QED  BY <2>1, <2>3, <2>4, <2>5, <2>6, DrainResumes, CompletionsResume, CommandResumes, RespondResumes
<1>2. CASE UNCHANGED vars
  BY <1>2, ResumeUntouched DEF vars, loop, bus
<1> QED  BY <1>1, <1>2

LEMMA InitResumes == Init => ResumeInv
<1> SUFFICES ASSUME Init PROVE ResumeInv  OBVIOUS
<1>1. \A r \in Reactors, f \in Fds : conn[r][f].op = "closed"  BY DEF Init, NoConnection
<1> QED  BY <1>1 DEF ResumeInv, IdleWaits, Covered, Awaits

LEMMA ResumesInvariance == Spec => [](Known /\ ResumeInv)
<1>1. Known <=> Base /\ PipeInv  BY DEF Known
<1> QED  BY <1>1, PipesInvariance, InitResumes, NextResumes, PTL DEF Spec

(* A connection that waits has a placeholder left, for which a message is  *)
(* under way.                                                              *)
LEMMA ResumesShow == Known /\ ResumeInv => NoForgottenConnection
<1> SUFFICES ASSUME Known, ResumeInv, NEW r \in Reactors, NEW f \in Fds,
                    conn[r][f].op = "idle", cur[r] # f, ~PushMayFail
             PROVE  \E p, q \in Reactors : \E n \in DOMAIN inboxes[p][q] :
                       /\ inboxes[p][q][n].fd = f
                       /\ Home(p, q, inboxes[p][q][n]) = r
  <2>1. \A r, f : Processed(r, f) => cur[r] = f  BY DEF Processed
  <2> QED  BY <2>1 DEF NoForgottenConnection, ResumeInv, IdleWaits, Waits
<1>1. Waits(conn[r][f])  BY DEF ResumeInv, IdleWaits, Processed
<1>2. Sound(conn[r][f]) /\ conn[r][f] \in Connection
  BY DEF Known, PipeInv, AllSound, Base, WakeInv, TypeOK
<1>3. Placeholders(conn[r][f]) # {}
  BY <1>1, <1>2, FS_EmptySet DEF Waits, Sound
<1>4. PICK i : Awaits(conn[r][f], i)  BY <1>3 DEF Placeholders, Awaits
<1> PICK p \in Reactors, q \in Reactors : \E m :
       Carries(inboxes, p, q, m) /\ Home(p, q, m) = r /\ m.fd = f
  BY <1>4 DEF ResumeInv, Covered, Concerns
<1>5. PICK m :
       Carries(inboxes, p, q, m) /\ Home(p, q, m) = r /\ m.fd = f
  OBVIOUS
<1> QED  BY <1>5 DEF Carries

(* A connection without an operation outstanding is being processed, or is *)
(* suspended, waits for an answer and has a message under way: none is     *)
(* left behind (unless a push failed).                                     *)
THEOREM NothingIsForgotten == Spec => []NoForgottenConnection
BY ResumesInvariance, ResumesShow, PTL

-----------------------------------------------------------------------------
(* What a step may not do to a connection the kernel sends from.           *)
Kept ==
    \A r \in Reactors, f \in Fds :
        conn[r][f].op = "write" /\ conn'[r][f].op = "write"
        => conn'[r][f].response_data = conn[r][f].response_data

LEMMA KeptReplaced ==
    ASSUME Known, NEW r \in Reactors, NEW f, NEW d, conn' = [conn EXCEPT ![r][f] = d],
           f \in Fds => conn[r][f].op # "write" \/ d.op # "write"
    PROVE  Kept
<1>1. conn \in [Reactors -> [Fds -> Connection]]  BY DEF Known, Base, WakeInv, TypeOK
<1>2. \A s \in Reactors, g \in Fds : conn'[s][g] = IF s = r /\ g = f THEN d ELSE conn[s][g]
  BY <1>1
<1> QED  BY <1>2 DEF Kept

LEMMA CurrentKept ==
    ASSUME Known, NEW r \in Reactors, pc[r] \in {"batch", "respond"}, NEW d,
           conn' = [conn EXCEPT ![r][cur[r]] = d]
    PROVE  Kept
BY KeptReplaced DEF Known, PipeInv, CurrentIdle

LEMMA NextKeeps == Known /\ [Next]_vars => Kept
<1> SUFFICES ASSUME Known, [Next]_vars PROVE Kept  OBVIOUS
<1>0. conn \in [Reactors -> [Fds -> Connection]]  BY DEF Known, Base, WakeInv, TypeOK
<1>1. CASE UNCHANGED conn  BY <1>1 DEF Kept
<1>2. ASSUME NEW r \in Reactors, NEW p \in Reactors, PopResp(r, p) PROVE Kept
  <2> PICK m : m = Head(inboxes[p][r])  OBVIOUS
  <2>1. inboxes \in Queues  BY DEF Known, Base, WakeInv, TypeOK, Queues
  <2>2. inboxes[p][r] # <<>> /\ m.type = "RESP"  BY <1>2 DEF PopResp, Popped
  <2>3. Carries(inboxes, p, r, m)  BY <2>1, <2>2, HeadCarried
  <2>4. Awaits(conn[r][m.fd], m.idx)  BY <2>2, <2>3 DEF Known, PipeInv, AllAwaited, Home
  <2> PICK d : d = Filled(conn[r][m.fd], m)  BY Zenon
  <2>5. conn' = [conn EXCEPT ![r][m.fd] = d]  BY <1>2, <2>4 DEF PopResp, IsOpen, Awaits
  <2> QED  BY <2>4, <2>5, KeptReplaced DEF Awaits
<1>3. ASSUME NEW r \in Reactors, NEW f \in Fds, HandleAccept(r, f) PROVE Kept
  <2>1. conn[r][f].op = "closed"  BY <1>3 DEF HandleAccept, IsOpen
  <2>2. CASE conn' = [conn EXCEPT ![r][f] = Accepted]  BY <2>1, <2>2, KeptReplaced
  <2> QED  BY <1>1, <1>3, <2>2 DEF HandleAccept
<1>4. ASSUME NEW r \in Reactors, NEW f \in Fds,
             HandleClose(r, f) \/ HandleWrite(r, f) \/ HandleRead(r, f)
      PROVE Kept
  <2>1. CASE HandleClose(r, f)
    BY <2>1, KeptReplaced DEF HandleClose, NoConnection
  <2>2. CASE HandleWrite(r, f)
    <3> PICK d : d = [conn[r][f] EXCEPT !.op = "read", !.response_data = <<>>]  OBVIOUS
    <3>1. conn' = [conn EXCEPT ![r][f] = d]  BY <1>0, <2>2 DEF HandleWrite
    <3>2. d.op = "read"  BY <1>0 DEF Connection
    <3> QED  BY <3>1, <3>2, KeptReplaced
  <2>3. CASE HandleRead(r, f)
    <3> PICK d : d = [conn[r][f] EXCEPT !.op = "idle", !.response_data = <<>>,
                                        !.pipeline_results = <<>>, !.pending_itc = 0]
      OBVIOUS
    <3>1. conn' = [conn EXCEPT ![r][f] = d]  BY <1>0, <2>3 DEF HandleRead
    <3>2. conn[r][f].op = "read"  BY <2>3 DEF HandleRead
    <3> QED  BY <3>1, <3>2, KeptReplaced
  <2> QED  BY <1>4, <2>1, <2>2, <2>3
<1>5. ASSUME NEW r \in Reactors, NEW reply, Parsing(r), Replied(r, reply) PROVE Kept
  <2>1. conn' = [conn EXCEPT ![r][cur[r]] =
                    [conn[r][cur[r]] EXCEPT !.pipeline_results = Append(conn[r][cur[r]].pipeline_results, reply)]]
    BY <1>5 DEF Replied
  <2> QED  BY <1>5, <2>1, CurrentKept DEF Parsing
<1>6. ASSUME NEW r \in Reactors, NEW m, Parsing(r), Forward(r, m) PROVE Kept
  BY <1>6, CurrentKept DEF Parsing, Forward
<1>7. ASSUME NEW r \in Reactors, Respond(r) PROVE Kept
  BY <1>7, CurrentKept DEF Respond
<1>8. ASSUME NEW r \in Reactors, Drain(r) PROVE Kept
  BY <1>1, <1>2, <1>8 DEF Drain, PopGet, PopSet, Answered, SeeEmpty, DrainEnds
<1>9. ASSUME NEW r \in Reactors, Completions(r) PROVE Kept
  BY <1>1, <1>3, <1>4, <1>9 DEF Completions, HandleItcEvent, ItcReadFails, HandleAof, AcceptFails
<1>10. ASSUME NEW r \in Reactors, Command(r) PROVE Kept
  BY <1>5, <1>6, <1>10 DEF Command, LocalGet, LocalSet, OtherCommand, RemoteGet, RemoteSet
<1>11. ASSUME NEW r \in Reactors,
              \/ \E q \in Reactors : Signal(r, q)
              \/ Submit(r) \/ WaitFails(r) \/ KernelReadsEventfd(r) \/ BatchEnds(r)
       PROVE  Kept
  BY <1>1, <1>11 DEF Signal, Submit, WaitFails, KernelReadsEventfd, BatchEnds
<1>12. CASE Next
  BY <1>7, <1>8, <1>9, <1>10, <1>11, <1>12 DEF Next
<1> QED  BY <1>1, <1>12 DEF vars

(* While a send is outstanding no step touches the response the kernel may *)
(* still be reading.                                                       *)
THEOREM SendsAreLeftAlone == Spec => SendBufferStable
<1>1. Known /\ [Next]_vars => [Kept]_vars  BY NextKeeps
<1> QED  BY <1>1, ResumesInvariance, PTL DEF Spec, SendBufferStable, Kept

-----------------------------------------------------------------------------
(* The pool.  Taken is what PoolNotOverdrawn says of one reactor.          *)
Open(r) == {f \in Fds : IsOpen(r, f)}

Taken(r) ==
    pool_free[r] + Cardinality(Open(r))
      + (IF Up(r) THEN 1 ELSE 0) + (IF itc_read[r] = "off" THEN 0 ELSE 1)
      + (IF accepting[r] THEN 1 ELSE 0) <= PoolSize

PoolInv == \A r \in Reactors : IsFiniteSet(Open(r)) /\ Taken(r)

LEMMA OpenFinite ==
    ASSUME PoolInv, NEW r \in Reactors
    PROVE  Cardinality(Open(r)) \in Nat
BY FS_CardinalityType DEF PoolInv

LEMMA StaysOpen ==
    ASSUME NEW c \in Connection, c.op # "closed"
    PROVE  /\ Submitted(c).op # "closed"
           /\ Expecting(c).op # "closed"
           /\ \A m : Filled(c, m).op # "closed"
<1>1. ASSUME NEW d, d.op # "closed", DOMAIN d = DOMAIN c, d = [x \in DOMAIN d |-> d[x]]
      PROVE  Submitted(d).op # "closed"
  BY <1>1 DEF Submitted, Connection
<1>2. Submitted(c).op # "closed"  BY DEF Submitted, Connection
<1>3. Expecting(c).op # "closed"  BY DEF Expecting, Connection
<1>4. ASSUME NEW m PROVE Filled(c, m).op # "closed"
  <2> DEFINE results == IF m.idx <= Len(c.pipeline_results)
                        THEN [c.pipeline_results EXCEPT ![m.idx] = Answer(m)]
                        ELSE c.pipeline_results
             d == [c EXCEPT !.pipeline_results = results, !.pending_itc = c.pending_itc - 1]
             e == [d EXCEPT !.suspended = FALSE]
  <2> HIDE DEF results
  <2>1. d.op # "closed" /\ e.op # "closed"  BY DEF Connection
  <2>2. DOMAIN e = DOMAIN c /\ e = [x \in DOMAIN e |-> e[x]]  BY DEF Connection
  <2>3. Submitted(e).op # "closed"
    <3> HIDE DEF e
    <3> QED  BY <1>1, <2>1, <2>2
  <2>4. Filled(c, m) = IF d.pending_itc = 0 /\ d.suspended THEN Submitted(e) ELSE d
    BY DEF Filled, results
  <2> HIDE DEF d, e
  <2> QED  BY <2>1, <2>3, <2>4
<1> QED  BY <1>2, <1>3, <1>4

(* Steps that neither take nor release a Connection.                       *)
LEMMA PoolUntouched ==
    ASSUME PoolInv, UNCHANGED <<pool_free, accepting>>,
           \A s \in Reactors : Up(s)' = Up(s) /\ (itc_read'[s] = "off" <=> itc_read[s] = "off"),
           \A s \in Reactors, g \in Fds : IsOpen(s, g)' <=> IsOpen(s, g)
    PROVE  PoolInv'
<1>1. \A s \in Reactors : Open(s)' = Open(s)  BY DEF Open
<1> QED  BY <1>1 DEF PoolInv, Taken

(* Steps of one reactor that do.                                           *)
LEMMA PoolOf ==
    ASSUME PoolInv, NEW r \in Reactors,
           \A s \in Reactors \ {r} :
              /\ pool_free'[s] = pool_free[s] /\ accepting'[s] = accepting[s]
              /\ itc_read'[s] = itc_read[s] /\ conn'[s] = conn[s],
           \A s \in Reactors : Up(s)' = Up(s),
           IsFiniteSet(Open(r))' /\ Taken(r)'
    PROVE  PoolInv'
<1>1. \A s \in Reactors \ {r} : Open(s)' = Open(s)  BY DEF Open, IsOpen
<1> QED  BY <1>1 DEF PoolInv, Taken

(* A Connection that is open is replaced by one that is.                   *)
LEMMA OpenReplaced ==
    ASSUME Known, PoolInv, NEW r \in Reactors, NEW f, f \in Fds => IsOpen(r, f),
           NEW d, d.op # "closed", conn' = [conn EXCEPT ![r][f] = d],
           UNCHANGED <<pool_free, accepting, itc_read>>,
           \A s \in Reactors : Up(s)' = Up(s)
    PROVE  PoolInv'
<1>1. conn \in [Reactors -> [Fds -> Connection]]  BY DEF Known, Base, WakeInv, TypeOK
<1>2. \A s \in Reactors, g \in Fds : conn'[s][g] = IF s = r /\ g = f THEN d ELSE conn[s][g]
  BY <1>1
<1>3. \A s \in Reactors, g \in Fds : IsOpen(s, g)' <=> IsOpen(s, g)  BY <1>2 DEF IsOpen
<1> QED  BY <1>3, PoolUntouched

LEMMA CurrentReplaced ==
    ASSUME Known, PoolInv, NEW r \in Reactors, pc[r] \in {"batch", "respond"},
           NEW d, conn[r][cur[r]].op # "closed" /\ conn[r][cur[r]] \in Connection => d.op # "closed",
           conn' = [conn EXCEPT ![r][cur[r]] = d],
           UNCHANGED <<pool_free, accepting, itc_read>>,
           \A s \in Reactors : Up(s)' = Up(s)
    PROVE  PoolInv'
<1>1. cur[r] \in Fds /\ conn[r][cur[r]].op = "idle"
  BY DEF Known, Base, CurrentOK, PipeInv, CurrentIdle
<1>2. conn[r][cur[r]] \in Connection  BY <1>1 DEF Known, Base, WakeInv, TypeOK
<1>3. IsOpen(r, cur[r]) /\ d.op # "closed"  BY <1>1, <1>2 DEF IsOpen
<1> QED  BY <1>3, OpenReplaced

(* An accept takes one Connection for the client, if there is one, and one *)
(* for the next accept; its own is lost.                                   *)
LEMMA AcceptPool ==
    ASSUME Known, PoolInv, NEW r \in Reactors, NEW f \in Fds, HandleAccept(r, f)
    PROVE  PoolInv'
<1>1. /\ pc \in [Reactors -> {"drain", "signal", "wait", "batch", "respond", "down"}]
      /\ conn \in [Reactors -> [Fds -> Connection]]
      /\ pool_free \in [Reactors -> Nat] /\ accepting \in [Reactors -> BOOLEAN]
  BY DEF Known, Base, WakeInv, TypeOK
<1>2. /\ pc[r] = "wait" /\ pc' = [pc EXCEPT ![r] = "drain"] /\ UNCHANGED itc_read
      /\ pool_free' = [pool_free EXCEPT ![r] = Acquired(Acquired(pool_free[r]))]
      /\ accepting' = [accepting EXCEPT ![r] = pool_free[r] > 1]
      /\ accepting[r] /\ ~IsOpen(r, f)
  BY DEF HandleAccept, Handles, Goto, bus
<1>3. conn' = [conn EXCEPT ![r][f] = Accepted] \/ conn' = conn  BY DEF HandleAccept
<1>4. \A s \in Reactors : Up(s)' = Up(s)  BY <1>1, <1>2 DEF Up
<1>5. \A s \in Reactors \ {r} :
         /\ pool_free'[s] = pool_free[s] /\ accepting'[s] = accepting[s]
         /\ itc_read'[s] = itc_read[s] /\ conn'[s] = conn[s]
  BY <1>1, <1>2, <1>3
<1>6. accepting'[r] <=> pool_free[r] > 1  BY <1>1, <1>2
<1>7. pool_free'[r] = IF pool_free[r] > 1 THEN pool_free[r] - 2 ELSE 0
  <2>1. pool_free'[r] = Acquired(Acquired(pool_free[r])) /\ pool_free[r] \in Nat  BY <1>1, <1>2
  <2> QED  BY <2>1 DEF Acquired
<1>8. IsFiniteSet(Open(r)) /\ Taken(r) /\ Cardinality(Open(r)) \in Nat
  BY OpenFinite DEF PoolInv
<1>9. /\ IsFiniteSet(Open(r))'
      /\ Cardinality(Open(r))' = Cardinality(Open(r)) + (IF pool_free[r] > 0 THEN 1 ELSE 0)
  <2>1. CASE pool_free[r] > 0
    <3>1. conn' = [conn EXCEPT ![r][f] = Accepted]  BY <2>1 DEF HandleAccept
    <3>2. Accepted.op = "read"  BY DEF Accepted, NoConnection
    <3>3. \A g \in Fds : IsOpen(r, g)' <=> g = f \/ IsOpen(r, g)  BY <1>1, <3>1, <3>2 DEF IsOpen
    <3>4. Open(r)' = Open(r) \cup {f}  BY <3>3 DEF Open
    <3>5. f \notin Open(r)  BY <1>2 DEF Open
    <3>6. IsFiniteSet(Open(r) \cup {f}) /\ Cardinality(Open(r) \cup {f}) = Cardinality(Open(r)) + 1
      BY <1>8, <3>5, FS_AddElement
    <3> QED  BY <2>1, <3>4, <3>6
  <2>2. CASE ~(pool_free[r] > 0)
    <3>1. conn' = conn  BY <2>2 DEF HandleAccept
    <3>2. Open(r)' = Open(r)  BY <3>1 DEF Open, IsOpen
    <3> QED  BY <1>8, <2>2, <3>2
  <2> QED  BY <2>1, <2>2
<1>10. Taken(r)'
  <2>1. pool_free[r] \in Nat /\ accepting[r] = TRUE  BY <1>1, <1>2
  <2> QED  BY <1>2, <1>4, <1>6, <1>7, <1>8, <1>9, <2>1, ConstantsAssumption DEF Taken
<1> QED  BY <1>4, <1>5, <1>9, <1>10, PoolOf

LEMMA ClosePool ==
    ASSUME Known, PoolInv, NEW r \in Reactors, NEW f \in Fds, HandleClose(r, f)
    PROVE  PoolInv'
<1>1. /\ pc \in [Reactors -> {"drain", "signal", "wait", "batch", "respond", "down"}]
      /\ conn \in [Reactors -> [Fds -> Connection]] /\ pool_free \in [Reactors -> Nat]
  BY DEF Known, Base, WakeInv, TypeOK
<1>2. /\ pc[r] = "wait" /\ pc' = [pc EXCEPT ![r] = "drain"] /\ UNCHANGED <<itc_read, accepting>>
      /\ pool_free' = [pool_free EXCEPT ![r] = Released(pool_free[r])]
      /\ conn' = [conn EXCEPT ![r][f] = NoConnection]
  BY DEF HandleClose, Handles, Goto, bus
<1>3. \A s \in Reactors : Up(s)' = Up(s)  BY <1>1, <1>2 DEF Up
<1>4. \A s \in Reactors \ {r} :
         /\ pool_free'[s] = pool_free[s] /\ accepting'[s] = accepting[s]
         /\ itc_read'[s] = itc_read[s] /\ conn'[s] = conn[s]
  BY <1>1, <1>2
<1>5. IsFiniteSet(Open(r)) /\ Taken(r) /\ Cardinality(Open(r)) \in Nat
  BY OpenFinite DEF PoolInv
<1>6. IsFiniteSet(Open(r))' /\ Cardinality(Open(r))' = Cardinality(Open(r)) - 1
  <2>1. NoConnection.op = "closed"  BY DEF NoConnection
  <2>2. \A g \in Fds : IsOpen(r, g)' <=> g # f /\ IsOpen(r, g)  BY <1>1, <1>2, <2>1 DEF IsOpen
  <2>3. Open(r)' = Open(r) \ {f}  BY <2>2 DEF Open
  <2>4. f \in Open(r)  BY DEF Open, HandleClose, Closable, IsOpen
  <2>5. IsFiniteSet(Open(r) \ {f}) /\ Cardinality(Open(r) \ {f}) = Cardinality(Open(r)) - 1
    BY <1>5, <2>4, FS_RemoveElement
  <2> QED  BY <2>3, <2>5
<1>7. Taken(r)'
  <2>1. pool_free'[r] = pool_free[r] + 1 /\ pool_free[r] \in Nat  BY <1>1, <1>2 DEF Released
  <2> QED  BY <1>2, <1>3, <1>5, <1>6, <2>1, ConstantsAssumption DEF Taken
<1> QED  BY <1>3, <1>4, <1>6, <1>7, PoolOf

(* A read of the eventfd or an accept that fails gives nothing back twice. *)
LEMMA FailurePool ==
    ASSUME Known, PoolInv, NEW r \in Reactors, ItcReadFails(r) \/ AcceptFails(r)
    PROVE  PoolInv'
<1>1. /\ pc \in [Reactors -> {"drain", "signal", "wait", "batch", "respond", "down"}]
      /\ pool_free \in [Reactors -> Nat] /\ accepting \in [Reactors -> BOOLEAN]
      /\ itc_read \in [Reactors -> {"prepared", "armed", "done", "off"}]
  BY DEF Known, Base, WakeInv, TypeOK
<1>2. pc[r] = "wait" /\ pc' = [pc EXCEPT ![r] = "drain"] /\ UNCHANGED conn
  BY DEF ItcReadFails, AcceptFails, Handles, Goto
<1>3. \A s \in Reactors : Up(s)' = Up(s)  BY <1>1, <1>2 DEF Up
<1>4. IsFiniteSet(Open(r)) /\ Taken(r) /\ Cardinality(Open(r)) \in Nat
  BY OpenFinite DEF PoolInv
<1>5. Open(r)' = Open(r)  BY <1>2 DEF Open, IsOpen
<1>6. pool_free[r] \in Nat /\ PoolSize \in Nat  BY <1>1, ConstantsAssumption
<1>7. CASE ItcReadFails(r)
  <2>1. /\ pool_free' = [pool_free EXCEPT ![r] = pool_free[r] + 1]
        /\ itc_read' = [itc_read EXCEPT ![r] = "off"] /\ itc_read[r] = "armed"
        /\ UNCHANGED accepting
    BY <1>7 DEF ItcReadFails, Released
  <2>2. pool_free'[r] = pool_free[r] + 1 /\ itc_read'[r] = "off"  BY <1>1, <2>1
  <2>3. Taken(r)'  BY <1>3, <1>4, <1>5, <1>6, <2>1, <2>2 DEF Taken
  <2>4. \A s \in Reactors \ {r} :
           /\ pool_free'[s] = pool_free[s] /\ accepting'[s] = accepting[s]
           /\ itc_read'[s] = itc_read[s] /\ conn'[s] = conn[s]
    BY <1>1, <1>2, <2>1
  <2> QED  BY <1>3, <1>4, <1>5, <2>3, <2>4, PoolOf
<1>8. CASE AcceptFails(r)
  <2>1. /\ accepting' = [accepting EXCEPT ![r] = FALSE] /\ accepting[r]
        /\ UNCHANGED <<pool_free, itc_read>>
    BY <1>8 DEF AcceptFails, bus
  <2>2. accepting'[r] = FALSE  BY <1>1, <2>1
  <2>3. Taken(r)'  BY <1>3, <1>4, <1>5, <1>6, <2>1, <2>2 DEF Taken
  <2>4. \A s \in Reactors \ {r} :
           /\ pool_free'[s] = pool_free[s] /\ accepting'[s] = accepting[s]
           /\ itc_read'[s] = itc_read[s] /\ conn'[s] = conn[s]
    BY <1>1, <1>2, <2>1
  <2> QED  BY <1>3, <1>4, <1>5, <2>3, <2>4, PoolOf
<1> QED  BY <1>7, <1>8

LEMMA NextPool == Known /\ PoolInv /\ [Next]_vars => PoolInv'
<1> SUFFICES ASSUME Known, PoolInv, [Next]_vars PROVE PoolInv'  OBVIOUS
<1>0. /\ pc \in [Reactors -> {"drain", "signal", "wait", "batch", "respond", "down"}]
      /\ conn \in [Reactors -> [Fds -> Connection]]
      /\ itc_read \in [Reactors -> {"prepared", "armed", "done", "off"}]
  BY DEF Known, Base, WakeInv, TypeOK
<1>goes. ASSUME NEW r \in Reactors, pc[r] # "down",
                NEW l \in {"drain", "signal", "wait", "batch", "respond"}, pc' = [pc EXCEPT ![r] = l]
         PROVE  \A s \in Reactors : Up(s)' = Up(s)
  BY <1>0, <1>goes DEF Up
<1>stays. ASSUME UNCHANGED pc PROVE \A s \in Reactors : Up(s)' = Up(s)
  BY <1>stays DEF Up
(* Steps that only move the thread, the bus or the data.                   *)
<1>1. ASSUME UNCHANGED <<pool_free, accepting, conn>>, \A s \in Reactors : Up(s)' = Up(s),
             \A s \in Reactors : itc_read'[s] = "off" <=> itc_read[s] = "off"
      PROVE  PoolInv'
  BY <1>1, PoolUntouched DEF IsOpen
<1>2. ASSUME NEW r \in Reactors, NEW p \in Reactors, PopResp(r, p) PROVE PoolInv'
  <2> PICK m : m = Head(inboxes[p][r])  OBVIOUS
  <2>1. \A s \in Reactors : Up(s)' = Up(s)  BY <1>2, <1>stays DEF PopResp
  <2>2. UNCHANGED <<pool_free, accepting, itc_read>>  BY <1>2, SMTT(25) DEF PopResp, pool
  <2>3. CASE IsOpen(r, m.fd)
    <3>1. inboxes \in Queues /\ inboxes[p][r] # <<>>
      BY <1>2 DEF Known, Base, WakeInv, TypeOK, Queues, PopResp, Popped
    <3>2. m.fd \in Fds  BY <3>1, HeadCarried, CarriedType
    <3> PICK d : d = Filled(conn[r][m.fd], m)  OBVIOUS
    <3>3. conn' = [conn EXCEPT ![r][m.fd] = d]  BY <1>2, <2>3 DEF PopResp
    <3>4. d.op # "closed"  BY <1>0, <2>3, <3>2, StaysOpen DEF IsOpen
    <3> QED  BY <2>1, <2>2, <2>3, <3>3, <3>4, OpenReplaced
  <2>4. CASE ~IsOpen(r, m.fd)
    <3>1. conn' = conn  BY <1>2, <2>4 DEF PopResp
    <3> QED  BY <1>1, <2>1, <2>2, <3>1
  <2> QED  BY <2>3, <2>4
<1>3. ASSUME NEW r \in Reactors, Drain(r) PROVE PoolInv'
  <2>1. ASSUME NEW p \in Reactors, PopGet(r, p) \/ PopSet(r, p) \/ SeeEmpty(r, p) PROVE PoolInv'
    BY <1>1, <1>stays, <2>1 DEF PopGet, PopSet, SeeEmpty, Answered, pool, bus
  <2>2. CASE DrainEnds(r)
    <3>1. pc[r] = "drain" /\ pc' = [pc EXCEPT ![r] = "signal"]
          /\ UNCHANGED <<pool_free, accepting, itc_read, conn>>
      BY <2>2 DEF DrainEnds, Goto, pool, bus
    <3> QED  BY <1>1, <1>goes, <3>1
  <2> QED  BY <1>2, <1>3, <2>1, <2>2 DEF Drain
<1>4. ASSUME NEW r \in Reactors, NEW f \in Fds, HandleWrite(r, f) \/ HandleRead(r, f) PROVE PoolInv'
  <2>1. PICK d : d.op # "closed" /\ conn' = [conn EXCEPT ![r][f] = d]
    <3>1. CASE HandleWrite(r, f)
      <4> PICK d : d = [conn[r][f] EXCEPT !.op = "read", !.response_data = <<>>]  OBVIOUS
      <4>1. d.op = "read"  BY <1>0 DEF Connection
      <4>2. conn' = [conn EXCEPT ![r][f] = d]  BY <1>0, <3>1 DEF HandleWrite
      <4> QED  BY <4>1, <4>2
    <3>2. CASE HandleRead(r, f)
      <4> PICK d : d = [conn[r][f] EXCEPT !.op = "idle", !.response_data = <<>>,
                                          !.pipeline_results = <<>>, !.pending_itc = 0]
        OBVIOUS
      <4>1. d.op = "idle"  BY <1>0 DEF Connection
      <4>2. conn' = [conn EXCEPT ![r][f] = d]  BY <1>0, <3>2 DEF HandleRead
      <4> QED  BY <4>1, <4>2
    <3> QED  BY <1>4, <3>1, <3>2
  <2>3. IsOpen(r, f)  BY <1>4 DEF HandleWrite, HandleRead, IsOpen
  <2>4. /\ pc[r] = "wait" /\ \E l \in {"drain", "batch"} : pc' = [pc EXCEPT ![r] = l]
        /\ UNCHANGED <<pool_free, accepting, itc_read>>
    BY <1>4 DEF HandleWrite, HandleRead, Handles, Goto, pool, bus
  <2>5. \A s \in Reactors : Up(s)' = Up(s)  BY <1>goes, <2>4
  <2> QED  BY <2>1, <2>3, <2>4, <2>5, OpenReplaced
<1>5. ASSUME NEW r \in Reactors, HandleItcEvent(r) \/ HandleAof(r) PROVE PoolInv'
  <2>1. /\ pc[r] = "wait" /\ pc' = [pc EXCEPT ![r] = "drain"]
        /\ UNCHANGED <<pool_free, accepting, conn>>
    BY <1>5 DEF HandleItcEvent, HandleAof, Handles, Goto, pool
  <2>2. \A s \in Reactors : itc_read'[s] = "off" <=> itc_read[s] = "off"
    BY <1>0, <1>5 DEF HandleItcEvent, HandleAof, SubmitItcRead, bus
  <2> QED  BY <1>1, <1>goes, <2>1, <2>2
<1>6. ASSUME NEW r \in Reactors, Completions(r) PROVE PoolInv'
  BY <1>4, <1>5, <1>6, AcceptPool, ClosePool, FailurePool DEF Completions
<1>7. ASSUME NEW r \in Reactors, NEW reply, Parsing(r), Replied(r, reply) PROVE PoolInv'
  <2> PICK d : d = [conn[r][cur[r]] EXCEPT !.pipeline_results = Append(conn[r][cur[r]].pipeline_results, reply)]
    OBVIOUS
  <2>1. conn' = [conn EXCEPT ![r][cur[r]] = d]  BY <1>7 DEF Replied
  <2>2. conn[r][cur[r]].op # "closed" /\ conn[r][cur[r]] \in Connection => d.op # "closed"
    BY DEF Connection
  <2>3. \A s \in Reactors : Up(s)' = Up(s)  BY <1>7, <1>stays DEF Parsing
  <2> QED  BY <1>7, <2>1, <2>2, <2>3, CurrentReplaced DEF Parsing, pool
<1>8. ASSUME NEW r \in Reactors, NEW m, Parsing(r), Forward(r, m) PROVE PoolInv'
  <2>1. conn' = [conn EXCEPT ![r][cur[r]] = Expecting(conn[r][cur[r]])]  BY <1>8 DEF Forward
  <2>2. \A s \in Reactors : Up(s)' = Up(s)  BY <1>8, <1>stays DEF Parsing
  <2> QED  BY <1>8, <2>1, <2>2, StaysOpen, CurrentReplaced DEF Parsing, pool
<1>9. ASSUME NEW r \in Reactors, Command(r) PROVE PoolInv'
  BY <1>7, <1>8, <1>9 DEF Command, LocalGet, LocalSet, OtherCommand, RemoteGet, RemoteSet
<1>10. ASSUME NEW r \in Reactors, Respond(r) PROVE PoolInv'
  <2>1. /\ pc[r] = "respond" /\ pc' = [pc EXCEPT ![r] = "drain"]
        /\ conn' = [conn EXCEPT ![r][cur[r]] = Submitted(conn[r][cur[r]])]
        /\ UNCHANGED <<pool_free, accepting, itc_read>>
    BY <1>10 DEF Respond, Goto, pool, bus
  <2>2. \A s \in Reactors : Up(s)' = Up(s)  BY <1>goes, <2>1
  <2> QED  BY <2>1, <2>2, StaysOpen, CurrentReplaced
<1>11. ASSUME NEW r \in Reactors,
              \/ \E q \in Reactors : Signal(r, q)
              \/ Submit(r) \/ WaitFails(r) \/ KernelReadsEventfd(r) \/ BatchEnds(r)
       PROVE  PoolInv'
  <2>1. UNCHANGED <<pool_free, accepting, conn>>
    BY <1>11 DEF Signal, Submit, WaitFails, KernelReadsEventfd, BatchEnds, pool
  <2>2. \A s \in Reactors : itc_read'[s] = "off" <=> itc_read[s] = "off"
    BY <1>0, <1>11 DEF Signal, Submit, WaitFails, KernelReadsEventfd, BatchEnds, bus
  <2>3. CASE \E q \in Reactors : Signal(r, q)
    BY <1>1, <1>stays, <2>1, <2>2, <2>3 DEF Signal
  <2>4. CASE KernelReadsEventfd(r)
    BY <1>1, <1>stays, <2>1, <2>2, <2>4 DEF KernelReadsEventfd
  <2>5. CASE Submit(r) \/ WaitFails(r) \/ BatchEnds(r)
    <3>1. pc[r] # "down" /\ \E l \in {"wait", "drain", "respond"} : pc' = [pc EXCEPT ![r] = l]
      BY <2>5 DEF Submit, WaitFails, BatchEnds, Goto
    <3> QED  BY <1>1, <1>goes, <2>1, <2>2, <3>1
  <2> QED  BY <1>11, <2>3, <2>4, <2>5
<1>12. CASE Next
  BY <1>3, <1>6, <1>9, <1>10, <1>11, <1>12 DEF Next
<1>13. CASE UNCHANGED vars
  BY <1>1, <1>13, <1>stays DEF vars, pool, bus
<1> QED  BY <1>12, <1>13

LEMMA InitPool == Init => PoolInv
<1> SUFFICES ASSUME Init, NEW r \in Reactors PROVE IsFiniteSet(Open(r)) /\ Taken(r)
  BY DEF PoolInv
<1>1. Open(r) = {}  BY DEF Init, Open, IsOpen, NoConnection
<1>2. IsFiniteSet(Open(r)) /\ Cardinality(Open(r)) = 0  BY <1>1, FS_EmptySet
<1>3. /\ pool_free[r] = PoolSize - (IF Up(r) THEN 3 ELSE 0)
      /\ itc_read[r] = (IF Up(r) THEN "prepared" ELSE "off")
      /\ accepting[r] = Up(r)
  BY DEF Init
<1>4. Taken(r)
  <2>1. PoolSize \in Nat  BY ConstantsAssumption
  <2>2. CASE Up(r)  BY <1>2, <1>3, <2>1, <2>2 DEF Taken
  <2>3. CASE ~Up(r)  BY <1>2, <1>3, <2>1, <2>3 DEF Taken
  <2> QED  BY <2>2, <2>3
<1> QED  BY <1>2, <1>4

(* What is free, what the clients have and what the reactor itself holds   *)
(* never exceed the pool: nothing is released twice, whatever fails.       *)
THEOREM PoolIsNotOverdrawn == Spec => []PoolNotOverdrawn
<1>1. PoolInv => PoolNotOverdrawn  BY DEF PoolInv, Taken, Open, PoolNotOverdrawn
<1>2. Known /\ ResumeInv => Known  OBVIOUS
<1> QED  BY <1>1, <1>2, ResumesInvariance, InitPool, NextPool, PTL DEF Spec

-----------------------------------------------------------------------------
(* The store                                                               *)

(* What is assumed of the replies is what a RESP can express: a SET is     *)
(* answered with whatever was left in it, and the empty value with OK.     *)
StoreAssumption ==
    /\ ~PushMayFail
    /\ OK \in SetReplies
    /\ \A v \in Leftovers : IF v = EmptyValue THEN OK \in SetReplies ELSE Bulk(v) \in SetReplies
    /\ OK \in EmptyReplies /\ Bulk(EmptyValue) \in EmptyReplies

-----------------------------------------------------------------------------
(* The mapping, of a value B of inboxes and a value C of conn.             *)
AboutIn(B, r, f, i) ==
    CHOOSE m \in UNION {Range(B[r][q]) \cup Range(B[q][r]) :
                          q \in Reactors \ {r}} : m.fd = f /\ m.idx = i

SlotsIn(B, C, r, f) ==
    [i \in DOMAIN C[r][f].pipeline_results |->
        IF C[r][f].pipeline_results[i] # Placeholder
        THEN [done |-> TRUE, reply |-> C[r][f].pipeline_results[i]]
        ELSE Slot(AboutIn(B, r, f, i))]

PipelineIn(B, C, f) == IF \E r \in Reactors : C[r][f].op # "closed"
                       THEN SlotsIn(B, C, CHOOSE r \in Reactors : C[r][f].op # "closed", f)
                       ELSE <<>>

LEMMA PipelineNow == \A f : Pipeline(f) = PipelineIn(inboxes, conn, f)
BY DEF Pipeline, PipelineIn, Slots, SlotsIn, About, AboutIn, IsOpen

LEMMA PipelineNext == \A f : Pipeline(f)' = PipelineIn(inboxes', conn', f)
BY DEF Pipeline, PipelineIn, Slots, SlotsIn, About, AboutIn, IsOpen

-----------------------------------------------------------------------------
(* Sequences as functions.                                                 *)
LEMMA FunctionIsSeq ==
    ASSUME NEW n \in Nat, NEW s, s = [i \in 1 .. n |-> s[i]]
    PROVE  s \in Seq({s[i] : i \in 1 .. n}) /\ Len(s) = n
<1> DEFINE S == {s[i] : i \in 1 .. n}
<1>1. s \in [1 .. n -> S]  OBVIOUS
<1>2. s \in Seq(S)  BY <1>1, SeqDef
<1>3. DOMAIN s = 1 .. n  BY <1>1
<1>4. Len(s) \in Nat /\ DOMAIN s = 1 .. Len(s)  BY <1>2, LenProperties
<1>5. Len(s) = n  BY <1>3, <1>4
<1> QED  BY <1>2, <1>5

LEMMA AppendIs ==
    ASSUME NEW n \in Nat, NEW s, s = [i \in 1 .. n |-> s[i]], NEW e,
           NEW t, t = [i \in 1 .. n + 1 |-> t[i]],
           \A i \in 1 .. n : t[i] = s[i], t[n + 1] = e
    PROVE  t = Append(s, e) /\ t # s /\ Len(s) = n /\ DOMAIN s = 1 .. n
<1> DEFINE S == {s[i] : i \in 1 .. n} \cup {e}
<1>1. s \in [1 .. n -> S]  OBVIOUS
<1>2. s \in Seq(S) /\ e \in S  BY <1>1, SeqDef
<1>3. Len(s) = n /\ DOMAIN s = 1 .. n  BY FunctionIsSeq
<1>4. /\ Append(s, e) = [i \in 1 .. n + 1 |-> Append(s, e)[i]]
      /\ \A i \in 1 .. n : Append(s, e)[i] = s[i]
      /\ Append(s, e)[n + 1] = e
  <2> HIDE DEF S
  <2>1. /\ Append(s, e) \in Seq(S) /\ Len(Append(s, e)) = n + 1
        /\ \A i \in 1 .. n : Append(s, e)[i] = s[i]
        /\ Append(s, e)[n + 1] = e
    BY <1>2, <1>3, AppendProperties
  <2>2. Append(s, e) \in [1 .. n + 1 -> S]  BY <2>1, LenProperties
  <2> QED  BY <2>1, <2>2
<1>5. \A i \in 1 .. n + 1 : Append(s, e)[i] = t[i]
  <2> SUFFICES ASSUME NEW i \in 1 .. n + 1 PROVE Append(s, e)[i] = t[i]  OBVIOUS
  <2>1. CASE i \in 1 .. n  BY <1>4, <2>1
  <2>2. CASE i = n + 1  BY <1>4, <2>2
  <2> QED  BY <2>1, <2>2
<1>6. t = Append(s, e)  BY <1>4, <1>5
<1>7. n + 1 \in DOMAIN t /\ n + 1 \notin DOMAIN s  BY <1>3
<1> QED  BY <1>3, <1>6, <1>7

LEMMA EmptyIs == ASSUME NEW s, s = [i \in {} |-> s[i]] PROVE s = <<>>
<1>1. s = [i \in 1 .. 0 |-> s[i]]  OBVIOUS
<1>2. s \in Seq({s[i] : i \in 1 .. 0}) /\ Len(s) = 0  BY <1>1, FunctionIsSeq
<1> QED  BY <1>2, EmptySeq

-----------------------------------------------------------------------------
(* The inductive invariant, beyond what the other proofs show: a client has*)
(* one reactor; a connection holds results only while no operation is      *)
(* outstanding; a request is in the inbox of the owner of its key, and the *)
(* requests of a connection are in an inbox in the order of the pipeline.  *)
OneHome(C) ==
    \A r, s \in Reactors, f \in Fds :
        C[r][f].op # "closed" /\ C[s][f].op # "closed" => r = s

ResultsWhileIdle(C) ==
    \A r \in Reactors, f \in Fds : C[r][f].op # "idle" => C[r][f].pipeline_results = <<>>

Addressed(B) ==
    \A p, q \in Reactors : \A m : Carries(B, p, q, m) /\ m.type # "RESP" => Owner[m.key] = q

Ordered(B) ==
    \A p, q \in Reactors : \A n, n2 \in DOMAIN B[p][q] :
        /\ n < n2
        /\ B[p][q][n].type # "RESP" /\ B[p][q][n2].type # "RESP"
        /\ B[p][q][n].fd = B[p][q][n2].fd
        => B[p][q][n].idx < B[p][q][n2].idx

HomeInv == OneHome(conn) /\ ResultsWhileIdle(conn)
RequestInv == Addressed(inboxes) /\ Ordered(inboxes)

StoreInv == Known /\ ResumeInv /\ HomeInv /\ RequestInv

(* What the mapping needs of the values it reads.                          *)
Mapped(B, C) ==
    /\ B \in Queues /\ C \in [Reactors -> [Fds -> Connection]]
    /\ \A r \in Reactors : B[r][r] = <<>>
    /\ Unique(B) /\ OneHome(C) /\ ResultsWhileIdle(C)
    /\ \A p, q \in Reactors : \A m : Carries(B, p, q, m) =>
          Awaits(C[Home(p, q, m)][m.fd], m.idx)
    /\ \A r \in Reactors, f \in Fds : \A i :
          Awaits(C[r][f], i) => Concerns(B, r, f, i)

LEMMA MappedNow == ~PushMayFail /\ StoreInv => Mapped(inboxes, conn)
BY DEF StoreInv, Known, Base, WakeInv, TypeOK, NothingToItself, PipeInv, AllAwaited,
       ResumeInv, Covered, HomeInv, Mapped, Queues

LEMMA MappedNext == ~PushMayFail /\ StoreInv' => Mapped(inboxes', conn')
BY DEF StoreInv, Known, Base, WakeInv, TypeOK, NothingToItself, PipeInv, AllAwaited,
       ResumeInv, Covered, HomeInv, Mapped, Queues, Unique, Carries, Concerns, OneHome,
       ResultsWhileIdle

(* The message the mapping chooses is the one that is in flight.           *)
LEMMA AboutIs ==
    ASSUME NEW B, NEW C, Mapped(B, C), NEW p \in Reactors, NEW q \in Reactors, NEW m,
           Carries(B, p, q, m), NEW r, r = Home(p, q, m)
    PROVE  AboutIn(B, r, m.fd, m.idx) = m
<1> DEFINE S == UNION {Range(B[r][s]) \cup Range(B[s][r]) : s \in Reactors \ {r}}
<1>1. m \in Message /\ m.fd \in Fds /\ r \in Reactors  BY CarriedType DEF Mapped
<1>2. PICK n \in DOMAIN B[p][q] : B[p][q][n] = m  BY DEF Carries
<1>3. p # q
  <2>1. SUFFICES ASSUME p = q PROVE FALSE  OBVIOUS
  <2>2. DOMAIN B[p][q] = {}  BY <2>1 DEF Mapped
  <2> QED  BY <1>2, <2>2
<1>4. m \in Range(B[p][q])  BY <1>2 DEF Range
<1>5. r \in {p, q}  BY DEF Home
<1>6. m \in S  BY <1>3, <1>4, <1>5
<1>7. ASSUME NEW x \in S, x.fd = m.fd, x.idx = m.idx PROVE x = m
  <2>1. PICK s \in Reactors \ {r} : x \in Range(B[r][s]) \/ x \in Range(B[s][r])  OBVIOUS
  <2>2. PICK a \in Reactors, b \in Reactors : x \in Range(B[a][b])  BY <1>1, <2>1
  <2>3. PICK k \in DOMAIN B[a][b] : B[a][b][k] = x  BY <2>2 DEF Range
  <2>4. Carries(B, a, b, x)  BY <2>3 DEF Carries
  <2>5. Home(a, b, x) \in Reactors  BY <2>4, CarriedType DEF Mapped
  <2>6. Awaits(C[Home(a, b, x)][x.fd], x.idx) /\ Awaits(C[r][m.fd], m.idx)  BY <2>4 DEF Mapped
  <2>7. Home(a, b, x) = r
    BY <1>1, <1>7, <2>5, <2>6 DEF Mapped, OneHome, Awaits
  <2>8. SamePlaceholder(a, b, B[a][b][k], p, q, B[p][q][n])
    BY <1>2, <1>7, <2>3, <2>7 DEF SamePlaceholder
  <2>9. a = p /\ b = q /\ k = n  BY <1>2, <2>3, <2>8 DEF Mapped, Unique
  <2> QED  BY <1>2, <2>3, <2>9
<1> HIDE DEF S
<1>8. AboutIn(B, r, m.fd, m.idx) = CHOOSE x \in S : x.fd = m.fd /\ x.idx = m.idx
  BY DEF AboutIn, S
<1> QED  BY <1>6, <1>7, <1>8

(* The pipeline of a client is that of its reactor: a reply for each       *)
(* result, and for a placeholder what the message in flight stands for.    *)
LEMMA PipelineIs ==
    ASSUME NEW B, NEW C, Mapped(B, C), NEW r \in Reactors, NEW f \in Fds,
           C[r][f].op = "idle" \/ C[r][f].pipeline_results # <<>>,
           NEW results, results = C[r][f].pipeline_results,
           NEW P, P = PipelineIn(B, C, f)
    PROVE  /\ C[r][f].op = "idle"
           /\ results \in Seq(Reply) /\ Len(results) \in Nat
           /\ DOMAIN results = 1 .. Len(results)
           /\ P = [i \in 1 .. Len(results) |-> P[i]]
           /\ Len(P) = Len(results) /\ DOMAIN P = 1 .. Len(results)
           /\ \A i \in 1 .. Len(results) :
                 results[i] # Placeholder => P[i] = [done |-> TRUE, reply |-> results[i]]
           /\ \A p, q \in Reactors : \A m :
                 Carries(B, p, q, m) /\ Home(p, q, m) = r /\ m.fd = f
                 => m.idx \in 1 .. Len(results) /\ results[m.idx] = Placeholder /\ P[m.idx] = Slot(m)
           /\ \A i \in 1 .. Len(results) : results[i] = Placeholder =>
                 \E p, q \in Reactors : \E m :
                    /\ Carries(B, p, q, m) /\ Home(p, q, m) = r /\ m.fd = f /\ m.idx = i
                    /\ P[i] = Slot(m)
<1> DEFINE h == CHOOSE s \in Reactors : C[s][f].op # "closed"
<1>1. C[r][f].op = "idle"  BY DEF Mapped, ResultsWhileIdle
<1>2. h = r
  <2>1. h \in Reactors /\ C[h][f].op # "closed"  BY <1>1
  <2> HIDE DEF h
  <2> QED  BY <1>1, <2>1 DEF Mapped, OneHome
<1>3. P = SlotsIn(B, C, r, f)  BY <1>1, <1>2 DEF PipelineIn
<1>4. results \in Seq(Reply)  BY DEF Mapped, Connection
<1>5. Len(results) \in Nat /\ DOMAIN results = 1 .. Len(results)  BY <1>4, LenProperties
<1>6. P = [i \in 1 .. Len(results) |-> IF results[i] # Placeholder
                                       THEN [done |-> TRUE, reply |-> results[i]]
                                       ELSE Slot(AboutIn(B, r, f, i))]
  BY <1>3, <1>5 DEF SlotsIn
<1>7. P = [i \in 1 .. Len(results) |-> P[i]]  BY <1>6
<1>8. Len(P) = Len(results) /\ DOMAIN P = 1 .. Len(results)  BY <1>5, <1>7, FunctionIsSeq
<1>9. ASSUME NEW p \in Reactors, NEW q \in Reactors, NEW m,
             Carries(B, p, q, m), Home(p, q, m) = r, m.fd = f
      PROVE  m.idx \in 1 .. Len(results) /\ results[m.idx] = Placeholder /\ P[m.idx] = Slot(m)
  <2>1. Awaits(C[r][f], m.idx)  BY <1>9 DEF Mapped
  <2>2. m.idx \in 1 .. Len(results) /\ results[m.idx] = Placeholder
    BY <1>5, <2>1 DEF Awaits
  <2>3. AboutIn(B, r, m.fd, m.idx) = m  BY <1>9, AboutIs
  <2> QED  BY <1>6, <1>9, <2>2, <2>3
<1>10. ASSUME NEW i \in 1 .. Len(results), results[i] = Placeholder
       PROVE  \E p, q \in Reactors : \E m :
                 /\ Carries(B, p, q, m) /\ Home(p, q, m) = r /\ m.fd = f /\ m.idx = i
                 /\ P[i] = Slot(m)
  <2>1. Awaits(C[r][f], i)  BY <1>1, <1>5, <1>10 DEF Awaits
  <2>2. Concerns(B, r, f, i)  BY <2>1 DEF Mapped
  <2> QED  BY <1>9, <2>2 DEF Concerns
<1>11. \A i \in 1 .. Len(results) :
          results[i] # Placeholder => P[i] = [done |-> TRUE, reply |-> results[i]]
  BY <1>6
<1>12. \A p, q \in Reactors : \A m :
          Carries(B, p, q, m) /\ Home(p, q, m) = r /\ m.fd = f
          => m.idx \in 1 .. Len(results) /\ results[m.idx] = Placeholder /\ P[m.idx] = Slot(m)
  BY <1>9
<1>13. \A i \in 1 .. Len(results) : results[i] = Placeholder =>
          \E p, q \in Reactors : \E m :
             /\ Carries(B, p, q, m) /\ Home(p, q, m) = r /\ m.fd = f /\ m.idx = i
             /\ P[i] = Slot(m)
  BY <1>10
<1> QED
  <2> HIDE DEF h
  <2> QED  BY <1>1, <1>4, <1>5, <1>7, <1>8, <1>11, <1>12, <1>13, ZenonT(60)

LEMMA PipelineEmpty ==
    ASSUME NEW B, NEW C, Mapped(B, C), NEW f \in Fds,
           \A r \in Reactors : C[r][f].pipeline_results = <<>>
    PROVE  PipelineIn(B, C, f) = <<>>
<1> DEFINE h == CHOOSE s \in Reactors : C[s][f].op # "closed"
           P == PipelineIn(B, C, f)
<1>1. CASE \E r \in Reactors : C[r][f].op # "closed"
  <2>1. h \in Reactors  BY <1>1
  <2>2. P = SlotsIn(B, C, h, f)  BY <1>1 DEF PipelineIn
  <2> HIDE DEF h, P
  <2>3. C[h][f].pipeline_results = <<>>  BY <2>1
  <2>4. DOMAIN C[h][f].pipeline_results = {}  BY <2>3
  <2>5. P = [i \in {} |-> P[i]]  BY <2>2, <2>4 DEF SlotsIn
  <2> QED  BY <2>5, EmptyIs DEF P
<1>2. CASE ~\E r \in Reactors : C[r][f].op # "closed"  BY <1>2 DEF PipelineIn
<1> QED  BY <1>1, <1>2

(* Steps that change neither the results of a client nor what the messages *)
(* about it stand for.                                                     *)
LEMMA PipelineKept ==
    ASSUME NEW B, NEW C, Mapped(B, C), NEW B2, NEW C2, Mapped(B2, C2), NEW f \in Fds,
           \A r \in Reactors : C2[r][f].pipeline_results = C[r][f].pipeline_results,
           \A p, q \in Reactors : \A m : Carries(B2, p, q, m) /\ m.fd = f => Carries(B, p, q, m)
    PROVE  PipelineIn(B2, C2, f) = PipelineIn(B, C, f)
<1>1. CASE \E r \in Reactors : C[r][f].pipeline_results # <<>>
  <2> PICK r \in Reactors : C[r][f].pipeline_results # <<>>  BY <1>1
  <2> PICK results : results = C[r][f].pipeline_results  OBVIOUS
  <2> PICK P : P = PipelineIn(B, C, f)  OBVIOUS
  <2> PICK P2 : P2 = PipelineIn(B2, C2, f)  OBVIOUS
  <2>0. results = C2[r][f].pipeline_results /\ C2[r][f].pipeline_results # <<>>  OBVIOUS
  <2>1. P = [i \in 1 .. Len(results) |-> P[i]]  BY PipelineIs
  <2>2. P2 = [i \in 1 .. Len(results) |-> P2[i]]  BY <2>0, PipelineIs
  <2>3. ASSUME NEW i \in 1 .. Len(results) PROVE P2[i] = P[i]
    <3>1. CASE results[i] # Placeholder
      <4>1. P[i] = [done |-> TRUE, reply |-> results[i]]  BY <3>1, PipelineIs
      <4>2. P2[i] = [done |-> TRUE, reply |-> results[i]]  BY <2>0, <3>1, PipelineIs
      <4> QED  BY <4>1, <4>2
    <3>2. CASE results[i] = Placeholder
      <4>1. PICK p \in Reactors, q \in Reactors : \E m :
               /\ Carries(B2, p, q, m) /\ Home(p, q, m) = r /\ m.fd = f /\ m.idx = i
               /\ P2[i] = Slot(m)
        BY <2>0, <3>2, PipelineIs
      <4>2. PICK m : /\ Carries(B2, p, q, m) /\ Home(p, q, m) = r /\ m.fd = f /\ m.idx = i
                     /\ P2[i] = Slot(m)
        BY <4>1
      <4>3. Carries(B, p, q, m)  BY <4>2
      <4>4. P[m.idx] = Slot(m)  BY <4>2, <4>3, PipelineIs
      <4> QED  BY <4>2, <4>4
    <3> QED  BY <3>1, <3>2
  <2> QED  BY <2>1, <2>2, <2>3
<1>2. CASE \A r \in Reactors : C[r][f].pipeline_results = <<>>
  <2>1. PipelineIn(B, C, f) = <<>>  BY <1>2, PipelineEmpty
  <2>2. \A r \in Reactors : C2[r][f].pipeline_results = <<>>  BY <1>2
  <2>3. PipelineIn(B2, C2, f) = <<>>  BY <2>2, PipelineEmpty
  <2> QED  BY <2>1, <2>3
<1> QED  BY <1>1, <1>2

-----------------------------------------------------------------------------
(* What answers do to a connection that waits for them.                    *)
LEMMA SubmittedIdle ==
    ASSUME NEW c \in Connection, c.op = "idle", NEW d, d = Submitted(c)
    PROVE  \/ d.op = "idle" /\ d.pipeline_results = c.pipeline_results /\ c.pending_itc > 0
           \/ d.op \in {"read", "write"} /\ d.pipeline_results = <<>> /\ ~(c.pending_itc > 0)
<1>1. CASE c.pending_itc > 0  BY <1>1 DEF Submitted, Connection
<1>2. CASE ~(c.pending_itc > 0)  BY <1>2 DEF Submitted, Connection
<1> QED  BY <1>1, <1>2

LEMMA FilledIdle ==
    ASSUME NEW c \in Connection, NEW m \in Message, m.type = "RESP", Awaits(c, m.idx),
           NEW d, d = Filled(c, m)
    PROVE  \/ /\ d.op = "idle"
              /\ d.pipeline_results = [c.pipeline_results EXCEPT ![m.idx] = Answer(m)]
           \/ /\ d.op \in {"read", "write"} /\ d.pipeline_results = <<>>
              /\ c.pending_itc = 1
<1> DEFINE results == [c.pipeline_results EXCEPT ![m.idx] = Answer(m)]
           e == [c EXCEPT !.pipeline_results = results, !.pending_itc = c.pending_itc - 1]
           g == [e EXCEPT !.suspended = FALSE]
<1>1. c.pipeline_results \in Seq(Reply) /\ m.idx \in 1 .. Len(c.pipeline_results)
  BY LenProperties DEF Connection, Awaits
<1>2. results \in Seq(Reply)  BY <1>1, AnswerType, ExceptSeq
<1>3. d = IF e.pending_itc = 0 /\ e.suspended THEN Submitted(g) ELSE e
  BY <1>1 DEF Filled
<1> HIDE DEF results
<1>4. /\ e \in Connection /\ e.op = "idle" /\ e.pipeline_results = results
      /\ e.pending_itc = c.pending_itc - 1 /\ c.pending_itc \in Int
  <2>1. c.pending_itc - 1 \in Int  BY DEF Connection
  <2>2. e \in Connection  BY <1>2, <2>1, WithResults
  <2> QED  BY <2>2 DEF Connection, Awaits
<1>5. /\ g \in Connection /\ g.op = "idle"
      /\ g.pending_itc = e.pending_itc
  BY <1>4 DEF Connection
<1>6. CASE e.pending_itc = 0 /\ e.suspended
  <2>1. d = Submitted(g)  BY <1>3, <1>6
  <2>2. c.pending_itc = 1 /\ ~(g.pending_itc > 0)  BY <1>4, <1>5, <1>6
  <2> HIDE DEF e, g
  <2>3. d.op \in {"read", "write"} /\ d.pipeline_results = <<>>
    BY <1>5, <2>1, <2>2, SubmittedIdle
  <2> QED  BY <2>2, <2>3
<1>7. CASE ~(e.pending_itc = 0 /\ e.suspended)
  <2>1. d = e  BY <1>3, <1>7
  <2> HIDE DEF e
  <2> QED  BY <1>4, <2>1 DEF results
<1> QED  BY <1>6, <1>7

(* Steps that replace one connection.                                      *)
LEMMA HomesReplaced ==
    ASSUME Known, HomeInv, NEW r \in Reactors, NEW f \in Fds, NEW d,
           conn' = [conn EXCEPT ![r][f] = d],
           d.op # "closed" => \/ conn[r][f].op # "closed"
                              \/ \A q \in Reactors : conn[q][f].op = "closed",
           d.op # "idle" => d.pipeline_results = <<>>
    PROVE  HomeInv'
<1>1. conn \in [Reactors -> [Fds -> Connection]]  BY DEF Known, Base, WakeInv, TypeOK
<1>2. \A s \in Reactors, g \in Fds : conn'[s][g] = IF s = r /\ g = f THEN d ELSE conn[s][g]
  BY <1>1
<1>3. OneHome(conn')  BY <1>2 DEF HomeInv, OneHome
<1>4. ResultsWhileIdle(conn')  BY <1>2 DEF HomeInv, ResultsWhileIdle
<1> QED  BY <1>3, <1>4 DEF HomeInv, OneHome, ResultsWhileIdle

(* Steps of the batch, whose connection has no operation outstanding.      *)
LEMMA CurrentHomes ==
    ASSUME Known, HomeInv, NEW r \in Reactors, pc[r] \in {"batch", "respond"}, NEW d,
           conn' = [conn EXCEPT ![r][cur[r]] = d],
           d.op # "idle" => d.pipeline_results = <<>>
    PROVE  HomeInv'
<1>1. cur[r] \in Fds /\ conn[r][cur[r]].op = "idle"
  BY DEF Known, Base, CurrentOK, PipeInv, CurrentIdle
<1> QED  BY <1>1, HomesReplaced

LEMMA PopRespHomes ==
    ASSUME Known, HomeInv, NEW r \in Reactors, NEW p \in Reactors, PopResp(r, p)
    PROVE  HomeInv'
<1> PICK m : m = Head(inboxes[p][r])  OBVIOUS
<1>1. inboxes \in Queues /\ conn \in [Reactors -> [Fds -> Connection]]
  BY DEF Known, Base, WakeInv, TypeOK, Queues
<1>2. inboxes[p][r] # <<>> /\ m.type = "RESP"  BY DEF PopResp, Popped
<1>3. Carries(inboxes, p, r, m) /\ m \in Message /\ m.fd \in Fds
  BY <1>1, <1>2, HeadCarried, CarriedType
<1>4. Awaits(conn[r][m.fd], m.idx)  BY <1>2, <1>3 DEF Known, PipeInv, AllAwaited, Home
<1>8. conn[r][m.fd].op # "closed"  BY <1>4 DEF Awaits
<1>d. PICK d : d = Filled(conn[r][m.fd], m)  BY Zenon
<1>5. conn' = [conn EXCEPT ![r][m.fd] = d]
  BY <1>d, <1>8, Zenon DEF PopResp, IsOpen
<1>6. conn[r][m.fd] \in Connection  BY <1>1, <1>3, Zenon
<1>7. d.op # "idle" => d.pipeline_results = <<>>
  BY <1>d, <1>2, <1>3, <1>4, <1>6, FilledIdle
<1> QED  BY <1>3, <1>5, <1>7, <1>8, HomesReplaced

LEMMA CompletionsHome ==
    ASSUME Known, HomeInv, NEW r \in Reactors, NEW f \in Fds,
           \/ HandleAccept(r, f) /\ conn' # conn
           \/ HandleClose(r, f) \/ HandleWrite(r, f) \/ HandleRead(r, f)
    PROVE  HomeInv'
<1>0. conn \in [Reactors -> [Fds -> Connection]]  BY DEF Known, Base, WakeInv, TypeOK
<1>1. CASE HandleAccept(r, f) /\ conn' # conn
  <2>1. conn' = [conn EXCEPT ![r][f] = Accepted]  BY <1>1 DEF HandleAccept
  <2>2. \A q \in Reactors : conn[q][f].op = "closed"  BY <1>1 DEF HandleAccept, IsOpen
  <2>3. Accepted.pipeline_results = <<>>  BY DEF Accepted, NoConnection
  <2> QED  BY <2>1, <2>2, <2>3, HomesReplaced
<1>2. CASE HandleClose(r, f)
  <2>1. NoConnection.op = "closed" /\ NoConnection.pipeline_results = <<>>  BY DEF NoConnection
  <2> QED  BY <1>2, <2>1, HomesReplaced DEF HandleClose
<1>3. CASE HandleWrite(r, f)
  <2> PICK d : d = [conn[r][f] EXCEPT !.op = "read", !.response_data = <<>>]  OBVIOUS
  <2>1. conn' = [conn EXCEPT ![r][f] = d]  BY <1>0, <1>3 DEF HandleWrite
  <2>2. conn[r][f].op = "write"  BY <1>3 DEF HandleWrite
  <2>3. d.pipeline_results = <<>>
    BY <1>0, <2>2 DEF Connection, HomeInv, ResultsWhileIdle
  <2> QED  BY <2>1, <2>2, <2>3, HomesReplaced
<1>4. CASE HandleRead(r, f)
  <2>d. PICK d : d = [conn[r][f] EXCEPT !.op = "idle", !.response_data = <<>>,
                                      !.pipeline_results = <<>>, !.pending_itc = 0]
    OBVIOUS
  <2>1. conn' = [conn EXCEPT ![r][f] = d]  BY <2>d, <1>0, <1>4, ZenonT(30) DEF HandleRead
  <2>2. conn[r][f].op = "read" /\ d.op = "idle"  BY <2>d, <1>0, <1>4 DEF HandleRead, Connection
  <2> QED  BY <2>1, <2>2, HomesReplaced
<1> QED  BY <1>1, <1>2, <1>3, <1>4

LEMMA NextHomes == Known /\ HomeInv /\ [Next]_vars => HomeInv'
<1> SUFFICES ASSUME Known, HomeInv, [Next]_vars PROVE HomeInv'  OBVIOUS
<1>0. conn \in [Reactors -> [Fds -> Connection]]  BY DEF Known, Base, WakeInv, TypeOK
<1>1. CASE UNCHANGED conn  BY <1>1 DEF HomeInv, OneHome, ResultsWhileIdle
<1>2. ASSUME NEW r \in Reactors, NEW reply, Parsing(r), Replied(r, reply) PROVE HomeInv'
  <2> DEFINE c == conn[r][cur[r]]
  <2> PICK d : d = [c EXCEPT !.pipeline_results = Append(c.pipeline_results, reply)]  OBVIOUS
  <2>1. pc[r] = "batch"  BY <1>2 DEF Parsing
  <2>2. conn' = [conn EXCEPT ![r][cur[r]] = d]  BY <1>2 DEF Replied
  <2>3. c \in Connection /\ c.op = "idle"
    BY <1>0, <2>1 DEF Known, Base, CurrentOK, PipeInv, CurrentIdle
  <2>4. d.op = "idle"  BY <2>3 DEF Connection
  <2> QED  BY <2>1, <2>2, <2>4, CurrentHomes
<1>3. ASSUME NEW r \in Reactors, NEW m, Parsing(r), Forward(r, m) PROVE HomeInv'
  <2>1. pc[r] = "batch" /\ conn' = [conn EXCEPT ![r][cur[r]] = Expecting(conn[r][cur[r]])]
    BY <1>3 DEF Parsing, Forward
  <2>2. conn[r][cur[r]] \in Connection /\ conn[r][cur[r]].op = "idle"
    BY <1>0, <2>1 DEF Known, Base, CurrentOK, PipeInv, CurrentIdle
  <2>3. Expecting(conn[r][cur[r]]).op = "idle"  BY <2>2 DEF Connection, Expecting
  <2> QED  BY <2>1, <2>3, CurrentHomes
<1>4. ASSUME NEW r \in Reactors, Respond(r) PROVE HomeInv'
  <2> PICK d : d = Submitted(conn[r][cur[r]])  OBVIOUS
  <2>1. pc[r] = "respond" /\ conn' = [conn EXCEPT ![r][cur[r]] = d]  BY <1>4 DEF Respond
  <2>2. conn[r][cur[r]] \in Connection /\ conn[r][cur[r]].op = "idle"
    BY <1>0, <2>1 DEF Known, Base, CurrentOK, PipeInv, CurrentIdle
  <2>3. d.op # "idle" => d.pipeline_results = <<>>  BY <2>2, SubmittedIdle
  <2> QED  BY <2>1, <2>3, CurrentHomes
<1>5. ASSUME NEW r \in Reactors, Drain(r) PROVE HomeInv'
  BY <1>1, <1>5, PopRespHomes DEF Drain, PopGet, PopSet, Answered, SeeEmpty, DrainEnds
<1>6. ASSUME NEW r \in Reactors, Completions(r) PROVE HomeInv'
  BY <1>1, <1>6, CompletionsHome
     DEF Completions, HandleItcEvent, ItcReadFails, HandleAof, AcceptFails
<1>7. ASSUME NEW r \in Reactors, Command(r) PROVE HomeInv'
  BY <1>2, <1>3, <1>7 DEF Command, LocalGet, LocalSet, OtherCommand, RemoteGet, RemoteSet
<1>8. ASSUME NEW r \in Reactors,
             \/ \E q \in Reactors : Signal(r, q)
             \/ Submit(r) \/ WaitFails(r) \/ KernelReadsEventfd(r) \/ BatchEnds(r)
      PROVE  HomeInv'
  BY <1>1, <1>8 DEF Signal, Submit, WaitFails, KernelReadsEventfd, BatchEnds
<1>9. CASE Next  BY <1>4, <1>5, <1>6, <1>7, <1>8, <1>9 DEF Next
<1> QED  BY <1>1, <1>9 DEF vars

-----------------------------------------------------------------------------
(* Requests in the inboxes.                                                *)
LEMMA PopRequests ==
    ASSUME NEW B \in Queues, Addressed(B), Ordered(B), NEW p \in Reactors, NEW r \in Reactors,
           B[p][r] # <<>>, NEW C, C = Less(B, p, r)
    PROVE  /\ C \in Queues /\ Addressed(C) /\ Ordered(C)
           /\ \A s, t \in Reactors : \A m : Carries(C, s, t, m) => Carries(B, s, t, m)
<1> DEFINE off(s, t) == IF s = p /\ t = r THEN 1 ELSE 0
<1>1. B[p][r] \in Seq(Message)  BY DEF Queues
<1>2. /\ Tail(B[p][r]) \in Seq(Message)
      /\ DOMAIN Tail(B[p][r]) = 1 .. Len(B[p][r]) - 1
      /\ \A n \in DOMAIN Tail(B[p][r]) : Tail(B[p][r])[n] = B[p][r][n + 1]
      /\ DOMAIN B[p][r] = 1 .. Len(B[p][r]) /\ Len(B[p][r]) \in Nat
  BY <1>1, HeadTailProperties, LenProperties, EmptySeq
<1>3. /\ C \in Queues
      /\ C[p][r] = Tail(B[p][r])
      /\ \A s, t \in Reactors : ~(s = p /\ t = r) => C[s][t] = B[s][t]
  BY <1>2 DEF Queues, Less
<1>4. ASSUME NEW s \in Reactors, NEW t \in Reactors, NEW n \in DOMAIN C[s][t]
      PROVE  /\ n + off(s, t) \in DOMAIN B[s][t]
             /\ C[s][t][n] = B[s][t][n + off(s, t)]
             /\ n \in Int /\ off(s, t) \in Int
  <2>1. CASE s = p /\ t = r
    <3>1. n \in 1 .. Len(B[p][r]) - 1 /\ C[s][t][n] = B[p][r][n + 1]
      BY <1>2, <1>3, <1>4, <2>1
    <3>2. n \in Int /\ n + 1 \in 1 .. Len(B[p][r])  BY <1>2, <3>1
    <3>3. off(s, t) = 1  BY <2>1
    <3> HIDE DEF off
    <3> QED  BY <1>2, <2>1, <3>1, <3>2, <3>3
  <2>2. CASE ~(s = p /\ t = r)
    <3>1. C[s][t] = B[s][t] /\ off(s, t) = 0  BY <1>3, <2>2
    <3>2. n \in Int  BY <1>4, <3>1, LenProperties, SMTT(25) DEF Queues
    <3> QED  BY <1>4, <2>2, <3>1, <3>2
  <2> QED  BY <2>1, <2>2
<1> HIDE DEF off
<1>5. \A s, t \in Reactors : \A m : Carries(C, s, t, m) => Carries(B, s, t, m)
  BY <1>4 DEF Carries
<1>6. Addressed(C)  BY <1>5 DEF Addressed
<1>7. Ordered(C)
  <2> SUFFICES ASSUME NEW s \in Reactors, NEW t \in Reactors,
                      NEW n \in DOMAIN C[s][t], NEW n2 \in DOMAIN C[s][t], n < n2,
                      C[s][t][n].type # "RESP", C[s][t][n2].type # "RESP",
                      C[s][t][n].fd = C[s][t][n2].fd
               PROVE  C[s][t][n].idx < C[s][t][n2].idx
    BY DEF Ordered
  <2>1. n + off(s, t) < n2 + off(s, t)  BY <1>4
  <2>2. PICK a \in DOMAIN B[s][t] : a = n + off(s, t) /\ C[s][t][n] = B[s][t][a]  BY <1>4
  <2>3. PICK b \in DOMAIN B[s][t] : b = n2 + off(s, t) /\ C[s][t][n2] = B[s][t][b]  BY <1>4
  <2> QED  BY <2>1, <2>2, <2>3 DEF Ordered
<1> QED  BY <1>3, <1>5, <1>6, <1>7

LEMMA PushRequests ==
    ASSUME NEW B \in Queues, Addressed(B), Ordered(B), NEW p \in Reactors, NEW q \in Reactors,
           NEW m \in Message,
           m.type # "RESP" => /\ Owner[m.key] = q
                              /\ \A x : Carries(B, p, q, x) /\ x.type # "RESP" /\ x.fd = m.fd
                                        => x.idx < m.idx,
           NEW C, C = More(B, p, q, m)
    PROVE  /\ C \in Queues /\ Addressed(C) /\ Ordered(C)
           /\ \A s, t \in Reactors : \A x : Carries(C, s, t, x) =>
                 Carries(B, s, t, x) \/ (s = p /\ t = q /\ x = m)
<1> DEFINE l == Len(B[p][q]) + 1
<1>1. B[p][q] \in Seq(Message)  BY DEF Queues
<1>2. /\ Append(B[p][q], m) \in Seq(Message)
      /\ DOMAIN Append(B[p][q], m) = 1 .. l
      /\ DOMAIN B[p][q] = 1 .. Len(B[p][q]) /\ Len(B[p][q]) \in Nat
      /\ \A n \in 1 .. Len(B[p][q]) : Append(B[p][q], m)[n] = B[p][q][n]
      /\ Append(B[p][q], m)[l] = m
  BY <1>1, AppendProperties, LenProperties
<1>3. /\ C \in Queues
      /\ C[p][q] = Append(B[p][q], m)
      /\ \A s, t \in Reactors : ~(s = p /\ t = q) => C[s][t] = B[s][t]
  BY <1>2 DEF Queues, More
<1>4. ASSUME NEW s \in Reactors, NEW t \in Reactors, NEW n \in DOMAIN C[s][t]
      PROVE  \/ n \in DOMAIN B[s][t] /\ C[s][t][n] = B[s][t][n]
             \/ s = p /\ t = q /\ n = l /\ C[s][t][n] = m
  <2>1. CASE s = p /\ t = q
    <3>1. n \in 1 .. l  BY <1>2, <1>3, <1>4, <2>1
    <3>2. CASE n = l  BY <1>2, <1>3, <2>1, <3>2
    <3>3. CASE n # l  BY <1>2, <1>3, <2>1, <3>1, <3>3, SMTT(25)
    <3> QED  BY <3>2, <3>3
  <2>2. CASE ~(s = p /\ t = q)  BY <1>3, <1>4, <2>2
  <2> QED  BY <2>1, <2>2
<1>5. \A s, t \in Reactors : \A x : Carries(C, s, t, x) =>
         Carries(B, s, t, x) \/ (s = p /\ t = q /\ x = m)
  BY <1>4 DEF Carries
<1>6. Addressed(C)  BY <1>5 DEF Addressed
<1>7. Ordered(C)
  <2> SUFFICES ASSUME NEW s \in Reactors, NEW t \in Reactors,
                      NEW n \in DOMAIN C[s][t], NEW n2 \in DOMAIN C[s][t], n < n2,
                      C[s][t][n].type # "RESP", C[s][t][n2].type # "RESP",
                      C[s][t][n].fd = C[s][t][n2].fd
               PROVE  C[s][t][n].idx < C[s][t][n2].idx
    BY DEF Ordered
  <2>1. CASE /\ n \in DOMAIN B[s][t] /\ C[s][t][n] = B[s][t][n]
             /\ n2 \in DOMAIN B[s][t] /\ C[s][t][n2] = B[s][t][n2]
    BY <2>1 DEF Ordered
  <2>2. CASE /\ n \in DOMAIN B[s][t] /\ C[s][t][n] = B[s][t][n]
             /\ s = p /\ t = q /\ n2 = l /\ C[s][t][n2] = m
    <3>1. Carries(B, p, q, C[s][t][n])  BY <2>2 DEF Carries
    <3> QED  BY <2>2, <3>1
  <2>3. CASE s = p /\ t = q /\ n = l
    <3>1. n2 \in 1 .. l  BY <1>2, <1>3, <2>3
    <3> QED  BY <1>2, <2>3, <3>1
  <2>4. /\ \/ n \in DOMAIN B[s][t] /\ C[s][t][n] = B[s][t][n]
           \/ s = p /\ t = q /\ n = l
        /\ \/ n2 \in DOMAIN B[s][t] /\ C[s][t][n2] = B[s][t][n2]
           \/ s = p /\ t = q /\ n2 = l /\ C[s][t][n2] = m
    BY <1>4
  <2> HIDE DEF l
  <2> QED  BY <2>1, <2>2, <2>3, <2>4
<1> QED  BY <1>3, <1>5, <1>6, <1>7

LEMMA RequestsNext ==
    ASSUME NEW D, inboxes' = D, Addressed(D), Ordered(D)
    PROVE  RequestInv'
BY DEF RequestInv, Addressed, Ordered, Carries

(* What a drain does to the inboxes.                                       *)
LEMMA AnsweredQueues ==
    ASSUME ~PushMayFail, Known, NEW r \in Reactors, NEW p \in Reactors, inboxes[p][r] # <<>>,
           NEW resp, Answered(r, p, resp)
    PROVE  /\ Less(inboxes, p, r) \in Queues /\ r # p
           /\ inboxes' = More(Less(inboxes, p, r), r, p, resp)
<1> DEFINE C == Less(inboxes, p, r)
<1>1. inboxes \in Queues /\ r # p
  BY DEF Known, Base, WakeInv, TypeOK, NothingToItself, Queues
<1>2. Tail(inboxes[p][r]) \in Seq(Message)  BY PoppedType DEF Known, Base, WakeInv
<1>3. C \in Queues /\ C[r][p] = inboxes[r][p]  BY <1>1, <1>2 DEF Queues, Less
<1>4. inboxes' = Exchanged(r, p, resp, TRUE)  BY DEF Answered, Sent
<1>5. inboxes' = More(C, r, p, resp)
  BY <1>1, <1>3, <1>4 DEF Exchanged, Pushed, Queues, Less, More
<1> QED  BY <1>1, <1>3, <1>5

LEMMA AnsweredRequests ==
    ASSUME ~PushMayFail, Known, RequestInv, NEW r \in Reactors, NEW p \in Reactors,
           inboxes[p][r] # <<>>, NEW found \in BOOLEAN, NEW v \in Values,
           Answered(r, p, Resp(Head(inboxes[p][r]), found, v))
    PROVE  RequestInv'
<1> PICK C : C = Less(inboxes, p, r)  OBVIOUS
<1>1. inboxes \in Queues  BY DEF Known, Base, WakeInv, TypeOK, Queues
<1>2. Head(inboxes[p][r]) \in Message  BY <1>1, HeadCarried, CarriedType
<1> PICK resp \in Message : resp = Resp(Head(inboxes[p][r]), found, v)  BY <1>2, RespType
<1>3. resp.type = "RESP"  BY DEF Resp
<1>4. inboxes' = More(C, r, p, resp)  BY AnsweredQueues
<1>5. C \in Queues /\ Addressed(C) /\ Ordered(C)  BY <1>1, PopRequests DEF RequestInv
<1> PICK D : D = More(C, r, p, resp)  OBVIOUS
<1>6. Addressed(D) /\ Ordered(D)  BY <1>3, <1>5, PushRequests
<1>7. inboxes' = D  BY <1>4
<1> QED  BY <1>6, <1>7, RequestsNext

LEMMA PopRespRequests ==
    ASSUME Known, RequestInv, NEW r \in Reactors, NEW p \in Reactors, PopResp(r, p)
    PROVE  RequestInv'
<1> PICK C : C = Less(inboxes, p, r)  OBVIOUS
<1>1. inboxes \in Queues  BY DEF Known, Base, WakeInv, TypeOK, Queues
<1>2. inboxes[p][r] # <<>> /\ inboxes' = C  BY DEF PopResp, Popped, Less
<1>3. Addressed(C) /\ Ordered(C)  BY <1>1, <1>2, PopRequests DEF RequestInv
<1> QED  BY <1>2, <1>3, RequestsNext

LEMMA ForwardRequests ==
    ASSUME ~PushMayFail, Known, RequestInv, NEW r \in Reactors, pc[r] = "batch",
           NEW m \in Message, m.key \in Keys, m.type # "RESP",
           m.fd = cur[r], m.idx = NextIndex(Current(r)), Forward(r, m)
    PROVE  RequestInv'
<1> PICK q \in Reactors : q = Owner[m.key]  BY ConstantsAssumption
<1> PICK D : D = More(inboxes, r, q, m)  OBVIOUS
<1>1. inboxes \in Queues  BY DEF Known, Base, WakeInv, TypeOK, Queues
<1>2. inboxes' = D  BY DEF Forward, Sent, Pushed, More
<1>3. ASSUME NEW x, Carries(inboxes, r, q, x), x.type # "RESP", x.fd = m.fd
      PROVE  x.idx < m.idx
  <2>1. Home(r, q, x) = r  BY <1>3 DEF Home
  <2>2. Awaits(conn[r][cur[r]], x.idx)  BY <1>3, <2>1 DEF Known, PipeInv, AllAwaited
  <2>3. cur[r] \in Fds  BY DEF Known, Base, CurrentOK
  <2>4. conn[r][cur[r]] \in Connection  BY <2>3 DEF Known, Base, WakeInv, TypeOK
  <2> PICK results \in Seq(Reply) : results = conn[r][cur[r]].pipeline_results
    BY <2>4 DEF Connection
  <2>5. m.idx = Len(results) + 1  BY DEF NextIndex, Current
  <2>6. x.idx \in 1 .. Len(results) /\ Len(results) \in Nat
    BY <2>2, LenProperties DEF Awaits
  <2> QED  BY <2>5, <2>6
<1>4. Addressed(D) /\ Ordered(D)  BY <1>1, <1>3, PushRequests DEF RequestInv
<1> QED  BY <1>2, <1>4, RequestsNext

LEMMA NextRequests == ~PushMayFail /\ Known /\ RequestInv /\ [Next]_vars => RequestInv'
<1> SUFFICES ASSUME ~PushMayFail, Known, RequestInv, [Next]_vars PROVE RequestInv'  OBVIOUS
<1>1. CASE UNCHANGED inboxes  BY <1>1 DEF RequestInv, Addressed, Ordered, Carries
<1>2. ASSUME NEW r \in Reactors, NEW p \in Reactors, PopGet(r, p) PROVE RequestInv'
  <2> DEFINE m == Head(inboxes[p][r])
  <2>1. inboxes[p][r] # <<>> /\ m.type = "GET_REQ"  BY <1>2 DEF PopGet, Popped
  <2>2. m \in Message /\ m.key \in Keys
    BY <2>1, PoppedType, MessageFields DEF Known, Base, WakeInv
  <2>3. PICK e \in Lookups(shards[r][m.key]) : Answered(r, p, Resp(m, e.found, e.val))
    BY <1>2 DEF PopGet
  <2>4. shards[r][m.key] \in Entry  BY <2>2 DEF Known, Base, WakeInv, TypeOK
  <2>5. e \in Entry  BY <2>3, <2>4, EntryTypes
  <2>6. e.found \in BOOLEAN /\ e.val \in Values  BY <2>5 DEF Entry
  <2> QED  BY <2>1, <2>3, <2>6, AnsweredRequests
<1>3. ASSUME NEW r \in Reactors, NEW p \in Reactors, PopSet(r, p) PROVE RequestInv'
  <2> DEFINE m == Head(inboxes[p][r])
  <2>1. inboxes[p][r] # <<>>  BY <1>3 DEF PopSet, Popped
  <2>2. PICK left \in Leftovers : Answered(r, p, Resp(m, TRUE, left))  BY <1>3 DEF PopSet
  <2>3. left \in Values  BY <2>2, ConstantsAssumption
  <2> QED  BY <2>1, <2>2, <2>3, AnsweredRequests
<1>4. ASSUME NEW r \in Reactors, Drain(r) PROVE RequestInv'
  BY <1>1, <1>2, <1>3, <1>4, PopRespRequests DEF Drain, SeeEmpty, DrainEnds, bus
<1>5. ASSUME NEW r \in Reactors, Parsing(r)
      PROVE  cur[r] \in Fds /\ NextIndex(Current(r)) \in Index /\ pc[r] = "batch"
  <2>1. cur[r] \in Fds /\ pc[r] = "batch"  BY <1>5 DEF Parsing, Known, Base, CurrentOK
  <2> QED  BY <2>1, ExpectingType DEF Current, Known, Base, WakeInv, TypeOK
<1>6. ASSUME NEW r \in Reactors, NEW k \in Keys, RemoteGet(r, k) PROVE RequestInv'
  <2> DEFINE m == GetReq(cur[r], NextIndex(Current(r)), k)
  <2>1. Parsing(r) /\ Forward(r, m)  BY <1>6 DEF RemoteGet
  <2>2. m \in Message /\ m.key \in Keys  BY <1>5, <2>1, RequestTypes
  <2>3. m.type # "RESP" /\ m.fd = cur[r] /\ m.idx = NextIndex(Current(r))  BY DEF GetReq
  <2> HIDE DEF m
  <2> QED  BY <1>5, <2>1, <2>2, <2>3, ForwardRequests
<1>7. ASSUME NEW r \in Reactors, NEW k \in Keys, NEW v \in Values, NEW t \in Ttls,
             RemoteSet(r, k, v, t)
      PROVE RequestInv'
  <2> DEFINE m == SetReq(cur[r], NextIndex(Current(r)), k, v, t)
  <2>1. Parsing(r) /\ Forward(r, m)  BY <1>7 DEF RemoteSet
  <2>2. m \in Message /\ m.key \in Keys  BY <1>5, <2>1, RequestTypes, ConstantsAssumption
  <2>3. m.type # "RESP" /\ m.fd = cur[r] /\ m.idx = NextIndex(Current(r))  BY DEF SetReq
  <2> HIDE DEF m
  <2> QED  BY <1>5, <2>1, <2>2, <2>3, ForwardRequests
<1>8. ASSUME NEW r \in Reactors, Command(r) PROVE RequestInv'
  BY <1>1, <1>6, <1>7, <1>8 DEF Command, LocalGet, LocalSet, OtherCommand, Replied
<1>9. ASSUME NEW r \in Reactors, Completions(r) PROVE RequestInv'
  BY <1>1, <1>9 DEF Completions, HandleItcEvent, ItcReadFails, HandleAof, AcceptFails,
                    HandleAccept, HandleClose, HandleWrite, HandleRead, bus
<1>10. ASSUME NEW r \in Reactors,
              \/ \E q \in Reactors : Signal(r, q)
              \/ Submit(r) \/ WaitFails(r) \/ KernelReadsEventfd(r) \/ BatchEnds(r) \/ Respond(r)
       PROVE  RequestInv'
  BY <1>1, <1>10 DEF Signal, Submit, WaitFails, KernelReadsEventfd, BatchEnds, Respond, bus
<1>11. CASE Next  BY <1>4, <1>8, <1>9, <1>10, <1>11 DEF Next
<1> QED  BY <1>1, <1>11 DEF vars, bus

LEMMA InitStore == Init => HomeInv /\ RequestInv
<1> SUFFICES ASSUME Init PROVE HomeInv /\ RequestInv  OBVIOUS
<1>1. \A r \in Reactors, f \in Fds : /\ conn[r][f].op = "closed"
                                     /\ conn[r][f].pipeline_results = <<>>
  BY DEF Init, NoConnection
<1>2. \A p, q \in Reactors : DOMAIN inboxes[p][q] = {}  BY DEF Init
<1> QED  BY <1>1, <1>2
         DEF HomeInv, OneHome, ResultsWhileIdle, RequestInv, Addressed, Ordered, Carries

-----------------------------------------------------------------------------
(* What the steps do to the pipelines.                                     *)
Kv    == [k \in Keys |-> shards[Owner[k]][k]]
Pipes == [f \in Fds |-> Pipeline(f)]

(* Nothing else changes but the pipeline of f.                             *)
OthersKept(f) == \A g \in Fds \ {f} : Pipeline(g)' = Pipeline(g)

LEMMA PipesBecome ==
    ASSUME NEW f \in Fds, OthersKept(f)
    PROVE  Pipes' = [Pipes EXCEPT ![f] = Pipeline(f)']
<1>1. Pipes' = [g \in Fds |-> Pipeline(g)']  BY DEF Pipes
<1>2. \A g \in Fds : Pipeline(g)' = IF g = f THEN Pipeline(f)' ELSE Pipeline(g)
  BY DEF OthersKept
<1> QED  BY <1>1, <1>2 DEF Pipes

(* Steps that change no results and no messages.                           *)
LEMMA KeptStep ==
    ASSUME ~PushMayFail, StoreInv, StoreInv', UNCHANGED <<inboxes, shards>>,
           \A r \in Reactors, f \in Fds :
              conn'[r][f].pipeline_results = conn[r][f].pipeline_results
    PROVE  Kv' = Kv /\ Pipes' = Pipes
<1>1. Mapped(inboxes, conn) /\ Mapped(inboxes', conn')  BY MappedNow, MappedNext
<1>2. ASSUME NEW f \in Fds PROVE Pipeline(f)' = Pipeline(f)
  <2> PICK C2 : C2 = conn'  OBVIOUS
  <2> PICK C : C = conn  OBVIOUS
  <2>0. inboxes' = inboxes  OBVIOUS
  <2>1. Mapped(inboxes, C) /\ Mapped(inboxes, C2)  BY <1>1, <2>0
  <2>2. \A r \in Reactors : C2[r][f].pipeline_results = C[r][f].pipeline_results  OBVIOUS
  <2>3. PipelineIn(inboxes, C2, f) = PipelineIn(inboxes, C, f)
    BY <2>1, <2>2, PipelineKept
  <2> QED  BY <2>0, <2>3, PipelineNow, PipelineNext
<1>3. Pipes' = Pipes  BY <1>2 DEF Pipes
<1> QED  BY <1>3 DEF Kv

(* The pipelines of the clients whose connection a step leaves alone.      *)
LEMMA OthersStep ==
    ASSUME ~PushMayFail, StoreInv, StoreInv', NEW f \in Fds,
           \A r \in Reactors, g \in Fds \ {f} : conn'[r][g] = conn[r][g],
           \A p, q \in Reactors : \A x :
              Carries(inboxes', p, q, x) => x.fd = f \/ Carries(inboxes, p, q, x)
    PROVE  OthersKept(f)
<1>1. Mapped(inboxes, conn) /\ Mapped(inboxes', conn')  BY MappedNow, MappedNext
<1> SUFFICES ASSUME NEW g \in Fds \ {f} PROVE Pipeline(g)' = Pipeline(g)
  BY DEF OthersKept
<1> PICK B : B = inboxes  OBVIOUS
<1> PICK B2 : B2 = inboxes'  OBVIOUS
<1> PICK C : C = conn  OBVIOUS
<1> PICK C2 : C2 = conn'  OBVIOUS
<1>2. Mapped(B, C) /\ Mapped(B2, C2)  BY <1>1
<1>3. \A r \in Reactors : C2[r][g].pipeline_results = C[r][g].pipeline_results  OBVIOUS
<1>4. \A p, q \in Reactors : \A x :
         Carries(B2, p, q, x) => x.fd = f \/ Carries(B, p, q, x)
  OBVIOUS
<1>5. \A p, q \in Reactors : \A m : Carries(B2, p, q, m) /\ m.fd = g => Carries(B, p, q, m)
  BY <1>4
<1>6. PipelineIn(B2, C2, g) = PipelineIn(B, C, g)  BY <1>2, <1>3, <1>5, PipelineKept
<1> QED  BY <1>6, PipelineNow, PipelineNext

(* The messages about client f that B2 has and B has not are about slot i. *)
OnlyAbout(B, B2, f, i) ==
    \A p, q \in Reactors : \A m : Carries(B2, p, q, m) /\ m.fd = f =>
       Carries(B, p, q, m) \/ m.idx = i

(* A result was pushed: the pipeline grows by one slot.                    *)
GrowsBy(P, P2, slot) ==
    P2 = Append(P, slot) /\ P2 # P /\ DOMAIN P = 1 .. Len(P) /\ Len(P) \in Nat

StandFor(B, r, f, i, slot) ==
    \A p, q \in Reactors : \A m :
       Carries(B, p, q, m) /\ Home(p, q, m) = r /\ m.fd = f /\ m.idx = i => slot = Slot(m)

LEMMA PipelineGrows ==
    ASSUME NEW B, NEW C, Mapped(B, C), NEW B2, NEW C2, Mapped(B2, C2),
           NEW r \in Reactors, NEW f \in Fds, C[r][f].op = "idle", C2[r][f].op = "idle",
           NEW reply, C2[r][f].pipeline_results = Append(C[r][f].pipeline_results, reply),
           NEW n \in Nat, n = Len(C[r][f].pipeline_results),
           NEW l, l = n + 1, OnlyAbout(B, B2, f, l),
           NEW P, P = PipelineIn(B, C, f), NEW P2, P2 = PipelineIn(B2, C2, f)
    PROVE  /\ GrowsBy(P, P2, P2[l])
           /\ reply # Placeholder => P2[l] = [done |-> TRUE, reply |-> reply]
           /\ StandFor(B2, r, f, l, P2[l])
<1> PICK results : results = C[r][f].pipeline_results  OBVIOUS
<1> PICK results2 : results2 = C2[r][f].pipeline_results  OBVIOUS
<1>1. /\ results \in Seq(Reply) /\ Len(results) = n
      /\ P = [i \in 1 .. n |-> P[i]]
      /\ Len(P) = n /\ DOMAIN P = 1 .. n
  <2>1. /\ results \in Seq(Reply) /\ Len(results) = n
        /\ P = [i \in 1 .. Len(results) |-> P[i]]
        /\ Len(P) = Len(results) /\ DOMAIN P = 1 .. Len(results)
    BY PipelineIs
  <2> QED  BY <2>1
<1>2. /\ \A i \in 1 .. n : results2[i] = results[i]
      /\ results2[n + 1] = reply /\ Len(results2) = n + 1
  <2>1. results2 = Append(results, reply)  OBVIOUS
  <2>2. /\ Len(results2) = Len(results) + 1
        /\ \A i \in 1 .. Len(results) : results2[i] = results[i]
        /\ results2[Len(results) + 1] = reply
    BY <1>1, <2>1, SMTT(25)
  <2> QED  BY <1>1, <2>2
<1>3. /\ P2 = [i \in 1 .. n + 1 |-> P2[i]]
      /\ \A i \in 1 .. n + 1 :
            results2[i] # Placeholder => P2[i] = [done |-> TRUE, reply |-> results2[i]]
      /\ \A i \in 1 .. n + 1 : results2[i] = Placeholder =>
            \E p, q \in Reactors : \E m :
               /\ Carries(B2, p, q, m) /\ Home(p, q, m) = r /\ m.fd = f /\ m.idx = i
               /\ P2[i] = Slot(m)
  <2>0. C2[r][f].op = "idle" \/ C2[r][f].pipeline_results # <<>>  OBVIOUS
  <2>1. P2 = [i \in 1 .. Len(results2) |-> P2[i]]  BY <2>0, PipelineIs
  <2>2. ASSUME NEW i \in 1 .. Len(results2), results2[i] # Placeholder
        PROVE  P2[i] = [done |-> TRUE, reply |-> results2[i]]
    BY ONLY Mapped(B2, C2), r \in Reactors, f \in Fds, <2>0, results2 = C2[r][f].pipeline_results,
               P2 = PipelineIn(B2, C2, f), <2>2, PipelineIs
  <2>3. ASSUME NEW i \in 1 .. Len(results2), results2[i] = Placeholder
        PROVE  \E p, q \in Reactors : \E m :
                  /\ Carries(B2, p, q, m) /\ Home(p, q, m) = r /\ m.fd = f /\ m.idx = i
                  /\ P2[i] = Slot(m)
    BY ONLY Mapped(B2, C2), r \in Reactors, f \in Fds, <2>0, results2 = C2[r][f].pipeline_results,
               P2 = PipelineIn(B2, C2, f), <2>3, PipelineIs
  <2>4. Len(results2) = n + 1  BY <1>2
  <2> QED  BY ONLY <2>1, <2>2, <2>3, <2>4, Zenon
<1>4. ASSUME NEW i \in 1 .. n PROVE P2[i] = P[i]
  <2>0. i \in 1 .. n + 1 /\ i # n + 1 /\ results2[i] = results[i]
    <3>1. i \in 1 .. n + 1 /\ i # n + 1  BY ONLY n \in Nat, i \in 1 .. n
    <3> QED  BY <1>2, <3>1
  <2>1. CASE results[i] # Placeholder
    <3>1. P[i] = [done |-> TRUE, reply |-> results[i]]  BY <1>1, <2>1, PipelineIs
    <3>2. P2[i] = [done |-> TRUE, reply |-> results2[i]]  BY <1>3, <2>0, <2>1
    <3> QED  BY <2>0, <3>1, <3>2
  <2>2. CASE results[i] = Placeholder
    <3>1. PICK p \in Reactors, q \in Reactors : \E m :
             /\ Carries(B2, p, q, m) /\ Home(p, q, m) = r /\ m.fd = f /\ m.idx = i
             /\ P2[i] = Slot(m)
      BY <1>3, <2>0, <2>2
    <3>2. PICK m : /\ Carries(B2, p, q, m) /\ Home(p, q, m) = r /\ m.fd = f /\ m.idx = i
                   /\ P2[i] = Slot(m)
      BY <3>1
    <3>3. Carries(B, p, q, m)  BY <2>0, <3>2 DEF OnlyAbout
    <3>4. P[m.idx] = Slot(m)  BY <3>2, <3>3, PipelineIs
    <3> QED  BY <3>2, <3>4
  <2> QED  BY <2>1, <2>2
<1>5. P2 = Append(P, P2[n + 1]) /\ P2 # P
  <2>1. P = [i \in 1 .. n |-> P[i]]  BY <1>1
  <2>2. P2 = [i \in 1 .. n + 1 |-> P2[i]]  BY <1>3
  <2>3. \A i \in 1 .. n : P2[i] = P[i]  BY <1>4
  <2> PICK e : e = P2[n + 1]  OBVIOUS
  <2>4. n \in Nat /\ P2[n + 1] = e  OBVIOUS
  <2>5. P2 = Append(P, e) /\ P2 # P  BY ONLY <2>1, <2>2, <2>3, <2>4, AppendIs, SMTT(25)
  <2> QED  BY <2>5
<1>6. n + 1 \in 1 .. n + 1  BY ONLY n \in Nat
<1>7. reply # Placeholder => P2[n + 1] = [done |-> TRUE, reply |-> reply]
  BY <1>2, <1>3, <1>6
<1>8. ASSUME NEW p \in Reactors, NEW q \in Reactors, NEW m,
             Carries(B2, p, q, m), Home(p, q, m) = r, m.fd = f, m.idx = l
      PROVE  P2[l] = Slot(m)
  BY <1>8, PipelineIs
<1>9. P2 = Append(P, P2[l]) /\ P2 # P  BY ONLY <1>5, l = n + 1, SMTT(25)
<1>10. GrowsBy(P, P2, P2[l])  BY <1>1, <1>9 DEF GrowsBy
<1>11. StandFor(B2, r, f, l, P2[l])  BY <1>8 DEF StandFor
<1>12. reply # Placeholder => P2[l] = [done |-> TRUE, reply |-> reply]
  BY ONLY <1>7, l = n + 1
<1> QED  BY ONLY <1>10, <1>11, <1>12

Grown(B, C, B2, C2, r, f, reply, l) ==
    /\ Mapped(B, C) /\ Mapped(B2, C2) /\ r \in Reactors /\ f \in Fds
    /\ C[r][f].op = "idle" /\ C2[r][f].op = "idle"
    /\ C2[r][f].pipeline_results = Append(C[r][f].pipeline_results, reply)
    /\ \E n \in Nat : n = Len(C[r][f].pipeline_results) /\ l = n + 1
    /\ OnlyAbout(B, B2, f, l)

LEMMA GrownIs ==
    ASSUME NEW B, NEW C, NEW B2, NEW C2, NEW r, NEW f, NEW reply, NEW l,
           Grown(B, C, B2, C2, r, f, reply, l)
    PROVE  LET P  == PipelineIn(B, C, f)
               P2 == PipelineIn(B2, C2, f)
           IN  /\ GrowsBy(P, P2, P2[l])
               /\ reply # Placeholder => P2[l] = [done |-> TRUE, reply |-> reply]
               /\ StandFor(B2, r, f, l, P2[l])
<1> PICK P : P = PipelineIn(B, C, f)  OBVIOUS
<1> PICK P2 : P2 = PipelineIn(B2, C2, f)  OBVIOUS
<1>1. PICK n \in Nat : n = Len(C[r][f].pipeline_results) /\ l = n + 1  BY DEF Grown
<1>2. /\ Mapped(B, C) /\ Mapped(B2, C2) /\ r \in Reactors /\ f \in Fds
      /\ C[r][f].op = "idle" /\ C2[r][f].op = "idle"
      /\ C2[r][f].pipeline_results = Append(C[r][f].pipeline_results, reply)
      /\ OnlyAbout(B, B2, f, l)
  BY DEF Grown
<1>3. /\ GrowsBy(P, P2, P2[l])
      /\ reply # Placeholder => P2[l] = [done |-> TRUE, reply |-> reply]
      /\ StandFor(B2, r, f, l, P2[l])
  BY <1>1, <1>2, PipelineGrows
<1> QED  BY <1>3

(* One slot changed.                                                       *)
LEMMA PipelineFills ==
    ASSUME NEW B, NEW C, Mapped(B, C), NEW B2, NEW C2, Mapped(B2, C2),
           NEW r \in Reactors, NEW f \in Fds, C[r][f].op = "idle", C2[r][f].op = "idle",
           NEW n \in DOMAIN C[r][f].pipeline_results,
           Len(C2[r][f].pipeline_results) = Len(C[r][f].pipeline_results),
           \A i \in DOMAIN C[r][f].pipeline_results : i # n =>
              C2[r][f].pipeline_results[i] = C[r][f].pipeline_results[i],
           OnlyAbout(B, B2, f, n),
           NEW P, P = PipelineIn(B, C, f), NEW P2, P2 = PipelineIn(B2, C2, f)
    PROVE  P2 = [P EXCEPT ![n] = P2[n]] /\ n \in DOMAIN P /\ n \in DOMAIN P2
<1> PICK results : results = C[r][f].pipeline_results  OBVIOUS
<1> PICK results2 : results2 = C2[r][f].pipeline_results  OBVIOUS
<1>1. /\ results \in Seq(Reply) /\ Len(results) \in Nat /\ DOMAIN results = 1 .. Len(results)
      /\ P = [i \in 1 .. Len(results) |-> P[i]]
      /\ Len(P) = Len(results) /\ DOMAIN P = 1 .. Len(results)
  BY PipelineIs
<1>2. P2 = [i \in 1 .. Len(results) |-> P2[i]] /\ DOMAIN P2 = 1 .. Len(results)
  BY PipelineIs
<1>3. /\ n \in 1 .. Len(results) /\ Len(results2) = Len(results)
      /\ \A i \in 1 .. Len(results) : i # n => results2[i] = results[i]
  BY <1>1
<1>4. ASSUME NEW i \in 1 .. Len(results), i # n PROVE P2[i] = P[i]
  <2>0. i \in 1 .. Len(results2)  BY <1>3
  <2>1. CASE results[i] # Placeholder
    <3>1. P[i] = [done |-> TRUE, reply |-> results[i]]  BY <2>1, PipelineIs
    <3>2. results2[i] # Placeholder /\ results2[i] = results[i]  BY <1>3, <1>4, <2>1
    <3>3. P2[i] = [done |-> TRUE, reply |-> results2[i]]  BY <2>0, <3>2, PipelineIs
    <3> QED  BY <3>1, <3>2, <3>3
  <2>2. CASE results[i] = Placeholder
    <3>1. results2[i] = Placeholder  BY <1>3, <1>4, <2>2
    <3>2. PICK p \in Reactors, q \in Reactors : \E m :
             /\ Carries(B2, p, q, m) /\ Home(p, q, m) = r /\ m.fd = f /\ m.idx = i
             /\ P2[i] = Slot(m)
      BY <2>0, <3>1, PipelineIs
    <3>3. PICK m : /\ Carries(B2, p, q, m) /\ Home(p, q, m) = r /\ m.fd = f /\ m.idx = i
                   /\ P2[i] = Slot(m)
      BY <3>2
    <3>4. Carries(B, p, q, m)  BY <1>4, <3>3 DEF OnlyAbout
    <3>5. P[m.idx] = Slot(m)  BY <3>3, <3>4, PipelineIs
    <3> QED  BY <3>3, <3>5
  <2> QED  BY <2>1, <2>2
<1>5. P2 = [P EXCEPT ![n] = P2[n]]
  <2>1. \A i \in 1 .. Len(results) : P2[i] = [P EXCEPT ![n] = P2[n]][i]
    BY <1>1, <1>3, <1>4
  <2>2. [P EXCEPT ![n] = P2[n]] = [i \in 1 .. Len(results) |-> [P EXCEPT ![n] = P2[n]][i]]
    BY <1>1
  <2> QED  BY <1>2, <2>1, <2>2
<1> QED  BY <1>1, <1>2, <1>3, <1>5

Changed(B, C, B2, C2, r, f, n) ==
    /\ Mapped(B, C) /\ Mapped(B2, C2) /\ r \in Reactors /\ f \in Fds
    /\ C[r][f].op = "idle" /\ C2[r][f].op = "idle"
    /\ n \in DOMAIN C[r][f].pipeline_results
    /\ Len(C2[r][f].pipeline_results) = Len(C[r][f].pipeline_results)
    /\ \A i \in DOMAIN C[r][f].pipeline_results : i # n =>
          C2[r][f].pipeline_results[i] = C[r][f].pipeline_results[i]
    /\ OnlyAbout(B, B2, f, n)

FillsBy(P, P2, n, slot) ==
    P2 = [P EXCEPT ![n] = slot] /\ n \in DOMAIN P /\ n \in DOMAIN P2

LEMMA ChangedIs ==
    ASSUME NEW B, NEW C, NEW B2, NEW C2, NEW r, NEW f, NEW n,
           Changed(B, C, B2, C2, r, f, n)
    PROVE  LET P  == PipelineIn(B, C, f)
               P2 == PipelineIn(B2, C2, f)
           IN  FillsBy(P, P2, n, P2[n])
<1> PICK P : P = PipelineIn(B, C, f)  OBVIOUS
<1> PICK P2 : P2 = PipelineIn(B2, C2, f)  OBVIOUS
<1>1. /\ Mapped(B, C) /\ Mapped(B2, C2) /\ r \in Reactors /\ f \in Fds
      /\ C[r][f].op = "idle" /\ C2[r][f].op = "idle"
      /\ n \in DOMAIN C[r][f].pipeline_results
      /\ Len(C2[r][f].pipeline_results) = Len(C[r][f].pipeline_results)
      /\ \A i \in DOMAIN C[r][f].pipeline_results : i # n =>
            C2[r][f].pipeline_results[i] = C[r][f].pipeline_results[i]
      /\ OnlyAbout(B, B2, f, n)
  BY DEF Changed
<1>2. P2 = [P EXCEPT ![n] = P2[n]] /\ n \in DOMAIN P /\ n \in DOMAIN P2
  BY <1>1, PipelineFills
<1> QED  BY <1>2 DEF FillsBy

(* A connection without placeholders has all its replies.                  *)
LEMMA AllDone ==
    ASSUME NEW B, NEW C, Mapped(B, C), NEW r \in Reactors, NEW f \in Fds, C[r][f].op = "idle",
           NEW P, P = PipelineIn(B, C, f), NEW i \in DOMAIN P, ~Awaits(C[r][f], i)
    PROVE  P[i].done
<1> PICK results : results = C[r][f].pipeline_results  OBVIOUS
<1>1. DOMAIN results = 1 .. Len(results) /\ DOMAIN P = 1 .. Len(results)  BY PipelineIs
<1>2. results[i] # Placeholder  BY <1>1 DEF Awaits
<1>3. P[i] = [done |-> TRUE, reply |-> results[i]]  BY <1>1, <1>2, PipelineIs
<1> QED  BY <1>3

-----------------------------------------------------------------------------
(* The steps of KVStore, said of the pipeline of one client.               *)
LEMMA StoreAppends ==
    ASSUME NEW f \in Fds, OthersKept(f), NEW slot,
           Pipeline(f)' = Append(Pipeline(f), slot), Pipeline(f)' # Pipeline(f)
    PROVE  KV!Appends(f, slot) /\ Pipes'[f] # Pipes[f]
<1>1. Pipes' = [Pipes EXCEPT ![f] = Append(Pipes[f], slot)]
  BY PipesBecome DEF Pipes
<1>2. Pipes'[f] # Pipes[f]  BY DEF Pipes
<1> QED  BY <1>1, <1>2 DEF KV!Appends, Pipes

LEMMA StoreOther ==
    ASSUME NEW f \in Fds, OthersKept(f), Kv' = Kv,
           Pipeline(f)' = Append(Pipeline(f), KV!Done(Other)), Pipeline(f)' # Pipeline(f)
    PROVE  KV!Next
<1>1. KV!Appends(f, KV!Done(Other)) /\ Pipes'[f] # Pipes[f]  BY StoreAppends
<1>2. KV!OtherCommand(f)  BY <1>1 DEF KV!OtherCommand, Kv, KV!Other, KV!Plain, Other, Plain
<1> QED  BY <1>1, <1>2 DEF KV!Next, Pipes

LEMMA StoreIssue ==
    ASSUME NEW f \in Fds, OthersKept(f), Kv' = Kv, NEW cmd \in KV!Commands,
           Pipeline(f)' = Append(Pipeline(f), KV!Issued(cmd)), Pipeline(f)' # Pipeline(f)
    PROVE  KV!Next
<1>1. KV!Appends(f, KV!Issued(cmd)) /\ Pipes'[f] # Pipes[f]  BY StoreAppends
<1>2. KV!Issue(f, cmd)  BY <1>1 DEF KV!Issue, Kv
<1> QED  BY <1>1, <1>2 DEF KV!Next, Pipes

LEMMA StoreExecuteAtOnce ==
    ASSUME NEW f \in Fds, OthersKept(f), NEW cmd \in KV!Commands,
           \A j \in 1 .. Len(Pipeline(f)) + 1 - 1 :
              ~Pipeline(f)[j].done => Pipeline(f)[j].cmd.key # cmd.key,
           NEW o \in KV!Outcomes(cmd, Kv[cmd.key]),
           Kv' = [Kv EXCEPT ![cmd.key] = o.entry],
           Pipeline(f)' = Append(Pipeline(f), KV!Done(o.reply)), Pipeline(f)' # Pipeline(f)
    PROVE  KV!Next
<1>1. KV!Appends(f, KV!Done(o.reply)) /\ Pipes'[f] # Pipes[f]  BY StoreAppends
<1>2. KV!InOrder(f, cmd.key, Len(Pipes[f]) + 1)  BY DEF KV!InOrder, Pipes
<1>3. KV!IssueAndExecute(f, cmd)  BY <1>1, <1>2 DEF KV!IssueAndExecute, Kv, Pipes
<1> QED  BY <1>1, <1>3 DEF KV!Next, Pipes

LEMMA StoreExecute ==
    ASSUME NEW f \in Fds, OthersKept(f), NEW i \in DOMAIN Pipeline(f), ~Pipeline(f)[i].done,
           NEW cmd, cmd = Pipeline(f)[i].cmd,
           \A j \in 1 .. i - 1 : ~Pipeline(f)[j].done => Pipeline(f)[j].cmd.key # cmd.key,
           NEW o \in KV!Outcomes(cmd, Kv[cmd.key]),
           Kv' = [Kv EXCEPT ![cmd.key] = o.entry],
           Pipeline(f)' = [Pipeline(f) EXCEPT ![i] = KV!Done(o.reply)],
           Pipeline(f)' # Pipeline(f)
    PROVE  KV!Next
<1>1. Pipes' = [Pipes EXCEPT ![f] = [Pipes[f] EXCEPT ![i] = KV!Done(o.reply)]]
  BY PipesBecome DEF Pipes
<1>2. Pipes'[f] # Pipes[f] /\ Pipes[f] = Pipeline(f)  BY DEF Pipes
<1>3. KV!InOrder(f, cmd.key, i)  BY DEF KV!InOrder, Pipes
<1>4. KV!Execute(f, i)  BY <1>1, <1>2, <1>3 DEF KV!Execute, Kv, Pipes
<1> QED  BY <1>2, <1>4 DEF KV!Next, Pipes

LEMMA StoreDeliver ==
    ASSUME NEW f \in Fds, OthersKept(f), Kv' = Kv, Pipeline(f) # <<>>,
           \A i \in DOMAIN Pipeline(f) : Pipeline(f)[i].done, Pipeline(f)' = <<>>
    PROVE  KV!Next
<1>1. Pipes' = [Pipes EXCEPT ![f] = <<>>]  BY PipesBecome
<1>2. Pipes'[f] # Pipes[f]  BY DEF Pipes
<1>3. KV!Deliver(f)  BY <1>1 DEF KV!Deliver, Kv, Pipes
<1> QED  BY <1>2, <1>3 DEF KV!Next, Pipes

-----------------------------------------------------------------------------
(* What the slots and the replies are to KVStore.                          *)
LEMMA SlotIs ==
    ASSUME NEW m
    PROVE  /\ m.type = "GET_REQ" => Slot(m) = KV!Issued(KV!Get(m.key))
           /\ m.type = "SET_REQ" => Slot(m) = KV!Issued(KV!Set(m.key, m.val, m.ttl))
           /\ m.type = "RESP" => Slot(m) = KV!Done(Answer(m))
BY DEF Slot, KV!Issued, KV!Done, KV!Get, KV!Set

LEMMA RequestKind ==
    ASSUME NEW m \in Message, m.type # "RESP"
    PROVE  /\ m.type \in {"GET_REQ", "SET_REQ"}
           /\ ~Slot(m).done /\ Slot(m).cmd.key = m.key
<1>1. m.type \in {"GET_REQ", "SET_REQ"}  BY DEF Message, Request, Response
<1>2. CASE m.type = "GET_REQ"  BY <1>1, <1>2 DEF Slot
<1>3. CASE m.type = "SET_REQ"  BY <1>1, <1>3 DEF Slot
<1> QED  BY <1>1, <1>2, <1>3

LEMMA GetOutcome ==
    ASSUME NEW k, NEW e, NEW e2 \in Lookups(e), NEW a,
           IF e2.found /\ e2.val = EmptyValue THEN a \in EmptyReplies ELSE a = GetReply(e2)
    PROVE  [entry |-> e2, reply |-> a] \in KV!Outcomes(KV!Get(k), e)
<1>1. KV!Lookups(e) = Lookups(e)  BY DEF KV!Lookups, Lookups, KV!Absent, Absent
<1>2. KV!GetReply(e2) = GetReply(e2)
  BY DEF KV!GetReply, GetReply, KV!Bulk, Bulk, KV!NIL, NIL, KV!Plain, Plain
<1>3. KV!Get(k).op # "SET"  BY DEF KV!Get
<1>4. a \in (IF e2.found /\ e2.val = EmptyValue THEN EmptyReplies ELSE {KV!GetReply(e2)})
  BY <1>2
<1> QED  BY <1>1, <1>3, <1>4 DEF KV!Outcomes

LEMMA SetOutcome ==
    ASSUME NEW k, NEW v, NEW t, NEW e, NEW a \in SetReplies
    PROVE  [entry |-> Stored(v, t), reply |-> a] \in KV!Outcomes(KV!Set(k, v, t), e)
<1>1. KV!Stored(v, t) = Stored(v, t)  BY DEF KV!Stored, Stored
<1>2. KV!Set(k, v, t).op = "SET" /\ KV!Set(k, v, t).val = v /\ KV!Set(k, v, t).ttl = t
  BY DEF KV!Set
<1> QED  BY <1>1, <1>2 DEF KV!Outcomes

(* A RESP says what was found, or what was left in it by a SET.            *)
LEMMA AnswerToGet ==
    ASSUME StoreAssumption, NEW m, NEW e \in Entry, NEW a, a = Answer(Resp(m, e.found, e.val))
    PROVE  IF e.found /\ e.val = EmptyValue THEN a \in EmptyReplies ELSE a = GetReply(e)
<1>1. a = IF ~e.found THEN NIL ELSE IF e.val = EmptyValue THEN OK ELSE Bulk(e.val)
  BY DEF Answer, Resp
<1> QED  BY <1>1 DEF GetReply, StoreAssumption

LEMMA AnswerToSet ==
    ASSUME StoreAssumption, NEW m, NEW v \in Leftovers
    PROVE  Answer(Resp(m, TRUE, v)) \in SetReplies
<1>1. Answer(Resp(m, TRUE, v)) = IF v = EmptyValue THEN OK ELSE Bulk(v)
  BY DEF Answer, Resp
<1> QED  BY <1>1 DEF StoreAssumption

LEMMA KvBecomes ==
    ASSUME StoreInv, NEW k \in Keys, NEW r \in Reactors, Owner[k] = r, NEW e,
           shards' = [shards EXCEPT ![r][k] = e]
    PROVE  Kv' = [Kv EXCEPT ![k] = e] /\ Kv[k] = shards[r][k]
<1>1. shards \in [Reactors -> [Keys -> Entry]]
  BY DEF StoreInv, Known, Base, WakeInv, TypeOK
<1>2. \A j \in Keys : Owner[j] \in Reactors  BY ConstantsAssumption
<1>3. \A j \in Keys : shards'[Owner[j]][j] = IF j = k THEN e ELSE shards[Owner[j]][j]
  BY <1>1, <1>2
<1>4. Kv' = [j \in Keys |-> shards'[Owner[j]][j]]  BY DEF Kv
<1> QED  BY <1>3, <1>4 DEF Kv

(* A command that is still to be executed travels to the owner of its key. *)
LEMMA Undone ==
    ASSUME NEW B, NEW C, Mapped(B, C), Addressed(B), NEW r \in Reactors, NEW f \in Fds,
           C[r][f].op = "idle", NEW P, P = PipelineIn(B, C, f),
           NEW j \in DOMAIN P, ~P[j].done
    PROVE  \E q \in Reactors : \E m :
              /\ Carries(B, r, q, m) /\ m.type # "RESP" /\ m.fd = f /\ m.idx = j
              /\ P[j].cmd.key = m.key /\ Owner[m.key] = q /\ q # r
<1> PICK results : results = C[r][f].pipeline_results  OBVIOUS
<1>1. DOMAIN P = 1 .. Len(results)  BY PipelineIs
<1>2. results[j] = Placeholder
  <2>1. SUFFICES ASSUME results[j] # Placeholder PROVE FALSE  OBVIOUS
  <2>2. P[j] = [done |-> TRUE, reply |-> results[j]]  BY <1>1, <2>1, PipelineIs
  <2> QED  BY <2>2
<1>3. PICK p \in Reactors, q \in Reactors : \E m :
         /\ Carries(B, p, q, m) /\ Home(p, q, m) = r /\ m.fd = f /\ m.idx = j
         /\ P[j] = Slot(m)
  BY <1>1, <1>2, PipelineIs
<1>4. PICK m : /\ Carries(B, p, q, m) /\ Home(p, q, m) = r /\ m.fd = f /\ m.idx = j
               /\ P[j] = Slot(m)
  BY <1>3
<1>5. m \in Message  BY <1>4, CarriedType DEF Mapped
<1>6. m.type # "RESP"  BY <1>4 DEF Slot
<1>7. p = r  BY <1>4, <1>6 DEF Home
<1>8. P[j].cmd.key = m.key  BY <1>4, <1>5, <1>6, RequestKind
<1>9. Owner[m.key] = q  BY <1>4, <1>6 DEF Addressed
<1>10. q # r
  <2>1. SUFFICES ASSUME q = r PROVE FALSE  OBVIOUS
  <2>2. DOMAIN B[r][q] = {}  BY <2>1 DEF Mapped
  <2> QED  BY <1>4, <1>7, <2>2 DEF Carries
<1> QED  BY <1>4, <1>6, <1>7, <1>8, <1>9, <1>10

-----------------------------------------------------------------------------
(* The steps of a batch.                                                   *)
LEMMA RepliedStep ==
    ASSUME ~PushMayFail, StoreInv, StoreInv', NEW r \in Reactors, pc[r] = "batch",
           NEW reply, reply # Placeholder, Replied(r, reply), NEW f, f = cur[r]
    PROVE  /\ f \in Fds /\ conn[r][f].op = "idle" /\ OthersKept(f)
           /\ Pipeline(f)' = Append(Pipeline(f), KV!Done(reply)) /\ Pipeline(f)' # Pipeline(f)
           /\ DOMAIN Pipeline(f) = 1 .. Len(Pipeline(f)) /\ Len(Pipeline(f)) \in Nat
<1>1. f \in Fds /\ conn[r][f].op = "idle"
  BY DEF StoreInv, Known, Base, CurrentOK, PipeInv, CurrentIdle
<1>2. conn \in [Reactors -> [Fds -> Connection]]
  BY DEF StoreInv, Known, Base, WakeInv, TypeOK
<1> PICK results \in Seq(Reply) : results = conn[r][f].pipeline_results
  BY <1>1, <1>2 DEF Connection
<1> PICK n \in Nat : n = Len(results)  BY LenProperties
<1>3. /\ \A s \in Reactors, g \in Fds \ {f} : conn'[s][g] = conn[s][g]
      /\ conn'[r][f].op = "idle" /\ conn'[r][f].pipeline_results = Append(results, reply)
      /\ inboxes' = inboxes
  BY <1>1, <1>2 DEF Replied, Connection
<1>4. OthersKept(f)  BY <1>1, <1>3, OthersStep
<1> PICK B : B = inboxes  OBVIOUS
<1> PICK C : C = conn  OBVIOUS
<1> PICK C2 : C2 = conn'  OBVIOUS
<1> PICK P : P = PipelineIn(B, C, f)  OBVIOUS
<1> PICK P2 : P2 = PipelineIn(B, C2, f)  OBVIOUS
<1>5. Mapped(B, C) /\ Mapped(B, C2)  BY <1>3, MappedNow, MappedNext
<1>6. /\ C[r][f].op = "idle" /\ C2[r][f].op = "idle"
      /\ C2[r][f].pipeline_results = Append(C[r][f].pipeline_results, reply)
      /\ n = Len(C[r][f].pipeline_results)
  BY <1>1, <1>3
<1> PICK l : l = n + 1  OBVIOUS
<1>7. GrowsBy(P, P2, P2[l]) /\ P2[l] = [done |-> TRUE, reply |-> reply]
  <2>1. OnlyAbout(B, B, f, l)  BY DEF OnlyAbout
  <2>2. Grown(B, C, B, C2, r, f, reply, l)  BY <1>1, <1>5, <1>6, <2>1 DEF Grown
  <2> QED  BY <2>2, GrownIs
<1>8. Pipeline(f) = P /\ Pipeline(f)' = P2  BY <1>3, PipelineNow, PipelineNext
<1> QED  BY <1>1, <1>4, <1>7, <1>8 DEF KV!Done, GrowsBy

LEMMA OtherStep ==
    ASSUME ~PushMayFail, StoreInv, StoreInv', NEW r \in Reactors, OtherCommand(r)
    PROVE  KV!Next
<1> PICK f : f = cur[r]  OBVIOUS
<1>1. pc[r] = "batch" /\ Replied(r, Other) /\ Other # Placeholder
  BY RealReplies DEF OtherCommand, Parsing
<1>2. /\ f \in Fds /\ OthersKept(f)
      /\ Pipeline(f)' = Append(Pipeline(f), KV!Done(Other)) /\ Pipeline(f)' # Pipeline(f)
  BY <1>1, RepliedStep
<1>3. Kv' = Kv  BY DEF OtherCommand, data, Kv
<1> QED  BY <1>2, <1>3, StoreOther

(* What a push adds to the inboxes.                                        *)
LEMMA PushCarries ==
    ASSUME NEW B \in Queues, NEW p \in Reactors, NEW q \in Reactors, NEW m \in Message,
           NEW D, D = More(B, p, q, m)
    PROVE  /\ Carries(D, p, q, m)
           /\ \A s, t \in Reactors : \A x : Carries(D, s, t, x) =>
                 Carries(B, s, t, x) \/ (s = p /\ t = q /\ x = m)
<1> PICK S : S = B[p][q]  OBVIOUS
<1>1. S \in Seq(Message)  BY DEF Queues
<1>2. /\ DOMAIN Append(S, m) = 1 .. Len(S) + 1
      /\ DOMAIN S = 1 .. Len(S) /\ Len(S) \in Nat
      /\ \A n \in 1 .. Len(S) : Append(S, m)[n] = S[n]
      /\ Append(S, m)[Len(S) + 1] = m
  BY <1>1, AppendProperties, LenProperties
<1>3. /\ D[p][q] = Append(S, m)
      /\ \A s, t \in Reactors : ~(s = p /\ t = q) => D[s][t] = B[s][t]
  BY DEF Queues, More
<1>4. Len(S) + 1 \in DOMAIN D[p][q] /\ D[p][q][Len(S) + 1] = m  BY <1>2, <1>3
<1>5. Carries(D, p, q, m)  BY <1>4 DEF Carries
<1>6. ASSUME NEW s \in Reactors, NEW t \in Reactors, NEW x, Carries(D, s, t, x)
      PROVE  Carries(B, s, t, x) \/ (s = p /\ t = q /\ x = m)
  <2>1. PICK n \in DOMAIN D[s][t] : D[s][t][n] = x  BY <1>6 DEF Carries
  <2>2. CASE s = p /\ t = q
    <3>1. n \in 1 .. Len(S) + 1 /\ x = Append(S, m)[n]  BY <1>2, <1>3, <2>1, <2>2
    <3>2. CASE n = Len(S) + 1  BY <1>2, <2>2, <3>1, <3>2
    <3>3. CASE n # Len(S) + 1
      <4>1. n \in 1 .. Len(S)  BY <1>2, <3>1, <3>3
      <4>2. n \in DOMAIN B[p][q] /\ B[p][q][n] = x  BY <1>2, <3>1, <4>1
      <4> QED  BY <2>2, <4>2 DEF Carries
    <3> QED  BY <3>2, <3>3
  <2>3. CASE ~(s = p /\ t = q)  BY <1>3, <2>1, <2>3 DEF Carries
  <2> QED  BY <2>2, <2>3
<1> QED  BY <1>5, <1>6

(* A command that was executed on the spot: those of the pipeline that are *)
(* not yet executed are on keys of other reactors.                         *)
LEMMA LocalStep ==
    ASSUME ~PushMayFail, StoreInv, StoreInv', NEW r \in Reactors, pc[r] = "batch",
           NEW cmd \in KV!Commands, cmd.key \in Keys, Owner[cmd.key] = r,
           NEW e, shards' = [shards EXCEPT ![r][cmd.key] = e],
           NEW reply, reply # Placeholder, Replied(r, reply),
           [entry |-> e, reply |-> reply] \in KV!Outcomes(cmd, shards[r][cmd.key])
    PROVE  KV!Next
<1> PICK f : f = cur[r]  OBVIOUS
<1>1. /\ f \in Fds /\ conn[r][f].op = "idle" /\ OthersKept(f)
      /\ Pipeline(f)' = Append(Pipeline(f), KV!Done(reply)) /\ Pipeline(f)' # Pipeline(f)
      /\ DOMAIN Pipeline(f) = 1 .. Len(Pipeline(f)) /\ Len(Pipeline(f)) \in Nat
  BY RepliedStep
<1>2. Kv' = [Kv EXCEPT ![cmd.key] = e] /\ Kv[cmd.key] = shards[r][cmd.key]
  BY KvBecomes
<1>3. ASSUME NEW j \in 1 .. Len(Pipeline(f)) + 1 - 1, ~Pipeline(f)[j].done
      PROVE  Pipeline(f)[j].cmd.key # cmd.key
  <2> PICK P : P = PipelineIn(inboxes, conn, f)  OBVIOUS
  <2>1. Pipeline(f) = P /\ Mapped(inboxes, conn) /\ Addressed(inboxes)
    BY PipelineNow, MappedNow DEF StoreInv, RequestInv
  <2>2. j \in DOMAIN P  BY <1>1, <2>1
  <2>3. PICK q \in Reactors : \E m : P[j].cmd.key = m.key /\ Owner[m.key] = q /\ q # r
    BY <1>1, <1>3, <2>1, <2>2, Undone
  <2> QED  BY <2>1, <2>3
<1> PICK o \in KV!Outcomes(cmd, Kv[cmd.key]) : o = [entry |-> e, reply |-> reply]
  BY <1>2
<1>4. o.entry = e /\ o.reply = reply  OBVIOUS
<1> QED  BY <1>1, <1>2, <1>3, <1>4, StoreExecuteAtOnce

LEMMA LocalGetStep ==
    ASSUME StoreAssumption, StoreInv, StoreInv', NEW r \in Reactors, NEW k \in Keys,
           LocalGet(r, k)
    PROVE  KV!Next
<1> PICK cmd : cmd = KV!Get(k)  OBVIOUS
<1>1. cmd.key = k /\ cmd \in KV!Commands  BY DEF KV!Get, KV!Commands
<1>2. PICK e \in Lookups(shards[r][k]) :
         shards' = [shards EXCEPT ![r][k] = e] /\ Replied(r, GetReply(e))
  BY DEF LocalGet
<1>3. pc[r] = "batch" /\ Owner[k] = r  BY DEF LocalGet, Parsing
<1>4. GetReply(e) # Placeholder  BY RealReplies
<1>5. e.found /\ e.val = EmptyValue => GetReply(e) \in EmptyReplies
  BY DEF GetReply, StoreAssumption
<1>6. [entry |-> e, reply |-> GetReply(e)] \in KV!Outcomes(cmd, shards[r][k])
  BY <1>5, GetOutcome
<1>7. ~PushMayFail  BY DEF StoreAssumption
<1> QED  BY <1>1, <1>2, <1>3, <1>4, <1>6, <1>7, LocalStep

LEMMA LocalSetStep ==
    ASSUME StoreAssumption, StoreInv, StoreInv', NEW r \in Reactors,
           NEW k \in Keys, NEW v \in Values, NEW t \in Ttls, LocalSet(r, k, v, t)
    PROVE  KV!Next
<1> PICK cmd : cmd = KV!Set(k, v, t)  OBVIOUS
<1>1. cmd.key = k /\ cmd \in KV!Commands  BY DEF KV!Set, KV!Commands
<1>2. /\ pc[r] = "batch" /\ Owner[k] = r
      /\ shards' = [shards EXCEPT ![r][k] = Stored(v, t)] /\ Replied(r, OK)
  BY DEF LocalSet, Parsing
<1>3. OK # Placeholder  BY RealReplies
<1>4. [entry |-> Stored(v, t), reply |-> OK] \in KV!Outcomes(cmd, shards[r][k])
  BY SetOutcome DEF StoreAssumption
<1>5. ~PushMayFail  BY DEF StoreAssumption
<1> QED  BY <1>1, <1>2, <1>3, <1>4, <1>5, LocalStep

LEMMA ForwardStep ==
    ASSUME ~PushMayFail, StoreInv, StoreInv', NEW r \in Reactors, pc[r] = "batch",
           NEW m \in Message, m.key \in Keys, m.type # "RESP", UNCHANGED data,
           m.fd = cur[r], m.idx = NextIndex(Current(r)), Forward(r, m),
           NEW cmd \in KV!Commands, Slot(m) = KV!Issued(cmd)
    PROVE  KV!Next
<1> PICK f : f = cur[r]  OBVIOUS
<1> PICK q \in Reactors : q = Owner[m.key]  BY ConstantsAssumption
<1>1. f \in Fds /\ conn[r][f].op = "idle"
  BY DEF StoreInv, Known, Base, CurrentOK, PipeInv, CurrentIdle
<1>2. conn \in [Reactors -> [Fds -> Connection]] /\ inboxes \in Queues
  BY DEF StoreInv, Known, Base, WakeInv, TypeOK, Queues
<1> PICK results \in Seq(Reply) : results = conn[r][f].pipeline_results
  BY <1>1, <1>2 DEF Connection
<1> PICK n \in Nat : n = Len(results)  BY LenProperties
<1>3. /\ \A s \in Reactors, g \in Fds \ {f} : conn'[s][g] = conn[s][g]
      /\ conn'[r][f].op = "idle" /\ conn'[r][f].pipeline_results = Append(results, Placeholder)
  BY <1>1, <1>2 DEF Forward, Expecting, Connection
<1> PICK B : B = inboxes  OBVIOUS
<1> PICK B2 : B2 = inboxes'  OBVIOUS
<1>4. B2 = More(B, r, q, m)  BY DEF Forward, Sent, Pushed, More
<1>5. /\ Carries(B2, r, q, m)
      /\ \A s, t \in Reactors : \A x : Carries(B2, s, t, x) => Carries(B, s, t, x) \/ x = m
  <2>1. B \in Queues  BY <1>2
  <2> QED  BY <1>4, <2>1, PushCarries
<1> PICK l : l = n + 1  OBVIOUS
<1>6. m.fd = f /\ m.idx = l  BY DEF NextIndex, Current
<1>7. OthersKept(f)
  <2>1. \A s, t \in Reactors : \A x :
           Carries(inboxes', s, t, x) => x.fd = f \/ Carries(inboxes, s, t, x)
    BY <1>5, <1>6
  <2> QED  BY <1>1, <1>3, <2>1, OthersStep
<1>C. PICK C : C = conn  OBVIOUS
<1>D. PICK C2 : C2 = conn'  OBVIOUS
<1>P. PICK P : P = PipelineIn(B, C, f)  OBVIOUS
<1>Q. PICK P2 : P2 = PipelineIn(B2, C2, f)  OBVIOUS
<1>8. Mapped(B, C) /\ Mapped(B2, C2)  BY <1>C, <1>D, MappedNow, MappedNext
<1>9. /\ C[r][f].op = "idle" /\ C2[r][f].op = "idle"
      /\ C2[r][f].pipeline_results = Append(C[r][f].pipeline_results, Placeholder)
      /\ n = Len(C[r][f].pipeline_results)
  BY <1>C, <1>D, <1>1, <1>3
<1>10. OnlyAbout(B, B2, f, l)  BY <1>5, <1>6 DEF OnlyAbout
<1>11. Home(r, q, m) = r  BY DEF Home
<1>12. Grown(B, C, B2, C2, r, f, Placeholder, l)  BY <1>1, <1>8, <1>9, <1>10 DEF Grown
<1>13. GrowsBy(P, P2, P2[l]) /\ StandFor(B2, r, f, l, P2[l])  BY <1>P, <1>Q, <1>12, GrownIs
<1>14. P2[l] = Slot(m)  BY <1>5, <1>6, <1>11, <1>13 DEF StandFor
<1>15. Pipeline(f) = P /\ Pipeline(f)' = P2  BY <1>C, <1>D, <1>P, <1>Q, PipelineNow, PipelineNext
<1>16. Kv' = Kv  BY DEF data, Kv
<1>17. Pipeline(f)' = Append(Pipeline(f), KV!Issued(cmd)) /\ Pipeline(f)' # Pipeline(f)
  <2>1. P2 = Append(P, P2[l]) /\ P2 # P  BY <1>13, Zenon DEF GrowsBy
  <2> QED  BY <1>14, <1>15, <2>1, Zenon
<1> QED  BY <1>1, <1>7, <1>16, <1>17, StoreIssue

-----------------------------------------------------------------------------
(* Draining the inbox.                                                     *)

(* What r pops is the oldest message of p about client f of reactor h.     *)
LEMMA PoppedRequest ==
    ASSUME ~PushMayFail, StoreInv, NEW r \in Reactors, NEW p \in Reactors,
           inboxes[p][r] # <<>>, NEW m, m = Head(inboxes[p][r]), m.type # "RESP",
           NEW f, f = m.fd, NEW n, n = m.idx
    PROVE  /\ m \in Message /\ f \in Fds /\ m.key \in Keys /\ Owner[m.key] = r
           /\ Awaits(conn[p][f], n) /\ n \in DOMAIN Pipeline(f)
           /\ Pipeline(f)[n] = Slot(m)
           /\ \A j \in 1 .. n - 1 :
                 ~Pipeline(f)[j].done => Pipeline(f)[j].cmd.key # m.key
<1> PICK B : B = inboxes  OBVIOUS
<1> PICK C : C = conn  OBVIOUS
<1> PICK P : P = PipelineIn(B, C, f)  OBVIOUS
<1>1. Mapped(B, C) /\ Addressed(B) /\ Ordered(B) /\ B \in Queues
  BY MappedNow DEF StoreInv, RequestInv, Mapped
<1>2. B[p][r] # <<>> /\ m = Head(B[p][r])  OBVIOUS
<1>3. Carries(B, p, r, m) /\ m \in Message /\ f \in Fds
  BY <1>1, <1>2, HeadCarried, CarriedType
<1>4. m.key \in Keys /\ Owner[m.key] = r
  BY <1>1, <1>3, RequestKind, MessageFields DEF Addressed
<1>5. Home(p, r, m) = p  BY DEF Home
<1>6. Awaits(C[p][f], n)  BY <1>1, <1>3, <1>5 DEF Mapped
<1> PICK results : results = C[p][f].pipeline_results  OBVIOUS
<1>7. C[p][f].op = "idle"  BY <1>6 DEF Awaits
<1>8. DOMAIN P = 1 .. Len(results) /\ Len(results) \in Nat
  BY <1>1, <1>3, <1>7, PipelineIs
<1>9. n \in 1 .. Len(results) /\ P[n] = Slot(m)
  BY <1>1, <1>3, <1>5, <1>7, PipelineIs
<1>10. ASSUME NEW j \in 1 .. n - 1, ~P[j].done PROVE P[j].cmd.key # m.key
  <2>1. SUFFICES ASSUME P[j].cmd.key = m.key PROVE FALSE  OBVIOUS
  <2>2. j \in DOMAIN P /\ j \in Nat /\ n \in Nat /\ j < n
    <3> PICK l \in Nat : l = Len(results)  BY <1>8, SMTT(25)
    <3>1. n \in 1 .. l /\ DOMAIN P = 1 .. l  BY <1>8, <1>9
    <3>2. n \in Nat  BY <3>1
    <3>3. j \in 1 .. l /\ j \in Nat /\ j < n  BY ONLY l \in Nat, n \in Nat, j \in 1 .. n - 1, <3>1
    <3> QED  BY <3>1, <3>2, <3>3
  <2>3. PICK q \in Reactors : \E x :
           /\ Carries(B, p, q, x) /\ x.type # "RESP" /\ x.fd = f /\ x.idx = j
           /\ P[j].cmd.key = x.key /\ Owner[x.key] = q /\ q # p
    BY <1>1, <1>3, <1>7, <1>10, <2>2, Undone, SMTT(25)
  <2>4. PICK x : /\ Carries(B, p, q, x) /\ x.type # "RESP" /\ x.fd = f /\ x.idx = j
                 /\ P[j].cmd.key = x.key /\ Owner[x.key] = q
    BY <2>3
  <2>5. q = r  BY <1>4, <2>1, <2>4
  <2>6. B[p][r] \in Seq(Message)  BY <1>1 DEF Queues
  <2>7. 1 \in DOMAIN B[p][r] /\ B[p][r][1] = m /\ DOMAIN B[p][r] \subseteq Nat \ {0}
    BY <1>2, <2>6, LenProperties, EmptySeq
  <2>8. PICK a \in DOMAIN B[p][r] : B[p][r][a] = x  BY <2>4, <2>5 DEF Carries
  <2>9. a # 1  BY <2>2, <2>4, <2>7, <2>8
  <2>10. 1 < a  BY <2>7, <2>9
  <2>11. n < j  BY <1>1, <2>4, <2>7, <2>8, <2>10 DEF Ordered
  <2> QED  BY ONLY <2>2, <2>11
<1>11. Pipeline(f) = P  BY PipelineNow
<1>12. n \in DOMAIN P  BY <1>8, <1>9
<1> QED  BY <1>3, <1>4, <1>6, <1>9, <1>10, <1>11, <1>12

LEMMA SlotOf ==
    ASSUME NEW B, NEW C, Mapped(B, C), NEW p \in Reactors, NEW q \in Reactors, NEW m,
           Carries(B, p, q, m), NEW r, Home(p, q, m) = r
    PROVE  PipelineIn(B, C, m.fd)[m.idx] = Slot(m)
<1>f. PICK f : f = m.fd  OBVIOUS
<1>P. PICK P : P = PipelineIn(B, C, f)  OBVIOUS
<1>0. B \in Queues  BY DEF Mapped
<1>1. m \in Message /\ f \in Fds /\ r \in Reactors
  <2>1. m \in Message /\ m.fd \in Fds /\ Home(p, q, m) \in Reactors
    BY <1>0, CarriedType
  <2> QED  BY <1>f, <2>1
<1>2. C[r][f].op = "idle"
  <2>1. Awaits(C[Home(p, q, m)][m.fd], m.idx)  BY Zenon DEF Mapped
  <2> QED  BY <1>f, <2>1, Zenon DEF Awaits
<1>3. P[m.idx] = Slot(m)  BY <1>f, <1>P, <1>1, <1>2, PipelineIs
<1> QED  BY <1>f, <1>P, <1>3

LEMMA ExecuteStep ==
    ASSUME ~PushMayFail, StoreInv, StoreInv', NEW r \in Reactors, NEW p \in Reactors,
           inboxes[p][r] # <<>>, NEW m, m = Head(inboxes[p][r]), m.type # "RESP",
           NEW e, shards' = [shards EXCEPT ![r][m.key] = e],
           NEW resp \in Message, resp.type = "RESP", resp.fd = m.fd, resp.idx = m.idx,
           Answered(r, p, resp),
           [entry |-> e, reply |-> Answer(resp)] \in KV!Outcomes(Slot(m).cmd, shards[r][m.key])
    PROVE  KV!Next
<1>f. PICK f : f = m.fd  BY Zenon
<1>n. PICK n : n = m.idx  BY Zenon
<1>0. /\ ~PushMayFail /\ StoreInv /\ inboxes[p][r] # <<>>
      /\ m = Head(inboxes[p][r]) /\ m.type # "RESP"
  BY Zenon
<1>1. /\ m \in Message /\ f \in Fds /\ m.key \in Keys /\ Owner[m.key] = r
      /\ Awaits(conn[p][f], n) /\ n \in DOMAIN Pipeline(f)
      /\ Pipeline(f)[n] = Slot(m)
      /\ \A j \in 1 .. n - 1 :
            ~Pipeline(f)[j].done => Pipeline(f)[j].cmd.key # m.key
  BY ONLY <1>f, <1>n, <1>0, r \in Reactors, p \in Reactors, PoppedRequest
<1>2. ~Slot(m).done /\ Slot(m).cmd.key = m.key  BY <1>1, RequestKind
<1> PICK B : B = inboxes  OBVIOUS
<1> PICK B1 : B1 = Less(inboxes, p, r)  OBVIOUS
<1> PICK B2 : B2 = inboxes'  OBVIOUS
<1> PICK C : C = conn  OBVIOUS
<1>3. Mapped(B, C) /\ Mapped(B2, C) /\ B \in Queues /\ Addressed(B) /\ Ordered(B)
  <2>1. Mapped(inboxes, conn) /\ Mapped(inboxes', conn')  BY MappedNow, MappedNext
  <2>2. conn' = conn  BY DEF Answered
  <2> QED  BY <2>1, <2>2 DEF Mapped, StoreInv, RequestInv
<1>4. B1 \in Queues /\ r # p /\ B2 = More(B1, r, p, resp)
  BY AnsweredQueues DEF StoreInv
<1>5. \A s, t \in Reactors : \A x : Carries(B1, s, t, x) => Carries(B, s, t, x)
  BY <1>3, PopRequests
<1>6. /\ Carries(B2, r, p, resp)
      /\ \A s, t \in Reactors : \A x : Carries(B2, s, t, x) => Carries(B1, s, t, x) \/ x = resp
  BY <1>4, PushCarries
<1>7. OthersKept(f)
  <2>1. \A s, t \in Reactors : \A x :
           Carries(inboxes', s, t, x) => x.fd = f \/ Carries(inboxes, s, t, x)
    BY <1>f, <1>5, <1>6
  <2>2. conn' = conn  BY DEF Answered
  <2> QED  BY <1>1, <2>1, <2>2, OthersStep
<1> PICK P : P = PipelineIn(B, C, f)  OBVIOUS
<1> PICK P2 : P2 = PipelineIn(B2, C, f)  OBVIOUS
<1>8. FillsBy(P, P2, n, P2[n])
  <2>1. OnlyAbout(B, B2, f, n)  BY <1>f, <1>n, <1>5, <1>6 DEF OnlyAbout
  <2>2. C[p][f].op = "idle" /\ n \in DOMAIN C[p][f].pipeline_results
    BY <1>1 DEF Awaits
  <2>3. Changed(B, C, B2, C, p, f, n)  BY <1>1, <1>3, <2>1, <2>2 DEF Changed
  <2> QED  BY <2>3, ChangedIs
<1>9. P2[n] = KV!Done(Answer(resp))
  <2>1. Home(r, p, resp) = p  BY DEF Home
  <2>2. C[p][f].op = "idle"  BY <1>1 DEF Awaits
  <2>3. Carries(B2, r, p, resp) /\ Mapped(B2, C) /\ f \in Fds  BY <1>1, <1>3, <1>6
  <2>4. PipelineIn(B2, C, resp.fd)[resp.idx] = Slot(resp)
    BY <2>1, <2>2, <2>3, SlotOf
  <2>5. P2[n] = Slot(resp)  BY <1>f, <1>n, <2>4
  <2> QED  BY <2>5, SlotIs
<1>10. Pipeline(f) = P /\ Pipeline(f)' = P2
  <2>1. conn' = conn  BY DEF Answered
  <2> QED  BY <2>1, PipelineNow, PipelineNext
<1>11. Pipeline(f)' = [Pipeline(f) EXCEPT ![n] = KV!Done(Answer(resp))]
  BY <1>8, <1>9, <1>10 DEF FillsBy
<1>12. Pipeline(f)' # Pipeline(f)
  <2>1. ~P[n].done  BY <1>1, <1>2, <1>10
  <2>2. P2[n].done  BY <1>9 DEF KV!Done
  <2> QED  BY <1>10, <2>1, <2>2
<1>13. Kv' = [Kv EXCEPT ![m.key] = e] /\ Kv[m.key] = shards[r][m.key]
  BY <1>1, KvBecomes
<1>c. PICK cmd : cmd = Slot(m).cmd  OBVIOUS
<1>14. cmd = Pipeline(f)[n].cmd /\ cmd.key = m.key /\ ~Pipeline(f)[n].done
  BY <1>c, <1>1, <1>2, Zenon
<1>o. PICK o \in KV!Outcomes(cmd, Kv[cmd.key]) : o = [entry |-> e, reply |-> Answer(resp)]
  BY <1>c, <1>13, <1>14, Zenon
<1>15. o.entry = e /\ o.reply = Answer(resp)  BY <1>o
<1>16. /\ \A j \in 1 .. n - 1 : ~Pipeline(f)[j].done => Pipeline(f)[j].cmd.key # cmd.key
       /\ Kv' = [Kv EXCEPT ![cmd.key] = o.entry]
       /\ Pipeline(f)' = [Pipeline(f) EXCEPT ![n] = KV!Done(o.reply)]
  BY <1>1, <1>11, <1>13, <1>14, <1>15, Zenon
<1> QED  BY <1>o, <1>1, <1>7, <1>12, <1>14, <1>16, StoreExecute

LEMMA PopGetStep ==
    ASSUME StoreAssumption, StoreInv, StoreInv', NEW r \in Reactors, NEW p \in Reactors,
           PopGet(r, p)
    PROVE  KV!Next
<1> PICK m : m = Head(inboxes[p][r])  OBVIOUS
<1>1. inboxes[p][r] # <<>> /\ m.type = "GET_REQ"  BY DEF PopGet, Popped
<1>2. ~PushMayFail /\ Known /\ WakeInv
  BY DEF StoreAssumption, StoreInv, Known, Base
<1> TypeOK  BY <1>2 DEF WakeInv
<1>3. m \in Message /\ m.key \in Keys  BY <1>1, <1>2, PoppedType, MessageFields
<1>4. PICK e \in Lookups(shards[r][m.key]) :
         /\ shards' = [shards EXCEPT ![r][m.key] = e]
         /\ Answered(r, p, Resp(m, e.found, e.val))
  BY DEF PopGet
<1>5. e \in Entry
  <2>1. shards[r][m.key] \in Entry  BY <1>2, <1>3 DEF WakeInv, TypeOK
  <2> QED  BY <1>4, <2>1, EntryTypes
<1> PICK resp : resp = Resp(m, e.found, e.val)  OBVIOUS
<1>6. /\ resp \in Message /\ resp.type = "RESP" /\ resp.fd = m.fd /\ resp.idx = m.idx
  <2>1. e.found \in BOOLEAN /\ e.val \in Values  BY <1>5 DEF Entry
  <2> QED  BY <1>3, <2>1, RespType DEF Resp
<1>7. Slot(m).cmd = KV!Get(m.key)  BY <1>1, SlotIs DEF KV!Issued
<1>8. [entry |-> e, reply |-> Answer(resp)] \in KV!Outcomes(Slot(m).cmd, shards[r][m.key])
  <2> PICK a : a = Answer(resp)  OBVIOUS
  <2>1. IF e.found /\ e.val = EmptyValue THEN a \in EmptyReplies ELSE a = GetReply(e)
    BY <1>5, AnswerToGet
  <2>2. [entry |-> e, reply |-> a] \in KV!Outcomes(KV!Get(m.key), shards[r][m.key])
    BY <1>4, <2>1, GetOutcome
  <2> QED  BY <1>7, <2>2
<1> QED  BY <1>1, <1>2, <1>4, <1>6, <1>8, ExecuteStep

LEMMA PopSetStep ==
    ASSUME StoreAssumption, StoreInv, StoreInv', NEW r \in Reactors, NEW p \in Reactors,
           PopSet(r, p)
    PROVE  KV!Next
<1> PICK m : m = Head(inboxes[p][r])  OBVIOUS
<1>1. inboxes[p][r] # <<>> /\ m.type = "SET_REQ"  BY DEF PopSet, Popped
<1>2. ~PushMayFail /\ Known /\ WakeInv
  BY DEF StoreAssumption, StoreInv, Known, Base
<1> TypeOK  BY <1>2 DEF WakeInv
<1>3. m \in Message  BY <1>1, <1>2, PoppedType
<1>4. PICK left \in Leftovers : Answered(r, p, Resp(m, TRUE, left))  BY DEF PopSet
<1>5. shards' = [shards EXCEPT ![r][m.key] = EntryOf(m)]  BY DEF PopSet
<1> PICK resp : resp = Resp(m, TRUE, left)  OBVIOUS
<1>6. /\ resp \in Message /\ resp.type = "RESP" /\ resp.fd = m.fd /\ resp.idx = m.idx
  <2>1. left \in Values  BY ConstantsAssumption
  <2> QED  BY <1>3, <2>1, RespType DEF Resp
<1>7. Slot(m).cmd = KV!Set(m.key, m.val, m.ttl)  BY <1>1, SlotIs DEF KV!Issued
<1>8. [entry |-> EntryOf(m), reply |-> Answer(resp)]
         \in KV!Outcomes(Slot(m).cmd, shards[r][m.key])
  <2>1. Answer(resp) \in SetReplies  BY AnswerToSet
  <2> QED  BY <1>7, <2>1, SetOutcome DEF EntryOf
<1> QED  BY <1>1, <1>2, <1>4, <1>5, <1>6, <1>8, ExecuteStep

-----------------------------------------------------------------------------
(* A response leaves, or there was nothing to respond to.                  *)
Stepped == KV!Next \/ (Kv' = Kv /\ Pipes' = Pipes)

LEMMA SentStep ==
    ASSUME ~PushMayFail, StoreInv, StoreInv', NEW r \in Reactors, NEW f \in Fds,
           conn[r][f].op = "idle", NEW d, conn' = [conn EXCEPT ![r][f] = d],
           d.pipeline_results = <<>>, UNCHANGED shards,
           \A p, q \in Reactors : \A x : Carries(inboxes', p, q, x) => Carries(inboxes, p, q, x),
           \A i \in DOMAIN Pipeline(f) : Pipeline(f)[i].done
    PROVE  Stepped
<1>1. conn \in [Reactors -> [Fds -> Connection]]
  BY DEF StoreInv, Known, Base, WakeInv, TypeOK
<1>2. \A q \in Reactors, g \in Fds :
         conn'[q][g] = IF q = r /\ g = f THEN d ELSE conn[q][g]
  BY <1>1
<1>3. OthersKept(f)  BY <1>2, OthersStep
<1>4. ASSUME NEW q \in Reactors PROVE conn'[q][f].pipeline_results = <<>>
  <2>1. CASE q = r  BY <1>2, <2>1
  <2>2. CASE q # r
    <3>1. conn[q][f].op = "closed"  BY <2>2 DEF StoreInv, HomeInv, OneHome
    <3>2. conn[q][f].pipeline_results = <<>>
      BY <3>1 DEF StoreInv, HomeInv, ResultsWhileIdle
    <3> QED  BY <1>2, <2>2, <3>2
  <2> QED  BY <2>1, <2>2
<1>5. Pipeline(f)' = <<>>
  <2> PICK B2 : B2 = inboxes'  OBVIOUS
  <2> PICK C2 : C2 = conn'  OBVIOUS
  <2>1. Mapped(B2, C2)  BY MappedNext
  <2>2. \A q \in Reactors : C2[q][f].pipeline_results = <<>>  BY <1>4
  <2>3. PipelineIn(B2, C2, f) = <<>>  BY <2>1, <2>2, PipelineEmpty
  <2> QED  BY <2>3, PipelineNext
<1>6. Kv' = Kv  BY DEF Kv
<1>7. CASE Pipeline(f) = <<>>
  <2>1. Pipes' = [Pipes EXCEPT ![f] = Pipes[f]]  BY <1>3, <1>5, <1>7, PipesBecome DEF Pipes
  <2>2. Pipes' = Pipes  BY <2>1 DEF Pipes
  <2> QED  BY <1>6, <2>2 DEF Stepped
<1>8. CASE Pipeline(f) # <<>>  BY <1>3, <1>5, <1>6, <1>8, StoreDeliver DEF Stepped
<1> QED  BY <1>7, <1>8

LEMMA LastOne ==
    ASSUME NEW S, IsFiniteSet(S), Cardinality(S) = 1, NEW x \in S, NEW y \in S
    PROVE  x = y
<1>1. IsFiniteSet(S \ {x}) /\ Cardinality(S \ {x}) = 0  BY FS_RemoveElement
<1>2. S \ {x} = {}  BY <1>1, FS_EmptySet
<1> QED  BY <1>2

(* An answer fills its placeholder, which the pipeline shows no sooner than*)
(* the command was executed; the last one lets the response go.            *)
LEMMA PopRespStep ==
    ASSUME ~PushMayFail, StoreInv, StoreInv', NEW r \in Reactors, NEW p \in Reactors,
           PopResp(r, p)
    PROVE  Stepped
<1> PICK m : m = Head(inboxes[p][r])  OBVIOUS
<1> PICK f : f = m.fd  OBVIOUS
<1> PICK n : n = m.idx  OBVIOUS
<1> PICK B : B = inboxes  OBVIOUS
<1> PICK B2 : B2 = inboxes'  OBVIOUS
<1> PICK C : C = conn  OBVIOUS
<1> PICK C2 : C2 = conn'  OBVIOUS
<1>1. /\ Mapped(B, C) /\ Mapped(B2, C2) /\ Addressed(B) /\ Ordered(B) /\ B \in Queues
      /\ C \in [Reactors -> [Fds -> Connection]]
  BY MappedNow, MappedNext DEF StoreInv, RequestInv, Mapped
<1>2. B[p][r] # <<>> /\ m = Head(B[p][r]) /\ m.type = "RESP" /\ UNCHANGED shards
  BY DEF PopResp, Popped, data
<1>3. Carries(B, p, r, m) /\ m \in Message /\ f \in Fds /\ Home(p, r, m) = r
  BY <1>1, <1>2, HeadCarried, CarriedType DEF Home
<1>c. PICK c : c = C[r][f]  OBVIOUS
<1>d. PICK d : d = Filled(c, m)  OBVIOUS
<1>4. Awaits(c, n) /\ c \in Connection /\ c.op = "idle"
  <2>1. Awaits(C[Home(p, r, m)][m.fd], m.idx)  BY <1>1, <1>3 DEF Mapped
  <2>2. Awaits(c, n)  BY <1>c, <1>3, <2>1
  <2>3. c \in Connection  BY <1>c, <1>1, <1>3, Zenon
  <2> QED  BY <2>2, <2>3 DEF Awaits
<1>5. conn' = [conn EXCEPT ![r][f] = d]  BY <1>c, <1>d, <1>4 DEF PopResp, IsOpen
<1>6. \A q, t \in Reactors : \A x : Carries(B2, q, t, x) => Carries(B, q, t, x)
  <2>1. B2 = Less(B, p, r)  BY DEF PopResp, Less
  <2> QED  BY <1>1, <1>2, <2>1, PopRequests
<1>P. PICK P : P = PipelineIn(B, C, f)  OBVIOUS
<1>7. P[n] = KV!Done(Answer(m))
  <2>1. PipelineIn(B, C, m.fd)[m.idx] = Slot(m)  BY <1>1, <1>3, SlotOf
  <2> QED  BY <1>P, <1>2, <2>1, SlotIs
<1>8. Pipeline(f) = P  BY <1>P, PipelineNow
<1>9. CASE d.op = "idle" /\ d.pipeline_results = [c.pipeline_results EXCEPT ![m.idx] = Answer(m)]
  <2>P. PICK P2 : P2 = PipelineIn(B2, C2, f)  OBVIOUS
  <2>1. /\ C2[r][f] = d
        /\ \A q \in Reactors, g \in Fds \ {f} : conn'[q][g] = conn[q][g]
    BY <1>1, <1>3, <1>5
  <2>R. PICK results \in Seq(Reply) : results = c.pipeline_results  BY <1>4 DEF Connection
  <2>S. PICK results2 : results2 = [results EXCEPT ![n] = Answer(m)]  OBVIOUS
  <2>2. DOMAIN results = 1 .. Len(results) /\ n \in DOMAIN results
    BY <2>R, <1>4, LenProperties DEF Awaits
  <2>3. /\ Len(results2) = Len(results) /\ results2[n] = Answer(m)
        /\ \A i \in DOMAIN results : i # n => results2[i] = results[i]
    <3>1. results2 \in Seq(Reply) /\ Len(results2) = Len(results)
      <4>1. Answer(m) \in Reply  BY <1>2, <1>3, AnswerType
      <4>2. n \in 1 .. Len(results)  BY <2>2
      <4> QED  BY ONLY <2>R, <2>S, <4>1, <4>2, ExceptSeq
    <3> QED  BY <2>R, <2>S, <2>2, <3>1
  <2>4. results2 = C2[r][f].pipeline_results /\ C2[r][f].op = "idle"
    BY <2>R, <2>S, <1>9, <2>1
  <2>5. FillsBy(P, P2, n, P2[n])
    <3>1. OnlyAbout(B, B2, f, n)  BY <1>6 DEF OnlyAbout
    <3>2. /\ n \in DOMAIN C[r][f].pipeline_results
          /\ Len(C2[r][f].pipeline_results) = Len(C[r][f].pipeline_results)
          /\ \A i \in DOMAIN C[r][f].pipeline_results : i # n =>
                C2[r][f].pipeline_results[i] = C[r][f].pipeline_results[i]
      <4>1. results = C[r][f].pipeline_results  BY <1>c, <2>R, SMTT(25)
      <4> QED  BY ONLY <2>2, <2>3, <2>4, <4>1
    <3>3. C[r][f].op = "idle" /\ C2[r][f].op = "idle"  BY <1>c, <1>4, <2>4
    <3>4. Changed(B, C, B2, C2, r, f, n)
      BY ONLY r \in Reactors, <1>1, <1>3, <3>1, <3>2, <3>3 DEF Changed
    <3> QED  BY <1>P, <2>P, <3>4, ChangedIs
  <2>6. P2[n] = [done |-> TRUE, reply |-> Answer(m)]
    <3>1. Answer(m) # Placeholder  BY RealReplies
    <3>2. n \in 1 .. Len(results2) /\ results2[n] # Placeholder  BY <2>2, <2>3, <3>1
    <3>3. C2[r][f].op = "idle" \/ C2[r][f].pipeline_results # <<>>  BY <2>4
    <3>4. P2[n] = [done |-> TRUE, reply |-> results2[n]]
      BY ONLY r \in Reactors, <1>1, <1>3, <2>4, <3>2, <3>3, <2>P, PipelineIs
    <3> QED  BY <2>3, <3>4
  <2>7. P2 = P
    <3>1. P2 = [P EXCEPT ![n] = P[n]]  BY <1>7, <2>5, <2>6 DEF FillsBy, KV!Done
    <3>2. DOMAIN P = 1 .. Len(results) /\ P = [i \in 1 .. Len(results) |-> P[i]]
      <4>1. C[r][f].op = "idle" /\ results = C[r][f].pipeline_results
        BY <1>c, <1>4, <2>R
      <4> QED  BY ONLY r \in Reactors, <1>1, <1>3, <4>1, <1>P, PipelineIs, SMTT(25)
    <3> QED  BY <3>1, <3>2
  <2>8. Pipeline(f)' = Pipeline(f)  BY <1>8, <2>P, <2>7, PipelineNext
  <2>9. OthersKept(f)  BY <1>3, <1>6, <2>1, OthersStep
  <2>10. \A g \in Fds : Pipeline(g)' = Pipeline(g)  BY <2>8, <2>9, Zenon DEF OthersKept
  <2> QED  BY <1>2, <2>10 DEF Stepped, Kv, Pipes
<1>10. CASE d.pipeline_results = <<>> /\ c.pending_itc = 1
  <2>1. IsFiniteSet(Placeholders(c)) /\ Cardinality(Placeholders(c)) = 1
    <3>1. Sound(c)  BY <1>c, <1>3 DEF StoreInv, Known, PipeInv, AllSound
    <3> QED  BY <1>4, <1>10, <3>1, PlaceholdersFinite DEF Sound
  <2>2. n \in Placeholders(c)  BY <1>4 DEF Awaits, Placeholders
  <2>3. ASSUME NEW i \in DOMAIN P PROVE P[i].done
    <3>1. CASE i = n  BY <1>7, <3>1 DEF KV!Done
    <3>2. CASE i # n
      <4>1. i \notin Placeholders(c)  BY <2>1, <2>2, <3>2, LastOne
      <4>2. ~Awaits(C[r][f], i)  BY <1>c, <4>1 DEF Awaits, Placeholders
      <4> QED  BY <1>c, <1>P, <1>1, <1>3, <1>4, <4>2, AllDone
    <3> QED  BY <3>1, <3>2
  <2> QED  BY <1>c, <1>d, <1>2, <1>3, <1>4, <1>5, <1>6, <1>8, <1>10, <2>3, SentStep
<1> QED  BY <1>d, <1>2, <1>3, <1>4, <1>9, <1>10, FilledIdle

LEMMA RespondStep ==
    ASSUME ~PushMayFail, StoreInv, StoreInv', NEW r \in Reactors, Respond(r)
    PROVE  Stepped
<1> PICK f : f = cur[r]  OBVIOUS
<1> PICK C : C = conn  OBVIOUS
<1>1. f \in Fds /\ C[r][f].op = "idle"
  BY DEF Respond, StoreInv, Known, Base, CurrentOK, PipeInv, CurrentIdle
<1>2. C \in [Reactors -> [Fds -> Connection]] /\ Mapped(inboxes, C)
  BY MappedNow DEF StoreInv, Known, Base, WakeInv, TypeOK
<1> PICK c \in Connection : c = C[r][f]  BY <1>1, <1>2
<1> PICK d : d = Submitted(c)  OBVIOUS
<1>3. conn' = [conn EXCEPT ![r][f] = d] /\ UNCHANGED <<inboxes, shards>>
  BY DEF Respond, bus, data
<1>4. CASE d.pipeline_results = c.pipeline_results
  <2>1. \A q \in Reactors, g \in Fds :
           conn'[q][g].pipeline_results = conn[q][g].pipeline_results
    BY <1>1, <1>2, <1>3, <1>4
  <2> QED  BY <1>3, <2>1, KeptStep DEF Stepped
<1>5. CASE d.pipeline_results = <<>> /\ ~(c.pending_itc > 0)
  <2> PICK P : P = PipelineIn(inboxes, C, f)  OBVIOUS
  <2>1. Placeholders(c) = {}
    <3>1. Sound(c)  BY <1>1 DEF StoreInv, Known, PipeInv, AllSound
    <3>2. Cardinality(Placeholders(c)) = 0
      BY <1>5, <3>1, PlaceholdersFinite DEF Sound
    <3> QED  BY <3>2, PlaceholdersFinite, FS_EmptySet
  <2>2. ASSUME NEW i \in DOMAIN P PROVE P[i].done
    <3>1. ~Awaits(C[r][f], i)  BY <2>1 DEF Awaits, Placeholders
    <3> QED  BY <1>1, <1>2, <3>1, AllDone
  <2>3. Pipeline(f) = P  BY PipelineNow
  <2> QED  BY <1>1, <1>3, <1>5, <2>2, <2>3, SentStep
<1> QED  BY <1>1, <1>4, <1>5, SubmittedIdle

-----------------------------------------------------------------------------
(* Every step of the reactors is one of KVStore or none.                   *)
LEMMA CompletionsKeep ==
    ASSUME StoreInv, NEW r \in Reactors, Completions(r)
    PROVE  /\ UNCHANGED <<inboxes, shards>>
           /\ \A q \in Reactors, g \in Fds :
                 conn'[q][g].pipeline_results = conn[q][g].pipeline_results
<1>1. conn \in [Reactors -> [Fds -> Connection]]
  BY DEF StoreInv, Known, Base, WakeInv, TypeOK
<1>2. ASSUME NEW f \in Fds, NEW d, conn' = [conn EXCEPT ![r][f] = d],
             d.pipeline_results = <<>>, conn[r][f].op # "idle"
      PROVE  \A q \in Reactors, g \in Fds :
                conn'[q][g].pipeline_results = conn[q][g].pipeline_results
  <2>1. conn[r][f].pipeline_results = <<>>
    BY <1>2 DEF StoreInv, HomeInv, ResultsWhileIdle
  <2>2. \A q \in Reactors, g \in Fds :
           conn'[q][g] = IF q = r /\ g = f THEN d ELSE conn[q][g]
    BY <1>1, <1>2
  <2> QED  BY <1>2, <2>1, <2>2
<1>3. ASSUME NEW f \in Fds, HandleAccept(r, f)
      PROVE  /\ UNCHANGED <<inboxes, shards>>
             /\ \A q \in Reactors, g \in Fds :
                   conn'[q][g].pipeline_results = conn[q][g].pipeline_results
  <2>1. Accepted.pipeline_results = <<>> /\ conn[r][f].op # "idle"
    BY <1>3 DEF HandleAccept, IsOpen, Accepted, NoConnection
  <2>2. conn' = [conn EXCEPT ![r][f] = Accepted] \/ conn' = conn  BY <1>3 DEF HandleAccept
  <2> QED  BY <1>2, <1>3, <2>1, <2>2 DEF HandleAccept, bus, data
<1>4. ASSUME NEW f \in Fds, HandleClose(r, f)
      PROVE  /\ UNCHANGED <<inboxes, shards>>
             /\ \A q \in Reactors, g \in Fds :
                   conn'[q][g].pipeline_results = conn[q][g].pipeline_results
  <2>1. NoConnection.pipeline_results = <<>> /\ conn[r][f].op # "idle"
    BY <1>4 DEF HandleClose, Closable, NoConnection
  <2> QED  BY <1>2, <1>4, <2>1 DEF HandleClose, bus, data
<1>5. ASSUME NEW f \in Fds, HandleWrite(r, f)
      PROVE  /\ UNCHANGED <<inboxes, shards>>
             /\ \A q \in Reactors, g \in Fds :
                   conn'[q][g].pipeline_results = conn[q][g].pipeline_results
  <2> PICK d : d = [conn[r][f] EXCEPT !.op = "read", !.response_data = <<>>]  OBVIOUS
  <2>1. conn' = [conn EXCEPT ![r][f] = d]  BY <1>1, <1>5 DEF HandleWrite
  <2>2. conn[r][f].op # "idle"  BY <1>5 DEF HandleWrite
  <2>3. d.pipeline_results = <<>>
    BY <1>1, <2>2, SMTT(25) DEF Connection, StoreInv, HomeInv, ResultsWhileIdle
  <2> QED  BY <1>2, <1>5, <2>1, <2>2, <2>3 DEF HandleWrite, bus, data
<1>6. ASSUME NEW f \in Fds, HandleRead(r, f)
      PROVE  /\ UNCHANGED <<inboxes, shards>>
             /\ \A q \in Reactors, g \in Fds :
                   conn'[q][g].pipeline_results = conn[q][g].pipeline_results
  <2> PICK d : d = [conn[r][f] EXCEPT !.op = "idle", !.response_data = <<>>,
                                      !.pipeline_results = <<>>, !.pending_itc = 0]
    OBVIOUS
  <2>1. conn' = [conn EXCEPT ![r][f] = d]  BY <1>1, <1>6 DEF HandleRead
  <2>2. conn[r][f].op # "idle"  BY <1>6 DEF HandleRead
  <2>3. d.pipeline_results = <<>>  BY <1>1 DEF Connection
  <2> QED  BY <1>2, <1>6, <2>1, <2>2, <2>3 DEF HandleRead, bus, data
<1>7. ASSUME HandleItcEvent(r) \/ ItcReadFails(r) \/ HandleAof(r) \/ AcceptFails(r)
      PROVE  UNCHANGED <<inboxes, shards, conn>>
  BY <1>7 DEF HandleItcEvent, ItcReadFails, HandleAof, AcceptFails, bus, data
<1> QED  BY <1>3, <1>4, <1>5, <1>6, <1>7 DEF Completions

LEMMA CommandStep ==
    ASSUME StoreAssumption, StoreInv, StoreInv', NEW r \in Reactors, Command(r)
    PROVE  KV!Next
<1>1. ~PushMayFail  BY DEF StoreAssumption
<1>2. ASSUME Parsing(r)
      PROVE  pc[r] = "batch" /\ cur[r] \in Fds /\ NextIndex(Current(r)) \in Index
  <2>1. cur[r] \in Fds /\ pc[r] = "batch"
    BY <1>2 DEF Parsing, StoreInv, Known, Base, CurrentOK
  <2> QED  BY <2>1, ExpectingType DEF Current, StoreInv, Known, Base, WakeInv, TypeOK
<1>3. ASSUME NEW k \in Keys, RemoteGet(r, k) PROVE KV!Next
  <2> PICK m : m = GetReq(cur[r], NextIndex(Current(r)), k)  OBVIOUS
  <2> PICK cmd : cmd = KV!Get(k)  OBVIOUS
  <2>1. Parsing(r) /\ Forward(r, m)  BY <1>3 DEF RemoteGet
  <2>2. m \in Message /\ m.key = k  BY <1>2, <2>1, RequestTypes
  <2>3. /\ m.type # "RESP" /\ m.fd = cur[r] /\ m.idx = NextIndex(Current(r))
        /\ m.type = "GET_REQ"
    BY DEF GetReq
  <2>4. Slot(m) = KV!Issued(cmd) /\ cmd \in KV!Commands
    BY <2>2, <2>3, SlotIs DEF KV!Commands
  <2>5. UNCHANGED data  BY <2>1 DEF Forward
  <2> QED  BY <1>1, <1>2, <2>1, <2>2, <2>3, <2>4, <2>5, ForwardStep
<1>4. ASSUME NEW k \in Keys, NEW v \in Values, NEW t \in Ttls, RemoteSet(r, k, v, t)
      PROVE  KV!Next
  <2> PICK m : m = SetReq(cur[r], NextIndex(Current(r)), k, v, t)  OBVIOUS
  <2> PICK cmd : cmd = KV!Set(k, v, t)  OBVIOUS
  <2>1. Parsing(r) /\ Forward(r, m)  BY <1>4 DEF RemoteSet
  <2>2. m \in Message /\ m.key = k  BY <1>2, <2>1, RequestTypes, ConstantsAssumption
  <2>3. /\ m.type # "RESP" /\ m.fd = cur[r] /\ m.idx = NextIndex(Current(r))
        /\ m.type = "SET_REQ" /\ m.val = v /\ m.ttl = t
    BY DEF SetReq
  <2>4. Slot(m) = KV!Issued(cmd) /\ cmd \in KV!Commands
    BY <2>2, <2>3, SlotIs DEF KV!Commands
  <2>5. UNCHANGED data  BY <2>1 DEF Forward
  <2> QED  BY <1>1, <1>2, <2>1, <2>2, <2>3, <2>4, <2>5, ForwardStep
<1> QED  BY <1>1, <1>3, <1>4, OtherStep, LocalGetStep, LocalSetStep DEF Command

LEMMA NextSteps ==
    ASSUME StoreAssumption, StoreInv, StoreInv', [Next]_vars
    PROVE  Stepped
<1>1. ~PushMayFail  BY DEF StoreAssumption
<1>2. CASE /\ UNCHANGED <<inboxes, shards>>
           /\ \A q \in Reactors, g \in Fds :
                 conn'[q][g].pipeline_results = conn[q][g].pipeline_results
  BY <1>1, <1>2, KeptStep DEF Stepped
<1>3. CASE UNCHANGED <<inboxes, shards, conn>>  BY <1>2, <1>3
<1>4. ASSUME NEW r \in Reactors, Drain(r) PROVE Stepped
  <2>1. ASSUME NEW p \in Reactors, SeeEmpty(r, p) \/ DrainEnds(r)
        PROVE  UNCHANGED <<inboxes, shards, conn>>
    BY <2>1 DEF SeeEmpty, DrainEnds, bus, data
  <2> QED  BY <1>1, <1>3, <1>4, <2>1, PopGetStep, PopSetStep, PopRespStep DEF Drain, Stepped
<1>5. ASSUME NEW r \in Reactors, Completions(r) PROVE Stepped
  BY <1>2, <1>5, CompletionsKeep
<1>6. ASSUME NEW r \in Reactors,
             \/ \E q \in Reactors : Signal(r, q)
             \/ Submit(r) \/ WaitFails(r) \/ KernelReadsEventfd(r) \/ BatchEnds(r)
      PROVE  UNCHANGED <<inboxes, shards, conn>>
  BY <1>6 DEF Signal, Submit, WaitFails, KernelReadsEventfd, BatchEnds, bus, data
<1>7. CASE Next
  BY <1>1, <1>3, <1>4, <1>5, <1>6, <1>7, CommandStep, RespondStep DEF Next, Stepped
<1>8. CASE UNCHANGED vars  BY <1>3, <1>8 DEF vars, bus, data
<1> QED  BY <1>7, <1>8

LEMMA InitMaps == Init => KV!Init
<1> SUFFICES ASSUME Init PROVE KV!Init  OBVIOUS
<1>1. shards \in [Reactors -> [Keys -> Entry]]  BY InitType DEF TypeInv, TypeOK
<1>2. \A k \in Keys : shards[Owner[k]][k] \in Entry  BY <1>1, ConstantsAssumption
<1>3. KV!Entry = Entry  BY DEF KV!Entry, Entry
<1>4. \A r \in Reactors, f \in Fds : ~IsOpen(r, f)  BY DEF Init, NoConnection, IsOpen
<1>5. \A f \in Fds : Pipeline(f) = <<>>  BY <1>4 DEF Pipeline
<1> QED  BY <1>2, <1>3, <1>5 DEF KV!Init

LEMMA StoreStep ==
    ASSUME StoreAssumption
    PROVE  StoreInv /\ StoreInv' /\ [Next]_vars =>
              [KV!Next]_<<[k \in Keys |-> shards[Owner[k]][k]], [f \in Fds |-> Pipeline(f)]>>
<1> SUFFICES ASSUME StoreInv, StoreInv', [Next]_vars
    PROVE  KV!Next \/ (Kv' = Kv /\ Pipes' = Pipes)
  BY DEF Kv, Pipes
<1> QED  BY NextSteps DEF Stepped

(* The reactors implement KVStore: every command takes effect once, in one *)
(* store, between being read and being answered, those of a connection on  *)
(* one key in their order, and the replies of a pipeline leave together    *)
(* and in order; for any number of reactors, clients, keys and values and  *)
(* any length of a pipeline, whatever accepts, reads of the eventfd or     *)
(* reactors fail, as long as no push does and a SET may be answered with   *)
(* what was left in its RESP.                                              *)
THEOREM ReactorsImplementStore ==
    ASSUME StoreAssumption
    PROVE  Spec => LinearizableStore
<1>1. ~PushMayFail  BY DEF StoreAssumption
<1>2. Known /\ RequestInv /\ [Next]_vars => RequestInv'  BY <1>1, NextRequests
<1>3. StoreInv <=> Known /\ ResumeInv /\ HomeInv /\ RequestInv  BY DEF StoreInv
<1>4. StoreInv /\ StoreInv' /\ [Next]_vars =>
         [KV!Next]_<<[k \in Keys |-> shards[Owner[k]][k]], [f \in Fds |-> Pipeline(f)]>>
  BY StoreStep
<1> QED  BY <1>2, <1>3, <1>4, ResumesInvariance, NextHomes, InitStore, InitMaps,
            PTL DEF Spec, LinearizableStore, KV!Spec
=============================================================================
