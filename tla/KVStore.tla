------------------------------ MODULE KVStore ------------------------------
(***************************************************************************)
(* What DbSync promises its clients: one store, in which every command     *)
(* takes effect at one instant between the moment it is read and the       *)
(* moment its reply is sent, the commands of a connection on one key in    *)
(* the order they were sent, and the replies of a pipeline together, in    *)
(* the order of the commands.                                              *)
(*                                                                         *)
(* pipe[c] is the pipeline of connection c: for each command read and not  *)
(* yet replied to, the command itself or, once it was executed, its reply. *)
(***************************************************************************)
EXTENDS Engine, Naturals, Sequences

CONSTANTS
    Conns, Keys,
    Ttls,          \* whether a SET carries a TTL
    SetReplies,    \* the replies a SET may get: {OK} is what is documented
    EmptyReplies   \* the replies a GET that finds the empty value may get

VARIABLES kv, pipe

Get(k)       == [op |-> "GET", key |-> k]
Set(k, v, t) == [op |-> "SET", key |-> k, val |-> v, ttl |-> t]

Commands == {Get(k) : k \in Keys}
            \cup {Set(k, v, t) : k \in Keys, v \in Values, t \in Ttls}

Issued(cmd) == [done |-> FALSE, cmd |-> cmd]
Done(reply) == [done |-> TRUE, reply |-> reply]

Init == /\ kv \in [Keys -> Entry]
        /\ pipe = [c \in Conns |-> <<>>]

(* What executing a command on an entry may leave and reply.               *)
Outcomes(cmd, e) ==
    IF cmd.op = "SET"
    THEN {[entry |-> Stored(cmd.val, cmd.ttl), reply |-> a] : a \in SetReplies}
    ELSE UNION {{[entry |-> x, reply |-> a] :
                    a \in IF x.found /\ x.val = EmptyValue THEN EmptyReplies
                          ELSE {GetReply(x)}} : x \in Lookups(e)}

(* No earlier command of the pipeline on this key is still to be executed. *)
InOrder(c, k, i) ==
    \A j \in 1 .. i - 1 : ~pipe[c][j].done => pipe[c][j].cmd.key # k

(* The pipeline of c grows by one slot.                                    *)
Appends(c, slot) == pipe' = [pipe EXCEPT ![c] = Append(@, slot)]

Issue(c, cmd) ==
    /\ Appends(c, Issued(cmd))
    /\ UNCHANGED kv

IssueAndExecute(c, cmd) ==
    /\ InOrder(c, cmd.key, Len(pipe[c]) + 1)
    /\ \E o \in Outcomes(cmd, kv[cmd.key]) :
         /\ Appends(c, Done(o.reply))
         /\ kv' = [kv EXCEPT ![cmd.key] = o.entry]

OtherCommand(c) ==
    /\ Appends(c, Done(Other))
    /\ UNCHANGED kv

Execute(c, i) ==
    /\ ~pipe[c][i].done
    /\ LET cmd == pipe[c][i].cmd
       IN  /\ InOrder(c, cmd.key, i)
           /\ \E o \in Outcomes(cmd, kv[cmd.key]) :
                /\ kv' = [kv EXCEPT ![cmd.key] = o.entry]
                /\ pipe' = [pipe EXCEPT ![c][i] = Done(o.reply)]

Deliver(c) ==
    /\ pipe[c] # <<>>
    /\ \A i \in DOMAIN pipe[c] : pipe[c][i].done
    /\ pipe' = [pipe EXCEPT ![c] = <<>>]
    /\ UNCHANGED kv

(* Every step is one of a pipeline.                                        *)
Next == \E c \in Conns :
    /\ pipe'[c] # pipe[c]
    /\ \/ Deliver(c)
       \/ OtherCommand(c)
       \/ \E i \in DOMAIN pipe[c] : Execute(c, i)
       \/ \E cmd \in Commands : Issue(c, cmd) \/ IssueAndExecute(c, cmd)

Spec == Init /\ [][Next]_<<kv, pipe>>
=============================================================================
