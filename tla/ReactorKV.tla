----------------------------- MODULE ReactorKV -----------------------------
(***************************************************************************)
(* The reactors implement KVStore.  The store is spread over the engines;  *)
(* a placeholder stands for the command while its request is in flight and *)
(* for the reply once it was executed and its RESP is.                     *)
(***************************************************************************)
EXTENDS Reactor, Functions

CONSTANTS SetReplies, EmptyReplies

(* The command or the reply that a message in flight stands for.           *)
Slot(m) == CASE m.type = "GET_REQ" -> [done |-> FALSE,
                                       cmd |-> [op |-> "GET", key |-> m.key]]
             [] m.type = "SET_REQ" -> [done |-> FALSE,
                                       cmd |-> [op |-> "SET", key |-> m.key,
                                                val |-> m.val, ttl |-> m.ttl]]
             [] m.type = "RESP"    -> [done |-> TRUE, reply |-> Answer(m)]

(* The message in flight about slot i of connection f of reactor r.        *)
About(r, f, i) ==
    CHOOSE m \in UNION {Range(inboxes[r][q]) \cup Range(inboxes[q][r]) :
                          q \in Reactors \ {r}} : m.fd = f /\ m.idx = i

Slots(r, f) ==
    LET results == conn[r][f].pipeline_results
    IN  [i \in DOMAIN results |-> IF results[i] # Placeholder
                                  THEN [done |-> TRUE, reply |-> results[i]]
                                  ELSE Slot(About(r, f, i))]

Pipeline(f) == IF \E r \in Reactors : IsOpen(r, f)
               THEN Slots(CHOOSE r \in Reactors : IsOpen(r, f), f)
               ELSE <<>>

(* The clients of the reactors see the behaviours of KVStore: a command    *)
(* takes effect once, between being read and being answered; the commands  *)
(* of a connection on one key take effect in their order; the replies of a *)
(* pipeline are sent together and in order (main.cpp, phases 1 and 3).     *)
KV == INSTANCE KVStore WITH
        Conns <- Fds,
        kv <- [k \in Keys |-> shards[Owner[k]][k]],
        pipe <- [f \in Fds |-> Pipeline(f)]
LinearizableStore == KV!Spec

(* The reply a command of f's pipeline gets in a step that executes it.    *)
Executes(f, i, op, reply) ==
    /\ i \in DOMAIN Pipeline(f) /\ ~Pipeline(f)[i].done
    /\ Pipeline(f)[i].cmd.op = op
    /\ i \in DOMAIN Pipeline(f)' /\ Pipeline(f)'[i].done
    /\ Pipeline(f)'[i].reply = reply

(* A command that another reactor executed is answered as the comment on   *)
(* the handler of a RESP says (main.cpp:209: "For SET response: +OK, for   *)
(* GET: bulk string or nil").                                              *)
RemoteRepliesRight ==
    [][\A f \in Fds, i \in 1 .. MaxPipeline, a \in Reply :
          /\ Executes(f, i, "SET", a) => a = OK
          /\ Executes(f, i, "GET", a) => a.kind \in {"bulk", "NIL"}]_vars
=============================================================================
