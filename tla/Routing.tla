------------------------------ MODULE Routing ------------------------------
(***************************************************************************)
(* How a key reaches an engine: through the reactor that read the command  *)
(* (src/src/main.cpp:345-409), over the bus, where set_key cuts it to 127  *)
(* bytes (src/include/itc_queue.hpp:43-47), or out of the AOF of an        *)
(* earlier process (recover_from_aof).  An engine indexes its shards with  *)
(* get_local_shard_index and checks nothing; an index outside the vector   *)
(* is undefined behaviour, after which the model stops.                    *)
(*                                                                         *)
(* The values, the connections and what the AOF may lose are left to the   *)
(* other modules: here a SET puts its key into the shards and the log.     *)
(* What holds of it is proved, in RoutingProofs; no run of TLC is needed.  *)
(***************************************************************************)
EXTENDS Sharding, FiniteSets

CONSTANTS
    Keys,
    Hash,        \* fnv1a_hash, from Keys to Nat
    EmptyKey,    \* the key of length 0, which Keys need not contain
    Wire,        \* the key that get_key returns after set_key
    Counts,      \* hardware_concurrency() / 2 of the machines it is run on
    NoAccess,    \* no engine was accessed yet
    MaxInFlight  \* bound: requests on the bus

(* What the theorems about this module assume of its constants.            *)
RoutingAssumption ==
    /\ Hash \in [Keys -> Nat]
    /\ Wire \in [Keys -> Keys]
    /\ Counts \subseteq Nat \ {0}
    /\ MaxInFlight \in Nat

VARIABLES
    n,           \* g_num_reactors
    recovering,  \* reactors whose engine is still to be constructed
    shards,      \* [reactor -> keys in its engine]
    log,         \* [reactor id -> keys in appendonly_<id>.aof]
    bus,         \* requests in flight
    access       \* the reactor and the key of the latest engine access

vars == <<n, recovering, shards, log, bus, access>>

Reactors == 0 .. n - 1

\* every id a reactor can have, and so every file
Ids == UNION {0 .. c - 1 : c \in Counts}

Request == [to : Ids, op : {"GET", "SET"}, key : Keys]

Init == /\ n \in Counts
        /\ recovering = Reactors
        /\ shards = [r \in Ids |-> {}]
        /\ log = [r \in Ids |-> {}]
        /\ bus = {}
        /\ access = NoAccess

(* The index of every access so far was in the vector.                     *)
Sane == access # NoAccess => InRange(n, access.reactor, Hash[access.key])

(* engine.set with append_aof_set, or engine.get.                          *)
Engine(r, op, k) ==
    /\ access' = [reactor |-> r, key |-> k]
    /\ IF op = "SET" /\ InRange(n, r, Hash[k])
       THEN /\ shards' = [shards EXCEPT ![r] = @ \cup {k}]
            /\ log' = [log EXCEPT ![r] = @ \cup {k}]
       ELSE UNCHANGED <<shards, log>>

(* The constructor of an engine replays its file, key by key.              *)
Recover(r) ==
    /\ Sane
    /\ r \in recovering
    /\ recovering' = recovering \ {r}
    /\ \/ /\ \A k \in log[r] : InRange(n, r, Hash[k])
          /\ shards' = [shards EXCEPT ![r] = log[r]]
          /\ UNCHANGED access
       \/ /\ \E k \in log[r] : /\ ~InRange(n, r, Hash[k])
                               /\ access' = [reactor |-> r, key |-> k]
          /\ UNCHANGED shards
    /\ UNCHANGED <<n, log, bus>>

(* The owner of a key as the reactor that read the command sees it.        *)
OwnerOf(r, k) == IF k = EmptyKey THEN r ELSE fast_owner(n, Hash[k])

Running(r) == Sane /\ r \in Reactors \ recovering

(* A GET or SET read by reactor r on a key of its own.                     *)
Local(r, op, k) ==
    /\ Running(r)
    /\ OwnerOf(r, k) = r
    /\ Engine(r, op, k)
    /\ UNCHANGED <<n, recovering, bus>>

(* ... and on a key of another reactor.                                    *)
Forward(r, op, k) ==
    /\ Running(r)
    /\ OwnerOf(r, k) # r
    /\ Cardinality(bus) < MaxInFlight
    /\ bus' = bus \cup {[to |-> OwnerOf(r, k), op |-> op, key |-> Wire[k]]}
    /\ UNCHANGED <<n, recovering, shards, log, access>>

(* The owner pops the request and executes it.                             *)
Handle(m) ==
    /\ Running(m.to)
    /\ bus' = bus \ {m}
    /\ Engine(m.to, m.op, m.key)
    /\ UNCHANGED <<n, recovering>>

(* The process ends and is started again, on as many cores as there are    *)
(* now: the engines are empty and reactor i reads appendonly_<i>.aof.      *)
Restart(c) ==
    /\ Sane
    /\ n' = c
    /\ recovering' = 0 .. c - 1
    /\ shards' = [r \in Ids |-> {}]
    /\ bus' = {}
    /\ access' = NoAccess
    /\ UNCHANGED log

Next ==
    \/ \E r \in Reactors : Recover(r)
    \/ \E r \in Reactors, op \in {"GET", "SET"}, k \in Keys :
          Local(r, op, k) \/ Forward(r, op, k)
    \/ \E m \in bus : Handle(m)
    \/ \E c \in Counts : Restart(c)

Spec == Init /\ [][Next]_vars

-----------------------------------------------------------------------------
(* An engine is asked only for keys of its own, so the index it computes   *)
(* is in its vector (dbsync_engine.hpp:261: "must own the key!"), whichever*)
(* way the key came: read here, forwarded, or replayed after a restart.    *)
EngineOwnsKey == Sane

(* What EngineOwnsKey rests on: requests and files hold keys of the        *)
(* reactor they belong to.                                                 *)
RequestsAndFilesOwned ==
    /\ \A m \in bus : m.to \in Reactors /\ InRange(n, m.to, Hash[m.key])
    /\ \A r \in Reactors : \A k \in log[r] : InRange(n, r, Hash[k])
=============================================================================
