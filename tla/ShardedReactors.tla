--------------------------- MODULE ShardedReactors ---------------------------
(***************************************************************************)
(* The reactors of ReactorKV with the shards of Sharding: the owner of a   *)
(* key is what fast_owner computes of its hash (src/src/main.cpp:351, 375, *)
(* 403), and the engine of a reactor is a vector of shards, which it       *)
(* indexes with get_local_shard_index.                                     *)
(***************************************************************************)
EXTENDS ReactorKV, Sharding

CONSTANTS
    Id,    \* reactor_id, from Reactors to Nat
    Hash   \* fnv1a_hash, from Keys to Nat

ASSUME ShardsAssumption ==
    /\ Id \in [Reactors -> Nat]
    /\ {Id[r] : r \in Reactors} = 0 .. Cardinality(Reactors) - 1
    /\ Hash \in [Keys -> Nat]

(* What Owner stands for: the reactor of the id that fast_owner returns.   *)
OwnerByHash ==
    [k \in Keys |-> CHOOSE r \in Reactors :
                       Id[r] = fast_owner(Cardinality(Reactors), Hash[k])]

InVector(r, k) == InRange(Cardinality(Reactors), Id[r], Hash[k])

(* No engine indexes its vector outside ("must own the key!",              *)
(* dbsync_engine.hpp:261), whichever way a key came to it: what is stored  *)
(* lies in a shard of the reactor that stores it, and every request is in  *)
(* the inbox of a reactor that has a shard for it, also after the          *)
(* connection it came from was closed or given to another client.          *)
EngineOwnsKey ==
    /\ \A r \in Reactors, k \in Keys : shards[r][k].found => InVector(r, k)
    /\ \A q, r \in Reactors : \A i \in DOMAIN inboxes[q][r] :
          inboxes[q][r][i] \in Request => InVector(r, inboxes[q][r][i].key)
=============================================================================
