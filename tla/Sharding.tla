------------------------------ MODULE Sharding ------------------------------
(***************************************************************************)
(* Who owns a key (src/include/dbsync_engine.hpp).  The global shards are  *)
(* numbered from 0; each reactor of n owns shard_count consecutive ones    *)
(* and keeps them in a vector indexed from 0.  A key counts only by its    *)
(* hash, h.                                                                *)
(***************************************************************************)
EXTENDS Integers

CONSTANT shard_count     \* shards per reactor, 512 in main.cpp

ASSUME ShardCountAssumption == shard_count \in Nat \ {0}

total_shards(n) == shard_count * n

get_global_shard_index(n, h) == h % total_shards(n)

(* Mutants: the shard not reduced modulo their number; the hash modulo the *)
(* number of reactors.                                                     *)
fast_owner_unreduced(n, h) == h \div shard_count
fast_owner_modulo(n, h) == h % n
fast_owner(n, h) == get_global_shard_index(n, h) \div shard_count

shard_start(r) == r * shard_count
shard_end(r)   == shard_start(r) + shard_count

owns_key(n, r, h) ==
    /\ get_global_shard_index(n, h) >= shard_start(r)
    /\ get_global_shard_index(n, h) < shard_end(r)

get_local_shard_index(n, r, h) == get_global_shard_index(n, h) - shard_start(r)

(* shards[local_idx] is an element of the vector.                          *)
InRange(n, r, h) == get_local_shard_index(n, r, h) \in 0 .. shard_count - 1
=============================================================================
