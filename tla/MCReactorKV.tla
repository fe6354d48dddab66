---------------------------- MODULE MCReactorKV ----------------------------
(* Instances of ReactorKV for TLC.  Of the 4 shards, two for each reactor, *)
(* the keys k1 and k2 hash to shard 1 of r1 and shard 2 of r2.  (The hash  *)
(* modulo the number of reactors would be the other reactor.)              *)
EXTENDS ShardedReactors, TLC

CONSTANTS r1, r2, c1, c2, k1, k2, v0, v1

MCId == [r \in Reactors |-> IF r = r1 THEN 0 ELSE 1]
MCHash == [k \in Keys |-> IF k = k1 THEN 5 ELSE 6]

Distinct == [r \in Reactors |-> {r}]

(* Clients are told apart by nothing but their descriptor.                 *)
Clients == Permutations({c1, c2})

(* What the code makes of the value a RESP holds: the value of a RESP to a *)
(* SET is whatever was left there, the empty value of a GET is read as OK. *)
CodeSetReplies == {OK} \cup {Bulk(v) : v \in Leftovers \ {EmptyValue}}
CodeEmptyReplies == {Bulk(EmptyValue), OK}
=============================================================================
