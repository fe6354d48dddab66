---------------------------- MODULE RoutingProofs ----------------------------
(***************************************************************************)
(* The owner of a key, for any number of reactors, any number of shards    *)
(* per reactor and any hash.                                               *)
(* Where an engine only ever sees keys of its own, and what that needs: no *)
(* empty key, no key that the bus cuts, and restarts on as many cores as   *)
(* before.  Without any of the three EngineOwnsKey fails.                  *)
(***************************************************************************)
EXTENDS Routing, TLAPS

-----------------------------------------------------------------------------
(* The owner of a key                                                      *)

LEMMA GlobalIndex ==
    ASSUME NEW c \in Nat \ {0}, NEW h \in Nat
    PROVE  get_global_shard_index(c, h) \in 0 .. c * shard_count - 1
<1>1. shard_count \in Nat /\ shard_count > 0  BY ShardCountAssumption
<1>2. c * shard_count \in Nat /\ c * shard_count > 0  BY <1>1
<1>3. total_shards(c) = c * shard_count  BY <1>1 DEF total_shards
<1>4. QED  BY <1>2, <1>3 DEF get_global_shard_index

LEMMA DivMul ==
    ASSUME NEW g \in Nat, NEW s \in Nat \ {0}
    PROVE  /\ g \div s \in Nat
           /\ (g \div s) * s <= g
           /\ g < (g \div s) * s + s
OBVIOUS

(* A product of naturals is ordered as its first factor.                   *)
LEMMA MulBelow ==
    ASSUME NEW a \in Int, NEW b \in Int, NEW s \in Nat \ {0}, a * s < b * s
    PROVE  a < b
<1>1. CASE a < b  BY <1>1
<1>2. CASE a >= b
  <2>1. a - b >= 0 /\ a - b \in Int  BY <1>2
  <2>2. (a - b) * s >= 0  BY <2>1
  <2>3. (a - b) * s = a * s - b * s  OBVIOUS
  <2>4. QED  BY <2>2, <2>3
<1>3. QED  BY <1>1, <1>2

(* The owner that fast_owner computes is one of the reactors: an index into*)
(* the inboxes (main.cpp:351, 375, 403).                                   *)
THEOREM OwnerIsReactor ==
    ASSUME NEW c \in Nat \ {0}, NEW h \in Nat
    PROVE  fast_owner(c, h) \in 0 .. c - 1
<1> DEFINE g == get_global_shard_index(c, h)
           q == g \div shard_count
<1>1. shard_count \in Nat \ {0}  BY ShardCountAssumption
<1>2. g \in Nat /\ g < c * shard_count  BY <1>1, GlobalIndex
<1> HIDE DEF g
<1>3. q \in Nat /\ q * shard_count <= g  BY <1>1, <1>2, DivMul
<1>4. q * shard_count < c * shard_count  BY <1>1, <1>2, <1>3
<1>5. q < c  BY <1>1, <1>3, <1>4, MulBelow
<1>6. fast_owner(c, h) = q  BY DEF fast_owner, g
<1>7. QED  BY <1>3, <1>5, <1>6

(* fast_owner and owns_key agree: a reactor owns a key exactly if it is the*)
(* owner, so every key has exactly one (tests/test_main_integration.cpp    *)
(* checks this for some keys).                                             *)
THEOREM OwnsIffOwner ==
    ASSUME NEW c \in Nat \ {0}, NEW r \in 0 .. c - 1, NEW h \in Nat
    PROVE  owns_key(c, r, h) <=> fast_owner(c, h) = r
<1> DEFINE g == get_global_shard_index(c, h)
           q == g \div shard_count
<1>1. shard_count \in Nat \ {0}  BY ShardCountAssumption
<1>2. g \in Nat  BY <1>1, GlobalIndex
<1>3. owns_key(c, r, h) <=> g >= r * shard_count /\ g < r * shard_count + shard_count
  BY DEF owns_key, shard_start, shard_end
<1>4. fast_owner(c, h) = q  BY DEF fast_owner
<1> HIDE DEF g
<1>5. q \in Nat /\ q * shard_count <= g /\ g < q * shard_count + shard_count
  BY <1>1, <1>2, DivMul
<1> HIDE DEF q
<1>6. ASSUME q = r PROVE owns_key(c, r, h)  BY <1>3, <1>5, <1>6
<1>7. ASSUME owns_key(c, r, h) PROVE q = r
  <2>1. g >= r * shard_count /\ g < r * shard_count + shard_count  BY <1>3, <1>7
  <2>2. r \in Nat  OBVIOUS
  <2>3. (r + 1) * shard_count = r * shard_count + shard_count  BY <1>1, <2>2
  <2>4. (q + 1) * shard_count = q * shard_count + shard_count  BY <1>1, <1>5
  <2>5. r * shard_count \in Nat /\ q * shard_count \in Nat  BY <1>1, <1>5, <2>2
  <2>6. q * shard_count < (r + 1) * shard_count
    BY <1>1, <1>2, <1>5, <2>1, <2>3, <2>5
  <2>7. r * shard_count < (q + 1) * shard_count
    BY <1>1, <1>2, <1>5, <2>1, <2>4, <2>5
  <2>8. q < r + 1  BY <1>1, <1>5, <2>2, <2>6, MulBelow
  <2>9. r < q + 1  BY <1>1, <1>5, <2>2, <2>7, MulBelow
  <2>10. QED  BY <1>5, <2>2, <2>8, <2>9
<1>8. QED  BY <1>4, <1>6, <1>7

(* The local index is in the vector of the reactor exactly when it owns the*)
(* key: what "must own the key" of dbsync_engine.hpp:261 protects.         *)
THEOREM InRangeIffOwner ==
    ASSUME NEW c \in Nat \ {0}, NEW r \in 0 .. c - 1, NEW h \in Nat
    PROVE  InRange(c, r, h) <=> fast_owner(c, h) = r
<1> DEFINE g == get_global_shard_index(c, h)
<1>1. shard_count \in Nat \ {0}  BY ShardCountAssumption
<1>2. g \in Nat  BY <1>1, GlobalIndex
<1>3. r * shard_count \in Nat  BY <1>1
<1>4. InRange(c, r, h) <=> g - r * shard_count \in 0 .. shard_count - 1
  BY DEF InRange, get_local_shard_index, shard_start
<1>5. owns_key(c, r, h) <=> g >= r * shard_count /\ g < r * shard_count + shard_count
  BY DEF owns_key, shard_start, shard_end
<1> HIDE DEF g
<1>6. InRange(c, r, h) <=> owns_key(c, r, h)  BY <1>1, <1>2, <1>3, <1>4, <1>5
<1>7. QED  BY <1>6, OwnsIffOwner

-----------------------------------------------------------------------------
(* Keys, requests and files                                                *)
WholeKeys == EmptyKey \notin Keys /\ \A k \in Keys : Wire[k] = k
SameCores == \A c, d \in Counts : c = d

(* The inductive strengthening: also the files of reactors that no longer  *)
(* exist must not be read, which SameCores excludes.                       *)
TypesOK ==
    /\ n \in Counts
    /\ log \in [Ids -> SUBSET Keys]
    /\ bus \subseteq Request

OwnedInv == TypesOK /\ EngineOwnsKey /\ RequestsAndFilesOwned

LEMMA Owners ==
    ASSUME RoutingAssumption, WholeKeys, n \in Counts, NEW r \in Reactors, NEW k \in Keys
    PROVE  /\ OwnerOf(r, k) \in Reactors
           /\ Reactors \subseteq Ids
           /\ InRange(n, OwnerOf(r, k), Hash[k])
<1>1. n \in Nat \ {0} /\ Hash[k] \in Nat  BY DEF RoutingAssumption
<1>2. OwnerOf(r, k) = fast_owner(n, Hash[k])  BY DEF OwnerOf, WholeKeys
<1>3. OwnerOf(r, k) \in 0 .. n - 1  BY <1>1, <1>2, OwnerIsReactor
<1>4. InRange(n, OwnerOf(r, k), Hash[k])  BY <1>1, <1>2, <1>3, InRangeIffOwner
<1>5. Reactors \subseteq Ids  BY DEF Reactors, Ids
<1>6. QED  BY <1>3, <1>4, <1>5 DEF Reactors

LEMMA InitOwned == Init => OwnedInv
<1> SUFFICES ASSUME Init PROVE OwnedInv  OBVIOUS
<1>1. TypesOK  BY DEF Init, TypesOK
<1>2. EngineOwnsKey  BY DEF Init, EngineOwnsKey, Sane
<1>3. RequestsAndFilesOwned
  <2>1. Reactors \subseteq Ids  BY DEF Init, Reactors, Ids
  <2>2. QED  BY <2>1 DEF Init, RequestsAndFilesOwned
<1>4. QED  BY <1>1, <1>2, <1>3 DEF OwnedInv

(* An engine that is given a key of its own stays in its vector, and logs  *)
(* nothing else.                                                           *)
LEMMA EngineOwned ==
    ASSUME OwnedInv, NEW r \in Reactors, NEW op, NEW k \in Keys, Engine(r, op, k),
           InRange(n, r, Hash[k]), n' = n, bus' \subseteq bus
    PROVE  OwnedInv'
<1>1. Reactors \subseteq Ids /\ Reactors' = Reactors
  BY DEF OwnedInv, TypesOK, Reactors, Ids
<1>2. log' = log \/ log' = [log EXCEPT ![r] = @ \cup {k}]  BY DEF Engine
<1>3. \A s \in Reactors : log'[s] = log[s] \/ (s = r /\ log'[s] = log[s] \cup {k})
  BY <1>1, <1>2 DEF OwnedInv, TypesOK
<1>4. TypesOK'  BY <1>1, <1>2 DEF OwnedInv, TypesOK
<1>5. EngineOwnsKey'  BY DEF Engine, EngineOwnsKey, Sane
<1>6. RequestsAndFilesOwned'
  <2>1. ASSUME NEW s \in Reactors, NEW j \in log'[s] PROVE InRange(n, s, Hash[j])
    BY <1>3, <2>1 DEF OwnedInv, RequestsAndFilesOwned
  <2>2. ASSUME NEW m \in bus' PROVE m.to \in Reactors /\ InRange(n, m.to, Hash[m.key])
    BY <2>2 DEF OwnedInv, RequestsAndFilesOwned
  <2>3. QED  BY <1>1, <2>1, <2>2 DEF RequestsAndFilesOwned
<1>7. QED  BY <1>4, <1>5, <1>6 DEF OwnedInv

LEMMA NextOwned ==
    ASSUME RoutingAssumption, WholeKeys, SameCores, OwnedInv, [Next]_vars
    PROVE  OwnedInv'
<1> USE DEF OwnedInv
<1>1. ASSUME NEW r \in Reactors, Recover(r) PROVE OwnedInv'
  <2>1. \A k \in log[r] : InRange(n, r, Hash[k])  BY DEF RequestsAndFilesOwned
  <2>2. UNCHANGED <<n, log, bus, access>>  BY <1>1, <2>1 DEF Recover
  <2>3. Reactors' = Reactors  BY <2>2 DEF Reactors
  <2>4. QED  BY <2>2, <2>3 DEF TypesOK, EngineOwnsKey, Sane, RequestsAndFilesOwned
<1>2. ASSUME NEW r \in Reactors, NEW op \in {"GET", "SET"}, NEW k \in Keys,
             Local(r, op, k)
      PROVE  OwnedInv'
  <2>1. InRange(n, r, Hash[k])  BY <1>2, Owners DEF Local, TypesOK
  <2>2. QED  BY <1>2, <2>1, EngineOwned DEF Local
<1>3. ASSUME NEW r \in Reactors, NEW op \in {"GET", "SET"}, NEW k \in Keys,
             Forward(r, op, k)
      PROVE  OwnedInv'
  <2> DEFINE m == [to |-> OwnerOf(r, k), op |-> op, key |-> Wire[k]]
  <2>1. /\ OwnerOf(r, k) \in Reactors /\ Reactors \subseteq Ids
        /\ InRange(n, OwnerOf(r, k), Hash[k])
    BY Owners DEF TypesOK
  <2>2. m.to = OwnerOf(r, k) /\ m.key = k  BY DEF WholeKeys
  <2>3. m \in Request  BY <2>1, <2>2 DEF Request
  <2>4. bus' = bus \cup {m} /\ UNCHANGED <<n, log, access>>  BY <1>3 DEF Forward
  <2> HIDE DEF m
  <2>5. Reactors' = Reactors  BY <2>4 DEF Reactors
  <2>6. QED  BY <2>1, <2>2, <2>3, <2>4, <2>5
             DEF TypesOK, EngineOwnsKey, Sane, RequestsAndFilesOwned
<1>4. ASSUME NEW m \in bus, Handle(m) PROVE OwnedInv'
  <2>1. m.to \in Reactors /\ InRange(n, m.to, Hash[m.key])
    BY DEF RequestsAndFilesOwned
  <2>2. m.key \in Keys  BY DEF TypesOK, Request
  <2>3. n' = n /\ bus' \subseteq bus /\ Engine(m.to, m.op, m.key)
    BY <1>4 DEF Handle
  <2>4. QED  BY <2>1, <2>2, <2>3, EngineOwned
<1>5. ASSUME NEW c \in Counts, Restart(c) PROVE OwnedInv'
  <2>1. n' = n /\ log' = log  BY <1>5 DEF Restart, SameCores, TypesOK
  <2>2. bus' = {} /\ access' = NoAccess  BY <1>5 DEF Restart
  <2>3. Reactors' = Reactors  BY <2>1 DEF Reactors
  <2>4. QED  BY <2>1, <2>2, <2>3
             DEF TypesOK, EngineOwnsKey, Sane, RequestsAndFilesOwned
<1>6. CASE UNCHANGED vars
  <2>1. UNCHANGED <<n, log, bus, access>>  BY <1>6 DEF vars
  <2>2. Reactors' = Reactors  BY <2>1 DEF Reactors
  <2>3. QED  BY <2>1, <2>2 DEF TypesOK, EngineOwnsKey, Sane, RequestsAndFilesOwned
<1>7. QED  BY <1>1, <1>2, <1>3, <1>4, <1>5, <1>6 DEF Next

(* Every engine is asked only for keys of its own, so every index it       *)
(* computes is in its vector, over any number of restarts: for any number  *)
(* of reactors and of shards and any hash, as long as no key is empty or   *)
(* cut on the bus and the number of cores stays the same.                  *)
THEOREM EnginesOwnTheirKeys ==
    ASSUME RoutingAssumption, WholeKeys, SameCores
    PROVE  Spec => []EngineOwnsKey
<1>1. Init => OwnedInv  BY InitOwned
<1>2. OwnedInv /\ [Next]_vars => OwnedInv'  BY NextOwned
<1>3. OwnedInv => EngineOwnsKey  BY DEF OwnedInv
<1>4. QED  BY <1>1, <1>2, <1>3, PTL DEF Spec

(* So is every request on the bus and every key in a file a key of the     *)
(* reactor that will read it, under the same assumptions.                  *)
THEOREM RequestsStayOwned ==
    ASSUME RoutingAssumption, WholeKeys, SameCores
    PROVE  Spec => []RequestsAndFilesOwned
<1>1. Init => OwnedInv  BY InitOwned
<1>2. OwnedInv /\ [Next]_vars => OwnedInv'  BY NextOwned
<1>3. OwnedInv => RequestsAndFilesOwned  BY DEF OwnedInv
<1>4. QED  BY <1>1, <1>2, <1>3, PTL DEF Spec
=============================================================================
