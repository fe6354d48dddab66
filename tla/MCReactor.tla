----------------------------- MODULE MCReactor -----------------------------
(* Instances of Reactor for TLC: k1 belongs to r1, every other key to r2.  *)
EXTENDS Reactor, TLC

CONSTANTS r1, r2, c1, c2, k1, k2, v0, v1

MCOwner == [k \in Keys |-> IF k = k1 THEN r1 ELSE r2]

(* Two reactors whose ids are 64 apart, and two that have a bit each.      *)
Aliased  == [r \in Reactors |-> Reactors]
Distinct == [r \in Reactors |-> {r}]
=============================================================================
