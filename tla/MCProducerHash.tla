---------------------------- MODULE MCProducerHash ----------------------------
(* Three threads: two with the same slot, the last one of every table, and    *)
(* one with the first, which the other two wrap around to.                    *)
EXTENDS ProducerHash
CONSTANTS t1, t2, t3
MCThread == {t1, t2, t3}
MCHash == [t \in MCThread |-> IF t = t3 THEN 0 ELSE 31]
=============================================================================
