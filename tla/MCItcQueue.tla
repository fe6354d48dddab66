------------------------------ MODULE MCItcQueue ------------------------------
(* Two scenarios: one producer that goes on for ever, whose indices wrap      *)
(* around, and two producers that send a few messages each and share the      *)
(* blocks.                                                                    *)
EXTENDS ItcQueue
CONSTANTS p1, p2, Many, Few
MCLimits == {(p1 :> IndexRange) @@ (p2 :> 0), (p1 :> Many) @@ (p2 :> Few)}
=============================================================================
