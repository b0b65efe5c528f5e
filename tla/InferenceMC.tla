----------------------------- MODULE InferenceMC -----------------------------
(* Three requests on a model with two inputs: r1 and r3 share their shapes   *)
(* but not their contents, r2 resizes one input, r3 lists its inputs backwards.  *)
EXTENDS Inference

CONSTANTS r1, r2, r3, small, large, v1, v2

Shape == [r \in Requests |-> IF r = r2 THEN <<large, small>> ELSE <<small, small>>]
Order == [r \in Requests |-> IF r = r3 THEN <<2, 1>> ELSE <<1, 2>>]
Value == [r \in Requests |-> IF r = r1 THEN <<v1, v1>> ELSE <<v2, v1>>]
=============================================================================
