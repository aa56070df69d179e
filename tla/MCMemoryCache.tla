--------------------------- MODULE MCMemoryCache ---------------------------
(* Instances of MemoryCache for TLC: two partitions, and three predicates  *)
(* of which two select the same partition and differ in structure only.    *)
EXTENDS MemoryCache

CONSTANTS t1, t2, k1, k2, p1, q1, p12

MCSel == [p \in Preds |-> IF p = p12 THEN {k1, k2} ELSE {k1}]
=============================================================================
