------------------------------- MODULE Frames -------------------------------
(* What the models of the plan rewrites share: cells and heads of frames.  *)
EXTENDS Naturals, FiniteSets

CONSTANTS
    Null,           (* the null cell                                       *)
    None            (* Python's None, an absent argument or result          *)

(* The frames head(n_rows) may give, as no order is promised.              *)
Heads(n, rows) ==
    IF n = None \/ n >= Cardinality(rows) THEN {rows}
    ELSE {kept \in SUBSET rows : Cardinality(kept) = n}
=============================================================================
