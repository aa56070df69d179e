--------------------------- MODULE MCColumnCache ---------------------------
(* One partition of two columns for TLC, collected as a whole.             *)
EXTENDS ColumnCache

CONSTANTS t1, t2, p1, id, x

WholeAsks ==
    {[mode |-> mode, granular |-> FALSE, cols |-> {id, x}, scope |-> {p1}] :
        mode \in {"cache", "rebuild"}}
=============================================================================
