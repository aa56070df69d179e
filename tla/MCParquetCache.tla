--------------------------- MODULE MCParquetCache ---------------------------
(* Values of the constants of ParquetCache for TLC: what the processes ask *)
(* for, a cache mode and a predicate on the date column.                   *)
EXTENDS ParquetCache

CONSTANTS p1, p2

Between(l, h) == [kind |-> "finite", lo |-> l, hi |-> h]
From(l) == [kind |-> "above", lo |-> l, hi |-> MaxDay]
NoDates == [kind |-> "all", lo |-> 1, hi |-> MaxDay]
Ask(m, q) == [mode |-> m, query |-> q]

(* Ranges that can be enumerated.                                          *)
RangeAsks ==
    {Ask("CACHE", Between(1, MaxDay)), Ask("CACHE", Between(2, 2)),
     Ask("READ_ONLY", Between(1, MaxDay))}

(* Ranges without an upper bound, and a range of days that have arrived.   *)
OpenAsks ==
    {Ask("CACHE", From(1)), Ask("REBUILD", From(2)), Ask("REBUILD", NoDates),
     Ask("CACHE", Between(1, 1)), Ask("CACHE_ONLY", NoDates)}

(* Writes that fail, next to one that does not exceed the sink cap and one *)
(* that leaves files stale.                                                *)
FaultyAsks ==
    {Ask("CACHE", Between(1, 2)), Ask("CACHE", From(1)), Ask("CACHE", Between(2, 2)),
     Ask("REBUILD", NoDates)}

(* A writer, and a reader that reads by glob and from upstream.            *)
GlobAsks == {Ask("CACHE", From(1)), Ask("READ_ONLY", From(1))}

OneRange == {Ask("CACHE", Between(1, MaxDay))}
=============================================================================
