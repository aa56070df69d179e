------------------------------ MODULE MCCaches ------------------------------
(* The caches that threads and processes share, one at a time: the in-memory *)
(* one without partition columns, with interrupts between any two steps;     *)
(* that of columns, column by column and whole, with and without a           *)
(* predicate; and the parquet cache over ranges without an upper bound.      *)
EXTENDS MCParquetCache, MemoryCache, ColumnCache, TLC

CONSTANTS t1, t2, t3, key, part1, part2, id, x

MCSel == [p \in Preds |-> {}]

Collecting(mode, granular, cols, scope) ==
    [mode |-> mode, granular |-> granular, cols |-> cols, scope |-> scope]
MixedAsks ==
    {Collecting("cache", TRUE, {id}, {part1, part2}), Collecting("cache", FALSE, {x}, {part2}),
     Collecting("rebuild", TRUE, {x}, {part1})}
(* The second partition has duplicate keys until it is corrected.          *)
DupUntilCorrected == {<<part2, 1>>}

(* t1 and t2 are threads of two caches and processes of the third.         *)
Symmetry == Permutations({t1, t2})

-----------------------------------------------------------------------------
(* Nothing one cache does meets what another does.                         *)
CachesInit == Init /\ MemoryInit /\ ColumnInit
CachesNext ==
    \/ ColumnInit /\ MemoryInit /\ Next /\ UNCHANGED <<memoryVars, columnVars>>
    \/ ColumnInit /\ Init /\ MemoryNext /\ UNCHANGED <<vars, columnVars>>
    \/ Init /\ MemoryInit /\ ColumnNext /\ UNCHANGED <<vars, memoryVars>>
=============================================================================
