----------------------------- MODULE Exclusion ------------------------------
(***************************************************************************)
(* partition_exclusion_predicate (io_sources/util.py): the predicate with   *)
(* which the caches restrict a query to the partitions they do not know    *)
(* yet.  The known partitions are first shrunk by grouping them on all     *)
(* columns but one, so that a row stands for a product of lists.           *)
(*                                                                         *)
(* A list is the set of its values; every known partition is listed once.  *)
(***************************************************************************)
EXTENDS Integers, FiniteSets, Sequences, SequencesExt, Frames

CONSTANTS
    PartitionColumns,   (* the lists of partition columns of the caches    *)
    PartitionCells      (* column -> its values, Null among them           *)

VARIABLES
    partition_cols,     (* the partition columns                           *)
    known               (* the known partitions                            *)

exclusionVars == <<partition_cols, known>>

AllCells == UNION {PartitionCells[c] : c \in DOMAIN PartitionCells}

ASSUME ExclusionAssumption ==
    /\ PartitionColumns \subseteq Seq(DOMAIN PartitionCells)
    /\ \A c \in DOMAIN PartitionCells : PartitionCells[c] \subseteq Int \union {Null}
    /\ IsFiniteSet(AllCells)

Kleene == INSTANCE Predicates WITH
    Columns <- DOMAIN PartitionCells, Values <- AllCells \ {Null}, Matching <- {}

Partitions(cs) ==
    {p \in [ToSet(cs) -> AllCells] : \A c \in ToSet(cs) : p[c] \in PartitionCells[c]}

(* group_by(all columns but c).agg(c.unique()).                            *)
Grouped(frame, c) ==
    {[row EXCEPT ![c] = UNION {other[c] : other \in
          {o \in frame : \A d \in DOMAIN row \ {c} : o[d] = row[d]}}] : row \in frame}

(* _repeated_grouping, one pass for each column: it stops when a pass leaves *)
(* as many rows as there were before the last one.                         *)
GroupingPass(acc, c) ==
    LET grouped == Grouped(acc.frame, c)
    IN IF acc.done THEN acc
       ELSE IF acc.last = Cardinality(grouped) THEN [acc EXCEPT !.done = TRUE]
       ELSE [frame |-> grouped, last |-> Cardinality(acc.frame), done |-> FALSE]
Groupings(cs, frame) ==
    LET after[n \in 0..Len(cs)] ==
            IF n = 0 THEN [frame |-> frame, last |-> 0, done |-> FALSE]
            ELSE GroupingPass(after[n - 1], cs[n])
    IN after
Regrouped(cs, frame) == Groupings(cs, frame)[Len(cs)].frame

(* Bug: the null-aware part of the comparison is left out.                 *)
NotInPlain(x, values) == Kleene!Not(Kleene!IsIn(x, values, FALSE))

(* _not_in.                                                                *)
NotIn(x, values) ==
    LET listed == values \ {Null}
        other == IF listed = {} THEN Kleene!True ELSE Kleene!Not(Kleene!IsIn(x, listed, FALSE))
    IN IF Null \in values THEN Kleene!Conj(other, Kleene!Known(x # Null))
       ELSE Kleene!Disj(other, Kleene!Known(x = Null))

(* _exclude_row_predicate: ne_missing for one value, NotIn for a list.     *)
Differs(x, values) ==
    IF Cardinality(values) = 1 THEN Kleene!Compare("nev", x, CHOOSE v \in values : TRUE)
    ELSE NotIn(x, values)
ExcludeRow(row, cs, p) == Kleene!AnyOf([i \in DOMAIN cs |-> Differs(p[cs[i]], row[cs[i]])])

(* partition_exclusion_predicate and _exclusion_from_frame; with one        *)
(* column all values are imploded into one list.                           *)
Singletons(ps) == {[c \in DOMAIN p |-> {p[c]}] : p \in ps}
Shrunk(cs, ps) ==
    IF Len(cs) > 1 THEN Regrouped(cs, Singletons(ps))
    ELSE {[c \in ToSet(cs) |-> {p[c] : p \in ps}]}
StillUnknown(cs, ps) ==
    {p \in Partitions(cs) : ps # {} /\ cs # <<>> =>
        \A row \in Shrunk(cs, ps) : ExcludeRow(row, cs, p) = Kleene!True}

ExclusionInit ==
    /\ partition_cols \in PartitionColumns
    /\ known = {}

(* A cache publishes what a collect of the unknown partitions brought.     *)
LearnPartition(p) ==
    /\ p \in StillUnknown(partition_cols, known)
    /\ known' = known \union {p}
    /\ UNCHANGED partition_cols

ExclusionNext == \E p \in Partitions(partition_cols) : LearnPartition(p)

ExclusionSpec == ExclusionInit /\ [][ExclusionNext]_exclusionVars

-----------------------------------------------------------------------------
(* Whatever is known, in whatever products the grouping puts it, exactly    *)
(* the rows of the other partitions are read: none is read twice, and none  *)
(* is lost for a null of its own or of a known partition.  Without columns  *)
(* nothing is excluded (util.py:183-206).                                  *)
ExclusionExact ==
    partition_cols # <<>> =>
        StillUnknown(partition_cols, known) = Partitions(partition_cols) \ known
=============================================================================
