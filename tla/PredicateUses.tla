--------------------------- MODULE PredicateUses ---------------------------
(***************************************************************************)
(* What the readers do with the answers of the visitors: a scan whose      *)
(* predicate contradicts itself is not run (dnf_visitor.py, lazy_cache.py),*)
(* a Delta table is read from the files whose partition values the DNF     *)
(* allows (delta_io.py), and a read is split into partitions along the     *)
(* values or the intervals of a column (partitions.py).  The components    *)
(* have no state of their own: each is a function of the visited node.     *)
(***************************************************************************)
EXTENDS PredicateVisitors

CONSTANTS
    PartitionColumns,  (* the partition columns of the Delta table          *)
    Every              (* the width of a bucket or of a window              *)

ASSUME UsesAssumption ==
    /\ PartitionColumns \subseteq Columns
    /\ Every \in Nat \ {0}

(* The positions beside the least and the greatest value stand for the      *)
(* infinities, so there are such values.                                   *)
ASSUME LineAssumption ==
    \E lo, hi \in Values : \A v \in Values : lo <= v /\ v <= hi

-----------------------------------------------------------------------------
(* _is_contradiction: a literal false, or a DNF of contradictions only.    *)
SkipsScan(n) ==
    \/ n.lit /\ \A r \in Rows : n.sem[r] = False
    \/ /\ n.dnf \notin {None, {}}
       /\ \A clause \in n.dnf : IsContradiction(clause, TRUE)

-----------------------------------------------------------------------------
(* Partition filters of delta-rs know "=", "!=", "in" and "not in" only,   *)
(* and write null as an empty string: Null stands for it here.             *)

NullFilter(c) == {At(c, "=", {Null})}

AsksForNull(a) == a.op = "is" \/ (a.op = "=" /\ a.vals = {Null})

(* The tuple an atom becomes, or none: an ordering is not supported, and    *)
(* "not in" loses its null member.                                         *)
FilterOf(a) ==
    IF AsksForNull(a) THEN {}
    ELSE IF a.op = "is not" THEN {At(a.col, "!=", {Null})}
    ELSE IF a.op = "!in"
    THEN {At(a.col, "!in", a.vals \ {Null}) : v \in a.vals \ {Null}}
    ELSE IF a.op \in {"=", "!=", "in"} THEN {a} ELSE {}

(* A null asked for, and one that "not in" would prune, get a clause each.  *)
NullClauses(clause) ==
    {NullFilter(a.col) : a \in {b \in clause : AsksForNull(b) \/ b.op = "!in"}}

PartitionFiltersUnsafe(dnf) ==
    LET filters(clause) == UNION {FilterOf(a) : a \in clause}
        some == IF dnf = None THEN {} ELSE {clause \in dnf : filters(clause) # {}}
    IN IF some = {} THEN None
       ELSE {filters(clause) : clause \in some}
            \union UNION {NullClauses(clause) : clause \in dnf}

(* _restrict_and_normalize_partition_filters                               *)
PartitionFilters(dnf) ==
    LET filters(clause) == UNION {FilterOf(a) : a \in clause}
    IN IF dnf \in {None, {}} \/ \E clause \in dnf : filters(clause) = {} THEN None
       ELSE {filters(clause) : clause \in dnf}
            \union UNION {NullClauses(clause) : clause \in dnf}

(* _get_partition_uris leaves out the tuples that ask for nulls.           *)
UriFilter(clause) ==
    {a \in clause : ~(a.op \in {"=", "in"} /\ Null \in a.vals)}

(* file_uris is external: a file, known by the partition values of its rows, *)
(* is returned when its values meet every tuple; nulls meet "=" and "in"   *)
(* when listed and never a negation, and nothing meets a "not in" that     *)
(* lists null.                                                             *)
FileMeets(a, r) ==
    LET x == r[a.col]
    IN \/ a.op \in {"=", "in"} /\ x \in a.vals
       \/ a.op = "!=" /\ x # Null /\ x \notin a.vals
       \/ a.op = "!in" /\ {x, Null} \intersect a.vals = {} /\ x # Null

(* A filter on a column the table is not partitioned by raises, and all    *)
(* files are read.                                                         *)
FileRead(n, r) ==
    LET filters == PartitionFilters(n.dnf)
    IN \/ filters = None
       \/ \E clause \in filters : \E a \in UriFilter(clause) : a.col \notin PartitionColumns
       \/ \E clause \in filters : \A a \in UriFilter(clause) : FileMeets(a, r)

-----------------------------------------------------------------------------
(* Partitioners.  A partition is its key and the cells its predicate takes. *)

(* _ByValue.build without values of its own; a null is matched by is_null.  *)
ByValue(n) ==
    IF ValidValues(n) = None THEN None
    ELSE {[key |-> <<v>>, cells |-> {v}] : v \in ValidValues(n)}

First(s) == CHOOSE p \in s : \A q \in s : p <= q
Last(s) == CHOOSE p \in s : \A q \in s : q <= p

(* The atomic intervals of a range, each by its first and last position.   *)
Atomics(range) ==
    {i \in [first : range, last : range] :
        /\ i.first <= i.last /\ i.first..i.last \subseteq range
        /\ i.first - 1 \notin range /\ i.last + 1 \notin range}

Unbounded(i) == i.first = First(Positions) \/ i.last = Last(Positions)

(* The bound of an open end is the value beside its gap.                   *)
LowerOf(i) == IF i.first % 2 = 0 THEN i.first \div 2 ELSE (i.first - 1) \div 2
UpperOf(i) == IF i.last % 2 = 0 THEN i.last \div 2 ELSE (i.last + 1) \div 2
ClosedAbove(i) == i.last % 2 = 0

Span(lo, hi) == [key |-> <<lo, hi>>, cells |-> {v \in Values : lo <= v /\ v < hi}]

BucketsOpen(i) ==
    LET lo == LowerOf(i)
        hi == UpperOf(i)
    IN {[key |-> <<k>>, cells |-> {v \in Values : k <= v /\ v < hi /\ v < k + Every}] :
            k \in {j \in lo..hi : (j - lo) % Every = 0}}

(* _ByRange.build: buckets of width Every from the lower bound on, the last *)
(* one clipped to the range.                                               *)
Buckets(i) ==
    LET lo == LowerOf(i)
        hi == UpperOf(i)
        full == {k \in 0..hi - lo : lo + (k + 1) * Every < hi}
        last == lo + Cardinality(full) * Every
    IN {Span(lo + k * Every, lo + (k + 1) * Every) : k \in full}
       \union {[key |-> <<last, hi>>,
                cells |-> {v \in Values : last <= v /\ (v < hi \/ (ClosedAbove(i) /\ v = hi))}]}

(* _date_windows: the windows of the calendar grid that meet the range,    *)
(* each once however many atomic intervals meet it.                        *)
Windows(i) ==
    LET lo == LowerOf(i)
        hi == UpperOf(i)
        starts == {k * Every : k \in lo \div Every..hi \div Every}
    IN {Span(s, s + Every) :
           s \in {t \in starts : IF ClosedAbove(i) THEN t <= hi ELSE t < hi}}

(* An empty range is split into no partition, an unbounded one not at all.  *)
Splittable(n) == \A i \in Atomics(n.range) : ~Unbounded(i)

ByRange(n) ==
    IF Splittable(n) THEN UNION {Buckets(i) : i \in Atomics(n.range)} ELSE None
ByTime(n) ==
    IF Splittable(n) THEN UNION {Windows(i) : i \in Atomics(n.range)} ELSE None

-----------------------------------------------------------------------------
(* A scan is only skipped when no row satisfies its predicate              *)
(* (dnf_visitor.py:263-319, 690-711).                                      *)
SkippedScansAreEmpty ==
    \A n \in visited : SkipsScan(n) => \A r \in Rows : n.sem[r] # True

(* Pruning by partition values keeps the file of every row the predicate   *)
(* keeps (delta_io.py:167-296).                                            *)
PruningKeepsFiles ==
    \A n \in visited : \A r \in Rows : n.sem[r] = True => FileRead(n, r)

(* Every row the predicate keeps is read by exactly one partition of a     *)
(* split (partitions.py:102-246).                                          *)
PartitionsCoverOnce ==
    \A n \in visited : \A parts \in {ByValue(n), ByRange(n), ByTime(n)} \ {None} :
        \A r \in Rows : n.sem[r] = True =>
            \E p \in parts : \A q \in parts : r[Target] \in q.cells <=> q = p
=============================================================================
