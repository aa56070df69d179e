------------------------------ MODULE Reshapes ------------------------------
(***************************************************************************)
(* The plan rewrites that change the shape of a frame: pushdown_pivot,     *)
(* pushdown_unpivot and concat_named.  Each reads only what the columns    *)
(* and the predicate of a query leave to its source, reshapes it, and      *)
(* applies the whole predicate again.  A pivot that leaves out on-values   *)
(* reads its source a second time for the index rows it lost; the source   *)
(* may change in between.  Reads that fail end the collect.                *)
(*                                                                         *)
(* One source serves the three: a pivot makes a column of each on-value,   *)
(* an unpivot a row of each of the columns "on" and "val", and concat_named*)
(* takes the rows of each on-value for the frame of that name.  A          *)
(* conjunct of a predicate is the columns it reads, the rows of the output *)
(* it keeps and the variables it leaves to an unpivot.                     *)
(*                                                                         *)
(* A frame is a function of the keys of its rows: what is read of the       *)
(* source keeps the places of its rows, a pivot has its indexes for keys,   *)
(* an unpivot the variables and places.  Each row comes with its place in   *)
(* the order of the frame; rows of one place may come in any order.         *)
(***************************************************************************)
EXTENDS Frames, Sequences

CONSTANTS
    SourceRows,     (* [index, on, val], the rows the source may have       *)
    OnColumns,      (* on_columns of the pivot                             *)
    FrameColumns,   (* the columns of each frame of concat_named           *)
    ShapeAsks,      (* the queries                                         *)
    MaxLength       (* bound on the length of the source                   *)

VARIABLES
    source,         (* the rows of the source, in order                    *)
    shape           (* the collect of a reshaped frame                     *)

shapeVars == <<source, shape>>

Unpivoted == {"on", "val"}

FrameSchema == {"on"} \union UNION {FrameColumns[v] : v \in DOMAIN FrameColumns}

(* The rows of a pivot; a conjunct keeps those with the same cells alike.   *)
PivotedRows == [
    index : {r.index : r \in SourceRows},
    cells : [OnColumns -> {r.val : r \in SourceRows} \union {Null}]]
SameCells(cols, p, q) ==
    /\ "index" \in cols => p.index = q.index
    /\ \A v \in cols \intersect OnColumns : p.cells[v] = q.cells[v]

(* The columns of a reshaped frame.                                        *)
Columns(kind) ==
    CASE kind = "pivot" -> {"index"} \union OnColumns
      [] kind = "unpivot" -> {"index", "variable", "value"}
      [] kind = "concat" -> FrameSchema

ASSUME ShapesAssumption ==
    /\ MaxLength \in Nat
    /\ \A ask \in ShapeAsks :
           /\ ask.kind \in {"pivot", "unpivot", "concat"}
           /\ ask.maintain_order \in BOOLEAN /\ ask.dense_on \in BOOLEAN
           /\ ask.wants # None => ask.wants \subseteq Columns(ask.kind)
           /\ ask.pred # None => \A f \in ask.pred :
                  /\ f.cols \subseteq Columns(ask.kind)
                  /\ ask.kind = "pivot" => \A p, q \in PivotedRows :
                         SameCells(f.cols, p, q) => (p \in f.keeps <=> q \in f.keeps)
                  /\ ask.kind = "unpivot" =>
                         \A row \in f.keeps : row.variable \in f.variables

-----------------------------------------------------------------------------
(* The reshapes polars computes.                                           *)

Only(rows, ns) == [n \in ns |-> rows[n]]
Indexes(rows) == {rows[n].index : n \in DOMAIN rows}
PlaceOf(rows, i) ==
    LET places == {n \in DOMAIN rows : rows[n].index = i}
    IN CHOOSE n \in places : \A m \in places : n <= m

Cell(rows, i, v) ==
    LET found == {n \in DOMAIN rows : rows[n].index = i /\ rows[n].on = v}
    IN IF found = {} THEN Null ELSE rows[CHOOSE n \in found : TRUE].val
PivotRow(rows, i, vs) ==
    [index |-> i, cells |-> [v \in OnColumns |-> IF v \in vs THEN Cell(rows, i, v) ELSE Null]]

(* One row for each index of full, whose other columns come from rows; the  *)
(* order of a pivot is only maintained on request.                         *)
Pivot(maintain_order, full, rows, vs) ==
    [i \in Indexes(full) |->
        [at |-> IF maintain_order THEN PlaceOf(full, i) ELSE 0, row |-> PivotRow(rows, i, vs)]]

Unpivot(rows, variables) ==
    [key \in variables \X DOMAIN rows |->
        [at |-> IF key[1] = "on" THEN key[2] ELSE MaxLength + key[2],
         row |-> [row |-> rows[key[2]], variable |-> key[1]]]]

Concat(rows, vs) ==
    [n \in {m \in DOMAIN rows : rows[m].on \in vs} |-> [at |-> n, row |-> rows[n]]]

Passes(pred, row) == pred = None \/ \A f \in pred : row \in f.keeps
Passing(pred, frame) == Only(frame, {k \in DOMAIN frame : Passes(pred, frame[k].row)})

(* The frames that filtering and head(n_rows) may give.                    *)
Leading(frame, ks) == \A k \in ks, m \in DOMAIN frame \ ks : frame[k].at <= frame[m].at
Answered(ask, frame) ==
    LET passing == Passing(ask.pred, frame)
    IN {Only(passing, ks) : ks \in {hs \in Heads(ask.n_rows, DOMAIN passing) :
                                        Leading(passing, hs)}}

-----------------------------------------------------------------------------
(* What is read.                                                           *)

References(pred) == IF pred = None THEN {} ELSE UNION {f.cols : f \in pred}

(* restrict_expr_to_columns to the columns the source has by the same name,*)
(* whose value v(row) in an output row decides the conjunct.                *)
SafeIndex(pred, i) ==
    pred # None => \A f \in pred : f.cols \subseteq {"index"} =>
        \E row \in f.keeps : row.index = i

(* Bug: what only the predicate reads is left out.                         *)
NeededOnShown(ask) ==
    IF ask.wants = None THEN OnColumns ELSE ask.wants \intersect OnColumns

(* needed_on: the on-values with an output column that is asked for, or     *)
(* that the predicate reads.                                               *)
NeededOn(ask) ==
    IF ask.wants = None THEN OnColumns
    ELSE (ask.wants \union References(ask.pred)) \intersect OnColumns

(* push_on_filter *)
PushesOn(ask) ==
    /\ ask.wants # None /\ ~ask.maintain_order
    /\ NeededOn(ask) \notin {{}, OnColumns}

(* pivot_on_columns; without any the index rows alone are read.            *)
PivotOn(ask) == IF PushesOn(ask) \/ NeededOn(ask) = {} THEN NeededOn(ask) ELSE OnColumns

PivotFilter(ask, r) ==
    SafeIndex(ask.pred, r.index) /\ (PushesOn(ask) => r.on \in NeededOn(ask))

(* The index rows the filter on the on-values drops are read again.        *)
RecoversIndex(ask) == PushesOn(ask) /\ ~ask.dense_on

(* internal_on: the columns the predicate leaves the variable.             *)
InternalOn(ask) ==
    IF ask.pred = None THEN Unpivoted
    ELSE {v \in Unpivoted : \A f \in ask.pred : v \in f.variables}

(* An unpivot reads the columns asked for and those of the predicate; the  *)
(* values come with their variable.                                        *)
UnpivotColumns(ask) ==
    LET all == {"index", "variable", "value"}
        used == IF ask.wants = None THEN all ELSE ask.wants \union References(ask.pred)
    IN (used \intersect all) \union (IF "value" \in used THEN {"variable"} ELSE {})
UnpivotFilter(ask, r) ==
    ask.pred # None => \A f \in ask.pred : f.cols \subseteq {"index"} =>
        \E row \in f.keeps : row.row.index = r.index

(* concat_named: the frames the identifier column leaves, and an empty one  *)
(* with the columns of them all.                                           *)
FramesRead(ask) ==
    {v \in DOMAIN FrameColumns :
        ask.pred # None => \A f \in ask.pred : f.cols \subseteq {"on"} =>
            \E row \in f.keeps : row.on = v}
ConcatColumns(ask) == FrameSchema \union UNION {FrameColumns[v] : v \in FramesRead(ask)}

-----------------------------------------------------------------------------
NoShape == [pc |-> "idle", ask |-> None, firstAt |-> <<>>, indexAt |-> <<>>, got |-> <<>>,
            cols |-> {}, answer |-> <<>>]

(* A pivot without aggregation wants one row for an index and on-value.    *)
KeyedOnce(rows) ==
    \A m, n \in DOMAIN rows : rows[m].index = rows[n].index /\ rows[m].on = rows[n].on => m = n

Sources == {rows \in UNION {[1..m -> SourceRows] : m \in 0..MaxLength} : KeyedOnce(rows)}

ShapeInit ==
    /\ source \in Sources
    /\ shape = NoShape

(* dense_on asserts that every index has a row for every on-value.          *)
Dense(rows) ==
    \A m \in DOMAIN rows : \A v \in OnColumns :
        \E n \in DOMAIN rows : rows[n].index = rows[m].index /\ rows[n].on = v

AskShape(ask) ==
    /\ shape.pc = "idle"
    /\ ask.dense_on => Dense(source)
    /\ shape' = [shape EXCEPT !.pc = ask.kind, !.ask = ask]
    /\ UNCHANGED source

PivotRead(ask, rows) == Only(rows, {n \in DOMAIN rows : PivotFilter(ask, rows[n])})

ReadPivot ==
    LET ask == shape.ask
        got == PivotRead(ask, source)
        read == [shape EXCEPT !.firstAt = source, !.indexAt = source, !.got = got,
                              !.cols = {"index"} \union OnColumns]
    IN /\ shape.pc = "pivot"
       /\ IF RecoversIndex(ask) THEN shape' = [read EXCEPT !.pc = "recover"]
          ELSE \E answer \in Answered(ask, Pivot(ask.maintain_order, got, got, PivotOn(ask))) :
                   shape' = [read EXCEPT !.pc = "done", !.answer = answer]
       /\ UNCHANGED source

(* full_index_df is left-joined to the pivot, null indexes being equal.     *)
IndexRead(ask, rows) ==
    Only(rows, {n \in DOMAIN rows : SafeIndex(ask.pred, rows[n].index)})

RecoverIndex ==
    LET ask == shape.ask
    IN /\ shape.pc = "recover"
       /\ \E answer \in Answered(ask, Pivot(ask.maintain_order, IndexRead(ask, source), shape.got,
                                           PivotOn(ask))) :
              shape' = [shape EXCEPT !.pc = "done", !.indexAt = source, !.answer = answer]
       /\ UNCHANGED source

UnpivotRead(ask, rows) == Only(rows, {n \in DOMAIN rows : UnpivotFilter(ask, rows[n])})

ReadUnpivot ==
    LET ask == shape.ask
    IN /\ shape.pc = "unpivot"
       /\ \E answer \in Answered(ask, Unpivot(UnpivotRead(ask, source), InternalOn(ask))) :
              shape' = [shape EXCEPT !.pc = "done", !.firstAt = source,
                            !.cols = UnpivotColumns(ask), !.answer = answer]
       /\ UNCHANGED source

ReadFrames ==
    LET ask == shape.ask
    IN /\ shape.pc = "concat"
       /\ \E answer \in Answered(ask, Concat(source, FramesRead(ask))) :
              shape' = [shape EXCEPT !.pc = "done", !.firstAt = source,
                            !.cols = ConcatColumns(ask), !.answer = answer]
       /\ UNCHANGED source

ChangeSource ==
    /\ shape.pc = "recover" /\ source = shape.firstAt
    /\ source' \in Sources \ {source}
    /\ UNCHANGED shape

ShapeNext ==
    \/ \E ask \in ShapeAsks : AskShape(ask)
    \/ ReadPivot \/ RecoverIndex \/ ReadUnpivot \/ ReadFrames \/ ChangeSource

ShapeSpec == ShapeInit /\ [][ShapeNext]_shapeVars

-----------------------------------------------------------------------------
(* The columns of a pivoted row that were asked for.                       *)
Shown(ask, row) ==
    IF ask.kind # "pivot" \/ ask.wants = None THEN row
    ELSE [index |-> IF "index" \in ask.wants THEN row.index ELSE Null,
          cells |-> [v \in OnColumns \intersect ask.wants |-> row.cells[v]]]
ShownFrame(ask, frame) ==
    [k \in DOMAIN frame |-> [at |-> frame[k].at, row |-> Shown(ask, frame[k].row)]]

(* The reshape of a source, its index rows of one reading, its cells of     *)
(* another.                                                                *)
Reshape(ask, full, rows) ==
    CASE ask.kind = "pivot" -> Pivot(ask.maintain_order, full, rows, OnColumns)
      [] ask.kind = "unpivot" -> Unpivot(rows, Unpivoted)
      [] ask.kind = "concat" -> Concat(rows, DOMAIN FrameColumns)

(* However little was read, the answer is the plain reshape of the source, *)
(* filtered: no index row of a pivot is lost with the on-values left out,  *)
(* nor its order when that is maintained, no variable of an unpivot and no *)
(* frame or column of a concat; when the source changes under a pivot, its *)
(* index rows are of one reading and its cells of the other                *)
(* (pushdown_pivot.py:150, pushdown_unpivot.py:100, concat_named.py:180).   *)
ReshapesAgree ==
    shape.pc = "done" =>
        LET ask == shape.ask
            plain == Reshape(ask, shape.indexAt, shape.firstAt)
        IN /\ ShownFrame(ask, shape.answer) \in {ShownFrame(ask, a) : a \in Answered(ask, plain)}
           /\ ask.wants # None => ask.wants \union References(ask.pred) \subseteq shape.cols
           /\ ask.kind = "concat" => shape.cols = FrameSchema
=============================================================================
