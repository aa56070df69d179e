----------------------------- MODULE MCSources ------------------------------
(* Frames, queries and schedules of the IO sources for TLC.                *)
EXTENDS RayFanout, SourceStack, DeltaTable, Joins, Reshapes, Combine, Exclusion

(* Four partitions, one of them empty, for a window of two.                *)
MCTaskRows == <<1, 3, 0, 2>>

(* Frames of two, one and two chunks; the second has no mapped column, and   *)
(* the others have different units.                                        *)
MCSinks == {"first", "plain", "second"}
MCChunks == [w \in MCSinks |-> IF w = "plain" THEN 1 ELSE 2]
MCUnit == [w \in MCSinks |-> CASE w = "plain" -> "Plain" [] w = "first" -> "ns" [] OTHER -> "ms"]

MCPartitionColumns == {<<"day">>, <<"day", "venue", "side">>}
MCPartitionCells ==
    [c \in {"day", "venue", "side"} |-> IF c = "day" THEN {1, 2, Null} ELSE {1, Null}]

-----------------------------------------------------------------------------
MCLeftRows == {
    [key |-> 1, at |-> 2, val |-> 1], [key |-> 2, at |-> 4, val |-> 2],
    [key |-> Null, at |-> 3, val |-> 3], [key |-> 1, at |-> 4, val |-> 4]}
MCRightRows == {
    [key |-> 1, at |-> 0, end |-> 3, val |-> 1], [key |-> 1, at |-> 4, end |-> 4, val |-> 2],
    [key |-> 2, at |-> 2, end |-> Null, val |-> 3], [key |-> 1, at |-> 3, end |-> 5, val |-> 4]}

Keeping(cols, js) == [cols |-> cols, keeps |-> js, span |-> Line]
KeyIs(k) == Keeping({"key"}, {j \in JoinedRows : j.l.key = k})
ValueFrom(v) == Keeping({"val"}, {j \in JoinedRows : j.l.val >= v})
RightIsNull == Keeping({"right"}, {j \in JoinedRows : j.r = Null})
RightFrom(v) == Keeping({"right"}, {j \in JoinedRows : j.r # Null /\ j.r.val >= v})
KeyOrRight == Keeping({"key", "right"},
    {j \in JoinedRows : j.l.key = 2 \/ (j.r # Null /\ j.r.val = 1)})
AtIn(s) == [cols |-> {"at"}, keeps |-> {j \in JoinedRows : At(j.l.at) \in s}, span |-> s]

Ask(kind, how, by, pred) ==
    [kind |-> kind, how |-> how, by |-> by, strategy |-> "backward", tolerance |-> None,
     zoned |-> FALSE, dated |-> FALSE, pushes |-> TRUE, pred |-> pred, n_rows |-> None,
     wants |-> {"val"}]
Asof(strategy, tolerance, by, pred) ==
    [Ask("asof", "left", by, pred) EXCEPT !.strategy = strategy, !.tolerance = tolerance]

MCJoinAsks == {
    [Ask("join", "inner", {"key"}, {KeyIs(1)}) EXCEPT !.wants = {"val_right"}],
    Ask("join", "left", {"key"}, {RightIsNull, ValueFrom(2)}),
    Ask("join", "left", {"key"}, {KeyOrRight}),
    Ask("join", "inner", {"key", "at"}, {RightFrom(2)}),
    [Ask("join", "left", {"key"}, {ValueFrom(2)}) EXCEPT !.n_rows = 1],
    Asof("backward", 1, {}, {AtIn(After(2))}),
    Asof("backward", 2, {"key"}, {AtIn(From(4) \union UpTo(2)), RightFrom(2)}),
    Asof("forward", 1, {"key"}, {AtIn(Before(3))}),
    Asof("nearest", 2, {}, {AtIn(From(4))}),
    Asof("backward", 2, {}, {AtIn({})}),
    Asof("backward", None, {}, {RightIsNull}),
    [Asof("nearest", 1, {}, {AtIn(From(3))}) EXCEPT !.zoned = TRUE],
    [Asof("nearest", 3, {}, {AtIn(After(3))}) EXCEPT !.dated = TRUE],
    [Asof("backward", 2, {"key"}, {KeyIs(1), ValueFrom(2)}) EXCEPT !.pushes = FALSE],
    [Asof("forward", None, {}, None) EXCEPT !.n_rows = 1],
    Ask("between", "inner", {"key"}, None), Ask("between", "left", {}, {RightIsNull})}

-----------------------------------------------------------------------------
MCSourceRows == {
    [index |-> 1, on |-> "a", val |-> 1], [index |-> 1, on |-> "b", val |-> 2],
    [index |-> 2, on |-> "b", val |-> 3], [index |-> Null, on |-> Null, val |-> 4],
    [index |-> 2, on |-> "a", val |-> Null]}
MCOnColumns == {"a", "b", Null}
MCFrameColumns == [v \in {"a", "b"} |-> IF v = "a" THEN {"index", "val"} ELSE {"index"}]

Pivoted == [index : {1, 2, Null}, cells : [MCOnColumns -> {1, 2, 3, 4, Null}]]
Unpivots == [row : MCSourceRows, variable : Unpivoted]
KeepsIf(cols, keeps, variables) == [cols |-> cols, keeps |-> keeps, variables |-> variables]
IndexIs(i) == KeepsIf({"index"}, {r \in Pivoted : r.index = i}, {})
CellFrom(v, n) == KeepsIf({v}, {r \in Pivoted : r.cells[v] # Null /\ r.cells[v] >= n}, {})
NoCell(v) == KeepsIf({v}, {r \in Pivoted : r.cells[v] = Null}, {})
VariableIs(v) == KeepsIf({"variable"}, {u \in Unpivots : u.variable = v}, {v})
UnpivotIndexIs(i) == KeepsIf({"index"}, {u \in Unpivots : u.row.index = i}, Unpivoted)
ValueIsNull ==
    KeepsIf({"value"}, {u \in Unpivots : u.row[u.variable] = Null}, Unpivoted)
FrameIs(v) == KeepsIf({"on"}, {r \in MCSourceRows : r.on = v}, {})
ValFrom(n) == KeepsIf({"val"}, {r \in MCSourceRows : r.val # Null /\ r.val >= n}, {})

Shape(kind, wants, pred) ==
    [kind |-> kind, wants |-> wants, pred |-> pred, n_rows |-> None,
     maintain_order |-> FALSE, dense_on |-> FALSE]

MCShapeAsks == {
    Shape("pivot", None, {IndexIs(1)}), Shape("pivot", {"index", "a"}, None),
    Shape("pivot", {"index", "a"}, {CellFrom("b", 2)}), Shape("pivot", {"a"}, {NoCell("a")}),
    Shape("pivot", {"index", Null}, {IndexIs(Null)}), Shape("pivot", {"index"}, None),
    [Shape("pivot", {"index", "a"}, None) EXCEPT !.maintain_order = TRUE, !.n_rows = 1],
    [Shape("pivot", {"index", "a"}, None) EXCEPT !.dense_on = TRUE],
    Shape("unpivot", None, {VariableIs("on"), UnpivotIndexIs(1)}),
    Shape("unpivot", {"index"}, {VariableIs("val")}), Shape("unpivot", {"variable"}, None),
    Shape("unpivot", {"value"}, {ValueIsNull}), Shape("unpivot", {}, {UnpivotIndexIs(2)}),
    [Shape("unpivot", None, None) EXCEPT !.n_rows = 3],
    Shape("unpivot", None, {VariableIs("on"), VariableIs("val")}),
    Shape("concat", None, {FrameIs("a")}), Shape("concat", None, {FrameIs("b"), ValFrom(2)}),
    Shape("concat", None, {FrameIs("a"), FrameIs("b")}),
    [Shape("pivot", {"index", "b"}, {CellFrom("b", 2)}) EXCEPT !.n_rows = 1],
    [Shape("concat", None, {ValFrom(2)}) EXCEPT !.n_rows = 1]}

-----------------------------------------------------------------------------
MCCombineRows == {
    [at |-> 0, end |-> 2, key |-> 1], [at |-> 1, end |-> 1, key |-> 2],
    [at |-> 2, end |-> 4, key |-> 1], [at |-> 3, end |-> 5, key |-> 2],
    [at |-> 4, end |-> 4, key |-> Null]}
MCKeys == {1, 2}

Around(out, back, ahead) ==
    [out |-> out, col |-> "at", closed |-> None, lookback |-> back, lookahead |-> ahead,
     mapping |-> None, around |-> "value"]
KeyOf(out) == [Around(out, 0, 0) EXCEPT !.col = "key"]
During(out, closed) == [Around(out, 0, 0) EXCEPT !.closed = closed]
Mapping(s, m) == [s EXCEPT !.mapping = m, !.around = "mapped"]
DayBefore == [i \in Instants |-> IF i < 2 THEN 0 ELSE i - 2]
Swapped == [k \in MCKeys |-> 3 - k]

Lets(out, s) == [keeps |-> {o \in Outputs : At(Value(o, out)) \in s},
                 spans |-> (out :> s), values |-> <<>>]
Is(out, v) == [keeps |-> {o \in Outputs : Value(o, out) = v}, spans |-> (out :> {At(v)}),
               values |-> (out :> {v})]
Among(out, vs) == [keeps |-> {o \in Outputs : o[out] \in vs}, spans |-> <<>>,
                   values |-> (out :> vs)]

(* (d.is_null() | (d == v)), and the same without the nulls: no range.     *)
OrNull(out, v) == [Is(out, v) EXCEPT !.spans = <<>>, !.values = (out :> {v, Null})]
Bare(out, v) == [Is(out, v) EXCEPT !.spans = <<>>]

Query(specs, pred) ==
    [specs |-> specs, pred |-> pred, outer |-> FALSE, virtual |-> FALSE, zoned |-> FALSE,
     dated |-> FALSE, n_rows |-> None]
Dated(ask) == [ask EXCEPT !.dated = TRUE]

MCCombineAsks == {
    Query({Around("at", 2, 0), KeyOf("key")}, {Lets("at", After(2)), Among("key", {1})}),
    Query({Around("at", 0, 1), Around("day", 0, 1)}, {Lets("day", {At(2)}), Lets("at", From(3))}),
    Query({Around("at", 1, 1)}, {Lets("at", UpTo(0) \union From(4))}),
    Query({Around("at", 3, 4)}, {Is("at", 2)}),
    Query({Around("at", 0, 0), KeyOf("key")}, {Is("at", 3)}),
    Query({Around("day", 1, 0)}, {Is("day", 2)}),
    Query({KeyOf("key"), KeyOf("other")}, {Among("key", {1}), Among("other", {2})}),
    Query({KeyOf("key"), KeyOf("other")}, {Among("key", {1})}),
    Query({Mapping(KeyOf("key"), Swapped), Around("at", 0, 0)}, {Among("key", {2})}),
    Query({Mapping(KeyOf("key"), 2 :> 2)}, {Among("key", {1, 2})}),
    Query({[Mapping(Around("day", 1, 0), DayBefore) EXCEPT !.around = "value"]}, {Is("day", 4)}),
    Query({Mapping(KeyOf("key"), [k \in MCKeys |-> IF k = 1 THEN Null ELSE k])},
          {Among("key", {1})}),
    [Query({KeyOf("key"), Around("at", 0, 0)}, {Among("key", {1, Null})}) EXCEPT !.outer = TRUE],
    [Query({KeyOf("key"), Around("at", 0, 0)}, {Among("key", {2}), Lets("at", Before(3))})
        EXCEPT !.outer = TRUE],
    Query({Mapping(Around("at", 1, 0), DayBefore)}, {Is("at", 3)}),
    Query({Mapping(Around("day", 0, 1), DayBefore), Around("at", 3, 0)}, {Is("day", 4)}),
    Query({Mapping(Around("day", 1, 0), DayBefore)}, {Lets("day", {4, 5, 6, 7, 8})}),
    Query({Mapping(Around("day", 1, 1), 0 :> 2)}, {Lets("day", {0, 1, 2, 3, 4})}),
    Query({[Mapping(Around("at", 3, 0), DayBefore) EXCEPT !.around = "value"]},
          {Lets("at", From(3))}),
    Dated(Query({Mapping(Around("at", 0, 0), DayBefore)}, {Is("at", 4)})),
    Dated(Query({Around("at", 1, 1), Around("day", 1, 1)}, {Lets("at", After(0))})),
    Dated(Query({Around("at", 0, 0)}, {Is("at", 2)})), Dated(Query({Around("at", 2, 0)}, {Is("at", 4)})),
    Dated(Query({Around("at", 1, 1)}, {Lets("at", From(2) \intersect UpTo(2))})),
    [Query({Around("at", 1, 0)}, {Is("at", 3)}) EXCEPT !.zoned = TRUE],
    Query({During("at", "both")}, {Lets("at", After(1) \intersect UpTo(3))}),
    Query({During("at", "left")}, {Is("at", 4)}), Query({During("at", "right")}, {Is("at", 2)}),
    Query({During("day", "none")}, {Is("day", 2)}),
    Query({Mapping(During("day", "both"), DayBefore)}, {Lets("day", UpTo(2))}),
    Dated(Query({Mapping(During("at", "both"), 2 :> 0)}, {Lets("at", 4..8)})),
    [Query({During("at", "both")}, {Lets("at", UpTo(1) \union From(4))}) EXCEPT !.virtual = TRUE],
    Query({Around("at", 1, 0)}, {OrNull("at", 3)}), Query({Around("day", 0, 0)}, {OrNull("day", 2)}),
    Query({Mapping(Around("at", 1, 0), DayBefore)}, {OrNull("at", 3)}),
    Query({Around("at", 1, 0)}, {[Is("at", 3) EXCEPT !.spans = ("at" :> From(2))]}),
    [Query({Around("at", 1, 0)}, None) EXCEPT !.n_rows = 1],
    Query({Around("at", 1, 0)}, {Never}), Query({Around("at", 1, 0)}, {Lets("at", {})})}

(* The instant 4 by its value alone, under a window of a day before it.     *)
MCUndoneAsks == {Query({Around("at", 2, 0)}, {Bare("at", 4)})}

-----------------------------------------------------------------------------
(* A behaviour is one of a single module, the others rest: nothing they do  *)
(* meets.                                                                  *)
RayRests == ordered /\ pc = "idle"
StackRests == stacks = [e \in Executions |-> NewStack] /\ spanParent = NoParent
DeltaRests == \A w \in Sinks : sinks[w].pc = "idle"
JoinRests == left = {} /\ right = {} /\ join = NoJoin
ShapeRests == source = <<>> /\ shape = NoShape
CombineRests == rows = {} /\ combined = NoCombine
ExclusionRests == partition_cols = <<"day">> /\ known = {}

SourcesInit ==
    /\ Init /\ StackInit /\ DeltaInit /\ JoinInit /\ ShapeInit /\ CombineInit /\ ExclusionInit
    /\ \/ JoinRests /\ ShapeRests /\ CombineRests /\ ExclusionRests
       \/ RayRests /\ ShapeRests /\ CombineRests /\ ExclusionRests
       \/ RayRests /\ JoinRests /\ CombineRests /\ ExclusionRests
       \/ RayRests /\ JoinRests /\ ShapeRests /\ ExclusionRests
       \/ RayRests /\ JoinRests /\ ShapeRests /\ CombineRests
SourcesNext ==
    \/ /\ StackRests /\ DeltaRests /\ JoinRests
       /\ ShapeRests /\ CombineRests /\ ExclusionRests
       /\ Next
       /\ UNCHANGED <<stackVars, deltaVars, joinVars, shapeVars, combineVars, exclusionVars>>
    \/ /\ RayRests /\ DeltaRests /\ JoinRests
       /\ ShapeRests /\ CombineRests /\ ExclusionRests
       /\ StackNext
       /\ UNCHANGED <<vars, deltaVars, joinVars, shapeVars, combineVars, exclusionVars>>
    \/ /\ RayRests /\ StackRests /\ JoinRests
       /\ ShapeRests /\ CombineRests /\ ExclusionRests
       /\ DeltaNext
       /\ UNCHANGED <<vars, stackVars, joinVars, shapeVars, combineVars, exclusionVars>>
    \/ /\ RayRests /\ StackRests /\ DeltaRests
       /\ ShapeRests /\ CombineRests /\ ExclusionRests
       /\ JoinNext
       /\ UNCHANGED <<vars, stackVars, deltaVars, shapeVars, combineVars, exclusionVars>>
    \/ /\ RayRests /\ StackRests /\ DeltaRests
       /\ JoinRests /\ CombineRests /\ ExclusionRests
       /\ ShapeNext
       /\ UNCHANGED <<vars, stackVars, deltaVars, joinVars, combineVars, exclusionVars>>
    \/ /\ RayRests /\ StackRests /\ DeltaRests
       /\ JoinRests /\ ShapeRests /\ ExclusionRests
       /\ CombineNext
       /\ UNCHANGED <<vars, stackVars, deltaVars, joinVars, shapeVars, exclusionVars>>
    \/ /\ RayRests /\ StackRests /\ DeltaRests
       /\ JoinRests /\ ShapeRests /\ CombineRests
       /\ ExclusionNext
       /\ UNCHANGED <<vars, stackVars, deltaVars, joinVars, shapeVars, combineVars>>
=============================================================================
