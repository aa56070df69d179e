---------------------------- MODULE MCPredicates ----------------------------
(* A behaviour visits nodes either for the visitors or for the translators. *)
EXTENDS PredicateUses, PushedPredicates
CONSTANTS c, d

Cmp(col, op, v) == [k |-> "compare", op |-> op, col |-> col, value |-> v, flipped |-> FALSE]
Rev(col, op, v) == [Cmp(col, op, v) EXCEPT !.flipped = TRUE]
In(col, s, eq) == [k |-> "is_in", col |-> col, values |-> s, nulls_equal |-> eq]
On(kind, col) == [k |-> kind, col |-> col]
Constantly(t) == [k |-> "literal", value |-> t]
ColumnsDiffer == [k |-> "opaque", roots |-> {c, d},
                  sem |-> [r \in Rows |-> Compare("lt", r[c], r[d])]]
Span12 == [k |-> "between", col |-> c, lower |-> 1, upper |-> 2, closed |-> {"lower"}]

MCLeaves == {
    Cmp(c, "eq", 2), Cmp(c, "ne", 1), Cmp(c, "gt", 1), Rev(c, "gte", 2),
    Cmp(c, "eq", Null), Cmp(c, "eqv", 1), Cmp(d, "nev", 1), Cmp(c, "nev", Null),
    In(c, {1, Null}, TRUE), In(c, {2, Null}, FALSE), In(c, {}, FALSE), In(d, {1}, FALSE),
    Span12, On("is_null", c), On("is_not_null", c), On("matches", c),
    Constantly(True), Constantly(False), ColumnsDiffer}

MCPushedLeaves == {
    Cmp(c, "eq", 2), Cmp(d, "gt", 1), Rev(c, "lte", 3), Cmp(c, "eq", Null),
    Cmp(d, "eqv", 1), In(c, {1, Null}, TRUE), In(d, {2, Null}, FALSE),
    In(c, {1, 2, Null}, FALSE), Span12, On("is_null", d), On("matches", c), On("matches", d),
    On("flag", d), Constantly(True), Constantly(Unknown), ColumnsDiffer}

MCRow(x, y) == [k \in Columns |-> IF k = c THEN x ELSE y]
MCSourceRows == <<MCRow(1, 3), MCRow(Null, 2), MCRow(1, Null), MCRow(2, 1)>>
MCLogical == [x \in Cell |-> IF x = Null THEN Null ELSE (x + 1) \div 2]

MCInit == Init /\ PushedInit
MCNext ==
    \/ translated = {} /\ Next /\ UNCHANGED translated
    \/ visited = {} /\ PushedNext /\ UNCHANGED visited
MCSpec == MCInit /\ [][MCNext]_<<visited, translated>>
=============================================================================
