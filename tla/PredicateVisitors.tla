------------------------- MODULE PredicateVisitors -------------------------
(***************************************************************************)
(* The four visitors that read a pushed-down predicate: what is left of it *)
(* on some columns (restrict_visitor.py), its disjunctive normal form      *)
(* (dnf_visitor.py), the values (set_visitor.py) and the intervals         *)
(* (range_visitor.py) it allows a column.  Each answer is a relaxation:    *)
(* whoever reads less because of it must not lose a row.                   *)
(*                                                                         *)
(* A visitor works bottom up: what visit_X makes of a node depends on what *)
(* the visits of its operands returned.  The state is the set of nodes     *)
(* visited so far, each with the results of the four visitors, and an      *)
(* action visits one more node over operands already visited.              *)
(***************************************************************************)
EXTENDS Predicates, FiniteSets

CONSTANTS
    Kept,         (* the columns restrict_expr_to_columns restricts to      *)
    Target,       (* the column of SetVisitor and IntervalVisitor           *)
    Leaves,       (* the leaf expressions that occur in the predicates      *)
    None,         (* Python's None, an absent result                       *)
    MaxLeaves,    (* bound on the nodes visited before the last leaf        *)
    MaxNodes,     (* bound on the nodes visited                             *)
    MaxOperands   (* bound on the operands of a horizontal function         *)

VARIABLE visited  (* the nodes visited, with what the visitors returned     *)

(* Leaf expressions as they are written: a literal may stand on either side *)
(* of a comparison, and an opaque one is a predicate no visitor looks into. *)
LeafSyntax ==
    [k : {"compare"}, op : Comparisons, col : Columns, value : Cell, flipped : BOOLEAN]
    \union [k : {"is_in"}, col : Columns, values : SUBSET Cell, nulls_equal : BOOLEAN]
    \union [k : {"between"}, col : Columns, lower : Cell, upper : Cell,
            closed : SUBSET {"lower", "upper"}]
    \union [k : {"is_null", "is_not_null", "matches"}, col : Columns]
    \union [k : {"literal"}, value : Truth]
    \union [k : {"opaque"}, roots : SUBSET Columns, sem : [Rows -> Truth]]

Agree(r, s, cols) == \A c \in cols : r[c] = s[c]

(* A position of the number line: value v lies at 2 * v, the odd ones are  *)
(* the gaps, so that a set of positions knows open bounds from closed ones.*)
Positions == UNION {{2 * v - 1, 2 * v, 2 * v + 1} : v \in Values}

DnfOps == {"=", "!=", ">", ">=", "<", "<=", "is", "is not", "in", "!in", "~", "!~"}
Atom == [col : Columns, op : DnfOps, vals : SUBSET Cell]

ASSUME VisitorsAssumption ==
    /\ Kept \subseteq Columns
    /\ Target \in Columns
    /\ \A e \in Leaves : e.k = "opaque" =>
           \A r, s \in Rows : Agree(r, s, e.roots) => e.sem[r] = e.sem[s]
    /\ MaxLeaves \in Nat /\ MaxNodes \in Nat /\ MaxOperands \in Nat

ASSUME LeavesAssumption == Leaves \subseteq LeafSyntax

(* A node: what polars evaluates it to, the columns it reads, whether it is *)
(* a literal, and the result of each visitor: the restriction of it and of *)
(* its negation; the DNF and whether it may be negated; the inclusions and *)
(* exclusions of the target; the positions the target may take.            *)
Node == [
    sem    : [Rows -> Truth],
    roots  : SUBSET Columns,
    lit    : BOOLEAN,
    pos    : {None} \union [Rows -> Truth],
    neg    : {None} \union [Rows -> Truth],
    dnf    : {None} \union SUBSET SUBSET Atom,
    safe   : BOOLEAN,
    incl   : {None} \union SUBSET Cell,
    excl   : SUBSET Cell,
    exact  : BOOLEAN,
    range  : SUBSET Positions]

TypeOK == visited \subseteq Node

-----------------------------------------------------------------------------
(* RestrictPredicateVisitor.                                               *)

Relevant(roots) == roots # {} /\ roots \subseteq Kept

Negated(t) == [r \in Rows |-> Not(t[r])]

(* default_visit: the whole node, when it reads kept columns only.         *)
WholeOr(roots, sem, rest) ==
    IF Relevant(roots) THEN [pos |-> sem, neg |-> Negated(sem)] ELSE rest

CombineAnd(a, b) ==
    IF a = None THEN b ELSE IF b = None THEN a
    ELSE [r \in Rows |-> Conj(a[r], b[r])]
CombineOr(a, b) ==
    IF a = None \/ b = None THEN None
    ELSE [r \in Rows |-> Disj(a[r], b[r])]

(* _combine_all and _combine_any over the operands that have a restriction. *)
CombineAll(ts, some) ==
    IF some = {} THEN None ELSE [r \in Rows |-> AllOf([i \in some |-> ts[i][r]])]
CombineAny(ts, some) ==
    IF some = {} THEN None ELSE [r \in Rows |-> AnyOf([i \in some |-> ts[i][r]])]

FillTrueNot(a) == a

(* fill_null(True)                                                         *)
FillTrue(a) ==
    IF a = None THEN None
    ELSE [r \in Rows |-> IF a[r] = Unknown THEN True ELSE a[r]]

RestrictBinary(isAnd, l, r) ==
    IF isAnd
    THEN [pos |-> CombineAnd(l.pos, r.pos), neg |-> CombineOr(l.neg, r.neg)]
    ELSE [pos |-> CombineOr(l.pos, r.pos), neg |-> CombineAnd(l.neg, r.neg)]

(* Only a plain conjunction may drop operands that cannot be restricted.   *)
RestrictHorizontal(isAnd, args) ==
    LET all == DOMAIN args
        pos == [i \in all |-> args[i].pos]
        neg == [i \in all |-> args[i].neg]
        posOf == {i \in all : pos[i] # None}
        negOf == {i \in all : neg[i] # None}
    IN IF isAnd
       THEN [pos |-> CombineAll(pos, posOf),
             neg |-> IF negOf = all THEN CombineAny(neg, negOf) ELSE None]
       ELSE [pos |-> IF posOf = all THEN CombineAny(pos, posOf) ELSE None,
             neg |-> IF negOf = all THEN CombineAll(neg, negOf) ELSE None]

(* A negated ternary negates its arms; a null predicate takes the falsy arm. *)
RestrictTernary(p, t, f) ==
    LET arms(a, b) ==
            IF a = None /\ b = None THEN None
            ELSE CombineOr(CombineAnd(p.pos, a), CombineAnd(FillTrue(p.neg), b))
    IN [pos |-> arms(t.pos, f.pos), neg |-> arms(t.neg, f.neg)]

-----------------------------------------------------------------------------
(* ColumnConstraintAnalyzer and is_contradiction.                          *)

Ops(clause, c) == {a.op : a \in {b \in clause : b.col = c}}
Vals(clause, c, ops) == UNION {a.vals : a \in {b \in clause : b.col = c /\ b.op \in ops}}
Bounds(clause, c, ops) == Vals(clause, c, ops) \ {Null}
Inclusions(clause, c) == {a.vals : a \in {b \in clause : b.col = c /\ b.op = "in"}}

Lower(clause, c) == Bounds(clause, c, {">", ">="})
Upper(clause, c) == Bounds(clause, c, {"<", "<="})

WithinBounds(clause, c, v) ==
    /\ \A b \in Bounds(clause, c, {">"})  : v > b
    /\ \A b \in Bounds(clause, c, {">="}) : v >= b
    /\ \A b \in Bounds(clause, c, {"<"})  : v < b
    /\ \A b \in Bounds(clause, c, {"<="}) : v <= b

(* is_value_valid; the value sets met so far decide, null comes first.     *)
ValidValue(clause, c, v) ==
    IF "is" \in Ops(clause, c) THEN v = Null
    ELSE /\ "is not" \in Ops(clause, c) => v # Null
         /\ Vals(clause, c, {"="}) # {} => v \in Vals(clause, c, {"="})
         /\ \A s \in Inclusions(clause, c) : v \in s
         /\ v \notin Vals(clause, c, {"!=", "!in"})
         /\ v # Null => WithinBounds(clause, c, v)

BoundsTouch(clause, c) ==
    \E lo \in Lower(clause, c), hi \in Upper(clause, c) : lo >= hi

(* update_from_predicate found two bounds that cross.                      *)
BoundsCross(clause, c) ==
    \/ \E lo \in Lower(clause, c), hi \in Upper(clause, c) : lo > hi
    \/ \E lo \in Bounds(clause, c, {">"}), hi \in Upper(clause, c) : lo >= hi
    \/ \E lo \in Lower(clause, c), hi \in Bounds(clause, c, {"<"}) : lo >= hi

Contradictory(clause, c, hasSchema) ==
    LET exact == Vals(clause, c, {"="})
        ins == Inclusions(clause, c)
        common == {v \in UNION ins : \A s \in ins : v \in s}
        bounded == Lower(clause, c) # {} /\ Upper(clause, c) # {}
    IN \/ {"is", "is not"} \subseteq Ops(clause, c)
       \/ BoundsCross(clause, c)
       \/ \E v, w \in exact : v # w
       \/ \E v \in exact : ~ValidValue(clause, c, v)
       \/ ins # {} /\ \A v \in common : ~ValidValue(clause, c, v)
       \/ "is" \in Ops(clause, c) /\ Lower(clause, c) \union Upper(clause, c) # {}
       \/ /\ hasSchema /\ bounded /\ exact = {} /\ ins = {}
          /\ \A lo \in Lower(clause, c), hi \in Upper(clause, c) :
                 \A v \in lo..hi : ~ValidValue(clause, c, v)

IsContradiction(clause, hasSchema) ==
    \E c \in {a.col : a \in clause} : Contradictory(clause, c, hasSchema)

-----------------------------------------------------------------------------
(* DNFVisitor.  A DNF is a set of clauses, a clause a set of atoms.         *)

At(col, op, vals) == [col |-> col, op |-> op, vals |-> vals]
NoDnf == [dnf |-> None, safe |-> FALSE]

(* _FLIPPED_COMPARISON: lit(1) < col is col > 1.                           *)
Flipped(op) ==
    CASE op = "gt" -> "lt" [] op = "lt" -> "gt"
      [] op = "gte" -> "lte" [] op = "lte" -> "gte"
      [] OTHER -> op

DnfOp(op) ==
    CASE op = "eq" -> "=" [] op = "ne" -> "!=" [] op = "gt" -> ">"
      [] op = "gte" -> ">=" [] op = "lt" -> "<" [] op = "lte" -> "<="

SetComparisonSafe(c, op, v) ==
    IF op = "nev" /\ v = Null THEN [dnf |-> {{At(c, "is not", {})}}, safe |-> TRUE]
    ELSE IF op = "nev" THEN [dnf |-> {{At(c, "!=", {v})}}, safe |-> TRUE]
    ELSE IF op = "eqv" /\ v = Null THEN [dnf |-> {{At(c, "is", {})}}, safe |-> TRUE]
    ELSE [dnf |-> {{At(c, IF op = "eqv" THEN "=" ELSE DnfOp(op), {v})}}, safe |-> TRUE]

(* _set_comparison: "=" drops the null rows that ~eq_missing keeps.        *)
SetComparison(c, op, v) ==
    IF op = "eqv"
    THEN IF v = Null THEN [dnf |-> {{At(c, "is", {})}}, safe |-> TRUE]
         ELSE [dnf |-> {{At(c, "=", {v})}}, safe |-> FALSE]
    ELSE IF op = "nev"
    THEN [dnf |-> IF v = Null THEN {{At(c, "is not", {})}}
                  ELSE {{At(c, "!=", {v})}, {At(c, "is", {})}},
          safe |-> TRUE]
    ELSE [dnf |-> {{At(c, DnfOp(op), {v})}}, safe |-> v # Null]

DnfIsIn(c, vals, nullsEqual) ==
    [dnf |-> IF nullsEqual /\ Null \in vals
             THEN {{At(c, "in", vals \ {Null})} : x \in vals \ {Null}}
                  \union {{At(c, "is", {})}}
             ELSE {{At(c, "in", vals)}},
     safe |-> ~nullsEqual]

DnfBetween(c, lo, hi, closed) ==
    [dnf |-> {{At(c, IF "lower" \in closed THEN ">=" ELSE ">", {lo}),
               At(c, IF "upper" \in closed THEN "<=" ELSE "<", {hi})}},
     safe |-> lo # Null /\ hi # Null]

(* combine_and_dnf and combine_or_dnf, reduced over the operands.          *)
AndDnf(a, b) ==
    IF a = None THEN b ELSE IF b = None THEN a
    ELSE {p[1] \union p[2] : p \in a \X b}
OrDnf(a, b) == IF a = None \/ b = None THEN None ELSE a \union b

BothSafe(l, r) == l.dnf # None /\ l.safe /\ r.dnf # None /\ r.safe

DnfBinary(isAnd, l, r) ==
    [dnf |-> IF isAnd THEN AndDnf(l.dnf, r.dnf) ELSE OrDnf(l.dnf, r.dnf),
     safe |-> BothSafe(l, r)]

(* all_horizontal and any_horizontal: the reduction over their operands.   *)
DnfHorizontal(isAnd, args) ==
    LET some == {i \in DOMAIN args : args[i].dnf # None}
        pick == [some -> UNION {args[i].dnf : i \in some}]
    IN [dnf |->
           IF some = {} \/ (~isAnd /\ some # DOMAIN args) THEN None
           ELSE IF isAnd
           THEN {UNION {p[i] : i \in some} :
                     p \in {q \in pick : \A i \in some : q[i] \in args[i].dnf}}
           ELSE UNION {args[i].dnf : i \in some},
        safe |-> \A i \in DOMAIN args : args[i].dnf # None /\ args[i].safe]

NegatedOp(op) ==
    CASE op = "=" -> "!=" [] op = "!=" -> "="
      [] op = ">" -> "<=" [] op = "<=" -> ">"
      [] op = "<" -> ">=" [] op = ">=" -> "<"
      [] op = "in" -> "!in" [] op = "!in" -> "in"
      [] op = "~" -> "!~" [] op = "!~" -> "~"
      [] op = "is" -> "is not" [] op = "is not" -> "is"

(* One atom of every clause, each negated; the negation of {} is {{}}.     *)
NegateDnf(d) ==
    {{[p[clause] EXCEPT !.op = NegatedOp(p[clause].op)] : clause \in d} :
        p \in {q \in [d -> UNION d] : \A clause \in d : q[clause] \in clause}}

DnfNot(n) ==
    IF n.dnf # None /\ n.safe THEN [dnf |-> NegateDnf(n.dnf), safe |-> TRUE]
    ELSE NoDnf

(* when(p).then(t).otherwise(f) is (p & t) | (~p & f), where a null p takes  *)
(* the otherwise arm: it is null only where a column of it is.             *)
DnfTernary(p, t, f) ==
    LET columns == {a.col : a \in UNION p.dnf}
        notP == IF p.dnf # None /\ p.safe
                THEN NegateDnf(p.dnf) \union {{At(c, "is", {})} : c \in columns}
                ELSE None
        arm(d, n) ==
            IF ~n.lit THEN AndDnf(d, n.dnf)
            ELSE IF \A r \in Rows : n.sem[r] = True THEN d ELSE {}
        both == OrDnf(arm(p.dnf, t), arm(notP, f))
    IN [dnf |-> IF both = None THEN None
                ELSE {clause \in both : ~IsContradiction(clause, FALSE)},
        safe |-> FALSE]

-----------------------------------------------------------------------------
(* SetVisitor.                                                             *)

AnyValue == [incl |-> None, excl |-> {}, exact |-> FALSE]
OnlyValues(s, exact) == [incl |-> s, excl |-> {}, exact |-> exact]
ButValues(s) == [incl |-> None, excl |-> s, exact |-> FALSE]

SetComparisonValues(op, v) ==
    IF op \in {"eq", "eqv"} THEN OnlyValues({v}, op = "eqv" \/ v # Null)
    ELSE IF op \in {"ne", "nev"} THEN ButValues({v})
    ELSE AnyValue

SetBinary(isAnd, l, r) ==
    [incl |->
        IF isAnd
        THEN IF l.incl = None THEN r.incl ELSE IF r.incl = None THEN l.incl
             ELSE l.incl \intersect r.incl
        ELSE IF l.incl = None \/ r.incl = None THEN None
             ELSE l.incl \union r.incl,
     excl |-> IF isAnd THEN l.excl \union r.excl ELSE l.excl \intersect r.excl,
     exact |-> l.exact /\ r.exact /\ l.incl # None /\ r.incl # None]

(* process_results                                                         *)
ValidValues(n) == IF n.incl = None THEN None ELSE n.incl \ n.excl

SetNot(n) ==
    IF ValidValues(n) # None /\ n.exact THEN ButValues(ValidValues(n)) ELSE AnyValue

-----------------------------------------------------------------------------
(* IntervalVisitor.  Every visit intersects what it is given with the      *)
(* positions of its own node, so a node is visited once, from everything.  *)

Universe == Positions

CompareRange(op, v) ==
    IF v = Null THEN Universe
    ELSE CASE op \in {"eq", "eqv"} -> {2 * v}
           [] op = "gt"  -> {p \in Positions : p > 2 * v}
           [] op = "gte" -> {p \in Positions : p >= 2 * v}
           [] op = "lt"  -> {p \in Positions : p < 2 * v}
           [] op = "lte" -> {p \in Positions : p <= 2 * v}
           [] OTHER -> Universe

(* An empty list allows nothing, a null member leaves the column alone.    *)
IsInRange(vals) == IF Null \in vals THEN Universe ELSE {2 * v : v \in vals}

BetweenRange(lo, hi, closed) ==
    IF lo = Null \/ hi = Null THEN Universe
    ELSE CompareRange(IF "lower" \in closed THEN "gte" ELSE "gt", lo)
         \intersect CompareRange(IF "upper" \in closed THEN "lte" ELSE "lt", hi)

-----------------------------------------------------------------------------
(* The visits.                                                             *)

Made(sem, roots, lit, restricted, normal, values, range) ==
    [sem |-> sem, roots |-> roots, lit |-> lit,
     pos |-> restricted.pos, neg |-> restricted.neg,
     dnf |-> normal.dnf, safe |-> normal.safe,
     incl |-> values.incl, excl |-> values.excl, exact |-> values.exact,
     range |-> range]

Visited(sem, roots, lit, restricted, normal, values, range) ==
    visited' = visited \union
                   {Made(sem, roots, lit, restricted, normal, values, range)}

NoRestriction == [pos |-> None, neg |-> None]

Leaf(sem, c, normal, values, range) ==
    Visited(sem, {c}, FALSE, WholeOr({c}, sem, NoRestriction), normal,
            IF c = Target THEN values ELSE AnyValue,
            IF c = Target THEN range ELSE Universe)

MoreLeaves == Cardinality(visited) < MaxLeaves

(* SetVisitor and IntervalVisitor only look at a column on the left.       *)
VisitComparison(e) ==
    /\ e.k = "compare" /\ MoreLeaves
    /\ Leaf([r \in Rows |-> IF e.flipped THEN Compare(e.op, e.value, r[e.col])
                            ELSE Compare(e.op, r[e.col], e.value)],
            e.col,
            SetComparison(e.col, IF e.flipped THEN Flipped(e.op) ELSE e.op, e.value),
            IF e.flipped THEN AnyValue ELSE SetComparisonValues(e.op, e.value),
            IF e.flipped THEN Universe ELSE CompareRange(e.op, e.value))

VisitIsIn(e) ==
    /\ e.k = "is_in" /\ MoreLeaves
    /\ Leaf([r \in Rows |-> IsIn(r[e.col], e.values, e.nulls_equal)], e.col,
            DnfIsIn(e.col, e.values, e.nulls_equal),
            OnlyValues(e.values, e.nulls_equal \/ Null \notin e.values),
            IsInRange(e.values))

VisitBetween(e) ==
    /\ e.k = "between" /\ MoreLeaves
    /\ Leaf([r \in Rows |-> Between(r[e.col], e.lower, e.upper, e.closed)], e.col,
            DnfBetween(e.col, e.lower, e.upper, e.closed), AnyValue,
            BetweenRange(e.lower, e.upper, e.closed))

VisitIsNull(e) ==
    /\ e.k = "is_null" /\ MoreLeaves
    /\ Leaf([r \in Rows |-> Known(r[e.col] = Null)], e.col,
            [dnf |-> {{At(e.col, "is", {})}}, safe |-> TRUE],
            OnlyValues({Null}, TRUE), Universe)

VisitIsNotNull(e) ==
    /\ e.k = "is_not_null" /\ MoreLeaves
    /\ Leaf([r \in Rows |-> Known(r[e.col] # Null)], e.col,
            [dnf |-> {{At(e.col, "is not", {})}}, safe |-> TRUE],
            ButValues({Null}), Universe)

(* starts_with, ends_with or contains                                      *)
VisitMatches(e) ==
    /\ e.k = "matches" /\ MoreLeaves
    /\ Leaf([r \in Rows |-> Matches(r[e.col])], e.col,
            [dnf |-> {{At(e.col, "~", {})}}, safe |-> TRUE], AnyValue, Universe)

(* A constant holds on any frame, so it is kept by every restriction.      *)
VisitLiteral(e) ==
    /\ e.k = "literal" /\ MoreLeaves
    /\ LET sem == [r \in Rows |-> e.value]
       IN Visited(sem, {}, TRUE, [pos |-> sem, neg |-> Negated(sem)], NoDnf,
                  AnyValue, Universe)

VisitOpaque(e) ==
    /\ e.k = "opaque" /\ MoreLeaves
    /\ Visited(e.sem, e.roots, FALSE, WholeOr(e.roots, e.sem, NoRestriction), NoDnf,
               AnyValue, Universe)

MoreNodes == Cardinality(visited) < MaxNodes

VisitBinary(isAnd, l, r) ==
    /\ MoreNodes
    /\ LET sem == [w \in Rows |-> IF isAnd THEN Conj(l.sem[w], r.sem[w])
                                 ELSE Disj(l.sem[w], r.sem[w])]
           roots == l.roots \union r.roots
       IN Visited(sem, roots, FALSE, WholeOr(roots, sem, RestrictBinary(isAnd, l, r)),
                  DnfBinary(isAnd, l, r), SetBinary(isAnd, l, r),
                  IF isAnd THEN l.range \intersect r.range ELSE l.range \union r.range)

VisitNot(n) ==
    /\ MoreNodes
    /\ Visited(Negated(n.sem), n.roots, FALSE,
               WholeOr(n.roots, Negated(n.sem), [pos |-> n.neg, neg |-> n.pos]),
               DnfNot(n), SetNot(n), Universe)

(* The interval visitor ignores the predicate of a ternary.                *)
VisitTernary(p, t, f) ==
    /\ MoreNodes
    /\ LET sem == [r \in Rows |-> IF p.sem[r] = True THEN t.sem[r] ELSE f.sem[r]]
           roots == p.roots \union t.roots \union f.roots
       IN Visited(sem, roots, FALSE, WholeOr(roots, sem, RestrictTernary(p, t, f)),
                  DnfTernary(p, t, f), AnyValue, t.range \union f.range)

HorizontalSem(isAnd, args) ==
    [r \in Rows |-> LET ts == [i \in DOMAIN args |-> args[i].sem[r]]
                    IN IF isAnd THEN AllOf(ts) ELSE AnyOf(ts)]

(* SetVisitor and IntervalVisitor do not look into horizontal functions.   *)
VisitHorizontal(isAnd, args) ==
    /\ MoreNodes
    /\ LET sem == HorizontalSem(isAnd, args)
           roots == UNION {args[i].roots : i \in DOMAIN args}
       IN Visited(sem, roots, FALSE,
                  WholeOr(roots, sem, RestrictHorizontal(isAnd, args)),
                  DnfHorizontal(isAnd, args), AnyValue, Universe)

Init == visited = {}

Next ==
    \/ \E e \in Leaves :
           \/ VisitComparison(e) \/ VisitIsIn(e) \/ VisitBetween(e)
           \/ VisitIsNull(e) \/ VisitIsNotNull(e) \/ VisitMatches(e)
           \/ VisitLiteral(e) \/ VisitOpaque(e)
    \/ \E n \in visited : VisitNot(n)
    \/ \E l, r \in visited, isAnd \in BOOLEAN : VisitBinary(isAnd, l, r)
    \/ \E p, t, f \in visited : VisitTernary(p, t, f)
    \/ \E k \in 1..MaxOperands : \E args \in [1..k -> visited], isAnd \in BOOLEAN :
           VisitHorizontal(isAnd, args)

Spec == Init /\ [][Next]_visited

-----------------------------------------------------------------------------
(* The properties.                                                         *)

(* An atom that compares with null, on a null cell or with a null value.    *)
Blind(a, r) == r[a.col] = Null \/ (a.op \notin {"in", "!in"} /\ Null \in a.vals)

AtomTruth(a, r) ==
    LET x == r[a.col]
    IN IF a.op = "is" THEN Known(x = Null)
       ELSE IF a.op = "is not" THEN Known(x # Null)
       ELSE IF Blind(a, r) THEN Unknown
       ELSE Known(\/ a.op \in {"=", "in"} /\ x \in a.vals
                  \/ a.op \in {"!=", "!in"} /\ x \notin a.vals
                  \/ a.op = ">"  /\ \A v \in a.vals : x > v
                  \/ a.op = ">=" /\ \A v \in a.vals : x >= v
                  \/ a.op = "<"  /\ \A v \in a.vals : x < v
                  \/ a.op = "<=" /\ \A v \in a.vals : x <= v
                  \/ a.op = "~"  /\ x \in Matching
                  \/ a.op = "!~" /\ x \notin Matching)

Holds(dnf, r) == \E clause \in dnf : \A a \in clause : AtomTruth(a, r) = True
Refuted(dnf, r) == \A clause \in dnf : \E a \in clause : AtomTruth(a, r) = False

(* Restricting a predicate to some columns loses no row it keeps, nor, in   *)
(* its negated form, one its negation keeps, and what is left of it reads  *)
(* no other column (restrict_visitor.py:139-204).                          *)
RestrictionKeepsRows ==
    \A n \in visited :
        /\ n.pos # None => \A r \in Rows : n.sem[r] = True => n.pos[r] = True
        /\ n.neg # None => \A r \in Rows : n.sem[r] = False => n.neg[r] = True
        /\ \A t \in {n.pos, n.neg} \ {None} :
               \A r, s \in Rows : Agree(r, s, Kept) => t[r] = t[s]

(* The DNF of a predicate holds on every row it keeps, and one marked safe  *)
(* is refuted by every row its negation keeps, so that negating it keeps   *)
(* them (dnf_visitor.py:363-366).                                          *)
NormalFormKeepsRows ==
    \A n \in visited : n.dnf # None => \A r \in Rows :
        /\ n.sem[r] = True => Holds(n.dnf, r)
        /\ n.safe /\ n.sem[r] = False => Refuted(n.dnf, r)
=============================================================================
