-------------------------- MODULE PushedPredicates --------------------------
(***************************************************************************)
(* What a reader hands of a predicate to the system it reads: SQL for a    *)
(* database (sql_utils.py), a Narwhals expression (lazy_narwhals_reader.py) *)
(* and an expression on the stored columns of a Delta table               *)
(* (translated_source.py).  How databases, Narwhals backends and polars    *)
(* evaluate what they are handed is external.  An alias is translated as   *)
(* what it names, so it is no node of its own.                             *)
(***************************************************************************)
EXTENDS PredicateVisitors, Sequences

CONSTANTS
    Dialects,        (* the SQL dialects                                    *)
    NoBooleans,      (* those without boolean values: T-SQL and Oracle       *)
    CaseSensitive,   (* those whose LIKE respects case                       *)
    MatchingAnyCase, (* the values the string predicate matches in any case  *)
    Unpushable,      (* the values without a portable spelling              *)
    MaxIn,           (* max_in_predicate_size                               *)
    PushedLeaves,    (* the leaves that occur; a flag is a boolean column    *)
    Incomparable,    (* the columns backends compare unlike polars           *)
    NaN,             (* the NaN of float cells, the largest value, or None   *)
    Mapped,          (* the columns of a Delta table stored as another dtype *)
    Logical,         (* what the reader casts a stored cell to              *)
    SourceRows,      (* the rows of the source, in its order                *)
    Limits           (* the values of n_rows                                *)

VARIABLE translated

ASSUME PushedAssumption ==
    /\ NoBooleans \subseteq Dialects /\ CaseSensitive \subseteq Dialects
    /\ Matching \subseteq MatchingAnyCase /\ Unpushable \subseteq Values
    /\ NaN \in {None} \union (Values \intersect Unpushable)
    /\ \A v \in Values \ {NaN} : NaN = None \/ v < NaN
    /\ Mapped \subseteq Columns /\ Logical \in [Cell -> Cell] /\ Logical[Null] = Null
    /\ SourceRows \in Seq(Rows) /\ Limits \subseteq Nat
    /\ PushedLeaves \subseteq LeafSyntax \union [k : {"flag"}, col : Columns]
    /\ \A e \in PushedLeaves : e.k = "opaque" =>
           \A r, s \in Rows : Agree(r, s, e.roots) => e.sem[r] = e.sem[s]

(* The logical row a stored row is read as.                                *)
Read(s) == [c \in Columns |-> IF c \in Mapped THEN Logical[s[c]] ELSE s[c]]

(* Databases compare as polars does, as long as no cell is NaN.             *)
DatabaseRows == {r \in Rows : \A c \in Columns : r[c] # NaN}

-----------------------------------------------------------------------------
(* SQLExpressionVisitor.  mono is what a node becomes when it only feeds   *)
(* AND and OR up to the root, exact what it becomes elsewhere; bool says   *)
(* whether the SQL is known to be boolean (_is_boolean_sql).               *)

Sql(sem, bool) == [sem |-> sem, bool |-> bool]
Both(sql) == [mono |-> sql, exact |-> sql]
NoSql == Both(None)
Pushed(sem) == Both(Sql(sem, TRUE))

Spelled(vals) == vals \intersect Unpushable = {}

SqlCompare(op, v, sem) ==
    IF op \in {"eqv", "nev"} \/ ~Spelled({v}) THEN NoSql ELSE Pushed(sem)

SqlBetween(lo, hi, sem) == IF Spelled({lo, hi}) THEN Pushed(sem) ELSE NoSql

(* _is_in: a null of the list is dropped, nulls_equal matches it apart.    *)
SqlIsIn(c, vals, nullsEqual) ==
    LET listed == vals \ {Null}
        sem == [r \in Rows |->
                   IF nullsEqual /\ Null \in vals /\ r[c] = Null THEN True
                   ELSE IsIn(r[c], listed, FALSE)]
    IN IF Cardinality(vals) > MaxIn \/ listed = {} \/ ~Spelled(listed) THEN NoSql
       ELSE [mono |-> Sql(sem, TRUE),
             exact |-> IF nullsEqual THEN None ELSE Sql(sem, TRUE)]

SqlLikeAnywhere(c, d) ==
    Pushed([r \in Rows |-> IF r[c] = Null THEN Unknown
                           ELSE Known(r[c] \in (IF d \in CaseSensitive THEN Matching
                                                ELSE MatchingAnyCase))])

(* _like: where case is ignored, extra rows must be allowed.                *)
SqlLike(c, d) ==
    LET like(s) == [r \in Rows |-> IF r[c] = Null THEN Unknown ELSE Known(r[c] \in s)]
    IN IF d \in CaseSensitive THEN Pushed(like(Matching))
       ELSE [mono |-> Sql(like(MatchingAnyCase), TRUE), exact |-> None]

JoinSem(isAnd, s, t) ==
    [r \in Rows |-> IF isAnd THEN Conj(s[r], t[r]) ELSE Disj(s[r], t[r])]

(* visit_binary_expr: a side of a monotone AND may be left out.            *)
SqlMonoBinary(isAnd, l, r) ==
    IF l # None /\ r # None THEN Sql(JoinSem(isAnd, l.sem, r.sem), TRUE)
    ELSE IF ~isAnd THEN None ELSE IF l = None THEN r ELSE l

(* Elsewhere & and | may be bitwise, so both sides must be boolean.        *)
SqlExactBinary(isAnd, l, r) ==
    IF l # None /\ r # None /\ l.bool /\ r.bool
    THEN Sql(JoinSem(isAnd, l.sem, r.sem), TRUE) ELSE None

SqlBinary(isAnd, l, r) ==
    [mono |-> SqlMonoBinary(isAnd, l.mono, r.mono),
     exact |-> SqlExactBinary(isAnd, l.exact, r.exact)]

(* The operands of NOT, of IS NULL, of a comparison and of CASE are exact. *)
SqlNot(n) ==
    IF n.exact = None THEN NoSql
    ELSE LET sql == Sql(Negated(n.exact.sem), TRUE)
         IN [mono |-> sql, exact |-> IF n.exact.bool THEN sql ELSE None]

SqlIsNull(n) ==
    IF n.exact = None THEN NoSql
    ELSE Pushed([r \in Rows |-> Known(n.exact.sem[r] = Unknown)])

EqualSem(s, t) ==
    [r \in Rows |-> IF Unknown \in {s[r], t[r]} THEN Unknown ELSE Known(s[r] = t[r])]

SqlEqual(l, r) ==
    IF None \in {l.exact, r.exact} THEN NoSql
    ELSE Pushed(EqualSem(l.exact.sem, r.exact.sem))

ChoiceSem(p, t, f) == [r \in Rows |-> IF p[r] = True THEN t[r] ELSE f[r]]

SqlTernary(d, p, t, f) ==
    IF d \in NoBooleans \/ None \in {p.exact, t.exact, f.exact} THEN NoSql
    ELSE Both(Sql(ChoiceSem(p.exact.sem, t.exact.sem, f.exact.sem), FALSE))

(* A cast to Boolean needs a boolean; one to Unknown is passed through.     *)
SqlCast(known, n) ==
    IF ~known THEN n
    ELSE IF n.exact # None /\ n.exact.bool THEN Both(n.exact) ELSE NoSql

-----------------------------------------------------------------------------
(* _NWBuilder: no NOT, no part left out, and NaN rows are kept.  Tests of   *)
(* object columns are opaque leaves.                                       *)

NwCompare(c, op, v, sem) ==
    IF c \in Incomparable \/ v = NaN THEN None
    ELSE [r \in Rows |-> IF r[c] = NaN THEN True ELSE sem[r]]

(* A backend finds a null cell in a list with a null, and never raises it   *)
(* to null when it is not there.                                           *)
NwIsIn(c, vals) ==
    IF c \in Incomparable \/ NaN \in vals THEN None
    ELSE [r \in Rows |-> Known(r[c] \in vals)]

NwBinary(isAnd, l, r) ==
    IF None \in {l, r} THEN None ELSE JoinSem(isAnd, l, r)

-----------------------------------------------------------------------------
(* TranslatedPredicateVisitor, on rows as they are stored.                 *)

Stored(sem) == [s \in Rows |-> sem[Read(s)]]

(* default_visit: the node as it is, when it reads no mapped column.       *)
StoredAsIs(roots, sem) == IF roots \intersect Mapped = {} THEN sem ELSE None

StoredBinary(isAnd, l, r) ==
    IF None \in {l, r} THEN None ELSE JoinSem(isAnd, l, r)

(* translate_polars_predicate: a conjunct at the top may be left out.       *)
StoredTop(isAnd, l, r, whole) ==
    IF ~isAnd THEN whole
    ELSE IF l = None THEN r ELSE IF r = None THEN l ELSE JoinSem(TRUE, l, r)

-----------------------------------------------------------------------------
(* The visits.  A node holds what it means, the columns it reads and what  *)
(* each visitor made of it: sql by dialect, nw, stored inside a predicate  *)
(* and top at its root.  Its kind tells _is_null_safe nodes from others.   *)

Translated(kind, sem, roots, sql, nw, stored, top) ==
    translated' = translated \union
        {[kind |-> kind, sem |-> sem, roots |-> roots, sql |-> sql, nw |-> nw,
          stored |-> stored, top |-> top]}

TranslatedLeaf(sem, c, sql, nw) ==
    Translated("other", sem, {c}, [d \in Dialects |-> sql], nw, Stored(sem), Stored(sem))

MoreLeavesPushed == Cardinality(translated) < MaxLeaves

TranslateComparison(e) ==
    /\ e.k = "compare" /\ MoreLeavesPushed
    /\ LET sem == [r \in Rows |-> IF e.flipped THEN Compare(e.op, e.value, r[e.col])
                                  ELSE Compare(e.op, r[e.col], e.value)]
       IN TranslatedLeaf(sem, e.col, SqlCompare(e.op, e.value, sem),
                         NwCompare(e.col, e.op, e.value, sem))

TranslateIsIn(e) ==
    /\ e.k = "is_in" /\ MoreLeavesPushed
    /\ TranslatedLeaf([r \in Rows |-> IsIn(r[e.col], e.values, e.nulls_equal)], e.col,
                      SqlIsIn(e.col, e.values, e.nulls_equal), NwIsIn(e.col, e.values))

TranslateBetween(e) ==
    /\ e.k = "between" /\ MoreLeavesPushed
    /\ LET sem == [r \in Rows |-> Between(r[e.col], e.lower, e.upper, e.closed)]
       IN TranslatedLeaf(sem, e.col, SqlBetween(e.lower, e.upper, sem), None)

TranslateNullTest(e) ==
    /\ e.k \in {"is_null", "is_not_null"} /\ MoreLeavesPushed
    /\ LET sem == [r \in Rows |-> Known((r[e.col] = Null) = (e.k = "is_null"))]
       IN TranslatedLeaf(sem, e.col, Pushed(sem), sem)

TranslateMatches(e) ==
    /\ e.k = "matches" /\ MoreLeavesPushed
    /\ LET sem == [r \in Rows |-> Matches(r[e.col])]
           stored == StoredAsIs({e.col}, sem)
       IN Translated("other", sem, {e.col}, [d \in Dialects |-> SqlLike(e.col, d)], None,
                     stored, stored)

TranslateLiteral(e) ==
    /\ e.k = "literal" /\ MoreLeavesPushed
    /\ LET sem == [r \in Rows |-> e.value]
       IN Translated("literal", sem, {},
                     [d \in Dialects |-> Both(Sql(sem, e.value # Unknown))], sem, sem, sem)

(* visit_column: a boolean column is a predicate, but not a boolean in SQL. *)
TranslateFlag(e) ==
    /\ e.k = "flag" /\ MoreLeavesPushed
    /\ LET sem == [r \in Rows |-> IF r[e.col] = Null THEN Unknown
                                  ELSE Known(r[e.col] > 1)]
       IN Translated("column", sem, {e.col}, [d \in Dialects |-> Both(Sql(sem, FALSE))],
                     sem, Stored(sem), Stored(sem))

TranslateOpaque(e) ==
    /\ e.k = "opaque" /\ MoreLeavesPushed
    /\ Translated("other", e.sem, e.roots, [d \in Dialects |-> NoSql], None,
                  StoredAsIs(e.roots, e.sem), StoredAsIs(e.roots, e.sem))

MoreNodesPushed == Cardinality(translated) < MaxNodes

TranslateBinary(isAnd, l, r) ==
    /\ MoreNodesPushed
    /\ LET stored == StoredBinary(isAnd, l.stored, r.stored)
       IN Translated("other", JoinSem(isAnd, l.sem, r.sem), l.roots \union r.roots,
                     [d \in Dialects |-> SqlBinary(isAnd, l.sql[d], r.sql[d])],
                     NwBinary(isAnd, l.nw, r.nw), stored,
                     StoredTop(isAnd, l.top, r.top, stored))

TranslateNot(n) ==
    /\ MoreNodesPushed
    /\ LET stored == IF n.stored = None THEN None ELSE Negated(n.stored)
       IN Translated("other", Negated(n.sem), n.roots,
                     [d \in Dialects |-> SqlNot(n.sql[d])], None, stored, stored)

NullSafe(n) == n.kind # "other" /\ n.nw # None

TranslateIsNull(n) ==
    /\ MoreNodesPushed
    /\ LET nulls(t) == [r \in Rows |-> Known(t[r] = Unknown)]
           stored == IF n.stored = None THEN None ELSE nulls(n.stored)
       IN Translated("other", nulls(n.sem), n.roots,
                     [d \in Dialects |-> SqlIsNull(n.sql[d])],
                     IF NullSafe(n) THEN nulls(n.nw) ELSE None, stored, stored)

(* Two predicates compared by ==.                                          *)
TranslateEqual(l, r) ==
    /\ MoreNodesPushed
    /\ LET stored == IF None \in {l.stored, r.stored} THEN None
                     ELSE EqualSem(l.stored, r.stored)
       IN Translated("other", EqualSem(l.sem, r.sem), l.roots \union r.roots,
                     [d \in Dialects |-> SqlEqual(l.sql[d], r.sql[d])],
                     IF NullSafe(l) /\ NullSafe(r) THEN EqualSem(l.nw, r.nw) ELSE None,
                     stored, stored)

TranslateTernary(p, t, f) ==
    /\ MoreNodesPushed
    /\ LET roots == p.roots \union t.roots \union f.roots
           sem == ChoiceSem(p.sem, t.sem, f.sem)
           stored == StoredAsIs(roots, sem)
       IN Translated("other", sem, roots,
                     [d \in Dialects |-> SqlTernary(d, p.sql[d], t.sql[d], f.sql[d])],
                     None, stored, stored)

(* Narwhals is handed the cast of a column only.                           *)
TranslateCast(known, n) ==
    /\ MoreNodesPushed
    /\ Translated("cast", n.sem, n.roots, [d \in Dialects |-> SqlCast(known, n.sql[d])],
                  IF known /\ n.kind = "column" THEN n.nw ELSE None, n.stored, n.stored)

(* all_horizontal and any_horizontal are handed to no one.                  *)
TranslateHorizontal(isAnd, l, r) ==
    /\ MoreNodesPushed
    /\ LET sem == JoinSem(isAnd, l.sem, r.sem)
           roots == l.roots \union r.roots
       IN Translated("other", sem, roots, [d \in Dialects |-> NoSql], None,
                     StoredAsIs(roots, sem), StoredAsIs(roots, sem))

PushedInit == translated = {}

PushedNext ==
    \/ \E e \in PushedLeaves :
           \/ TranslateComparison(e) \/ TranslateIsIn(e) \/ TranslateBetween(e)
           \/ TranslateNullTest(e) \/ TranslateMatches(e) \/ TranslateLiteral(e)
           \/ TranslateFlag(e) \/ TranslateOpaque(e)
    \/ \E n \in translated : TranslateNot(n) \/ TranslateIsNull(n)
    \/ \E n \in translated, known \in BOOLEAN : TranslateCast(known, n)
    \/ \E l, r \in translated : TranslateEqual(l, r)
    \/ \E l, r \in translated, isAnd \in BOOLEAN :
           TranslateBinary(isAnd, l, r) \/ TranslateHorizontal(isAnd, l, r)
    \/ \E p, t, f \in translated : TranslateTernary(p, t, f)

PushedSpec == PushedInit /\ [][PushedNext]_translated

-----------------------------------------------------------------------------
(* The readers.  They are never handed a predicate and a limit together:   *)
(* _limit_before_filter takes the limit first and filters what it returns. *)

(* What a reader has in hand is the set of the places of its rows: order is *)
(* kept throughout.                                                        *)
Places == DOMAIN SourceRows
DatabasePlaces == {i \in Places : SourceRows[i] \in DatabaseRows}

Filtered(places, t) == {i \in places : t[SourceRows[i]] = True}
Taken(places, limit) ==
    IF limit = None THEN places
    ELSE {i \in places : Cardinality({j \in places : j <= i}) <= limit}
PushedTo(places, t) == IF t = None THEN places ELSE Filtered(places, t)

(* apply_polars_io_source_exprs puts the limit behind WHERE, and scan_db    *)
(* filters the rows again.                                                 *)
ReadDatabase(n, d, pred, limit) ==
    LET where == n.sql[d].mono
        rows == Taken(IF ~pred \/ where = None THEN DatabasePlaces
                      ELSE Filtered(DatabasePlaces, where.sem), limit)
    IN IF pred THEN Filtered(rows, n.sem) ELSE rows

(* scan_narwhals reads without the expression when the backend fails on it. *)
ReadNarwhals(n, failing, pred, limit) ==
    LET rows == Taken(PushedTo(Places, IF failing \/ ~pred THEN None ELSE n.nw), limit)
    IN IF pred THEN Filtered(rows, n.sem) ELSE rows

(* scan_delta casts the stored rows between the two filters.               *)
ReadDelta(n, pred, limit) ==
    LET rows == PushedTo(Places, IF pred THEN n.top ELSE None)
    IN Taken(IF pred THEN Filtered(rows, Stored(n.sem)) ELSE rows, limit)

(* register_io_source_with_is_pure: read is what the reader gives for the   *)
(* limit alone, filtered the one it gives for the predicate alone.         *)
LimitBeforeFilter(sem, limit, limited, filtered) ==
    IF limit = None THEN filtered ELSE Filtered(limited, sem)

DatabaseAnswerBoth(n, d, limit) == ReadDatabase(n, d, TRUE, limit)

DatabaseAnswer(n, d, limit) ==
    LimitBeforeFilter(n.sem, limit, ReadDatabase(n, d, FALSE, limit),
                      ReadDatabase(n, d, TRUE, None))
NarwhalsAnswer(n, failing, limit) ==
    LimitBeforeFilter(n.sem, limit, ReadNarwhals(n, failing, FALSE, limit),
                      ReadNarwhals(n, failing, TRUE, None))
DeltaAnswer(n, limit) ==
    LimitBeforeFilter(Stored(n.sem), limit, ReadDelta(n, FALSE, limit),
                      ReadDelta(n, TRUE, None))

-----------------------------------------------------------------------------
(* What a system is handed of a predicate keeps every row the predicate     *)
(* keeps, nulls, NaN and other dtypes included; where SQL may still be      *)
(* negated, compared or tested for null it means what polars means on       *)
(* every row (sql_utils.py:294-296, 328-625, lazy_narwhals_reader.py:77-205, *)
(* translated_source.py:54-172).                                           *)
PushedKeepsRows ==
    \A n \in translated :
        /\ \A d \in Dialects : \A r \in DatabaseRows :
               /\ n.sql[d].mono # None /\ n.sem[r] = True => n.sql[d].mono.sem[r] = True
               /\ n.sql[d].exact # None => n.sem[r] = n.sql[d].exact.sem[r]
        /\ n.nw # None => \A r \in Rows : n.sem[r] = True => n.nw[r] = True
        /\ n.top # None => \A s \in Rows : n.sem[Read(s)] = True => n.top[s] = True

(* head(n) in front of a filter limits the rows that are read, not those    *)
(* that pass, whatever is pushed to the source (util.py:536-550).           *)
LimitCountsReadRows ==
    \A n \in translated, limit \in Limits \union {None} :
        /\ \A d \in Dialects :
               DatabaseAnswer(n, d, limit) = Filtered(Taken(DatabasePlaces, limit), n.sem)
        /\ \A failing \in BOOLEAN :
               NarwhalsAnswer(n, failing, limit) = Filtered(Taken(Places, limit), n.sem)
        /\ DeltaAnswer(n, limit) = Filtered(Taken(Places, limit), Stored(n.sem))
=============================================================================
