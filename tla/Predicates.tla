----------------------------- MODULE Predicates -----------------------------
(***************************************************************************)
(* Rows, three-valued logic and the predicates of polars that the visitors *)
(* of io_sources look into.  How polars evaluates them is external: it is  *)
(* what a visitor's answer is compared with.  A cell is an integer or null *)
(* and a predicate is the truth it has on every row, so that two           *)
(* expressions polars cannot tell apart are one here.                      *)
(***************************************************************************)
EXTENDS Integers

CONSTANTS
    Columns,      (* the columns of the frame                              *)
    Values,       (* the cells that are not null                           *)
    Null,         (* the null cell                                         *)
    Matching      (* the values that match the pattern of a string predicate *)

ASSUME CellsAssumption ==
    /\ Values \subseteq Int
    /\ Null \notin Int
    /\ Matching \subseteq Values

Cell == Values \union {Null}
Rows == [Columns -> Cell]

-----------------------------------------------------------------------------
(* Kleene's logic, False < Unknown < True.                                 *)

False == 0
Unknown == 1
True == 2
Truth == {False, Unknown, True}

Known(b) == IF b THEN True ELSE False
Not(t) == 2 - t
Conj(s, t) == IF s <= t THEN s ELSE t
Disj(s, t) == IF s <= t THEN t ELSE s

(* The same of a tuple of truths: all_horizontal and any_horizontal.       *)
AllOf(ts) ==
    IF \E i \in DOMAIN ts : ts[i] = False THEN False
    ELSE IF \E i \in DOMAIN ts : ts[i] = Unknown THEN Unknown ELSE True
AnyOf(ts) ==
    IF \E i \in DOMAIN ts : ts[i] = True THEN True
    ELSE IF \E i \in DOMAIN ts : ts[i] = Unknown THEN Unknown ELSE False

-----------------------------------------------------------------------------
(* What polars answers for one cell x.                                     *)

Orderings == {"gt", "gte", "lt", "lte"}
Comparisons == Orderings \union {"eq", "ne", "eqv", "nev"}

(* "eqv" and "nev" are eq_missing and ne_missing.                          *)
Compare(op, x, y) ==
    IF op = "eqv" THEN Known(x = y)
    ELSE IF op = "nev" THEN Known(x # y)
    ELSE IF x = Null \/ y = Null THEN Unknown
    ELSE Known(\/ op = "eq"  /\ x = y
               \/ op = "ne"  /\ x # y
               \/ op = "gt"  /\ x > y
               \/ op = "gte" /\ x >= y
               \/ op = "lt"  /\ x < y
               \/ op = "lte" /\ x <= y)

IsIn(x, values, nullsEqual) ==
    IF x = Null /\ ~nullsEqual THEN Unknown ELSE Known(x \in values)

(* closed says which of the two bounds belong to the interval.             *)
Between(x, lo, hi, closed) ==
    Conj(Compare(IF "lower" \in closed THEN "gte" ELSE "gt", x, lo),
         Compare(IF "upper" \in closed THEN "lte" ELSE "lt", x, hi))

Matches(x) == IF x = Null THEN Unknown ELSE Known(x \in Matching)
=============================================================================
