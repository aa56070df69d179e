------------------------------- MODULE Joins -------------------------------
(***************************************************************************)
(* The joins that read less (io_sources/join.py).  filtered_join reads the *)
(* left frame first and the right one only where it has a key of the left; *)
(* filtered_join_asof reads the right frame only where the tolerance of a  *)
(* requested left row reaches; join_between is a backward asof join whose  *)
(* matches are checked against the end of the range.  The frames are read  *)
(* one after the other and may change in between.                          *)
(*                                                                         *)
(* A predicate is a set of conjuncts, each the columns it reads, the       *)
(* joined rows it keeps and the positions it leaves to the left index:     *)
(* restrict_expr_to_columns leaves those that read no other column.  Reads *)
(* that fail end the collect and are left out.                             *)
(***************************************************************************)
EXTENDS Intervals

CONSTANTS
    LeftRows,       (* [key, at, val], the rows the left frame may have     *)
    RightRows,      (* [key, at, end, val]                                 *)
    JoinAsks,       (* the joins that are asked for                        *)
    MaxChanges      (* bound on the changes of the frames                  *)

VARIABLES
    left, right,    (* the rows of the two frames                          *)
    join            (* the collect of a join                               *)

joinVars == <<left, right, join>>

LeftColumns == {"key", "at", "val"}
Joined(l, r) == [l |-> l, r |-> r]
JoinedRows == [l : LeftRows, r : RightRows \union {Null}]

(* An ask: how to join, on which columns, what tolerance and strategy an   *)
(* asof join has, whether the index has a time zone or is a date, whether  *)
(* polars pushes filters on join columns itself, the predicate, n_rows and *)
(* the columns asked for.                                                  *)
Conjunct == [cols : SUBSET {"key", "at", "val", "right"}, keeps : SUBSET JoinedRows,
             span : SUBSET Line]
JoinAsk == [
    kind : {"join", "asof", "between"},
    how : {"inner", "left"},
    by : SUBSET {"key", "at"},
    strategy : {"backward", "forward", "nearest"},
    tolerance : {None} \union Nat,
    zoned : BOOLEAN,
    dated : BOOLEAN,
    pushes : BOOLEAN,
    pred : {None} \union SUBSET Conjunct,
    n_rows : {None} \union Nat,
    wants : SUBSET {"key", "val", "val_right"}]

ASSUME JoinsAssumption ==
    /\ JoinAsks \subseteq JoinAsk /\ MaxChanges \in Nat
    /\ Null \notin Instants
    /\ \A l \in LeftRows : l.at \in Instants
    /\ \A r \in RightRows : r.at \in Instants /\ r.end \in Instants \union {Null}
    /\ \A ask \in JoinAsks :
           /\ ask.pred # None => \A f \in ask.pred :
                  /\ \A j \in f.keeps : At(j.l.at) \in f.span
                  /\ f.cols \subseteq LeftColumns =>
                         \A j \in JoinedRows : j \in f.keeps <=> Joined(j.l, Null) \in f.keeps

-----------------------------------------------------------------------------
(* The joins polars computes.                                              *)

Equal(v, w) == v # Null /\ v = w
SameOn(cols, l, r) == \A c \in cols : Equal(l[c], r[c])

EquiJoin(how, cols, ls, rs) ==
    {Joined(p[1], p[2]) : p \in {q \in ls \X rs : SameOn(cols, q[1], q[2])}}
    \union {Joined(l, Null) : l \in {k \in ls : how = "left" /\
                                        ~\E r \in rs : SameOn(cols, k, r)}}

Distance(l, r) == IF l.at < r.at THEN r.at - l.at ELSE l.at - r.at
Reaches(ask, l, r) ==
    /\ "key" \in ask.by => Equal(l.key, r.key)
    /\ ask.strategy = "backward" => r.at <= l.at
    /\ ask.strategy = "forward" => r.at >= l.at
    /\ ask.tolerance # None => Distance(l, r) <= ask.tolerance

(* The closest match, of two equally close ones the earlier, and the last   *)
(* of those at the same instant.                                           *)
Closest(l, rs) ==
    CHOOSE r \in rs : \A s \in rs \ {r} :
        \/ Distance(l, r) < Distance(l, s)
        \/ Distance(l, r) = Distance(l, s) /\ r.at < s.at
        \/ r.at = s.at /\ r.val > s.val

AsofJoin(ask, ls, rs) ==
    {LET matches == {r \in rs : Reaches(ask, l, r)}
     IN Joined(l, IF matches = {} THEN Null ELSE Closest(l, matches)) : l \in ls}

(* join_between: the right columns are nulled where left_on is after the    *)
(* end of the range, or the end is not known.                              *)
Overlaps(l, r) == r.end # Null /\ l.at <= r.end
BetweenJoin(ask, ls, rs) ==
    LET backward == AsofJoin([ask EXCEPT !.strategy = "backward", !.tolerance = None], ls, rs)
        valid(j) == j.r # Null /\ Overlaps(j.l, j.r)
    IN {IF valid(j) THEN j ELSE Joined(j.l, Null) :
            j \in {k \in backward : ask.how = "inner" => valid(k)}}

Holds(pred, j) == pred = None \/ \A f \in pred : j \in f.keeps
Filtered(pred, js) == {j \in js : Holds(pred, j)}

JoinOf(ask, ls, rs) ==
    CASE ask.kind = "join" -> EquiJoin(ask.how, ask.by, ls, rs)
      [] ask.kind = "asof" -> AsofJoin(ask, ls, rs)
      [] ask.kind = "between" -> BetweenJoin(ask, ls, rs)

-----------------------------------------------------------------------------
(* What is read.                                                           *)

Restricted(pred, cols) ==
    IF pred = None THEN None ELSE {f \in pred : f.cols \subseteq cols}

(* filtered_join restricts the predicate to the left columns; an asof join *)
(* leaves the left frame to polars, unless that is too old.                *)
LeftFilter(ask, l) ==
    ask.kind = "join" \/ (ask.kind = "asof" /\ ~ask.pushes) =>
        Holds(Restricted(ask.pred, LeftColumns), Joined(l, Null))

(* A suffixed right column needs its namesake on the left to be suffixed.   *)
LeftSelected(ask) ==
    ask.by \union (IF "val_right" \in ask.wants THEN {"val"} ELSE {})
           \union (ask.wants \intersect LeftColumns)
JoinedNames(lcols) == lcols \union {IF "val" \in lcols THEN "val_right" ELSE "val"}

(* One filter for each key column: == for a single value, else is_in, and   *)
(* nulls match nothing.                                                    *)
KeyFilter(ask, ls, r) == \A c \in ask.by : r[c] \in {l[c] : l \in ls} \ {Null}

(* The instants the predicate leaves to the left index.                    *)
Requested(pred) == {p \in Line : \A f \in pred : p \in f.span}

RightWindowSwapped(ask, s) ==
    IF ask.strategy = "backward" THEN Lookahead(s, ask.tolerance)
    ELSE Lookback(s, ask.tolerance)

(* The tolerance is looked back, forward or both ways; the dates of a Date  *)
(* index are taken as midnights first and rounded to dates again.          *)
RightWindow(ask, s) ==
    LET back == IF ask.strategy = "forward" THEN s ELSE Lookback(s, ask.tolerance)
        both == IF ask.strategy = "backward" THEN back
                ELSE Lookahead(back, ask.tolerance)
    IN IF ask.dated THEN FullDates(both) ELSE both

(* right_filters_from_by, and the window unless the index has a time zone. *)
AsofFilter(ask, r) ==
    ask.pred # None =>
        /\ ~ask.pushes /\ "key" \in ask.by =>
               \A f \in Restricted(ask.pred, {"key"}) : \E j \in f.keeps : j.l.key = r.key
        /\ ask.tolerance # None /\ ~ask.zoned =>
               Within(r.at, RightWindow(ask, Requested(ask.pred)))

RightFilter(ask, ls, r) ==
    /\ ask.kind = "join" => KeyFilter(ask, ls, r)
    /\ ask.kind = "asof" => AsofFilter(ask, r)

-----------------------------------------------------------------------------
NoJoin == [pc |-> "idle", ask |-> None, leftAt |-> {}, rightAt |-> {}, got |-> {},
           answer |-> {}, changes |-> 0]

JoinInit ==
    /\ left \in SUBSET LeftRows
    /\ right \in SUBSET RightRows
    /\ join = NoJoin

(* A Date index holds dates only.                                          *)
Fits(ask, rows) == ask.dated => \A r \in rows : OnDate(r.at)

AskJoin(ask) ==
    /\ join.pc = "idle" /\ Fits(ask, left \union right)
    /\ join' = [join EXCEPT !.pc = "left", !.ask = ask]
    /\ UNCHANGED <<left, right>>

(* An empty left frame is answered without reading the right one.          *)
ReadLeft ==
    LET got == {l \in left : LeftFilter(join.ask, l)}
    IN /\ join.pc = "left"
       /\ join' = [join EXCEPT !.leftAt = left, !.got = got, !.rightAt = right,
                               !.pc = IF join.ask.kind = "join" /\ got = {} THEN "done"
                                      ELSE "right"]
       /\ UNCHANGED <<left, right>>

(* The join of what was read, filtered again, and its head.                *)
ReadRight ==
    LET ask == join.ask
        got == {r \in right : RightFilter(ask, join.got, r)}
    IN /\ join.pc = "right"
       /\ \E answer \in Heads(ask.n_rows, Filtered(ask.pred, JoinOf(ask, join.got, got))) :
              join' = [join EXCEPT !.rightAt = right, !.answer = answer, !.pc = "done"]
       /\ UNCHANGED <<left, right>>

(* A row appears in, or disappears from, a frame that is being read.       *)
ChangeFrames ==
    /\ join.pc \in {"left", "right"} /\ join.changes < MaxChanges
    /\ \/ \E l \in LeftRows : left' = (left \ {l}) \union ({l} \ left) /\ UNCHANGED right
       \/ \E r \in RightRows : right' = (right \ {r}) \union ({r} \ right) /\ UNCHANGED left
    /\ Fits(join.ask, left' \union right')
    /\ join' = [join EXCEPT !.changes = @ + 1]

JoinNext ==
    \/ \E ask \in JoinAsks : AskJoin(ask)
    \/ ReadLeft \/ ReadRight \/ ChangeFrames

JoinSpec == JoinInit /\ [][JoinNext]_joinVars

-----------------------------------------------------------------------------
(* However little was read, the answer is the plain join of the left frame *)
(* when it was read and the right one when it was read, filtered: no row   *)
(* loses its match and none gets another one, and the columns asked for    *)
(* are there (join.py:181-264, 404-530, 597-672).                          *)
JoinsAgree ==
    join.pc = "done" =>
        /\ join.answer \in Heads(join.ask.n_rows,
               Filtered(join.ask.pred, JoinOf(join.ask, join.leftAt, join.rightAt)))
        /\ join.ask.kind = "join" => join.ask.wants \subseteq JoinedNames(LeftSelected(join.ask))
=============================================================================
