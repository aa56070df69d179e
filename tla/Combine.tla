------------------------------- MODULE Combine -------------------------------
(***************************************************************************)
(* pushdown_combine: a frame computed from sources by a combine function,  *)
(* whose filters are translated to filters of the sources by a             *)
(* specification of each output column: the source column it stands for,   *)
(* how far around its value the combine looks, and how its values map to   *)
(* those of the source.  ts_with_columns is one such combine.              *)
(*                                                                         *)
(* Output columns "at", an instant, and "day", its date, stand for the     *)
(* column "at" of the source, or for its validity interval from "at" to    *)
(* "end"; "key" and "other" stand for its column "key".  The combine gives *)
(* an output row for the source rows that serve it, as its specifications  *)
(* declare.  A conjunct of a predicate is the outputs it keeps with what   *)
(* IntervalVisitor and SetVisitor leave to each column.                    *)
(***************************************************************************)
EXTENDS Intervals, FiniteSetsExt

CONSTANTS
    CombineRows,    (* [at, end, key], the rows the source may have         *)
    Keys,           (* the values of the keys                              *)
    CombineAsks,    (* the combined frames and their queries               *)
    MaxEnumerated   (* _MAX_ENUMERATED_DAYS                                *)

VARIABLES
    rows,           (* the rows of the source                              *)
    combined        (* the collect of the combined frame                   *)

combineVars == <<rows, combined>>

Outputs == [at : Instants, key : Keys \union {Null}, other : Keys]
Day(i) == i - (i % 2)
Value(o, out) == IF out = "day" THEN Day(o.at) ELSE o[out]

(* A specification of a column or, where closed is given, of an interval.  *)
CombineSpec == [
    out : {"at", "day", "key", "other"}, col : {"at", "key"},
    closed : {None, "both", "left", "right", "none"},
    lookback : Nat, lookahead : Nat]

HasWindow(s) == s.lookback > 0 \/ s.lookahead > 0
IsInterval(s) == s.closed # None

ASSUME CombineAssumption ==
    /\ MaxEnumerated \in Nat /\ Null \notin Instants
    /\ \A r \in CombineRows : r.at \in Instants /\ r.end \in Instants
    /\ \A ask \in CombineAsks :
           /\ \A s \in ask.specs :
                  /\ [x \in DOMAIN s \ {"mapping", "around"} |-> s[x]] \in CombineSpec
                  /\ s.out \in {"at", "day"} <=> s.col = "at"
                  /\ IsInterval(s) => s.col = "at"
           /\ ask.pred # None => \A f \in ask.pred : \A o \in f.keeps :
                  /\ \A out \in DOMAIN f.spans : At(Value(o, out)) \in f.spans[out]
                  /\ \A out \in DOMAIN f.values : Value(o, out) \in f.values[out]

MapsTo(mapping, v) ==
    IF mapping = None \/ v \notin DOMAIN mapping THEN v ELSE mapping[v]

-----------------------------------------------------------------------------
(* The combine.                                                            *)

(* A source row serves an output through a specification: it overlaps the   *)
(* window around the value, which is a whole day of a datetime source, or  *)
(* around the value it maps to, which without a window is the value of the *)
(* source; a date of the source is a whole day too.                        *)
InWindow(ask, s, v, r) ==
    LET whole == s.out = "day" /\ ~ask.dated /\ (s.mapping = None \/ HasWindow(s))
    IN /\ r.at + (IF ask.dated THEN 1 ELSE 0) >= v - s.lookback
       /\ r.at <= v + s.lookahead + (IF whole THEN 1 ELSE 0)

(* A request lies in the interval; one for a day overlaps it.              *)
Covers(ask, s, v, r) ==
    LET whole == s.out = "day" /\ ~ask.dated
    IN /\ IF whole THEN r.at <= v + 1
          ELSE IF s.closed \in {"both", "left"} THEN r.at <= v ELSE r.at < v
       /\ IF s.closed \in {"both", "right"} THEN r.end >= v ELSE r.end > v

ServesBy(ask, s, o, r) ==
    LET v == Value(o, s.out)
    IN CASE IsInterval(s) -> Covers(ask, s, MapsTo(s.mapping, v), r)
         [] ~IsInterval(s) /\ s.col = "key" -> r.key = MapsTo(s.mapping, v)
         [] ~IsInterval(s) /\ s.col = "at" ->
                InWindow(ask, s, IF s.around = "value" THEN v ELSE MapsTo(s.mapping, v), r)

(* The columns that share the instant describe one row, those that share   *)
(* the key are alternatives.                                               *)
Serves(ask, o, r) ==
    /\ \A s \in ask.specs : s.col = "at" => ServesBy(ask, s, o, r)
    /\ LET keyed == {s \in ask.specs : s.col = "key"}
       IN keyed # {} => \E s \in keyed : ServesBy(ask, s, o, r)

(* An outer combine also gives the instants no row serves, with a null key. *)
Combined(ask, rs) ==
    LET seen(o) == {r \in rs : Serves(ask, o, r)}
        alone(o) == \A k \in Keys : seen([o EXCEPT !.key = k]) = {}
        fits(o) == ask.dated => OnDate(o.at)
    IN {[row |-> o, sees |-> seen(o)] :
            o \in {p \in Outputs : fits(p) /\ p.key # Null /\ seen(p) # {}}}
       \union {[row |-> o, sees |-> {}] :
            o \in {p \in Outputs : fits(p) /\ ask.outer /\ p.key = Null /\ alone(p)}}

-----------------------------------------------------------------------------
(* What the predicate leaves to a column.                                  *)

Extracted(ask, out) ==
    {p \in Line : ask.pred # None =>
        \A f \in ask.pred : out \in DOMAIN f.spans => p \in f.spans[out]}
HasRange(ask, out) == Extracted(ask, out) # Line

ValuesOf(ask, out) ==
    LET given == IF ask.pred = None THEN {} ELSE {f \in ask.pred : out \in DOMAIN f.values}
    IN IF given = {} THEN None
       ELSE {v \in UNION {f.values[out] : f \in given} : \A f \in given : v \in f.values[out]}
HasValues(ask, out) == ValuesOf(ask, out) \notin {None, {}} /\ Null \notin ValuesOf(ask, out)

(* _expand_to_source: the bounds of dates cover whole days of a datetime   *)
(* source, and the window of a date source is rounded out to dates.        *)
Expand(ask, s, positions) ==
    LET whole == IF s.out = "day" /\ ~ask.dated THEN FullDays(positions) ELSE positions
        widened == Lookahead(Lookback(whole, s.lookback), s.lookahead)
    IN IF ask.dated THEN FullDates(widened) ELSE widened
ExpandAll(ask, s, vs) == UNION {Expand(ask, s, {At(v)}) : v \in vs}

IsFinite(positions) == positions \intersect {Min(Line), Max(Line)} = {}

(* _enumerate_days: the dates of a range, if it is of dates and not long.   *)
EnumeratedDays(ask, s) ==
    LET range == Extracted(ask, s.out)
        days == {i \in Instants : OnDate(i) /\ At(i) \in range}
    IN IF (s.out = "day" \/ ask.dated) /\ IsFinite(range) /\ Cardinality(days) <= MaxEnumerated
       THEN days ELSE None

(* _member_enclosure: the positions the rows requested through a column may *)
(* need, or None.                                                          *)
MappedEnclosure(ask, s) ==
    LET vs == IF ValuesOf(ask, s.out) # None THEN ValuesOf(ask, s.out)
              ELSE IF HasRange(ask, s.out) THEN EnumeratedDays(ask, s) ELSE None
    IN IF ValuesOf(ask, s.out) = None /\ HasRange(ask, s.out) /\ vs = None
       THEN IF HasWindow(s) THEN Expand(ask, s, Extracted(ask, s.out)) ELSE None
       ELSE IF vs = None \/ Null \in vs \/ ~(vs \subseteq DOMAIN s.mapping) THEN None
       ELSE ExpandAll(ask, s, {s.mapping[v] : v \in vs})
            \union (IF HasWindow(s) THEN ExpandAll(ask, s, vs) ELSE {})

Enclosure(ask, s) ==
    CASE s.mapping # None -> MappedEnclosure(ask, s)
      [] s.mapping = None /\ HasRange(ask, s.out) -> Expand(ask, s, Extracted(ask, s.out))
      [] s.mapping = None /\ ~HasRange(ask, s.out) ->
             IF ValuesOf(ask, s.out) = None \/ Null \in ValuesOf(ask, s.out) THEN None
             ELSE ExpandAll(ask, s, ValuesOf(ask, s.out))

-----------------------------------------------------------------------------
(* The filters of the source.                                              *)

Members(ask, col) == {s \in ask.specs : s.col = col /\ ~IsInterval(s)}
Constrains(ask, s) == HasRange(ask, s.out) \/ ValuesOf(ask, s.out) # None
NaiveTemporal(ask, col) == col = "at" /\ ~ask.zoned

(* _window_group_filter: whether the sharers of a column are handled        *)
(* together, and the positions they leave, Line for no filter.             *)
MapsWindow(ask, col) == \E s \in Members(ask, col) : HasWindow(s) /\ s.mapping # None
Handled(ask, col) ==
    \E s \in Members(ask, col) :
        /\ HasWindow(s)
        /\ \/ ~NaiveTemporal(ask, col)
           \/ MapsWindow(ask, col)
           \/ Constrains(ask, s) /\ Enclosure(ask, s) = Line
GroupFilter(ask, col) ==
    LET constrained == {s \in Members(ask, col) : Constrains(ask, s)}
        enclosures == {Enclosure(ask, s) : s \in constrained}
    IN IF ~NaiveTemporal(ask, col) \/ ~MapsWindow(ask, col) \/ None \in enclosures \/ enclosures = {}
       THEN Line ELSE UNION enclosures

(* Pass 1: a range widened, or the overlap with its hull.                  *)
TemporalSpec(ask, s) ==
    /\ ~IsInterval(s) /\ HasRange(ask, s.out) /\ s.mapping = None
    /\ NaiveTemporal(ask, s.col) /\ ~Handled(ask, s.col)

ClosedLeft(s) == s.closed \in {"both", "right"}
ClosedRight(s) == s.closed \in {"both", "left"}

Lower(positions) == Min(positions) \div 2
Upper(positions) == (Max(positions) + 1) \div 2
Pushes(s, bound) == s.mapping = None \/ bound \in DOMAIN s.mapping

(* _apply_interval_filter: the end is compared with the lower bound and the *)
(* start with the upper one; a date covers its day of a datetime source.    *)
OverlapsHull(ask, s, r) ==
    LET range == Extracted(ask, s.out)
        lo == Lower(range)
        hi == Upper(range)
        end == IF ClosedLeft(s) THEN From(MapsTo(s.mapping, lo)) ELSE After(MapsTo(s.mapping, lo))
        start == IF s.out = "day" /\ ~ask.dated THEN Before(MapsTo(s.mapping, hi) + 2)
                 ELSE IF ClosedRight(s) THEN UpTo(MapsTo(s.mapping, hi))
                 ELSE Before(MapsTo(s.mapping, hi))
    IN range # {} /\ ~ask.zoned =>
        /\ Min(range) # Min(Line) /\ Pushes(s, lo) => At(r.end) \in end
        /\ Max(range) # Max(Line) /\ Pushes(s, hi) => At(r.at) \in start

(* Pass 2: the values of the columns left, unless pass 1 has encoded them;  *)
(* the sharers of a source column push the union of theirs, or nothing.    *)
Suppressed(ask, s) ==
    /\ TemporalSpec(ask, s) /\ Expand(ask, s, Extracted(ask, s.out)) # Line
    /\ HasWindow(s) \/ ~ask.dated
Discrete(ask, col) ==
    {s \in Members(ask, col) : ~Handled(ask, col) /\ ~Suppressed(ask, s)}

Mapped(s, vs) ==
    {MapsTo(s.mapping, v) : v \in IF s.mapping = None THEN vs ELSE vs \intersect DOMAIN s.mapping}
Known(ask, s) ==
    HasValues(ask, s.out) /\ (s.mapping = None \/ ValuesOf(ask, s.out) \subseteq DOMAIN s.mapping)

UnionFilterAnded(ask, members, v) ==
    \A s \in members : Known(ask, s) => v \in Mapped(s, ValuesOf(ask, s.out))

(* _union_discrete_filter *)
UnionFilter(ask, members, v) ==
    members # {} /\ (\A s \in members : Known(ask, s)) =>
        \E s \in members : v \in Mapped(s, ValuesOf(ask, s.out))

(* A predicate that is constantly false or null reads nothing.             *)
Never == [keeps |-> {}, spans |-> <<>>, values |-> <<>>]
KeepsNothing(ask) == ask.pred # None /\ ask.pred = {Never}

SourceFilter(ask, r) ==
    /\ ~KeepsNothing(ask)
    /\ \A col \in {"at", "key"} :
           /\ Handled(ask, col) => Within(r.at, GroupFilter(ask, col))
           /\ UnionFilter(ask, Discrete(ask, col), r[col])
    /\ \A s \in ask.specs :
           /\ TemporalSpec(ask, s) => Within(r.at, Expand(ask, s, Extracted(ask, s.out)))
           /\ IsInterval(s) /\ HasRange(ask, s.out) => OverlapsHull(ask, s, r)

-----------------------------------------------------------------------------
(* What the specifications have to say of the combine, the docstrings of    *)
(* FilterSpec and IntervalFilterSpec.                                      *)

Requests(ask, s) ==
    IF s.out = "day" \/ ask.dated THEN {i \in Instants : OnDate(i)} ELSE Instants

(* A mapping gives values of the source, dates for dates.                   *)
MapsRequests(ask, s) ==
    \A v \in DOMAIN s.mapping :
        /\ s.mapping[v] \in Instants
        /\ v \in Requests(ask, s) => s.mapping[v] \in Requests(ask, s)

(* A window is declared around the value or around what it maps to; the     *)
(* second is known only of values that can be told one by one.             *)
Declares(ask, s) ==
    /\ s.around \in {"value", "mapped"}
    /\ s.mapping # None /\ ~HasWindow(s) => s.around = "mapped"
    /\ s.around = "mapped" /\ s.mapping # None /\ HasWindow(s) /\ HasRange(ask, s.out) =>
           ValuesOf(ask, s.out) # None \/ EnumeratedDays(ask, s) # None

ASSUME CombineDeclared ==
    \A ask \in CombineAsks : \A s \in ask.specs :
        /\ ~IsInterval(s) => Declares(ask, s)
        /\ s.col = "at" /\ s.mapping # None => MapsRequests(ask, s)

-----------------------------------------------------------------------------
(* The queries for which the code reads too little, each against a text of  *)
(* its own; nothing refuses them.                                          *)

(* It "never drops an overlapping one" (l.157): but the mapped bounds of a  *)
(* range do not bound what its requests map to.                            *)
BoundsCross(ask, s) ==
    LET range == Extracted(ask, s.out)
    IN /\ IsInterval(s) /\ s.mapping # None
       /\ \E v \in Requests(ask, s) :
              /\ At(v) \in range
              /\ \E b \in {Lower(range), Upper(range)} \intersect DOMAIN s.mapping :
                     \/ b <= v /\ s.mapping[b] > MapsTo(s.mapping, v)
                     \/ v <= b /\ MapsTo(s.mapping, v) > s.mapping[b]

(* "Round sub-day bounds out to whole days" (l.414): but a lower bound at   *)
(* noon that is open stays open at its date.                               *)
OpensAtNoon(ask, s) ==
    LET range == Extracted(ask, s.out)
    IN /\ ~IsInterval(s) /\ ask.dated /\ s.lookback % 2 = 1
       /\ \E i \in Instants : ~OnDate(i) /\ At(i) \notin range /\ At(i) + 1 \in range

(* "We skip discrete filters for temporal columns when there's expansion"   *)
(* (l.858): but only if there is a range as well as values.                *)
WindowUndone(ask, s) ==
    /\ s.col = "at" /\ ~IsInterval(s) /\ s.mapping = None /\ HasWindow(s) /\ ~ask.zoned
    /\ HasValues(ask, s.out) /\ ~HasRange(ask, s.out)

(* The same for the days of a datetime source; one with a time zone "is     *)
(* left unfiltered" (l.925), but not by the values.                        *)
DaysUndone(ask, s) ==
    /\ s.out = "day" /\ ~IsInterval(s) /\ s.mapping = None /\ ~HasWindow(s) /\ ~ask.dated
    /\ HasValues(ask, s.out)
    /\ ask.zoned \/ FullDays(Extracted(ask, s.out)) = Line

FallsShort(ask) ==
    \E s \in ask.specs :
        BoundsCross(ask, s) \/ OpensAtNoon(ask, s) \/ WindowUndone(ask, s) \/ DaysUndone(ask, s)

-----------------------------------------------------------------------------
NoCombine == [pc |-> "idle", ask |-> None, read |-> {}, answer |-> {}]

CombineInit ==
    /\ rows \in SUBSET CombineRows
    /\ combined = NoCombine

(* A virtual column is not in the output: the predicate is restricted, and  *)
(* the combine gives the rows of the source.                               *)
Kept(ask, c) == ask.pred # None => \A f \in ask.pred : c.row \in f.keeps
Answers(ask, rs) == Heads(ask.n_rows, {c \in Combined(ask, rs) : Kept(ask, c)})

AskCombine(ask) ==
    /\ combined.pc = "idle"
    /\ ask.dated => \A r \in rows : OnDate(r.at) /\ OnDate(r.end)
    /\ LET read == {r \in rows : SourceFilter(ask, r)}
       IN \E answer \in (IF ask.virtual THEN {read} ELSE Answers(ask, read)) :
              combined' = [pc |-> "done", ask |-> ask, read |-> read, answer |-> answer]
    /\ UNCHANGED rows

CombineNext == \E ask \in CombineAsks : AskCombine(ask)

CombinedSpec == CombineInit /\ [][CombineNext]_combineVars

-----------------------------------------------------------------------------
LosesNothing(ask, answer) ==
    LET wanted == {c \in Combined(ask, rows) : Kept(ask, c)}
    IN IF ask.virtual THEN UNION {c.sees : c \in wanted} \subseteq answer
       ELSE answer \in Heads(ask.n_rows, wanted)

(* A combine that looks at no row beyond its declared windows gives the     *)
(* same filtered frame from the rows that were read as from all of them:   *)
(* every row of a window, a mapped value, a sharer or an overlap is read,   *)
(* and no output loses its match and survives with a null; where the       *)
(* request is virtual, every row it overlaps is given.  The queries that    *)
(* fall short are the only ones for which that is not so                   *)
(* (pushdown_combine.py:178-230, 328-378, 440-548, 825-1018).               *)
CombineAgrees ==
    combined.pc = "done" =>
        FallsShort(combined.ask) \/ LosesNothing(combined.ask, combined.answer)

(* The same of every query, as the comments promise: a discrete filter      *)
(* never undoes a window (pushdown_combine.py:856-859).                     *)
WindowsAreRead == combined.pc = "done" => LosesNothing(combined.ask, combined.answer)
=============================================================================
