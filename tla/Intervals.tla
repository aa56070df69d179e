----------------------------- MODULE Intervals -----------------------------
(***************************************************************************)
(* The intervals a predicate leaves to a date or datetime column, and the  *)
(* windows the joins and combinators widen them by (range_visitor.py).     *)
(* A day has two instants, midnight and noon; a date stands at its         *)
(* midnight.  Instant i lies at position 2 * i of the line, the odd         *)
(* positions are the gaps, so that a set of positions knows open bounds    *)
(* from closed ones, and its ends are infinite.                            *)
(***************************************************************************)
EXTENDS Integers, Frames

CONSTANT LastDay   (* bound on the days: 0..LastDay                        *)

ASSUME DaysAssumption == LastDay \in Nat

Days == 0..LastDay
Instants == 0..(2 * LastDay + 1)
Line == -1..(4 * LastDay + 3)

At(i) == 2 * i
Midnight(p) == IF p < 0 THEN p ELSE 4 * (p \div 4)
OnDate(i) == At(i) = Midnight(At(i))

After(i) == {p \in Line : p > At(i)}
From(i) == {p \in Line : p >= At(i)}
Before(i) == {p \in Line : p < At(i)}
UpTo(i) == {p \in Line : p <= At(i)}

(* Each bound is moved by t instants, or to infinity beyond the line.       *)
Lookback(s, t) == {p \in Line : \E q \in s : p <= q /\ q <= p + At(t)}
Lookahead(s, t) == {p \in Line : \E q \in s : q <= p /\ p <= q + At(t)}

(* _extend_dates_to_full_datetimes: a date bound covers its whole day.     *)
FullDays(s) == {p \in Line : Midnight(p) \in s}

(* _extend_to_full_dates: a bound after midnight is floored to its date,   *)
(* which the lower bound keeps only if it is closed.                       *)
FullDates(s) ==
    {p \in Line : /\ p = Midnight(p)
                  /\ \/ p \in s
                     \/ \E q \in s : q % 2 = 0 /\ q - 1 \notin s /\ Midnight(q) = p}

(* The rows a filter made from an interval keeps; the line makes none.     *)
Within(i, s) == s = Line \/ (i # Null /\ At(i) \in s)
=============================================================================
