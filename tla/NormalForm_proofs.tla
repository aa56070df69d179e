-------------------------- MODULE NormalForm_proofs --------------------------
(***************************************************************************)
(* What the readers rely on when they use what the visitors make of a      *)
(* predicate, for every set of columns, values and leaf expressions: its   *)
(* disjunctive normal form, negated or not, holds on every row it keeps,   *)
(* and the values and intervals it allows its target cover those rows, so  *)
(* each is read by exactly one partition of a split.                       *)
(***************************************************************************)
EXTENDS PredicateUses, PredicateVisitors_proofs, FiniteSetTheorems, WellFoundedInduction

-----------------------------------------------------------------------------
(* The invariant.  A negation takes one atom of every clause, so a DNF that *)
(* may be negated has a clause, and an atom in each of them; and where its *)
(* predicate is null one of its columns is, which a ternary relies on.     *)

SingleOps == {"=", "!=", ">", ">=", "<", "<="}

TypedAtom(a) ==
    /\ a \in Atom
    /\ a.op \in SingleOps => \E v \in Cell : a.vals = {v}

NullColumn(dnf, r) == \E clause \in dnf : \E a \in clause : r[a.col] = Null

MayBeNegated(sem, dnf) ==
    /\ dnf # {} /\ {} \notin dnf
    /\ \A r \in Rows : /\ sem[r] = False => Refuted(dnf, r)
                       /\ sem[r] = Unknown => NullColumn(dnf, r)

NormalOf(sem, normal) ==
    normal.dnf # None =>
        /\ \A clause \in normal.dnf : \A a \in clause : TypedAtom(a)
        /\ \A r \in Rows : sem[r] = True => Holds(normal.dnf, r)
        /\ normal.safe => MayBeNegated(sem, normal.dnf)

NormalInv(n) ==
    /\ n.sem \in [Rows -> Truth]
    /\ n.lit => \A r, s \in Rows : n.sem[r] = n.sem[s]
    /\ NormalOf(n.sem, n)

-----------------------------------------------------------------------------
(* Atoms.                                                                  *)

(* There are three truths, and what negation makes of them.                *)
LEMMA TruthCases ==
    /\ \A t \in Truth : t = False \/ t = Unknown \/ t = True
    /\ False # Unknown /\ False # True /\ Unknown # True
    /\ Not(False) = True /\ Not(Unknown) = Unknown /\ Not(True) = False
    /\ Known(TRUE) = True /\ Known(FALSE) = False
BY DEF Truth, False, Unknown, True, Not, Known

(* A cell of a row that is not null is a number.                           *)
LEMMA RowCells ==
    ASSUME NEW r \in Rows, NEW c \in Columns
    PROVE  r[c] \in Cell /\ (r[c] # Null => r[c] \in Int)
BY CellsAssumption DEF Rows, Cell

(* What each operator of an atom makes of a cell: a null is told only by   *)
(* the two tests for it.                                                   *)
LEMMA AtomCases ==
    ASSUME NEW a, NEW r
    PROVE  /\ a.op = "is" => AtomTruth(a, r) = IF r[a.col] = Null THEN True ELSE False
           /\ a.op = "is not" => AtomTruth(a, r) = IF r[a.col] # Null THEN True ELSE False
           /\ a.op \notin {"is", "is not"} /\ Blind(a, r) => AtomTruth(a, r) = Unknown
           /\ ~Blind(a, r) =>
                  /\ a.op = "="   => AtomTruth(a, r) = IF r[a.col] \in a.vals THEN True ELSE False
                  /\ a.op = "!="  => AtomTruth(a, r) = IF r[a.col] \notin a.vals THEN True ELSE False
                  /\ a.op = "in"  => AtomTruth(a, r) = IF r[a.col] \in a.vals THEN True ELSE False
                  /\ a.op = "!in" => AtomTruth(a, r) = IF r[a.col] \notin a.vals THEN True ELSE False
                  /\ a.op = ">"   => AtomTruth(a, r) = IF \A v \in a.vals : r[a.col] > v THEN True ELSE False
                  /\ a.op = ">="  => AtomTruth(a, r) = IF \A v \in a.vals : r[a.col] >= v THEN True ELSE False
                  /\ a.op = "<"   => AtomTruth(a, r) = IF \A v \in a.vals : r[a.col] < v THEN True ELSE False
                  /\ a.op = "<="  => AtomTruth(a, r) = IF \A v \in a.vals : r[a.col] <= v THEN True ELSE False
                  /\ a.op = "~"   => AtomTruth(a, r) = IF r[a.col] \in Matching THEN True ELSE False
                  /\ a.op = "!~"  => AtomTruth(a, r) = IF r[a.col] \notin Matching THEN True ELSE False
<1>1. a.op = "is" => AtomTruth(a, r) = IF r[a.col] = Null THEN True ELSE False
  BY DEF AtomTruth, Known
<1>2. a.op = "is not" => AtomTruth(a, r) = IF r[a.col] # Null THEN True ELSE False
  BY DEF AtomTruth, Known
<1>3. a.op \notin {"is", "is not"} /\ Blind(a, r) => AtomTruth(a, r) = Unknown
  BY DEF AtomTruth, Blind, Known
<1>4. a.op = "=" /\ ~Blind(a, r) => AtomTruth(a, r) = IF r[a.col] \in a.vals THEN True ELSE False
  BY DEF AtomTruth, Blind, Known
<1>5. a.op = "!=" /\ ~Blind(a, r) => AtomTruth(a, r) = IF r[a.col] \notin a.vals THEN True ELSE False
  BY DEF AtomTruth, Blind, Known
<1>6. a.op = "in" /\ ~Blind(a, r) => AtomTruth(a, r) = IF r[a.col] \in a.vals THEN True ELSE False
  BY DEF AtomTruth, Blind, Known
<1>7. a.op = "!in" /\ ~Blind(a, r) => AtomTruth(a, r) = IF r[a.col] \notin a.vals THEN True ELSE False
  BY DEF AtomTruth, Blind, Known
<1>8. a.op = ">" /\ ~Blind(a, r) => AtomTruth(a, r) = IF \A v \in a.vals : r[a.col] > v THEN True ELSE False
  BY DEF AtomTruth, Blind, Known
<1>9. a.op = ">=" /\ ~Blind(a, r) => AtomTruth(a, r) = IF \A v \in a.vals : r[a.col] >= v THEN True ELSE False
  BY DEF AtomTruth, Blind, Known
<1>10. a.op = "<" /\ ~Blind(a, r) => AtomTruth(a, r) = IF \A v \in a.vals : r[a.col] < v THEN True ELSE False
  BY DEF AtomTruth, Blind, Known
<1>11. a.op = "<=" /\ ~Blind(a, r) => AtomTruth(a, r) = IF \A v \in a.vals : r[a.col] <= v THEN True ELSE False
  BY DEF AtomTruth, Blind, Known
<1>12. a.op = "~" /\ ~Blind(a, r) => AtomTruth(a, r) = IF r[a.col] \in Matching THEN True ELSE False
  BY DEF AtomTruth, Blind, Known
<1>13. a.op = "!~" /\ ~Blind(a, r) => AtomTruth(a, r) = IF r[a.col] \notin Matching THEN True ELSE False
  BY DEF AtomTruth, Blind, Known
<1>. QED BY <1>1, <1>2, <1>3, <1>4, <1>5, <1>6, <1>7, <1>8, <1>9, <1>10, <1>11, <1>12, <1>13

(* What it takes for an atom to be true.                                   *)
LEMMA TrueAtom ==
    ASSUME NEW a, TypedAtom(a), NEW r \in Rows, AtomTruth(a, r) = True
    PROVE  /\ a.op = "is" => r[a.col] = Null
           /\ a.op # "is" => r[a.col] # Null
           /\ a.op \in {"=", "in"} => r[a.col] \in a.vals
           /\ a.op \in {"!=", "!in"} => r[a.col] \notin a.vals
           /\ a.op \in SingleOps => Null \notin a.vals
           /\ a.op = ">"  => \A v \in a.vals : r[a.col] > v
           /\ a.op = ">=" => \A v \in a.vals : r[a.col] >= v
           /\ a.op = "<"  => \A v \in a.vals : r[a.col] < v
           /\ a.op = "<=" => \A v \in a.vals : r[a.col] <= v
<1>1. a.op \in DnfOps
  BY DEF TypedAtom, Atom
<1>2. CASE a.op \in {"is", "is not"}
  BY <1>2, AtomCases, TruthCases DEF SingleOps
<1>3. CASE a.op \notin {"is", "is not"}
  <2>1. ~Blind(a, r)
    BY <1>3, AtomCases, TruthCases
  <2>2. r[a.col] # Null /\ (a.op \in SingleOps => Null \notin a.vals)
    BY <2>1 DEF Blind, SingleOps
  <2>. QED BY <1>1, <1>3, <2>1, <2>2, AtomCases, TruthCases DEF SingleOps, DnfOps
<1>. QED BY <1>2, <1>3

(* The negated operator is true where the operator is false and the other  *)
(* way round, and leaves the column alone.                                 *)
LEMMA NegatedAtom ==
    ASSUME NEW a, TypedAtom(a)
    PROVE  LET b == [a EXCEPT !.op = NegatedOp(a.op)]
           IN /\ TypedAtom(b) /\ b.col = a.col
              /\ \A r \in Rows : /\ AtomTruth(a, r) = False => AtomTruth(b, r) = True
                                 /\ AtomTruth(a, r) = True => AtomTruth(b, r) = False
<1>. DEFINE b == [a EXCEPT !.op = NegatedOp(a.op)]
<1>1. /\ a.op \in DnfOps /\ a.col \in Columns /\ a.vals \subseteq Cell
      /\ b \in Atom /\ b.op = NegatedOp(a.op) /\ b.col = a.col /\ b.vals = a.vals
  <2>1. a = [col |-> a.col, op |-> a.op, vals |-> a.vals] /\ a.op \in DnfOps
    BY DEF TypedAtom, Atom
  <2>2. NegatedOp(a.op) \in DnfOps
    BY <2>1 DEF NegatedOp, DnfOps
  <2>. QED BY <2>1, <2>2 DEF TypedAtom, Atom
<1>. HIDE DEF b
<1>2. TypedAtom(b)
  BY <1>1 DEF TypedAtom, NegatedOp, DnfOps, SingleOps
<1>3. ASSUME NEW r \in Rows
      PROVE  /\ AtomTruth(a, r) = False => AtomTruth(b, r) = True
             /\ AtomTruth(a, r) = True => AtomTruth(b, r) = False
  <2>. DEFINE x == r[a.col]
  <2>1. x = Null \/ x \in Int
    BY <1>1, RowCells
  <2>2. \A v \in a.vals : v = Null \/ v \in Int
    BY <1>1, CellsAssumption DEF Cell
  <2>3. /\ Blind(b, r) <=> Blind(a, r)
        /\ a.op \in {"is", "is not"} <=> b.op \in {"is", "is not"}
    BY <1>1 DEF Blind, NegatedOp, DnfOps
  <2>4. CASE a.op \in {"is", "is not"}
    BY <1>1, <2>4, AtomCases, TruthCases DEF NegatedOp
  <2>5. CASE a.op \notin {"is", "is not"} /\ Blind(a, r)
    BY <2>3, <2>5, AtomCases, TruthCases
  <2>6. CASE ~Blind(a, r) /\ a.op \in {"=", "!=", "in", "!in", "~", "!~"}
    BY <1>1, <2>3, <2>6, AtomCases, TruthCases DEF NegatedOp
  <2>7. CASE ~Blind(a, r) /\ a.op \in {">", ">=", "<", "<="}
    <3>1. PICK v \in Cell : a.vals = {v}
      BY <2>7 DEF TypedAtom, SingleOps
    <3>2. r[a.col] \in Int /\ v \in Int
      BY <2>1, <2>2, <2>7, <3>1 DEF Blind
    <3>3. /\ (\A u \in a.vals : r[a.col] > u) <=> r[a.col] > v
          /\ (\A u \in a.vals : r[a.col] >= u) <=> r[a.col] >= v
          /\ (\A u \in a.vals : r[a.col] < u) <=> r[a.col] < v
          /\ (\A u \in a.vals : r[a.col] <= u) <=> r[a.col] <= v
      BY <3>1
    <3>4. /\ (r[a.col] > v) <=> ~(r[a.col] <= v)
          /\ (r[a.col] >= v) <=> ~(r[a.col] < v)
      BY ONLY <3>2
    <3>5. CASE a.op = ">"
      <4>1. b.op = "<="
        BY <1>1, <3>5 DEF NegatedOp
      <4>. QED BY <1>1, <2>3, <2>7, <3>3, <3>4, <3>5, <4>1, AtomCases, TruthCases
    <3>6. CASE a.op = ">="
      <4>1. b.op = "<"
        BY <1>1, <3>6 DEF NegatedOp
      <4>. QED BY <1>1, <2>3, <2>7, <3>3, <3>4, <3>6, <4>1, AtomCases, TruthCases
    <3>7. CASE a.op = "<"
      <4>1. b.op = ">="
        BY <1>1, <3>7 DEF NegatedOp
      <4>. QED BY <1>1, <2>3, <2>7, <3>3, <3>4, <3>7, <4>1, AtomCases, TruthCases
    <3>8. CASE a.op = "<="
      <4>1. b.op = ">"
        BY <1>1, <3>8 DEF NegatedOp
      <4>. QED BY <1>1, <2>3, <2>7, <3>3, <3>4, <3>8, <4>1, AtomCases, TruthCases
    <3>. QED BY <2>7, <3>5, <3>6, <3>7, <3>8
  <2>. QED BY <1>1, <2>4, <2>5, <2>6, <2>7 DEF DnfOps
<1>. QED BY <1>1, <1>2, <1>3 DEF b

-----------------------------------------------------------------------------
(* Combining and negating DNFs.                                            *)

Typed(dnf) == \A clause \in dnf : \A a \in clause : TypedAtom(a)

Neg(a) == [a EXCEPT !.op = NegatedOp(a.op)]

Picks(dnf) == {q \in [dnf -> UNION dnf] : \A clause \in dnf : q[clause] \in clause}

(* The same, of the operator that negates an atom.                         *)
LEMMA NegFacts ==
    ASSUME NEW a, TypedAtom(a)
    PROVE  /\ TypedAtom(Neg(a)) /\ Neg(a).col = a.col
           /\ \A r \in Rows : /\ AtomTruth(a, r) = False => AtomTruth(Neg(a), r) = True
                              /\ AtomTruth(a, r) = True => AtomTruth(Neg(a), r) = False
BY NegatedAtom DEF Neg

(* The negation of a DNF holds where the DNF is refuted, is refuted where  *)
(* it holds, and keeps the null it had in one of its columns.              *)
LEMMA NegateFacts ==
    ASSUME NEW dnf, Typed(dnf)
    PROVE  /\ Typed(NegateDnf(dnf))
           /\ \A r \in Rows : /\ Refuted(dnf, r) => Holds(NegateDnf(dnf), r)
                              /\ Holds(dnf, r) => Refuted(NegateDnf(dnf), r)
           /\ dnf # {} /\ {} \notin dnf =>
                  /\ NegateDnf(dnf) # {} /\ {} \notin NegateDnf(dnf)
                  /\ \A r \in Rows : NullColumn(dnf, r) => NullColumn(NegateDnf(dnf), r)
<1>. DEFINE negated(p) == {Neg(p[clause]) : clause \in dnf}
<1>1. NegateDnf(dnf) = {negated(p) : p \in Picks(dnf)}
  BY DEF NegateDnf, Picks, Neg
<1>2. \A p \in Picks(dnf) : \A clause \in dnf : p[clause] \in clause
  BY DEF Picks
<1>4. Typed(NegateDnf(dnf))
  <2>1. SUFFICES ASSUME NEW p \in Picks(dnf), NEW clause \in dnf
                 PROVE  TypedAtom(Neg(p[clause]))
    BY <1>1 DEF Typed
  <2>. QED BY <1>2, NegFacts DEF Typed
<1>5. ASSUME NEW r \in Rows, Refuted(dnf, r) PROVE Holds(NegateDnf(dnf), r)
  <2>. DEFINE p == [clause \in dnf |-> CHOOSE a \in clause : AtomTruth(a, r) = False]
  <2>1. \A clause \in dnf : p[clause] \in clause /\ AtomTruth(p[clause], r) = False
    BY <1>5 DEF Refuted
  <2>2. p \in Picks(dnf)
    BY <2>1 DEF Picks
  <2>. HIDE DEF p
  <2>3. \A a \in negated(p) : AtomTruth(a, r) = True
    BY <2>1, NegFacts DEF Typed
  <2>. HIDE DEF negated
  <2>. QED BY <1>1, <2>2, <2>3 DEF Holds
<1>6. ASSUME NEW r \in Rows, Holds(dnf, r) PROVE Refuted(NegateDnf(dnf), r)
  <2>1. PICK clause \in dnf : \A a \in clause : AtomTruth(a, r) = True
    BY <1>6 DEF Holds
  <2>2. ASSUME NEW p \in Picks(dnf)
        PROVE  \E a \in negated(p) : AtomTruth(a, r) = False
    <3>1. p[clause] \in clause /\ TypedAtom(p[clause])
      BY <1>2 DEF Typed
    <3>2. AtomTruth(Neg(p[clause]), r) = False /\ Neg(p[clause]) \in negated(p)
      BY <2>1, <3>1, NegFacts
    <3>. QED BY <3>2
  <2>. HIDE DEF negated
  <2>. QED BY <1>1, <2>2 DEF Refuted
<1>7. ASSUME dnf # {}, {} \notin dnf
      PROVE  /\ NegateDnf(dnf) # {} /\ {} \notin NegateDnf(dnf)
             /\ \A r \in Rows : NullColumn(dnf, r) => NullColumn(NegateDnf(dnf), r)
  <2>1. {} \notin NegateDnf(dnf)
    BY <1>1, <1>7
  <2>2. ASSUME NEW chosen \in dnf, NEW a \in chosen
        PROVE  \E p \in Picks(dnf) : p[chosen] = a
    <3>. DEFINE p == [clause \in dnf |-> IF clause = chosen THEN a
                                        ELSE CHOOSE b \in clause : TRUE]
    <3>1. \A clause \in dnf : p[clause] \in clause
      BY <1>7
    <3>2. p \in Picks(dnf) /\ p[chosen] = a
      BY <3>1 DEF Picks
    <3>. QED BY <3>2
  <2>3. NegateDnf(dnf) # {}
    <3>1. PICK chosen \in dnf : \E a \in chosen : TRUE
      BY <1>7
    <3>2. Picks(dnf) # {}
      BY <2>2, <3>1
    <3>. HIDE DEF negated
    <3>. QED BY <1>1, <3>2
  <2>4. ASSUME NEW r \in Rows, NullColumn(dnf, r) PROVE NullColumn(NegateDnf(dnf), r)
    <3>0. PICK chosen \in dnf : \E a \in chosen : r[a.col] = Null
      BY <2>4 DEF NullColumn
    <3>1. PICK a \in chosen : r[a.col] = Null
      BY <3>0
    <3>2. PICK p \in Picks(dnf) : p[chosen] = a
      BY <2>2
    <3>3. Neg(a) \in negated(p) /\ r[Neg(a).col] = Null
      BY <3>1, <3>2, NegFacts DEF Typed
    <3>. HIDE DEF negated
    <3>. QED BY <1>1, <3>2, <3>3 DEF NullColumn
  <2>. QED BY <2>1, <2>3, <2>4
<1>. QED BY <1>4, <1>5, <1>6, <1>7

(* The product of two DNFs holds where both hold and is refuted where one  *)
(* is.                                                                     *)
LEMMA AndFacts ==
    ASSUME NEW a, NEW b, Typed(a), Typed(b), a # None, b # None
    PROVE  /\ AndDnf(a, b) # None => Typed(AndDnf(a, b))
           /\ \A r \in Rows : /\ Holds(a, r) /\ Holds(b, r) => Holds(AndDnf(a, b), r)
                              /\ Refuted(a, r) \/ Refuted(b, r) => Refuted(AndDnf(a, b), r)
           /\ a # {} /\ {} \notin a /\ b # {} /\ {} \notin b =>
                  /\ AndDnf(a, b) # {} /\ {} \notin AndDnf(a, b)
                  /\ \A r \in Rows : NullColumn(a, r) \/ NullColumn(b, r)
                                     => NullColumn(AndDnf(a, b), r)
<1>1. AndDnf(a, b) = {p[1] \union p[2] : p \in a \X b}
  BY DEF AndDnf
<1>2. \A x \in a, y \in b : x \union y \in AndDnf(a, b)
  <2>1. SUFFICES ASSUME NEW x \in a, NEW y \in b
                 PROVE  x \union y \in {p[1] \union p[2] : p \in a \X b}
    BY <1>1
  <2>2. <<x, y>> \in a \X b /\ <<x, y>>[1] = x /\ <<x, y>>[2] = y
    OBVIOUS
  <2>. QED BY <2>2
<1>3. \A z \in AndDnf(a, b) : \E x \in a, y \in b : z = x \union y
  BY <1>1
<1>4. Typed(AndDnf(a, b))
  BY <1>3 DEF Typed
<1>5. ASSUME NEW r \in Rows
      PROVE  /\ Holds(a, r) /\ Holds(b, r) => Holds(AndDnf(a, b), r)
             /\ Refuted(a, r) \/ Refuted(b, r) => Refuted(AndDnf(a, b), r)
  <2>1. ASSUME Holds(a, r), Holds(b, r) PROVE Holds(AndDnf(a, b), r)
    <3>1. PICK x \in a : \A e \in x : AtomTruth(e, r) = True
      BY <2>1 DEF Holds
    <3>2. PICK y \in b : \A e \in y : AtomTruth(e, r) = True
      BY <2>1 DEF Holds
    <3>3. \A e \in x \union y : AtomTruth(e, r) = True
      BY <3>1, <3>2
    <3>. QED BY <1>2, <3>3 DEF Holds
  <2>2. ASSUME Refuted(a, r) \/ Refuted(b, r) PROVE Refuted(AndDnf(a, b), r)
    BY <1>3, <2>2 DEF Refuted
  <2>. QED BY <2>1, <2>2
<1>6. ASSUME a # {}, {} \notin a, b # {}, {} \notin b
      PROVE  /\ AndDnf(a, b) # {} /\ {} \notin AndDnf(a, b)
             /\ \A r \in Rows : NullColumn(a, r) \/ NullColumn(b, r)
                                => NullColumn(AndDnf(a, b), r)
  <2>1. AndDnf(a, b) # {}
    BY <1>2, <1>6
  <2>2. {} \notin AndDnf(a, b)
    BY <1>3, <1>6
  <2>3. ASSUME NEW r \in Rows, NullColumn(a, r) \/ NullColumn(b, r)
        PROVE  NullColumn(AndDnf(a, b), r)
    <3>1. PICK x \in a, y \in b : (\E e \in x : r[e.col] = Null) \/ (\E e \in y : r[e.col] = Null)
      BY <1>6, <2>3 DEF NullColumn
    <3>. QED BY <1>2, <3>1 DEF NullColumn
  <2>. QED BY <2>1, <2>2, <2>3
<1>. QED BY <1>4, <1>5, <1>6

-----------------------------------------------------------------------------
(* A clause that is found to contradict itself holds on no row: the cell of *)
(* a row it holds on is a valid value, and lies between all the bounds.    *)

LEMMA ContradictionSound ==
    ASSUME NEW clause, \A a \in clause : TypedAtom(a), NEW hasSchema,
           NEW r \in Rows, \A a \in clause : AtomTruth(a, r) = True
    PROVE  ~IsContradiction(clause, hasSchema)
<1>. SUFFICES ASSUME NEW c \in Columns PROVE ~Contradictory(clause, c, hasSchema)
  BY DEF IsContradiction, TypedAtom, Atom
<1>. DEFINE x == r[c]
            exact == Vals(clause, c, {"="})
            ins == Inclusions(clause, c)
            common == {v \in UNION ins : \A s \in ins : v \in s}
<1>1. ASSUME NEW a \in clause, a.col = c
      PROVE  /\ a.op = "is" => x = Null
             /\ a.op # "is" => x # Null
             /\ a.op \in {"=", "in"} => x \in a.vals
             /\ a.op \in {"!=", "!in"} => x \notin a.vals
             /\ a.op = "=" => a.vals = {x}
             /\ a.op = ">"  => \A v \in a.vals : x > v
             /\ a.op = ">=" => \A v \in a.vals : x >= v
             /\ a.op = "<"  => \A v \in a.vals : x < v
             /\ a.op = "<=" => \A v \in a.vals : x <= v
  <2>1. TypedAtom(a) /\ AtomTruth(a, r) = True
    OBVIOUS
  <2>2. a.op = "=" /\ x \in a.vals => a.vals = {x}
    BY <2>1 DEF TypedAtom, SingleOps
  <2>. QED BY <1>1, <2>1, <2>2, TrueAtom
<1>2. /\ "is" \in Ops(clause, c) => x = Null
      /\ "is not" \in Ops(clause, c) => x # Null
  BY <1>1 DEF Ops
<1>3. /\ \A v \in exact : v = x
      /\ \A s \in ins : x \in s /\ x # Null
      /\ x \notin Vals(clause, c, {"!=", "!in"})
  BY <1>1 DEF Vals, Inclusions
<1>4. /\ \A v \in Bounds(clause, c, {">"}) : x > v
      /\ \A v \in Bounds(clause, c, {">="}) : x >= v
      /\ \A v \in Bounds(clause, c, {"<"}) : x < v
      /\ \A v \in Bounds(clause, c, {"<="}) : x <= v
  BY <1>1 DEF Bounds, Vals
<1>5. \A ops : ops \subseteq {">", ">=", "<", "<="} =>
          /\ Bounds(clause, c, ops) \subseteq Int
          /\ Bounds(clause, c, ops) # {} => x # Null
  <2>1. ASSUME NEW ops, ops \subseteq {">", ">=", "<", "<="},
               NEW v \in Bounds(clause, c, ops)
        PROVE  v \in Int /\ x # Null
    <3>1. PICK a \in clause : a.col = c /\ a.op \in ops /\ v \in a.vals /\ v # Null
      BY <2>1 DEF Bounds, Vals
    <3>2. v \in Int
      BY <3>1, CellsAssumption DEF TypedAtom, Atom, Cell
    <3>. QED BY <1>1, <2>1, <3>1, <3>2
  <2>. QED BY <2>1
<1>6. x # Null => x \in Int
  BY RowCells
<1>7. ValidValue(clause, c, x)
  <2>1. exact # {} => x \in exact
    BY <1>3
  <2>. QED BY <1>2, <1>3, <1>4, <2>1 DEF ValidValue, WithinBounds
<1>8. /\ \A lo \in Lower(clause, c) : lo \in Int /\ x # Null /\ lo <= x
      /\ \A hi \in Upper(clause, c) : hi \in Int /\ x # Null /\ x <= hi
  <2>1. /\ \A lo \in Lower(clause, c) :
               lo \in Bounds(clause, c, {">"}) \/ lo \in Bounds(clause, c, {">="})
        /\ \A hi \in Upper(clause, c) :
               hi \in Bounds(clause, c, {"<"}) \/ hi \in Bounds(clause, c, {"<="})
    BY DEF Lower, Upper, Bounds, Vals
  <2>2. /\ \A lo \in Lower(clause, c) : lo \in Int /\ x # Null
        /\ \A hi \in Upper(clause, c) : hi \in Int /\ x # Null
    BY <1>5 DEF Lower, Upper
  <2>. QED BY <1>4, <1>6, <2>1, <2>2
<1>9. ~BoundsCross(clause, c)
  <2>1. \A lo \in Bounds(clause, c, {">"}) : lo \in Int
    BY <1>5
  <2>2. \A hi \in Bounds(clause, c, {"<"}) : hi \in Int
    BY <1>5
  <2>. QED BY <1>4, <1>6, <1>8, <2>1, <2>2 DEF BoundsCross
<1>10. ins # {} => x \in common
  BY <1>3
<1>11. \A lo \in Lower(clause, c), hi \in Upper(clause, c) : x \in lo..hi
  BY <1>6, <1>8
<1>12. ~("is" \in Ops(clause, c) /\ Lower(clause, c) \union Upper(clause, c) # {})
  BY <1>2, <1>8
<1>. QED BY <1>2, <1>3, <1>7, <1>9, <1>10, <1>11, <1>12 DEF Contradictory

-----------------------------------------------------------------------------
(* The leaves.                                                             *)

(* The fields of an atom.                                                  *)
LEMMA AtFields ==
    ASSUME NEW c, NEW op, NEW vals
    PROVE  /\ At(c, op, vals).col = c /\ At(c, op, vals).op = op
           /\ At(c, op, vals).vals = vals
BY DEF At

(* An atom of one value has its type.                                      *)
LEMMA AtSingle ==
    ASSUME NEW c \in Columns, NEW v \in Cell
    PROVE  \A op \in SingleOps : TypedAtom(At(c, op, {v}))
<1>1. SingleOps \subseteq DnfOps
  BY DEF SingleOps, DnfOps
<1>. QED BY <1>1 DEF At, TypedAtom, Atom

(* An atom of many values has its type.                                    *)
LEMMA AtMany ==
    ASSUME NEW c \in Columns, NEW vals, vals \subseteq Cell
    PROVE  \A op \in DnfOps \ SingleOps : TypedAtom(At(c, op, vals))
BY DEF At, TypedAtom, Atom

(* The atoms that test for null, and what they mean.                       *)
LEMMA AtNulls ==
    ASSUME NEW c \in Columns
    PROVE  /\ TypedAtom(At(c, "is", {})) /\ TypedAtom(At(c, "is not", {}))
           /\ At(c, "is", {}).col = c /\ At(c, "is", {}).op = "is"
           /\ At(c, "is not", {}).col = c /\ At(c, "is not", {}).op = "is not"
           /\ \A r : /\ AtomTruth(At(c, "is", {}), r) = IF r[c] = Null THEN True ELSE False
                     /\ AtomTruth(At(c, "is not", {}), r) = IF r[c] # Null THEN True ELSE False
<1>1. {"is", "is not"} \subseteq DnfOps \ SingleOps
  BY DEF SingleOps, DnfOps
<1>2. TypedAtom(At(c, "is", {})) /\ TypedAtom(At(c, "is not", {}))
  BY <1>1, AtMany
<1>3. /\ At(c, "is", {}).col = c /\ At(c, "is", {}).op = "is"
      /\ At(c, "is not", {}).col = c /\ At(c, "is not", {}).op = "is not"
  BY DEF At
<1>4. ASSUME NEW r
      PROVE  /\ AtomTruth(At(c, "is", {}), r) = IF r[c] = Null THEN True ELSE False
             /\ AtomTruth(At(c, "is not", {}), r) = IF r[c] # Null THEN True ELSE False
  BY <1>3 DEF AtomTruth, Known
<1>. QED BY <1>2, <1>3, <1>4

(* A DNF of one atom that says what the leaf says is a normal form of the  *)
(* leaf.                                                                   *)
LEMMA OneAtom ==
    ASSUME NEW sem, NEW a, TypedAtom(a), NEW normal, normal.dnf = {{a}},
           \A r \in Rows : sem[r] = True => AtomTruth(a, r) = True,
           normal.safe => \A r \in Rows :
               /\ sem[r] = False => AtomTruth(a, r) = False
               /\ sem[r] = Unknown => r[a.col] = Null
    PROVE  NormalOf(sem, normal)
BY DEF NormalOf, MayBeNegated, Holds, Refuted, NullColumn

(* An atom that compares no null decides every row.                        *)
LEMMA SeenAtom ==
    ASSUME NEW a, NEW r, ~Blind(a, r)
    PROVE  AtomTruth(a, r) # Unknown
BY DEF AtomTruth, Known, True, False, Unknown

(* A predicate on one column that answers as an atom does.                 *)
LEMMA SameAtom ==
    ASSUME NEW sem, NEW a, TypedAtom(a), NEW normal, normal.dnf = {{a}},
           \A r \in Rows : sem[r] = AtomTruth(a, r),
           normal.safe => a.op \in {"in", "!in"} \/ Null \notin a.vals
    PROVE  NormalOf(sem, normal)
<1>1. ASSUME NEW r \in Rows, normal.safe, AtomTruth(a, r) = Unknown
      PROVE  r[a.col] = Null
  <2>1. CASE Blind(a, r)
    BY <1>1, <2>1 DEF Blind
  <2>2. CASE ~Blind(a, r)
    BY <1>1, <2>2, SeenAtom
  <2>. QED BY <2>1, <2>2
<1>. QED BY <1>1, OneAtom

(* What polars makes of a comparison, operator by operator.                *)
LEMMA CompareCases ==
    ASSUME NEW x, NEW y
    PROVE  /\ Compare("eqv", x, y) = IF x = y THEN True ELSE False
           /\ Compare("nev", x, y) = IF x # y THEN True ELSE False
           /\ \A op \in {"eq", "ne", "gt", "gte", "lt", "lte"} :
                  x = Null \/ y = Null => Compare(op, x, y) = Unknown
           /\ x # Null /\ y # Null =>
                  /\ Compare("eq", x, y)  = IF x = y THEN True ELSE False
                  /\ Compare("ne", x, y)  = IF x # y THEN True ELSE False
                  /\ Compare("gt", x, y)  = IF x > y THEN True ELSE False
                  /\ Compare("gte", x, y) = IF x >= y THEN True ELSE False
                  /\ Compare("lt", x, y)  = IF x < y THEN True ELSE False
                  /\ Compare("lte", x, y) = IF x <= y THEN True ELSE False
BY DEF Compare, Known

(* A comparison has one of the three truths.                               *)
LEMMA CompareTruth ==
    ASSUME NEW x \in Cell, NEW y \in Cell, NEW op \in Comparisons
    PROVE  Compare(op, x, y) \in Truth
BY CompareCases DEF Truth, True, False, Unknown, Comparisons, Orderings

(* A comparison with the column on the right is the flipped one.           *)
LEMMA FlippedFacts ==
    ASSUME NEW x \in Cell, NEW y \in Cell, NEW op \in Comparisons
    PROVE  /\ Flipped(op) \in Comparisons
           /\ Compare(op, y, x) = Compare(Flipped(op), x, y)
<1>1. /\ op \in {"eq", "ne", "eqv", "nev"} => Flipped(op) = op
      /\ op = "gt" => Flipped(op) = "lt"
      /\ op = "lt" => Flipped(op) = "gt"
      /\ op = "gte" => Flipped(op) = "lte"
      /\ op = "lte" => Flipped(op) = "gte"
  BY DEF Flipped
<1>2. /\ x = Null \/ x \in Int
      /\ y = Null \/ y \in Int
  BY CellsAssumption DEF Cell
<1>3. x \in Int /\ y \in Int => /\ (y > x) <=> (x < y)
                                /\ (y >= x) <=> (x <= y)
                                /\ (y < x) <=> (x > y)
                                /\ (y <= x) <=> (x >= y)
  OBVIOUS
<1>. QED BY <1>1, <1>2, <1>3, CompareCases DEF Comparisons, Orderings

PlainOps == {"eq", "ne", "gt", "gte", "lt", "lte"}

(* The atom of a comparison answers as the comparison does.                *)
LEMMA CompareAtom ==
    ASSUME NEW c \in Columns, NEW v \in Cell,
           NEW op \in PlainOps
    PROVE  LET a == At(c, DnfOp(op), {v})
           IN /\ TypedAtom(a) /\ a.col = c /\ a.op \in SingleOps /\ a.vals = {v}
              /\ \A r \in Rows : AtomTruth(a, r) = Compare(op, r[c], v)
<1>. DEFINE a == At(c, DnfOp(op), {v})
<1>1. /\ op = "eq" => DnfOp(op) = "="
      /\ op = "ne" => DnfOp(op) = "!="
      /\ op = "gt" => DnfOp(op) = ">"
      /\ op = "gte" => DnfOp(op) = ">="
      /\ op = "lt" => DnfOp(op) = "<"
      /\ op = "lte" => DnfOp(op) = "<="
  BY DEF DnfOp
<1>2. DnfOp(op) \in SingleOps
  BY <1>1 DEF SingleOps, PlainOps
<1>3. TypedAtom(a) /\ a.col = c /\ a.op = DnfOp(op) /\ a.vals = {v}
  BY <1>2, AtSingle, AtFields
<1>. HIDE DEF a
<1>4. ASSUME NEW r \in Rows PROVE AtomTruth(a, r) = Compare(op, r[c], v)
  <2>1. CASE r[c] = Null \/ v = Null
    <3>1. Blind(a, r) /\ a.op \notin {"is", "is not"}
      BY <1>2, <1>3, <2>1 DEF Blind, SingleOps
    <3>2. AtomTruth(a, r) = Unknown
      BY <3>1, AtomCases
    <3>3. Compare(op, r[c], v) = Unknown
      BY <2>1, CompareCases DEF PlainOps
    <3>. QED BY <3>2, <3>3
  <2>2. CASE r[c] # Null /\ v # Null
    <3>1. ~Blind(a, r)
      BY <1>3, <2>2 DEF Blind
    <3>2. /\ (\A u \in a.vals : r[a.col] > u) <=> r[c] > v
          /\ (\A u \in a.vals : r[a.col] >= u) <=> r[c] >= v
          /\ (\A u \in a.vals : r[a.col] < u) <=> r[c] < v
          /\ (\A u \in a.vals : r[a.col] <= u) <=> r[c] <= v
          /\ r[a.col] \in a.vals <=> r[c] = v
      BY <1>3
    <3>3. CASE op = "eq"
      <4>1. Compare(op, r[c], v) = IF r[c] = v THEN True ELSE False
        BY <2>2, <3>3, CompareCases
      <4>2. a.op = "="
        BY <1>1, <1>3, <3>3
      <4>3. AtomTruth(a, r) = IF r[a.col] \in a.vals THEN True ELSE False
        BY <3>1, <4>2, AtomCases
      <4>. QED BY <3>2, <4>1, <4>3
    <3>4. CASE op = "ne"
      <4>1. Compare(op, r[c], v) = IF r[c] # v THEN True ELSE False
        BY <2>2, <3>4, CompareCases
      <4>2. a.op = "!="
        BY <1>1, <1>3, <3>4
      <4>3. AtomTruth(a, r) = IF r[a.col] \notin a.vals THEN True ELSE False
        BY <3>1, <4>2, AtomCases
      <4>. QED BY <3>2, <4>1, <4>3
    <3>5. CASE op = "gt"
      <4>1. Compare(op, r[c], v) = IF r[c] > v THEN True ELSE False
        BY <2>2, <3>5, CompareCases
      <4>2. a.op = ">"
        BY <1>1, <1>3, <3>5
      <4>3. AtomTruth(a, r) = IF \A u \in a.vals : r[a.col] > u THEN True ELSE False
        BY <3>1, <4>2, AtomCases
      <4>. QED BY <3>2, <4>1, <4>3
    <3>6. CASE op = "gte"
      <4>1. Compare(op, r[c], v) = IF r[c] >= v THEN True ELSE False
        BY <2>2, <3>6, CompareCases
      <4>2. a.op = ">="
        BY <1>1, <1>3, <3>6
      <4>3. AtomTruth(a, r) = IF \A u \in a.vals : r[a.col] >= u THEN True ELSE False
        BY <3>1, <4>2, AtomCases
      <4>. QED BY <3>2, <4>1, <4>3
    <3>7. CASE op = "lt"
      <4>1. Compare(op, r[c], v) = IF r[c] < v THEN True ELSE False
        BY <2>2, <3>7, CompareCases
      <4>2. a.op = "<"
        BY <1>1, <1>3, <3>7
      <4>3. AtomTruth(a, r) = IF \A u \in a.vals : r[a.col] < u THEN True ELSE False
        BY <3>1, <4>2, AtomCases
      <4>. QED BY <3>2, <4>1, <4>3
    <3>8. CASE op = "lte"
      <4>1. Compare(op, r[c], v) = IF r[c] <= v THEN True ELSE False
        BY <2>2, <3>8, CompareCases
      <4>2. a.op = "<="
        BY <1>1, <1>3, <3>8
      <4>3. AtomTruth(a, r) = IF \A u \in a.vals : r[a.col] <= u THEN True ELSE False
        BY <3>1, <4>2, AtomCases
      <4>. QED BY <3>2, <4>1, <4>3
    <3>. QED BY <3>3, <3>4, <3>5, <3>6, <3>7, <3>8 DEF PlainOps
  <2>. QED BY <2>1, <2>2
<1>5. a.op \in SingleOps
  BY <1>2, <1>3
<1>. QED BY <1>3, <1>4, <1>5 DEF a

(* The DNF of a comparison, null literals and missing-aware ones included. *)
LEMMA ComparisonNormal ==
    ASSUME NEW c \in Columns, NEW op \in Comparisons, NEW v \in Cell, NEW sem,
           \A r \in Rows : sem[r] = Compare(op, r[c], v)
    PROVE  NormalOf(sem, SetComparison(c, op, v))
<1>. SUFFICES ASSUME NEW normal, normal = SetComparison(c, op, v)
              PROVE  NormalOf(sem, normal)
  OBVIOUS
<1>1. CASE op \notin {"eqv", "nev"}
  <2>. DEFINE a == At(c, DnfOp(op), {v})
  <2>1. op \in PlainOps
    BY <1>1 DEF Comparisons, Orderings, PlainOps
  <2>2. /\ TypedAtom(a) /\ a.col = c /\ a.vals = {v}
        /\ \A r \in Rows : AtomTruth(a, r) = Compare(op, r[c], v)
    <3>1. TypedAtom(a) /\ \A r \in Rows : AtomTruth(a, r) = Compare(op, r[c], v)
      BY <2>1, CompareAtom
    <3>2. a.col = c /\ a.vals = {v}
      BY AtFields
    <3>. QED BY <3>1, <3>2
  <2>3. normal.dnf = {{a}} /\ (normal.safe => v # Null)
    BY <1>1 DEF SetComparison
  <2>. HIDE DEF a
  <2>4. \A r \in Rows : sem[r] = AtomTruth(a, r)
    BY <2>2
  <2>. QED BY <2>2, <2>3, <2>4, SameAtom
<1>2. CASE op = "eqv" /\ v = Null
  <2>. DEFINE a == At(c, "is", {})
  <2>1. TypedAtom(a) /\ a.col = c /\ a.op = "is" /\ a.vals = {}
    <3>1. a.col = c /\ a.op = "is" /\ a.vals = {}
      BY DEF At
    <3>. QED BY <3>1, AtNulls
  <2>2. normal.dnf = {{a}}
    BY <1>2 DEF SetComparison
  <2>. HIDE DEF a
  <2>3. ASSUME NEW r \in Rows PROVE sem[r] = AtomTruth(a, r)
    <3>1. sem[r] = IF r[c] = Null THEN True ELSE False
      BY <1>2, CompareCases
    <3>. QED BY <2>1, <3>1, AtomCases
  <2>4. normal.safe => a.op \in {"in", "!in"} \/ Null \notin a.vals
    <3>1. Null \notin a.vals
      BY ONLY <2>1
    <3>. QED BY ONLY <3>1
  <2>5. TypedAtom(a)
    BY <2>1
  <2>. QED BY ONLY <2>2, <2>3, <2>4, <2>5, SameAtom
<1>3. CASE op = "eqv" /\ v # Null
  <2>. DEFINE a == At(c, "=", {v})
  <2>1. TypedAtom(a) /\ a.col = c /\ a.op = "=" /\ a.vals = {v}
    BY AtSingle, AtFields DEF SingleOps
  <2>2. normal.dnf = {{a}} /\ ~normal.safe
    BY <1>3 DEF SetComparison
  <2>. HIDE DEF a
  <2>3. ASSUME NEW r \in Rows, sem[r] = True PROVE AtomTruth(a, r) = True
    <3>1. r[c] = v
      BY <1>3, <2>3, CompareCases, TruthCases
    <3>2. ~Blind(a, r)
      BY <1>3, <2>1, <3>1 DEF Blind
    <3>. QED BY <2>1, <3>1, <3>2, AtomCases
  <2>. QED BY ONLY <2>1, <2>2, <2>3, OneAtom
<1>4. CASE op = "nev" /\ v = Null
  <2>. DEFINE a == At(c, "is not", {})
  <2>1. TypedAtom(a) /\ a.col = c /\ a.op = "is not" /\ a.vals = {}
    <3>1. a.col = c /\ a.op = "is not" /\ a.vals = {}
      BY DEF At
    <3>. QED BY <3>1, AtNulls
  <2>2. normal.dnf = {{a}}
    BY <1>4 DEF SetComparison
  <2>. HIDE DEF a
  <2>3. ASSUME NEW r \in Rows PROVE sem[r] = AtomTruth(a, r)
    <3>1. sem[r] = IF r[c] # Null THEN True ELSE False
      BY <1>4, CompareCases
    <3>. QED BY <2>1, <3>1, AtomCases
  <2>4. normal.safe => a.op \in {"in", "!in"} \/ Null \notin a.vals
    <3>1. Null \notin a.vals
      BY ONLY <2>1
    <3>. QED BY ONLY <3>1
  <2>5. TypedAtom(a)
    BY <2>1
  <2>. QED BY ONLY <2>2, <2>3, <2>4, <2>5, SameAtom
<1>5. CASE op = "nev" /\ v # Null
  <2>. DEFINE a == At(c, "!=", {v})
              b == At(c, "is", {})
  <2>1. /\ TypedAtom(a) /\ a.col = c /\ a.op = "!=" /\ a.vals = {v}
        /\ TypedAtom(b) /\ b.col = c /\ b.op = "is"
    <3>1. a.col = c /\ a.op = "!=" /\ a.vals = {v} /\ b.col = c /\ b.op = "is"
      BY DEF At
    <3>2. TypedAtom(a)
      BY AtSingle DEF SingleOps
    <3>. QED BY <3>1, <3>2, AtNulls
  <2>2. normal.dnf = {{a}, {b}}
    BY <1>5 DEF SetComparison
  <2>. HIDE DEF a, b
  <2>3. ASSUME NEW r \in Rows
        PROVE  /\ sem[r] = True => AtomTruth(a, r) = True \/ AtomTruth(b, r) = True
               /\ sem[r] = False => AtomTruth(a, r) = False /\ AtomTruth(b, r) = False
               /\ sem[r] # Unknown
    <3>1. sem[r] = IF r[c] # v THEN True ELSE False
      BY <1>5, CompareCases
    <3>2. AtomTruth(b, r) = IF r[c] = Null THEN True ELSE False
      BY <2>1 DEF AtomTruth, Known
    <3>3. r[c] # Null => AtomTruth(a, r) = IF r[c] # v THEN True ELSE False
      BY <1>5, <2>1, AtomCases DEF Blind
    <3>. QED BY <1>5, <3>1, <3>2, <3>3, TruthCases
  <2>. QED BY <2>1, <2>2, <2>3 DEF NormalOf, MayBeNegated, Holds, Refuted
<1>. QED BY <1>1, <1>2, <1>3, <1>4, <1>5

(* The DNF of is_in, with nulls in the list or without.                    *)
LEMMA IsInNormal ==
    ASSUME NEW c \in Columns, NEW vals, vals \subseteq Cell, NEW eq \in BOOLEAN, NEW sem,
           \A r \in Rows : sem[r] = IsIn(r[c], vals, eq)
    PROVE  NormalOf(sem, DnfIsIn(c, vals, eq))
<1>. SUFFICES ASSUME NEW normal, normal = DnfIsIn(c, vals, eq)
              PROVE  NormalOf(sem, normal)
  OBVIOUS
<1>. DEFINE a == At(c, "in", vals)
<1>0. "in" \in DnfOps \ SingleOps
  BY DEF DnfOps, SingleOps
<1>1. TypedAtom(a) /\ a.col = c /\ a.op = "in" /\ a.vals = vals
  BY <1>0, AtMany, AtFields
<1>2. CASE eq = TRUE /\ Null \in vals
  <2>. DEFINE b == At(c, "in", vals \ {Null})
              z == At(c, "is", {})
  <2>1. /\ TypedAtom(b) /\ b.col = c /\ b.op = "in" /\ b.vals = vals \ {Null}
        /\ TypedAtom(z) /\ \A r \in Rows : AtomTruth(z, r) = IF r[c] = Null THEN True ELSE False
    <3>1. vals \ {Null} \subseteq Cell
      OBVIOUS
    <3>2. TypedAtom(b)
      BY <1>0, <3>1, AtMany
    <3>3. b.col = c /\ b.op = "in" /\ b.vals = vals \ {Null}
      BY AtFields
    <3>4. TypedAtom(z) /\ z.col = c /\ z.op = "is"
      BY AtNulls
    <3>. HIDE DEF b, z
    <3>5. ASSUME NEW r \in Rows PROVE AtomTruth(z, r) = IF r[c] = Null THEN True ELSE False
      BY <3>4, AtomCases
    <3>. QED BY <3>2, <3>3, <3>4, <3>5
  <2>2. normal.dnf = {{b} : x \in vals \ {Null}} \union {{z}} /\ ~normal.safe
    BY <1>2 DEF DnfIsIn
  <2>. HIDE DEF b, z
  <2>3. \A clause \in normal.dnf : \A e \in clause : TypedAtom(e)
    BY <2>1, <2>2
  <2>4. ASSUME NEW r \in Rows, sem[r] = True PROVE Holds(normal.dnf, r)
    <3>0. sem[r] = IF r[c] \in vals THEN True ELSE False
      BY <1>2 DEF IsIn, Known
    <3>1. r[c] \in vals
      BY <2>4, <3>0, TruthCases
    <3>2. CASE r[c] = Null
      <4>1. AtomTruth(z, r) = True /\ {z} \in normal.dnf
        BY <2>1, <2>2, <3>2
      <4>. QED BY <4>1 DEF Holds
    <3>3. CASE r[c] # Null
      <4>1. ~Blind(b, r)
        BY <2>1, <3>3 DEF Blind
      <4>2. AtomTruth(b, r) = IF r[b.col] \in b.vals THEN True ELSE False
        BY <2>1, <4>1, AtomCases
      <4>3. AtomTruth(b, r) = True /\ {b} \in normal.dnf
        BY <2>1, <2>2, <3>1, <3>3, <4>2
      <4>. QED BY <4>3 DEF Holds
    <3>. QED BY <3>2, <3>3
  <2>. QED BY <2>2, <2>3, <2>4 DEF NormalOf
<1>3. CASE eq = TRUE /\ Null \notin vals
  <2>1. normal.dnf = {{a}} /\ ~normal.safe
    BY <1>3 DEF DnfIsIn
  <2>. HIDE DEF a
  <2>2. ASSUME NEW r \in Rows, sem[r] = True PROVE AtomTruth(a, r) = True
    <3>0. sem[r] = IF r[c] \in vals THEN True ELSE False
      BY <1>3 DEF IsIn, Known
    <3>1. r[c] \in vals
      BY <2>2, <3>0, TruthCases
    <3>2. ~Blind(a, r)
      BY <1>1, <1>3, <3>1 DEF Blind
    <3>. QED BY <1>1, <3>1, <3>2, AtomCases
  <2>. QED BY ONLY <1>1, <2>1, <2>2, OneAtom
<1>4. CASE eq = FALSE
  <2>1. normal.dnf = {{a}}
    BY <1>4 DEF DnfIsIn
  <2>. HIDE DEF a
  <2>2. ASSUME NEW r \in Rows PROVE sem[r] = AtomTruth(a, r)
    <3>1. sem[r] = IF r[c] = Null THEN Unknown ELSE IF r[c] \in vals THEN True ELSE False
      BY <1>4 DEF IsIn, Known
    <3>2. Blind(a, r) <=> r[c] = Null
      BY <1>1 DEF Blind
    <3>. QED BY <1>1, <3>1, <3>2, AtomCases
  <2>3. normal.safe => a.op \in {"in", "!in"} \/ Null \notin a.vals
    BY <1>1
  <2>. QED BY ONLY <1>1, <2>1, <2>2, <2>3, SameAtom
<1>. QED BY <1>2, <1>3, <1>4

(* The DNF of is_between, by which of its bounds are closed.               *)
LEMMA BetweenNormal ==
    ASSUME NEW c \in Columns, NEW lo \in Cell, NEW hi \in Cell, NEW closed, NEW sem,
           \A r \in Rows : sem[r] = Between(r[c], lo, hi, closed)
    PROVE  NormalOf(sem, DnfBetween(c, lo, hi, closed))
<1>. SUFFICES ASSUME NEW normal, normal = DnfBetween(c, lo, hi, closed)
              PROVE  NormalOf(sem, normal)
  OBVIOUS
<1>. DEFINE above == IF "lower" \in closed THEN "gte" ELSE "gt"
            below == IF "upper" \in closed THEN "lte" ELSE "lt"
            a == At(c, DnfOp(above), {lo})
            b == At(c, DnfOp(below), {hi})
<1>1. /\ above \in PlainOps
      /\ below \in PlainOps
      /\ DnfOp(above) = IF "lower" \in closed THEN ">=" ELSE ">"
      /\ DnfOp(below) = IF "upper" \in closed THEN "<=" ELSE "<"
  BY DEF DnfOp, PlainOps
<1>2. /\ normal.dnf = {{a, b}}
      /\ normal.safe => lo # Null /\ hi # Null
  BY <1>1 DEF DnfBetween
<1>3. ASSUME NEW r \in Rows
      PROVE  sem[r] = Conj(Compare(above, r[c], lo), Compare(below, r[c], hi))
  BY <1>3 DEF Between
<1>. HIDE DEF above, below
<1>4. /\ TypedAtom(a) /\ a.col = c
      /\ \A r \in Rows : AtomTruth(a, r) = Compare(above, r[c], lo)
  BY <1>1, CompareAtom
<1>5. /\ TypedAtom(b) /\ b.col = c
      /\ \A r \in Rows : AtomTruth(b, r) = Compare(below, r[c], hi)
  BY <1>1, CompareAtom
<1>. HIDE DEF a, b
<1>6. ASSUME NEW r \in Rows
      PROVE  /\ sem[r] = True => AtomTruth(a, r) = True /\ AtomTruth(b, r) = True
             /\ sem[r] = False => AtomTruth(a, r) = False \/ AtomTruth(b, r) = False
             /\ sem[r] = Unknown /\ lo # Null /\ hi # Null => r[c] = Null
  <2>. DEFINE s == Compare(above, r[c], lo)
              t == Compare(below, r[c], hi)
  <2>1. /\ lo # Null /\ s = Unknown => r[c] = Null
        /\ hi # Null /\ t = Unknown => r[c] = Null
    <3>1. above \in {"gt", "gte"} /\ below \in {"lt", "lte"}
      BY DEF above, below
    <3>. QED BY <3>1, CompareCases, TruthCases
  <2>2. s \in Truth /\ t \in Truth
    <3>1. above \in Comparisons /\ below \in Comparisons
      BY DEF above, below, Comparisons, Orderings
    <3>2. r[c] \in Cell
      BY RowCells
    <3>. QED BY <3>1, <3>2, CompareTruth
  <2>. HIDE DEF s, t
  <2>3. /\ Conj(s, t) = True => s = True /\ t = True
        /\ Conj(s, t) = False => s = False \/ t = False
        /\ Conj(s, t) = Unknown => s = Unknown \/ t = Unknown
    BY <2>2 DEF Conj, Truth, True, False, Unknown
  <2>4. sem[r] = Conj(s, t) /\ AtomTruth(a, r) = s /\ AtomTruth(b, r) = t
    BY <1>3, <1>4, <1>5 DEF s, t
  <2>. QED BY <2>1, <2>3, <2>4
<1>. QED BY <1>2, <1>4, <1>5, <1>6 DEF NormalOf, MayBeNegated, Holds, Refuted, NullColumn

-----------------------------------------------------------------------------
(* The operators of Kleene's logic.                                        *)

(* The union of two DNFs holds where one holds and is refuted where both   *)
(* are.                                                                    *)
LEMMA OrFacts ==
    ASSUME NEW a, NEW b, Typed(a), Typed(b), a # None, b # None
    PROVE  /\ Typed(OrDnf(a, b))
           /\ \A r \in Rows : /\ Holds(a, r) \/ Holds(b, r) => Holds(OrDnf(a, b), r)
                              /\ Refuted(a, r) /\ Refuted(b, r) => Refuted(OrDnf(a, b), r)
           /\ a # {} /\ {} \notin a /\ b # {} /\ {} \notin b =>
                  /\ OrDnf(a, b) # {} /\ {} \notin OrDnf(a, b)
                  /\ \A r \in Rows : NullColumn(a, r) \/ NullColumn(b, r)
                                     => NullColumn(OrDnf(a, b), r)
<1>1. OrDnf(a, b) = a \union b
  BY DEF OrDnf
<1>2. Typed(OrDnf(a, b))
  BY <1>1 DEF Typed
<1>3. ASSUME NEW r \in Rows
      PROVE  /\ Holds(a, r) \/ Holds(b, r) => Holds(OrDnf(a, b), r)
             /\ Refuted(a, r) /\ Refuted(b, r) => Refuted(OrDnf(a, b), r)
             /\ NullColumn(a, r) \/ NullColumn(b, r) => NullColumn(OrDnf(a, b), r)
  BY <1>1 DEF Holds, Refuted, NullColumn
<1>. QED BY <1>1, <1>2, <1>3

(* What the operands of a conjunction were, by its truth.                  *)
LEMMA ConjFacts ==
    ASSUME NEW s \in Truth, NEW t \in Truth
    PROVE  /\ Conj(s, t) = True => s = True /\ t = True
           /\ Conj(s, t) = False => s = False \/ t = False
           /\ Conj(s, t) = Unknown => s = Unknown \/ t = Unknown
BY DEF Conj, Truth, True, False, Unknown

(* What the operands of a disjunction were, by its truth.                  *)
LEMMA DisjFacts ==
    ASSUME NEW s \in Truth, NEW t \in Truth
    PROVE  /\ Disj(s, t) = True => s = True \/ t = True
           /\ Disj(s, t) = False => s = False /\ t = False
           /\ Disj(s, t) = Unknown => s = Unknown \/ t = Unknown
BY DEF Disj, Truth, True, False, Unknown

(* What the operand of a negation was, by its truth.                       *)
LEMMA NotFacts ==
    ASSUME NEW s \in Truth
    PROVE  /\ Not(s) = True => s = False
           /\ Not(s) = False => s = True
           /\ Not(s) = Unknown => s = Unknown
BY DEF Not, Truth, True, False, Unknown

(* What a node with a DNF may be relied on for.                            *)
LEMMA NormalUse ==
    ASSUME NEW n, NormalInv(n), n.dnf # None
    PROVE  /\ Typed(n.dnf)
           /\ \A r \in Rows : n.sem[r] = True => Holds(n.dnf, r)
           /\ n.safe =>
                  /\ n.dnf # {} /\ {} \notin n.dnf
                  /\ \A r \in Rows : /\ n.sem[r] = False => Refuted(n.dnf, r)
                                     /\ n.sem[r] = Unknown => NullColumn(n.dnf, r)
BY DEF NormalInv, NormalOf, MayBeNegated, Typed

(* What makes a typed DNF a normal form.                                   *)
LEMMA NormalMade ==
    ASSUME NEW sem, NEW normal, Typed(normal.dnf),
           \A r \in Rows : sem[r] = True => Holds(normal.dnf, r),
           normal.safe =>
               /\ normal.dnf # {} /\ {} \notin normal.dnf
               /\ \A r \in Rows : /\ sem[r] = False => Refuted(normal.dnf, r)
                                  /\ sem[r] = Unknown => NullColumn(normal.dnf, r)
    PROVE  NormalOf(sem, normal)
BY DEF NormalOf, MayBeNegated, Typed

(* AND and OR, also where one side has no DNF.                             *)
LEMMA BinaryNormal ==
    ASSUME NEW isAnd \in BOOLEAN, NEW l, NEW r, NormalInv(l), NormalInv(r), NEW sem,
           \A w \in Rows : sem[w] = IF isAnd THEN Conj(l.sem[w], r.sem[w])
                                    ELSE Disj(l.sem[w], r.sem[w])
    PROVE  NormalOf(sem, DnfBinary(isAnd, l, r))
<1>. SUFFICES ASSUME NEW normal, normal = DnfBinary(isAnd, l, r), normal.dnf # None
              PROVE  NormalOf(sem, normal)
  BY DEF NormalOf
<1>1. \A w \in Rows : l.sem[w] \in Truth /\ r.sem[w] \in Truth
  BY DEF NormalInv
<1>2. normal.safe => l.dnf # None /\ l.safe /\ r.dnf # None /\ r.safe
  BY DEF DnfBinary, BothSafe
<1>3. CASE isAnd = TRUE
  <2>1. normal.dnf = AndDnf(l.dnf, r.dnf)
    BY <1>3 DEF DnfBinary
  <2>2. ASSUME NEW w \in Rows
        PROVE  /\ sem[w] = True => l.sem[w] = True /\ r.sem[w] = True
               /\ sem[w] = False => l.sem[w] = False \/ r.sem[w] = False
               /\ sem[w] = Unknown => l.sem[w] = Unknown \/ r.sem[w] = Unknown
    <3>1. sem[w] = Conj(l.sem[w], r.sem[w])
      BY <1>3
    <3>. QED BY <1>1, <3>1, ConjFacts
  <2>3. CASE l.dnf # None /\ r.dnf # None
    <3>1. Typed(l.dnf) /\ Typed(r.dnf)
      BY <2>3, NormalUse
    <3>2. /\ Typed(normal.dnf)
          /\ \A w \in Rows : /\ Holds(l.dnf, w) /\ Holds(r.dnf, w) => Holds(normal.dnf, w)
                             /\ Refuted(l.dnf, w) \/ Refuted(r.dnf, w) => Refuted(normal.dnf, w)
          /\ l.dnf # {} /\ {} \notin l.dnf /\ r.dnf # {} /\ {} \notin r.dnf =>
                 /\ normal.dnf # {} /\ {} \notin normal.dnf
                 /\ \A w \in Rows : NullColumn(l.dnf, w) \/ NullColumn(r.dnf, w)
                                    => NullColumn(normal.dnf, w)
      BY <2>1, <2>3, <3>1, AndFacts
    <3>3. \A w \in Rows : sem[w] = True => Holds(normal.dnf, w)
      BY <2>2, <2>3, <3>2, NormalUse
    <3>4. ASSUME normal.safe
          PROVE  /\ normal.dnf # {} /\ {} \notin normal.dnf
                 /\ \A w \in Rows : /\ sem[w] = False => Refuted(normal.dnf, w)
                                    /\ sem[w] = Unknown => NullColumn(normal.dnf, w)
      <4>1. /\ l.dnf # {} /\ {} \notin l.dnf /\ r.dnf # {} /\ {} \notin r.dnf
            /\ \A w \in Rows : /\ l.sem[w] = False => Refuted(l.dnf, w)
                               /\ l.sem[w] = Unknown => NullColumn(l.dnf, w)
                               /\ r.sem[w] = False => Refuted(r.dnf, w)
                               /\ r.sem[w] = Unknown => NullColumn(r.dnf, w)
        BY <1>2, <3>4, NormalUse
      <4>. QED BY <2>2, <3>2, <4>1
    <3>. QED BY <3>2, <3>3, <3>4, NormalMade
  <2>4. CASE l.dnf = None
    <3>1. normal.dnf = r.dnf /\ r.dnf # None /\ ~normal.safe
      BY <1>2, <2>1, <2>4 DEF AndDnf
    <3>2. Typed(r.dnf) /\ \A w \in Rows : r.sem[w] = True => Holds(r.dnf, w)
      BY <3>1, NormalUse
    <3>. QED BY <2>2, <3>1, <3>2, NormalMade
  <2>5. CASE l.dnf # None /\ r.dnf = None
    <3>1. normal.dnf = l.dnf /\ ~normal.safe
      BY <1>2, <2>1, <2>5 DEF AndDnf
    <3>2. Typed(l.dnf) /\ \A w \in Rows : l.sem[w] = True => Holds(l.dnf, w)
      BY <2>5, NormalUse
    <3>. QED BY <2>2, <3>1, <3>2, NormalMade
  <2>. QED BY <2>3, <2>4, <2>5
<1>4. CASE isAnd = FALSE
  <2>1. normal.dnf = OrDnf(l.dnf, r.dnf) /\ l.dnf # None /\ r.dnf # None
    BY <1>4 DEF DnfBinary, OrDnf
  <2>2. ASSUME NEW w \in Rows
        PROVE  /\ sem[w] = True => l.sem[w] = True \/ r.sem[w] = True
               /\ sem[w] = False => l.sem[w] = False /\ r.sem[w] = False
               /\ sem[w] = Unknown => l.sem[w] = Unknown \/ r.sem[w] = Unknown
    <3>1. sem[w] = Disj(l.sem[w], r.sem[w])
      BY <1>4
    <3>. QED BY <1>1, <3>1, DisjFacts
  <2>3. Typed(l.dnf) /\ Typed(r.dnf)
    BY <2>1, NormalUse
  <2>4. /\ Typed(normal.dnf)
        /\ \A w \in Rows : /\ Holds(l.dnf, w) \/ Holds(r.dnf, w) => Holds(normal.dnf, w)
                           /\ Refuted(l.dnf, w) /\ Refuted(r.dnf, w) => Refuted(normal.dnf, w)
        /\ l.dnf # {} /\ {} \notin l.dnf /\ r.dnf # {} /\ {} \notin r.dnf =>
               /\ normal.dnf # {} /\ {} \notin normal.dnf
               /\ \A w \in Rows : NullColumn(l.dnf, w) \/ NullColumn(r.dnf, w)
                                  => NullColumn(normal.dnf, w)
    BY <2>1, <2>3, OrFacts
  <2>5. \A w \in Rows : sem[w] = True => Holds(normal.dnf, w)
    BY <2>1, <2>2, <2>4, NormalUse
  <2>6. ASSUME normal.safe
        PROVE  /\ normal.dnf # {} /\ {} \notin normal.dnf
               /\ \A w \in Rows : /\ sem[w] = False => Refuted(normal.dnf, w)
                                  /\ sem[w] = Unknown => NullColumn(normal.dnf, w)
    <3>1. /\ l.dnf # {} /\ {} \notin l.dnf /\ r.dnf # {} /\ {} \notin r.dnf
          /\ \A w \in Rows : /\ l.sem[w] = False => Refuted(l.dnf, w)
                             /\ l.sem[w] = Unknown => NullColumn(l.dnf, w)
                             /\ r.sem[w] = False => Refuted(r.dnf, w)
                             /\ r.sem[w] = Unknown => NullColumn(r.dnf, w)
      BY <1>2, <2>6, NormalUse
    <3>. QED BY <2>2, <2>4, <3>1
  <2>. QED BY <2>4, <2>5, <2>6, NormalMade
<1>. QED BY <1>3, <1>4

(* A negation has a DNF only where that of its operand may be negated.     *)
LEMMA NotNormal ==
    ASSUME NEW n, NormalInv(n), NEW sem, \A r \in Rows : sem[r] = Not(n.sem[r])
    PROVE  NormalOf(sem, DnfNot(n))
<1>. SUFFICES ASSUME NEW normal, normal = DnfNot(n), normal.dnf # None
              PROVE  NormalOf(sem, normal)
  BY DEF NormalOf
<1>1. n.dnf # None /\ n.safe /\ normal.dnf = NegateDnf(n.dnf)
  BY DEF DnfNot, NoDnf
<1>2. /\ Typed(n.dnf) /\ n.dnf # {} /\ {} \notin n.dnf
      /\ \A r \in Rows : /\ n.sem[r] = True => Holds(n.dnf, r)
                         /\ n.sem[r] = False => Refuted(n.dnf, r)
                         /\ n.sem[r] = Unknown => NullColumn(n.dnf, r)
  BY <1>1, NormalUse
<1>3. /\ Typed(normal.dnf)
      /\ normal.dnf # {} /\ {} \notin normal.dnf
      /\ \A r \in Rows : /\ Refuted(n.dnf, r) => Holds(normal.dnf, r)
                         /\ Holds(n.dnf, r) => Refuted(normal.dnf, r)
                         /\ NullColumn(n.dnf, r) => NullColumn(normal.dnf, r)
  BY <1>1, <1>2, NegateFacts
<1>4. \A r \in Rows : /\ sem[r] = True => n.sem[r] = False
                      /\ sem[r] = False => n.sem[r] = True
                      /\ sem[r] = Unknown => n.sem[r] = Unknown
  BY NotFacts DEF NormalInv
<1>. QED BY <1>2, <1>3, <1>4, NormalMade

Evaluated(args) ==
    DOMAIN args # {} /\ \A i \in DOMAIN args : args[i].sem \in [Rows -> Truth]

(* all_horizontal is the truth of one of its operands, and true only if all*)
(* are.                                                                    *)
LEMMA AllHorizontal ==
    ASSUME NEW args, Evaluated(args), NEW r \in Rows
    PROVE  /\ \E i \in DOMAIN args : HorizontalSem(TRUE, args)[r] = args[i].sem[r]
           /\ HorizontalSem(TRUE, args)[r] = True
                  => \A i \in DOMAIN args : args[i].sem[r] = True
<1>. DEFINE all == DOMAIN args
            ts == [i \in all |-> args[i].sem[r]]
<1>1. ts \in [all -> Truth] /\ \A i \in all : ts[i] = args[i].sem[r]
  BY DEF Evaluated
<1>2. HorizontalSem(TRUE, args)[r] = AllOf(ts)
  BY DEF HorizontalSem
<1>. HIDE DEF all, ts
<1>3. /\ all # {}
      /\ \A i \in all : ts[i] \in Int /\ (True <= ts[i] => ts[i] = True)
  BY <1>1 DEF Evaluated, all, Truth, True, False, Unknown
<1>4. /\ \E i \in all : AllOf(ts) = ts[i]
      /\ \A i \in all : AllOf(ts) <= ts[i]
  BY <1>1, <1>3, AllOfFacts
<1>5. AllOf(ts) = True => \A i \in all : ts[i] = True
  BY <1>3, <1>4
<1>. QED BY <1>1, <1>2, <1>4, <1>5 DEF all

(* any_horizontal is the truth of one of its operands, and false only if   *)
(* all are.                                                                *)
LEMMA AnyHorizontal ==
    ASSUME NEW args, Evaluated(args), NEW r \in Rows
    PROVE  /\ \E i \in DOMAIN args : HorizontalSem(FALSE, args)[r] = args[i].sem[r]
           /\ HorizontalSem(FALSE, args)[r] = False
                  => \A i \in DOMAIN args : args[i].sem[r] = False
<1>. DEFINE all == DOMAIN args
            ts == [i \in all |-> args[i].sem[r]]
<1>1. ts \in [all -> Truth] /\ \A i \in all : ts[i] = args[i].sem[r]
  BY DEF Evaluated
<1>2. HorizontalSem(FALSE, args)[r] = AnyOf(ts)
  BY DEF HorizontalSem
<1>. HIDE DEF all, ts
<1>3. /\ all # {}
      /\ \A i \in all : ts[i] \in Int /\ (False >= ts[i] => ts[i] = False)
  BY <1>1 DEF Evaluated, all, Truth, True, False, Unknown
<1>4. /\ \E i \in all : AnyOf(ts) = ts[i]
      /\ \A i \in all : AnyOf(ts) >= ts[i]
  BY <1>1, <1>3, AnyOfFacts
<1>5. AnyOf(ts) = False => \A i \in all : ts[i] = False
  BY <1>3, <1>4
<1>. QED BY <1>1, <1>2, <1>4, <1>5 DEF all

(* Horizontal functions, operand by operand.                               *)
LEMMA HorizontalNormal ==
    ASSUME NEW isAnd \in BOOLEAN, NEW args, DOMAIN args # {},
           \A i \in DOMAIN args : NormalInv(args[i]),
           NEW sem, \A r \in Rows : sem[r] = HorizontalSem(isAnd, args)[r]
    PROVE  NormalOf(sem, DnfHorizontal(isAnd, args))
<1>. SUFFICES ASSUME NEW normal, normal = DnfHorizontal(isAnd, args), normal.dnf # None
              PROVE  NormalOf(sem, normal)
  BY DEF NormalOf
<1>. DEFINE some == {i \in DOMAIN args : args[i].dnf # None}
            picks == {q \in [some -> UNION {args[i].dnf : i \in some}] :
                          \A i \in some : q[i] \in args[i].dnf}
            clauseOf(q) == UNION {q[i] : i \in some}
<1>1. Evaluated(args)
  BY DEF NormalInv, Evaluated
<1>2. /\ some # {} /\ some \subseteq DOMAIN args
      /\ isAnd = FALSE => some = DOMAIN args
      /\ isAnd = TRUE => normal.dnf = {clauseOf(q) : q \in picks}
      /\ isAnd = FALSE => normal.dnf = UNION {args[i].dnf : i \in some}
      /\ normal.safe => \A i \in DOMAIN args : args[i].dnf # None /\ args[i].safe
  BY DEF DnfHorizontal
<1>3. ASSUME NEW i \in some
      PROVE  /\ Typed(args[i].dnf)
             /\ \A r \in Rows : args[i].sem[r] = True => Holds(args[i].dnf, r)
  BY NormalUse
<1>4. ASSUME normal.safe
      PROVE  /\ some = DOMAIN args
             /\ \A i \in DOMAIN args :
                    /\ args[i].dnf # {} /\ {} \notin args[i].dnf
                    /\ \A r \in Rows :
                           /\ args[i].sem[r] = False => Refuted(args[i].dnf, r)
                           /\ args[i].sem[r] = Unknown => NullColumn(args[i].dnf, r)
  BY <1>2, <1>4, NormalUse
<1>5. ASSUME NEW r \in Rows
      PROVE  /\ \E i \in DOMAIN args : sem[r] = args[i].sem[r]
             /\ isAnd = TRUE /\ sem[r] = True => \A i \in DOMAIN args : args[i].sem[r] = True
             /\ isAnd = FALSE /\ sem[r] = False => \A i \in DOMAIN args : args[i].sem[r] = False
  <2>1. sem[r] = HorizontalSem(isAnd, args)[r]
    OBVIOUS
  <2>2. CASE isAnd = TRUE
    <3>1. sem[r] = HorizontalSem(TRUE, args)[r] /\ isAnd # FALSE
      BY <2>1, <2>2
    <3>2. /\ \E i \in DOMAIN args : HorizontalSem(TRUE, args)[r] = args[i].sem[r]
          /\ HorizontalSem(TRUE, args)[r] = True
                 => \A i \in DOMAIN args : args[i].sem[r] = True
      BY <1>1, AllHorizontal
    <3>. QED BY <3>1, <3>2
  <2>3. CASE isAnd = FALSE
    <3>1. sem[r] = HorizontalSem(FALSE, args)[r] /\ isAnd # TRUE
      BY <2>1, <2>3
    <3>2. /\ \E i \in DOMAIN args : HorizontalSem(FALSE, args)[r] = args[i].sem[r]
          /\ HorizontalSem(FALSE, args)[r] = False
                 => \A i \in DOMAIN args : args[i].sem[r] = False
      BY <1>1, AnyHorizontal
    <3>. QED BY <3>1, <3>2
  <2>. QED BY <2>2, <2>3
<1>6. CASE isAnd = TRUE
  <2>1. \A q \in picks : \A i \in some : q[i] \in args[i].dnf
    OBVIOUS
  <2>2. normal.dnf = {clauseOf(q) : q \in picks}
    BY <1>2, <1>6
  <2>3. Typed(normal.dnf)
    <3>1. \A q \in picks : \A a \in clauseOf(q) : \E i \in some : a \in q[i]
      OBVIOUS
    <3>. HIDE DEF picks, clauseOf
    <3>2. \A q \in picks : \A a \in clauseOf(q) : TypedAtom(a)
      BY <1>3, <2>1, <3>1 DEF Typed
    <3>. QED BY <2>2, <3>2 DEF Typed
  <2>4. ASSUME NEW r \in Rows, sem[r] = True PROVE Holds(normal.dnf, r)
    <3>. DEFINE q == [i \in some |-> CHOOSE clause \in args[i].dnf :
                                         \A a \in clause : AtomTruth(a, r) = True]
    <3>1. \A i \in some : q[i] \in args[i].dnf /\ \A a \in q[i] : AtomTruth(a, r) = True
      <4>1. \A i \in some : \E clause \in args[i].dnf : \A a \in clause : AtomTruth(a, r) = True
        BY <1>2, <1>3, <1>5, <1>6, <2>4 DEF Holds
      <4>. QED BY <4>1
    <3>2. q \in picks
      BY <3>1
    <3>. HIDE DEF q
    <3>3. \A a \in clauseOf(q) : AtomTruth(a, r) = True
      BY <3>1
    <3>. HIDE DEF picks, clauseOf
    <3>. QED BY <2>2, <3>2, <3>3 DEF Holds
  <2>5. ASSUME normal.safe
        PROVE  /\ normal.dnf # {} /\ {} \notin normal.dnf
               /\ \A r \in Rows : /\ sem[r] = False => Refuted(normal.dnf, r)
                                  /\ sem[r] = Unknown => NullColumn(normal.dnf, r)
    <3>1. ASSUME NEW j \in some, NEW chosen \in args[j].dnf
          PROVE  \E q \in picks : q[j] = chosen
      <4>. DEFINE q == [i \in some |-> IF i = j THEN chosen
                                       ELSE CHOOSE clause \in args[i].dnf : TRUE]
      <4>1. \A i \in some : q[i] \in args[i].dnf
        BY <1>2, <1>4, <2>5
      <4>2. q \in picks /\ q[j] = chosen
        BY <4>1
      <4>. QED BY <4>2
    <3>2. \A q \in picks : \A i \in some : \A a \in q[i] : a \in clauseOf(q)
      OBVIOUS
    <3>. HIDE DEF picks, clauseOf
    <3>3. normal.dnf # {}
      <4>1. PICK j \in some : TRUE
        BY <1>2
      <4>2. PICK chosen \in args[j].dnf : TRUE
        BY <1>2, <1>4, <2>5
      <4>3. picks # {}
        BY <3>1, <4>2
      <4>. QED BY <2>2, <4>3
    <3>4. {} \notin normal.dnf
      <4>1. PICK j \in some : TRUE
        BY <1>2
      <4>2. ASSUME NEW q \in picks PROVE clauseOf(q) # {}
        <5>1. q[j] \in args[j].dnf
          BY <2>1
        <5>2. {} \notin args[j].dnf
          BY <1>2, <1>4, <2>5
        <5>3. q[j] # {}
          BY <5>1, <5>2
        <5>. QED BY <3>2, <5>3
      <4>. QED BY <2>2, <4>2
    <3>5. ASSUME NEW r \in Rows, sem[r] = False PROVE Refuted(normal.dnf, r)
      <4>1. PICK j \in some : Refuted(args[j].dnf, r)
        BY <1>4, <1>5, <2>5, <3>5
      <4>2. ASSUME NEW q \in picks PROVE \E a \in clauseOf(q) : AtomTruth(a, r) = False
        <5>1. \E a \in q[j] : AtomTruth(a, r) = False
          BY <2>1, <4>1 DEF Refuted
        <5>. QED BY <3>2, <5>1
      <4>. QED BY <2>2, <4>2 DEF Refuted
    <3>6. ASSUME NEW r \in Rows, sem[r] = Unknown PROVE NullColumn(normal.dnf, r)
      <4>1. PICK j \in some : NullColumn(args[j].dnf, r)
        BY <1>4, <1>5, <2>5, <3>6
      <4>2. PICK chosen \in args[j].dnf : \E a \in chosen : r[a.col] = Null
        BY <4>1 DEF NullColumn
      <4>3. PICK q \in picks : q[j] = chosen
        BY <3>1
      <4>4. clauseOf(q) \in normal.dnf /\ \E a \in clauseOf(q) : r[a.col] = Null
        BY <2>2, <3>2, <4>2, <4>3
      <4>. QED BY <4>4 DEF NullColumn
    <3>. QED BY <3>3, <3>4, <3>5, <3>6
  <2>. QED BY <2>3, <2>4, <2>5, NormalMade
<1>7. CASE isAnd = FALSE
  <2>1. normal.dnf = UNION {args[i].dnf : i \in some} /\ some = DOMAIN args
    BY <1>2, <1>7
  <2>. HIDE DEF some
  <2>2. Typed(normal.dnf)
    BY <1>3, <2>1 DEF Typed
  <2>3. ASSUME NEW r \in Rows, sem[r] = True PROVE Holds(normal.dnf, r)
    <3>1. PICK i \in some : Holds(args[i].dnf, r)
      BY <1>3, <1>5, <2>1, <2>3
    <3>. QED BY <2>1, <3>1 DEF Holds
  <2>4. ASSUME normal.safe
        PROVE  /\ normal.dnf # {} /\ {} \notin normal.dnf
               /\ \A r \in Rows : /\ sem[r] = False => Refuted(normal.dnf, r)
                                  /\ sem[r] = Unknown => NullColumn(normal.dnf, r)
    <3>1. normal.dnf # {} /\ {} \notin normal.dnf
      BY <1>2, <1>4, <2>1, <2>4
    <3>2. ASSUME NEW r \in Rows, sem[r] = False PROVE Refuted(normal.dnf, r)
      <4>1. \A i \in some : Refuted(args[i].dnf, r)
        BY <1>4, <1>5, <1>7, <2>4, <3>2
      <4>. QED BY <2>1, <4>1 DEF Refuted
    <3>3. ASSUME NEW r \in Rows, sem[r] = Unknown PROVE NullColumn(normal.dnf, r)
      <4>1. PICK i \in some : NullColumn(args[i].dnf, r)
        BY <1>4, <1>5, <2>4, <3>3
      <4>. QED BY <2>1, <4>1 DEF NullColumn
    <3>. QED BY <3>1, <3>2, <3>3
  <2>. QED BY <2>2, <2>3, <2>4, NormalMade
<1>. QED BY <1>6, <1>7

-----------------------------------------------------------------------------
(* The ternary.  None is the absence of a DNF, which covers every row.      *)

Loose(dnf) == dnf # None => Typed(dnf)
Covers(dnf, r) == dnf # None => Holds(dnf, r)

(* A product covers the rows both cover.                                   *)
LEMMA AndCovers ==
    ASSUME NEW a, NEW b, Loose(a), Loose(b)
    PROVE  /\ Loose(AndDnf(a, b))
           /\ \A r \in Rows : Covers(a, r) /\ Covers(b, r) => Covers(AndDnf(a, b), r)
<1>1. CASE a = None
  BY <1>1 DEF AndDnf
<1>2. CASE a # None /\ b = None
  BY <1>2 DEF AndDnf
<1>3. CASE a # None /\ b # None
  <2>1. Typed(a) /\ Typed(b)
    BY <1>3 DEF Loose
  <2>. QED BY <1>3, <2>1, AndFacts DEF Loose, Covers
<1>. QED BY <1>1, <1>2, <1>3

(* A union covers the rows one of the two covers.                          *)
LEMMA OrCovers ==
    ASSUME NEW a, NEW b, Loose(a), Loose(b)
    PROVE  /\ Loose(OrDnf(a, b))
           /\ \A r \in Rows : Covers(a, r) \/ Covers(b, r) => Covers(OrDnf(a, b), r)
<1>1. CASE a = None \/ b = None
  BY <1>1 DEF OrDnf, Loose, Covers
<1>2. CASE a # None /\ b # None
  <2>1. Typed(a) /\ Typed(b)
    BY <1>2 DEF Loose
  <2>. QED BY <1>2, <2>1, OrFacts DEF Loose, Covers
<1>. QED BY <1>1, <1>2

(* The two parts of DnfTernary.                                            *)
Arm(dnf, n) ==
    IF ~n.lit THEN AndDnf(dnf, n.dnf)
    ELSE IF \A r \in Rows : n.sem[r] = True THEN dnf ELSE {}

NotTrue(p) ==
    IF p.dnf # None /\ p.safe
    THEN NegateDnf(p.dnf)
             \union {{At(c, "is", {})} : c \in {a.col : a \in UNION p.dnf}}
    ELSE None

(* A condition and one arm of a ternary cover the rows that satisfy both.  *)
LEMMA ArmCovers ==
    ASSUME NEW dnf, Loose(dnf), NEW n, NormalInv(n)
    PROVE  /\ Loose(Arm(dnf, n))
           /\ \A r \in Rows : Covers(dnf, r) /\ n.sem[r] = True => Covers(Arm(dnf, n), r)
<1>1. CASE ~n.lit
  <2>1. Loose(n.dnf) /\ \A r \in Rows : n.sem[r] = True => Covers(n.dnf, r)
    BY NormalUse DEF Loose, Covers
  <2>. QED BY <1>1, <2>1, AndCovers DEF Arm
<1>2. CASE n.lit /\ \A r \in Rows : n.sem[r] = True
  BY <1>2 DEF Arm
<1>3. CASE n.lit /\ ~\A r \in Rows : n.sem[r] = True
  <2>1. Arm(dnf, n) = {}
    BY <1>3 DEF Arm
  <2>2. \A r \in Rows : n.sem[r] # True
    BY <1>3 DEF NormalInv
  <2>. QED BY <2>1, <2>2 DEF Loose, Typed
<1>. QED BY <1>1, <1>2, <1>3

(* The rows where the predicate of a ternary is not true are those its     *)
(* negation covers or that have a null in one of its columns.              *)
LEMMA NotTrueCovers ==
    ASSUME NEW p, NormalInv(p)
    PROVE  /\ Loose(NotTrue(p))
           /\ \A r \in Rows : p.sem[r] # True => Covers(NotTrue(p), r)
<1>. DEFINE nulls == {{At(c, "is", {})} : c \in {a.col : a \in UNION p.dnf}}
<1>1. CASE ~(p.dnf # None /\ p.safe)
  BY <1>1 DEF NotTrue, Loose, Covers
<1>2. CASE p.dnf # None /\ p.safe
  <2>1. /\ Typed(p.dnf)
        /\ \A r \in Rows : /\ p.sem[r] = False => Refuted(p.dnf, r)
                           /\ p.sem[r] = Unknown => NullColumn(p.dnf, r)
    BY <1>2, NormalUse
  <2>2. NotTrue(p) = NegateDnf(p.dnf) \union nulls
    BY <1>2 DEF NotTrue
  <2>3. /\ Typed(NegateDnf(p.dnf))
        /\ \A r \in Rows : Refuted(p.dnf, r) => Holds(NegateDnf(p.dnf), r)
    BY <2>1, NegateFacts
  <2>4. \A clause \in p.dnf : \A a \in clause : a.col \in Columns /\ {At(a.col, "is", {})} \in nulls
    BY <2>1 DEF Typed, TypedAtom, Atom
  <2>5. \A clause \in nulls : \E c \in Columns : clause = {At(c, "is", {})}
    BY <2>4
  <2>. HIDE DEF nulls
  <2>6. Typed(NotTrue(p))
    <3>1. \A clause \in nulls : \A e \in clause : TypedAtom(e)
      <4>1. ASSUME NEW clause \in nulls, NEW e \in clause PROVE TypedAtom(e)
        <5>1. PICK c \in Columns : clause = {At(c, "is", {})}
          BY <2>5
        <5>2. TypedAtom(At(c, "is", {}))
          BY AtNulls
        <5>. QED BY <5>1, <5>2
      <4>. QED BY <4>1
    <3>. QED BY <2>2, <2>3, <3>1 DEF Typed
  <2>7. ASSUME NEW r \in Rows, p.sem[r] # True PROVE Holds(NotTrue(p), r)
    <3>1. CASE p.sem[r] = False
      BY <2>1, <2>2, <2>3, <3>1 DEF Holds
    <3>2. CASE p.sem[r] = Unknown
      <4>1. PICK clause \in p.dnf : \E a \in clause : r[a.col] = Null
        BY <2>1, <3>2 DEF NullColumn
      <4>2. PICK a \in clause : r[a.col] = Null
        BY <4>1
      <4>. DEFINE z == At(a.col, "is", {})
      <4>3. {z} \in nulls
        BY <2>4
      <4>4. z.op = "is" /\ z.col = a.col
        BY AtFields
      <4>. HIDE DEF z
      <4>5. AtomTruth(z, r) = True
        BY <4>2, <4>4, AtomCases
      <4>. QED BY <2>2, <4>3, <4>5 DEF Holds
    <3>3. p.sem[r] \in Truth
      BY DEF NormalInv
    <3>. QED BY <2>7, <3>1, <3>2, <3>3, TruthCases
  <2>. QED BY <2>6, <2>7 DEF Loose, Covers
<1>. QED BY <1>1, <1>2

(* A ternary: each arm under its condition.                                *)
LEMMA TernaryNormal ==
    ASSUME NEW p, NEW t, NEW f, NormalInv(p), NormalInv(t), NormalInv(f), NEW sem,
           \A r \in Rows : sem[r] = IF p.sem[r] = True THEN t.sem[r] ELSE f.sem[r]
    PROVE  NormalOf(sem, DnfTernary(p, t, f))
<1>. DEFINE both == OrDnf(Arm(p.dnf, t), Arm(NotTrue(p), f))
<1>. SUFFICES ASSUME NEW normal, normal = DnfTernary(p, t, f), normal.dnf # None
              PROVE  NormalOf(sem, normal)
  BY DEF NormalOf
<1>1. /\ both # None /\ ~normal.safe
      /\ normal.dnf = {clause \in both : ~IsContradiction(clause, FALSE)}
  BY DEF DnfTernary, Arm, NotTrue
<1>2. /\ Loose(p.dnf) /\ Loose(NotTrue(p))
      /\ \A r \in Rows : /\ p.sem[r] = True => Covers(p.dnf, r)
                         /\ p.sem[r] # True => Covers(NotTrue(p), r)
  BY NormalUse, NotTrueCovers DEF Loose, Covers
<1>3. /\ Loose(Arm(p.dnf, t))
      /\ \A r \in Rows : Covers(p.dnf, r) /\ t.sem[r] = True => Covers(Arm(p.dnf, t), r)
  BY <1>2, ArmCovers
<1>4. /\ Loose(Arm(NotTrue(p), f))
      /\ \A r \in Rows : Covers(NotTrue(p), r) /\ f.sem[r] = True
                         => Covers(Arm(NotTrue(p), f), r)
  BY <1>2, ArmCovers
<1>5. /\ Loose(both)
      /\ \A r \in Rows : Covers(Arm(p.dnf, t), r) \/ Covers(Arm(NotTrue(p), f), r)
                         => Covers(both, r)
  BY <1>3, <1>4, OrCovers
<1>6. Typed(normal.dnf)
  BY <1>1, <1>5 DEF Loose, Typed
<1>. HIDE DEF both
<1>7. ASSUME NEW r \in Rows, sem[r] = True PROVE Holds(normal.dnf, r)
  <2>1. sem[r] = IF p.sem[r] = True THEN t.sem[r] ELSE f.sem[r]
    OBVIOUS
  <2>2. Holds(both, r)
    BY <1>1, <1>2, <1>3, <1>4, <1>5, <1>7, <2>1 DEF Covers
  <2>3. PICK clause \in both : \A a \in clause : AtomTruth(a, r) = True
    BY <2>2 DEF Holds
  <2>4. \A a \in clause : TypedAtom(a)
    BY <1>1, <1>5 DEF Loose, Typed
  <2>5. ~IsContradiction(clause, FALSE)
    BY <2>3, <2>4, ContradictionSound
  <2>. QED BY <1>1, <2>3, <2>5 DEF Holds
<1>. QED BY <1>1, <1>6, <1>7, NormalMade

-----------------------------------------------------------------------------
(* The steps.                                                              *)

(* A node whose DNF is a normal form satisfies the invariant.              *)
LEMMA MadeNormal ==
    ASSUME NEW sem \in [Rows -> Truth], NEW roots, NEW lit,
           lit => \A r, s \in Rows : sem[r] = sem[s],
           NEW rest, NEW normal, NormalOf(sem, normal), NEW values, NEW range
    PROVE  NormalInv(Made(sem, roots, lit, rest, normal, values, range))
<1>. SUFFICES ASSUME NEW n, n = Made(sem, roots, lit, rest, normal, values, range)
              PROVE  NormalInv(n)
  OBVIOUS
<1>1. n.sem = sem /\ n.lit = lit /\ n.dnf = normal.dnf /\ n.safe = normal.safe
  BY DEF Made
<1>. QED BY <1>1 DEF NormalInv, NormalOf

(* A leaf whose DNF is a normal form keeps the invariant.                  *)
LEMMA LeafNormal ==
    ASSUME NEW sem \in [Rows -> Truth], NEW c, NEW normal, NormalOf(sem, normal),
           NEW values, NEW range, Leaf(sem, c, normal, values, range),
           \A n \in visited : NormalInv(n)
    PROVE  \A n \in visited' : NormalInv(n)
<1>1. PICK rest, v, g : visited' = visited \union {Made(sem, {c}, FALSE, rest, normal, v, g)}
  BY DEF Leaf, Visited
<1>2. NormalInv(Made(sem, {c}, FALSE, rest, normal, v, g))
  BY MadeNormal
<1>. QED BY <1>1, <1>2

(* No DNF claims nothing.                                                  *)
LEMMA NoDnfNormal == ASSUME NEW sem PROVE NormalOf(sem, NoDnf)
BY DEF NormalOf, NoDnf

(* The fields of a leaf, by its kind.                                      *)
LEMMA LeafFields ==
    ASSUME NEW e \in Leaves
    PROVE  /\ e.k \in {"compare", "is_in", "between", "is_null", "is_not_null", "matches"}
                  => e.col \in Columns
           /\ e.k = "compare" => e.op \in Comparisons /\ e.value \in Cell /\ e.flipped \in BOOLEAN
           /\ e.k = "is_in" => e.values \subseteq Cell /\ e.nulls_equal \in BOOLEAN
           /\ e.k = "between" => e.lower \in Cell /\ e.upper \in Cell
           /\ e.k = "literal" => e.value \in Truth
           /\ e.k = "opaque" => e.sem \in [Rows -> Truth]
BY LeavesAssumption DEF LeafSyntax

(* The DNF of the null tests and of a string match.                        *)
LEMMA NullNormal ==
    ASSUME NEW c \in Columns, NEW sem, NEW op \in {"is", "is not", "~"},
           \A r \in Rows : sem[r] = IF op = "is" THEN Known(r[c] = Null)
                                    ELSE IF op = "is not" THEN Known(r[c] # Null)
                                    ELSE Matches(r[c])
    PROVE  NormalOf(sem, [dnf |-> {{At(c, op, {})}}, safe |-> TRUE])
<1>. DEFINE a == At(c, op, {})
            normal == [dnf |-> {{a}}, safe |-> TRUE]
<1>1. op \in DnfOps \ SingleOps
  BY DEF DnfOps, SingleOps
<1>2. TypedAtom(a)
  BY <1>1, AtMany
<1>3. a.col = c /\ a.op = op /\ a.vals = {}
  BY DEF At
<1>4. normal.dnf = {{a}}
  OBVIOUS
<1>. HIDE DEF a, normal
<1>5. ASSUME NEW r \in Rows PROVE sem[r] = AtomTruth(a, r)
  <2>1. CASE op = "is"
    <3>1. sem[r] = IF r[c] = Null THEN True ELSE False
      BY <2>1 DEF Known
    <3>. QED BY <1>3, <2>1, <3>1, AtomCases
  <2>2. CASE op = "is not"
    <3>1. sem[r] = IF r[c] # Null THEN True ELSE False
      BY <2>2 DEF Known
    <3>. QED BY <1>3, <2>2, <3>1, AtomCases
  <2>3. CASE op = "~"
    <3>1. sem[r] = IF r[c] = Null THEN Unknown ELSE IF r[c] \in Matching THEN True ELSE False
      BY <2>3 DEF Matches, Known
    <3>2. Blind(a, r) <=> r[c] = Null
      BY <1>3 DEF Blind
    <3>. QED BY <1>3, <2>3, <3>1, <3>2, AtomCases
  <2>. QED BY <2>1, <2>2, <2>3
<1>6. normal.safe => a.op \in {"in", "!in"} \/ Null \notin a.vals
  BY <1>3
<1>7. NormalOf(sem, normal)
  BY ONLY <1>2, <1>4, <1>5, <1>6, SameAtom
<1>. QED BY <1>7 DEF normal, a

(* Every visit keeps the normal forms, one step per visit.                 *)
LEMMA NormalStep ==
    ASSUME \A n \in visited : NormalInv(n), [Next]_visited
    PROVE  \A n \in visited' : NormalInv(n)
<1>1. CASE UNCHANGED visited
  BY <1>1
<1>2. ASSUME NEW e \in Leaves, VisitComparison(e)
      PROVE  \A n \in visited' : NormalInv(n)
  <2>. DEFINE sem == [r \in Rows |-> IF e.flipped THEN Compare(e.op, e.value, r[e.col])
                                     ELSE Compare(e.op, r[e.col], e.value)]
              op == IF e.flipped THEN Flipped(e.op) ELSE e.op
              normal == SetComparison(e.col, op, e.value)
  <2>1. /\ e.op \in Comparisons /\ e.col \in Columns /\ e.value \in Cell
        /\ e.flipped \in BOOLEAN
    BY <1>2, LeafFields DEF VisitComparison
  <2>2. PICK v, g : Leaf(sem, e.col, normal, v, g)
    BY <1>2 DEF VisitComparison
  <2>3. sem \in [Rows -> Truth]
    BY CellTruths
  <2>4. \A r \in Rows : r[e.col] \in Cell
    BY <2>1, RowCells
  <2>5. op \in Comparisons /\ \A r \in Rows : sem[r] = Compare(op, r[e.col], e.value)
    <3>1. CASE e.flipped = TRUE
      BY <2>1, <2>4, <3>1, FlippedFacts
    <3>2. CASE e.flipped = FALSE
      BY <2>1, <3>2
    <3>. QED BY <2>1, <3>1, <3>2
  <2>. HIDE DEF sem, op
  <2>6. NormalOf(sem, normal)
    BY <2>1, <2>5, ComparisonNormal
  <2>. HIDE DEF normal
  <2>. QED BY <2>2, <2>3, <2>6, LeafNormal
<1>3. ASSUME NEW e \in Leaves, VisitIsIn(e)
      PROVE  \A n \in visited' : NormalInv(n)
  <2>. DEFINE sem == [r \in Rows |-> IsIn(r[e.col], e.values, e.nulls_equal)]
              normal == DnfIsIn(e.col, e.values, e.nulls_equal)
  <2>1. e.col \in Columns /\ e.values \subseteq Cell /\ e.nulls_equal \in BOOLEAN
    BY <1>3, LeafFields DEF VisitIsIn
  <2>2. PICK v, g : Leaf(sem, e.col, normal, v, g)
    BY <1>3 DEF VisitIsIn
  <2>3. sem \in [Rows -> Truth]
    BY CellTruths
  <2>4. \A r \in Rows : sem[r] = IsIn(r[e.col], e.values, e.nulls_equal)
    OBVIOUS
  <2>. HIDE DEF sem
  <2>5. NormalOf(sem, normal)
    BY <2>1, <2>4, IsInNormal
  <2>. HIDE DEF normal
  <2>. QED BY <2>2, <2>3, <2>5, LeafNormal
<1>4. ASSUME NEW e \in Leaves, VisitBetween(e)
      PROVE  \A n \in visited' : NormalInv(n)
  <2>. DEFINE sem == [r \in Rows |-> Between(r[e.col], e.lower, e.upper, e.closed)]
              normal == DnfBetween(e.col, e.lower, e.upper, e.closed)
  <2>1. e.col \in Columns /\ e.lower \in Cell /\ e.upper \in Cell
    BY <1>4, LeafFields DEF VisitBetween
  <2>2. PICK v, g : Leaf(sem, e.col, normal, v, g)
    BY <1>4 DEF VisitBetween
  <2>3. sem \in [Rows -> Truth]
    BY CellTruths
  <2>4. \A r \in Rows : sem[r] = Between(r[e.col], e.lower, e.upper, e.closed)
    OBVIOUS
  <2>. HIDE DEF sem
  <2>5. NormalOf(sem, normal)
    BY <2>1, <2>4, BetweenNormal
  <2>. HIDE DEF normal
  <2>. QED BY <2>2, <2>3, <2>5, LeafNormal
<1>5. ASSUME NEW e \in Leaves, VisitIsNull(e)
      PROVE  \A n \in visited' : NormalInv(n)
  <2>. DEFINE sem == [r \in Rows |-> Known(r[e.col] = Null)]
              normal == [dnf |-> {{At(e.col, "is", {})}}, safe |-> TRUE]
  <2>1. e.col \in Columns
    BY <1>5, LeafFields DEF VisitIsNull
  <2>2. PICK v, g : Leaf(sem, e.col, normal, v, g)
    BY <1>5 DEF VisitIsNull
  <2>3. sem \in [Rows -> Truth]
    BY CellTruths, TruthFacts
  <2>4. \A r \in Rows : sem[r] = Known(r[e.col] = Null)
    OBVIOUS
  <2>. HIDE DEF sem
  <2>5. NormalOf(sem, normal)
    BY <2>1, <2>4, NullNormal
  <2>. HIDE DEF normal
  <2>. QED BY <2>2, <2>3, <2>5, LeafNormal
<1>6. ASSUME NEW e \in Leaves, VisitIsNotNull(e)
      PROVE  \A n \in visited' : NormalInv(n)
  <2>. DEFINE sem == [r \in Rows |-> Known(r[e.col] # Null)]
              normal == [dnf |-> {{At(e.col, "is not", {})}}, safe |-> TRUE]
  <2>1. e.col \in Columns
    BY <1>6, LeafFields DEF VisitIsNotNull
  <2>2. PICK v, g : Leaf(sem, e.col, normal, v, g)
    BY <1>6 DEF VisitIsNotNull
  <2>3. sem \in [Rows -> Truth]
    BY CellTruths, TruthFacts
  <2>4. \A r \in Rows : sem[r] = Known(r[e.col] # Null)
    OBVIOUS
  <2>. HIDE DEF sem
  <2>5. NormalOf(sem, normal)
    BY <2>1, <2>4, NullNormal
  <2>. HIDE DEF normal
  <2>. QED BY <2>2, <2>3, <2>5, LeafNormal
<1>7. ASSUME NEW e \in Leaves, VisitMatches(e)
      PROVE  \A n \in visited' : NormalInv(n)
  <2>. DEFINE sem == [r \in Rows |-> Matches(r[e.col])]
              normal == [dnf |-> {{At(e.col, "~", {})}}, safe |-> TRUE]
  <2>1. e.col \in Columns
    BY <1>7, LeafFields DEF VisitMatches
  <2>2. PICK v, g : Leaf(sem, e.col, normal, v, g)
    BY <1>7 DEF VisitMatches
  <2>3. sem \in [Rows -> Truth]
    BY CellTruths, TruthFacts
  <2>4. \A r \in Rows : sem[r] = Matches(r[e.col])
    OBVIOUS
  <2>. HIDE DEF sem
  <2>5. NormalOf(sem, normal)
    BY <2>1, <2>4, NullNormal
  <2>. HIDE DEF normal
  <2>. QED BY <2>2, <2>3, <2>5, LeafNormal
<1>8. ASSUME NEW e \in Leaves, VisitLiteral(e)
      PROVE  \A n \in visited' : NormalInv(n)
  <2>. DEFINE sem == [r \in Rows |-> e.value]
  <2>1. e.value \in Truth
    BY <1>8, LeafFields DEF VisitLiteral
  <2>2. sem \in [Rows -> Truth] /\ \A r, s \in Rows : sem[r] = sem[s]
    BY <2>1
  <2>3. PICK rest, v, g : visited' = visited \union {Made(sem, {}, TRUE, rest, NoDnf, v, g)}
    BY <1>8 DEF VisitLiteral, Visited
  <2>. HIDE DEF sem
  <2>4. NormalInv(Made(sem, {}, TRUE, rest, NoDnf, v, g))
    BY <2>2, NoDnfNormal, MadeNormal
  <2>. QED BY <2>3, <2>4
<1>9. ASSUME NEW e \in Leaves, VisitOpaque(e)
      PROVE  \A n \in visited' : NormalInv(n)
  <2>1. e.sem \in [Rows -> Truth]
    BY <1>9, LeafFields DEF VisitOpaque
  <2>2. PICK rest, v, g : visited' = visited \union
            {Made(e.sem, e.roots, FALSE, rest, NoDnf, v, g)}
    BY <1>9 DEF VisitOpaque, Visited
  <2>3. NormalInv(Made(e.sem, e.roots, FALSE, rest, NoDnf, v, g))
    BY <2>1, NoDnfNormal, MadeNormal
  <2>. QED BY <2>2, <2>3
<1>10. ASSUME NEW n \in visited, VisitNot(n)
       PROVE  \A m \in visited' : NormalInv(m)
  <2>. DEFINE sem == Negated(n.sem)
  <2>1. PICK rest, v, g : visited' = visited \union
            {Made(sem, n.roots, FALSE, rest, DnfNot(n), v, g)}
    BY <1>10 DEF VisitNot, Visited
  <2>2. sem \in [Rows -> Truth]
    BY NegatedFacts DEF NormalInv
  <2>3. \A r \in Rows : sem[r] = Not(n.sem[r])
    BY DEF Negated
  <2>. HIDE DEF sem
  <2>4. NormalOf(sem, DnfNot(n))
    BY <2>3, NotNormal
  <2>5. NormalInv(Made(sem, n.roots, FALSE, rest, DnfNot(n), v, g))
    BY <2>2, <2>4, MadeNormal
  <2>. QED BY <2>1, <2>5
<1>11. ASSUME NEW l \in visited, NEW r \in visited, NEW isAnd \in BOOLEAN,
              VisitBinary(isAnd, l, r)
       PROVE  \A m \in visited' : NormalInv(m)
  <2>. DEFINE sem == [w \in Rows |-> IF isAnd THEN Conj(l.sem[w], r.sem[w])
                                     ELSE Disj(l.sem[w], r.sem[w])]
              normal == DnfBinary(isAnd, l, r)
  <2>1. PICK roots, rest, v, g : visited' = visited \union
            {Made(sem, roots, FALSE, rest, normal, v, g)}
    BY <1>11 DEF VisitBinary, Visited
  <2>2. sem \in [Rows -> Truth]
    BY TruthFacts DEF NormalInv
  <2>3. \A w \in Rows : sem[w] = IF isAnd THEN Conj(l.sem[w], r.sem[w])
                                 ELSE Disj(l.sem[w], r.sem[w])
    OBVIOUS
  <2>. HIDE DEF sem
  <2>4. NormalOf(sem, normal)
    BY <2>3, BinaryNormal
  <2>. HIDE DEF normal
  <2>5. NormalInv(Made(sem, roots, FALSE, rest, normal, v, g))
    BY <2>2, <2>4, MadeNormal
  <2>. QED BY <2>1, <2>5
<1>12. ASSUME NEW p \in visited, NEW t \in visited, NEW f \in visited,
              VisitTernary(p, t, f)
       PROVE  \A m \in visited' : NormalInv(m)
  <2>. DEFINE sem == [r \in Rows |-> IF p.sem[r] = True THEN t.sem[r] ELSE f.sem[r]]
              normal == DnfTernary(p, t, f)
  <2>1. PICK roots, rest, v, g : visited' = visited \union
            {Made(sem, roots, FALSE, rest, normal, v, g)}
    BY <1>12 DEF VisitTernary, Visited
  <2>2. sem \in [Rows -> Truth]
    BY DEF NormalInv
  <2>3. \A r \in Rows : sem[r] = IF p.sem[r] = True THEN t.sem[r] ELSE f.sem[r]
    OBVIOUS
  <2>. HIDE DEF sem
  <2>4. NormalOf(sem, normal)
    BY <2>3, TernaryNormal
  <2>. HIDE DEF normal
  <2>5. NormalInv(Made(sem, roots, FALSE, rest, normal, v, g))
    BY <2>2, <2>4, MadeNormal
  <2>. QED BY <2>1, <2>5
<1>13. ASSUME NEW k \in 1..MaxOperands, NEW args \in [1..k -> visited],
              NEW isAnd \in BOOLEAN, VisitHorizontal(isAnd, args)
       PROVE  \A m \in visited' : NormalInv(m)
  <2>. DEFINE sem == HorizontalSem(isAnd, args)
              normal == DnfHorizontal(isAnd, args)
  <2>1. DOMAIN args # {} /\ \A i \in DOMAIN args : NormalInv(args[i])
    BY VisitorsAssumption
  <2>2. PICK roots, rest, v, g : visited' = visited \union
            {Made(sem, roots, FALSE, rest, normal, v, g)}
    BY <1>13 DEF VisitHorizontal, Visited
  <2>3. sem \in [Rows -> Truth]
    <3>1. ASSUME NEW r \in Rows
          PROVE  LET ts == [i \in DOMAIN args |-> args[i].sem[r]]
                 IN AllOf(ts) \in Truth /\ AnyOf(ts) \in Truth
      <4>. DEFINE ts == [i \in DOMAIN args |-> args[i].sem[r]]
      <4>1. ts \in [DOMAIN args -> Truth]
        BY <2>1 DEF NormalInv
      <4>. HIDE DEF ts
      <4>2. AllOf(ts) \in Truth /\ AnyOf(ts) \in Truth
        BY <4>1, AllOfFacts, AnyOfFacts
      <4>. QED BY <4>2 DEF ts
    <3>. QED BY <3>1 DEF HorizontalSem
  <2>. HIDE DEF sem
  <2>4. NormalOf(sem, normal)
    BY <2>1, HorizontalNormal DEF sem
  <2>. HIDE DEF normal
  <2>5. NormalInv(Made(sem, roots, FALSE, rest, normal, v, g))
    BY <2>3, <2>4, MadeNormal
  <2>. QED BY <2>2, <2>5
<1>. QED BY <1>1, <1>2, <1>3, <1>4, <1>5, <1>6, <1>7, <1>8, <1>9, <1>10, <1>11,
            <1>12, <1>13 DEF Next

-----------------------------------------------------------------------------
(* The theorems.                                                           *)

AllNormal == \A n \in visited : NormalInv(n)

(* All nodes ever visited have normal forms.                               *)
LEMMA AlwaysNormal == Spec => []AllNormal
<1>1. Init => AllNormal
  BY DEF Init, AllNormal
<1>2. AllNormal /\ [Next]_visited => AllNormal'
  BY NormalStep DEF AllNormal
<1>. QED BY <1>1, <1>2, PTL DEF Spec

(* The DNF of a predicate holds on every row the predicate keeps, and one   *)
(* that may be negated is refuted by every row its negation keeps.         *)
THEOREM NormalFormHolds == Spec => []NormalFormKeepsRows
<1>1. AllNormal => NormalFormKeepsRows
  BY NormalUse DEF AllNormal, NormalFormKeepsRows
<1>. QED BY <1>1, AlwaysNormal, PTL

(* A scan that is skipped has no row the predicate would keep.             *)
THEOREM SkippedScansHold == Spec => []SkippedScansAreEmpty
<1>1. AllNormal => SkippedScansAreEmpty
  <2>1. SUFFICES ASSUME NEW n \in visited, NormalInv(n), SkipsScan(n),
                        NEW r \in Rows, n.sem[r] = True
                 PROVE  FALSE
    BY DEF AllNormal, SkippedScansAreEmpty
  <2>2. CASE n.lit /\ \A s \in Rows : n.sem[s] = False
    BY <2>1, <2>2, TruthCases
  <2>3. CASE n.dnf # None /\ \A clause \in n.dnf : IsContradiction(clause, TRUE)
    <3>1. Typed(n.dnf) /\ Holds(n.dnf, r)
      BY <2>1, <2>3, NormalUse
    <3>2. PICK clause \in n.dnf : \A a \in clause : AtomTruth(a, r) = True
      BY <3>1 DEF Holds
    <3>3. \A a \in clause : TypedAtom(a)
      BY <3>1 DEF Typed
    <3>4. ~IsContradiction(clause, TRUE)
      BY <3>2, <3>3, ContradictionSound
    <3>. QED BY <2>3, <3>4
  <2>. QED BY <2>1, <2>2, <2>3 DEF SkipsScan
<1>. QED BY <1>1, AlwaysNormal, PTL

(* What an atom becomes is met by the file of a row the atom is true of.    *)
LEMMA FilterMeets ==
    ASSUME NEW a, TypedAtom(a), ~AsksForNull(a), NEW r \in Rows, AtomTruth(a, r) = True,
           NEW b \in UriFilter(FilterOf(a))
    PROVE  FileMeets(b, r)
<1>1. b \in FilterOf(a) /\ ~(b.op \in {"=", "in"} /\ Null \in b.vals)
  BY DEF UriFilter
<1>2. a.op # "is"
  BY DEF AsksForNull
<1>3. r[a.col] # Null
  BY <1>2, TrueAtom
<1>4. CASE a.op = "is not"
  <2>1. b = At(a.col, "!=", {Null})
    BY <1>1, <1>4 DEF FilterOf
  <2>2. b.op = "!=" /\ b.col = a.col /\ b.vals = {Null}
    BY <2>1, AtFields
  <2>. QED BY <1>3, <2>2 DEF FileMeets
<1>5. CASE a.op = "!in"
  <2>1. b = At(a.col, "!in", a.vals \ {Null})
    BY <1>1, <1>5 DEF FilterOf
  <2>2. b.op = "!in" /\ b.col = a.col /\ b.vals = a.vals \ {Null}
    BY <2>1, AtFields
  <2>3. r[a.col] \notin a.vals
    BY <1>5, TrueAtom
  <2>. QED BY <1>3, <2>2, <2>3 DEF FileMeets
<1>6. CASE a.op \in {"=", "!=", "in"}
  <2>1. b = a
    BY <1>1, <1>6 DEF FilterOf
  <2>2. a.op \in {"=", "in"} => r[a.col] \in a.vals
    BY TrueAtom
  <2>3. a.op = "!=" => r[a.col] \notin a.vals
    BY TrueAtom
  <2>. QED BY <1>3, <1>6, <2>1, <2>2, <2>3 DEF FileMeets
<1>7. CASE a.op \notin {"is not", "!in", "=", "!=", "in"}
  BY <1>1, <1>2, <1>7 DEF FilterOf
<1>. QED BY <1>4, <1>5, <1>6, <1>7

(* Pruning a Delta table keeps the file of every row the predicate keeps.   *)
THEOREM PruningHolds == Spec => []PruningKeepsFiles
<1>1. AllNormal => PruningKeepsFiles
  <2>1. SUFFICES ASSUME NEW n \in visited, NormalInv(n), NEW r \in Rows, n.sem[r] = True
                 PROVE  FileRead(n, r)
    BY DEF AllNormal, PruningKeepsFiles
  <2>. DEFINE filters(clause) == UNION {FilterOf(a) : a \in clause}
              pruned == PartitionFilters(n.dnf)
  <2>2. CASE pruned = None
    BY <2>2 DEF FileRead
  <2>3. CASE pruned # None
    <3>1. n.dnf # None /\ \A clause \in n.dnf : filters(clause) \in pruned
      BY <2>3 DEF PartitionFilters
    <3>2. Typed(n.dnf) /\ Holds(n.dnf, r)
      BY <2>1, <3>1, NormalUse
    <3>3. PICK clause \in n.dnf : \A a \in clause : AtomTruth(a, r) = True
      BY <3>2 DEF Holds
    <3>4. ASSUME NEW b \in UriFilter(filters(clause)) PROVE FileMeets(b, r)
      <4>1. PICK a \in clause : b \in UriFilter(FilterOf(a))
        BY DEF UriFilter
      <4>2. ~AsksForNull(a)
        BY <4>1 DEF UriFilter, FilterOf
      <4>. QED BY <3>2, <3>3, <4>1, <4>2, FilterMeets DEF Typed
    <3>. HIDE DEF filters, pruned
    <3>5. pruned = PartitionFilters(n.dnf)
      BY DEF pruned
    <3>. QED BY <3>1, <3>4, <3>5 DEF FileRead
  <2>. QED BY <2>2, <2>3
<1>. QED BY <1>1, AlwaysNormal, PTL

-----------------------------------------------------------------------------
(* Values and intervals.  What a predicate allows its target covers the     *)
(* rows it keeps; what is negated must in addition be exact.  A null is on  *)
(* no interval, so a predicate that keeps one must leave the line whole.   *)

AllowedInv(n) ==
    /\ n.sem \in [Rows -> Truth]
    /\ \A r \in Rows : n.sem[r] = True =>
          /\ n.incl # None => r[Target] \in n.incl
          /\ r[Target] \notin n.excl
          /\ IF r[Target] = Null THEN n.range = Positions ELSE 2 * r[Target] \in n.range
    /\ n.exact =>
          /\ n.excl = {}
          /\ n.incl # None =>
                \A r \in Rows : n.sem[r] = False => r[Target] \notin n.incl
    /\ n.range \in SUBSET Positions

(* The target of a row is a cell, and a value has a position.               *)
LEMMA TargetCell ==
    \A r \in Rows : /\ r[Target] \in Cell
                    /\ r[Target] # Null => r[Target] \in Values /\ 2 * r[Target] \in Positions
<1>1. \A v \in Values : 2 * v \in Positions
  BY DEF Positions
<1>2. QED BY <1>1, VisitorsAssumption DEF Rows, Cell

(* A node about which nothing is known of the target.                      *)
LEMMA AnyAllowed ==
    ASSUME NEW sem \in [Rows -> Truth], NEW roots, NEW lit, NEW rest, NEW normal
    PROVE  AllowedInv(Made(sem, roots, lit, rest, normal, AnyValue, Universe))
  BY TargetCell DEF AllowedInv, Made, AnyValue, Universe

(* The values and the range a leaf may return for the target.               *)
AllowedLeaf(sem, values, range) ==
    /\ \A r \in Rows : sem[r] = True =>
          /\ values.incl # None => r[Target] \in values.incl
          /\ r[Target] \notin values.excl
          /\ IF r[Target] = Null THEN range = Positions ELSE 2 * r[Target] \in range
    /\ values.exact =>
          /\ values.excl = {}
          /\ values.incl # None =>
                \A r \in Rows : sem[r] = False => r[Target] \notin values.incl
    /\ range \in SUBSET Positions

(* Leaf nodes.                                                             *)
LEMMA LeafAllowed ==
    ASSUME NEW sem \in [Rows -> Truth], NEW c, NEW normal, NEW values, NEW range,
           c = Target => AllowedLeaf(sem, values, range),
           Leaf(sem, c, normal, values, range),
           \A n \in visited : AllowedInv(n)
    PROVE  \A n \in visited' : AllowedInv(n)
<1> DEFINE made == Made(sem, {c}, FALSE, WholeOr({c}, sem, NoRestriction), normal,
                        IF c = Target THEN values ELSE AnyValue,
                        IF c = Target THEN range ELSE Universe)
<1>1. visited' = visited \union {made}
  BY DEF Leaf, Visited
<1>2. CASE c = Target
  <2>1. made = Made(sem, {c}, FALSE, WholeOr({c}, sem, NoRestriction), normal, values, range)
    BY <1>2
  <2>2. AllowedInv(made)
    BY <1>2, <2>1 DEF AllowedLeaf, AllowedInv, Made
  <2>3. QED BY <1>1, <2>2
<1>3. CASE c # Target
  BY <1>1, <1>3, AnyAllowed
<1>4. QED BY <1>2, <1>3

(* A comparison of the target with a cell.                                 *)
LEMMA CompareAllowed ==
    ASSUME NEW op \in Comparisons, NEW v \in Cell,
           NEW sem, sem = [r \in Rows |-> Compare(op, r[Target], v)]
    PROVE  AllowedLeaf(sem, SetComparisonValues(op, v), CompareRange(op, v))
<1>1. ASSUME NEW r \in Rows, sem[r] = True
      PROVE  /\ op \in {"eq", "eqv"} => r[Target] = v
             /\ op \in {"ne", "nev"} => r[Target] # v
             /\ r[Target] = Null => v = Null \/ op \in {"ne", "nev"}
             /\ op = "gt" => r[Target] > v
             /\ op = "gte" => r[Target] >= v
             /\ op = "lt" => r[Target] < v
             /\ op = "lte" => r[Target] <= v
  BY <1>1 DEF Compare, Known, True, False, Unknown
<1>2. ASSUME NEW r \in Rows, sem[r] = False, op = "eqv" \/ (op = "eq" /\ v # Null)
      PROVE  r[Target] # v
  BY <1>2 DEF Compare, Known, True, False, Unknown
<1>3. CompareRange(op, v) \in SUBSET Positions
  BY DEF CompareRange, Universe, Positions, Cell
<1>4. ASSUME NEW r \in Rows, sem[r] = True
      PROVE  IF r[Target] = Null THEN CompareRange(op, v) = Positions
             ELSE 2 * r[Target] \in CompareRange(op, v)
  <2>1. CASE v = Null
    BY <2>1, TargetCell DEF CompareRange, Universe
  <2>2. CASE v # Null
    <3>1. v \in Int /\ (r[Target] # Null => r[Target] \in Int)
      BY <2>2, TargetCell, CellsAssumption DEF Cell
    <3>2. QED BY <1>1, <1>4, <2>2, <3>1, TargetCell
              DEF CompareRange, Universe, Comparisons, Orderings
  <2>3. QED BY <2>1, <2>2
<1>5. QED
  BY <1>1, <1>2, <1>3, <1>4
  DEF AllowedLeaf, SetComparisonValues, OnlyValues, ButValues, AnyValue, Comparisons, Orderings

(* A list of cells.                                                        *)
LEMMA IsInAllowed ==
    ASSUME NEW vals \in SUBSET Cell, NEW nullsEqual \in BOOLEAN,
           NEW sem, sem = [r \in Rows |-> IsIn(r[Target], vals, nullsEqual)]
    PROVE  AllowedLeaf(sem, OnlyValues(vals, nullsEqual \/ Null \notin vals), IsInRange(vals))
<1>1. ASSUME NEW r \in Rows
      PROVE  /\ sem[r] = True => r[Target] \in vals
             /\ sem[r] = False => r[Target] \notin vals
  BY DEF IsIn, Known, True, False, Unknown
<1>2. IsInRange(vals) \in SUBSET Positions
  BY DEF IsInRange, Universe, Positions, Cell
<1>3. ASSUME NEW r \in Rows, sem[r] = True
      PROVE  IF r[Target] = Null THEN IsInRange(vals) = Positions
             ELSE 2 * r[Target] \in IsInRange(vals)
  BY <1>1, <1>3, TargetCell DEF IsInRange, Universe
<1>4. QED BY <1>1, <1>2, <1>3 DEF AllowedLeaf, OnlyValues

(* An interval between two cells.                                          *)
LEMMA BetweenAllowed ==
    ASSUME NEW lo \in Cell, NEW hi \in Cell, NEW closed,
           NEW sem, sem = [r \in Rows |-> Between(r[Target], lo, hi, closed)]
    PROVE  AllowedLeaf(sem, AnyValue, BetweenRange(lo, hi, closed))
<1> DEFINE below == IF "lower" \in closed THEN "gte" ELSE "gt"
           above == IF "upper" \in closed THEN "lte" ELSE "lt"
           lower == [r \in Rows |-> Compare(below, r[Target], lo)]
           upper == [r \in Rows |-> Compare(above, r[Target], hi)]
<1>1. \A r \in Rows : sem[r] = True => lower[r] = True /\ upper[r] = True
  <2>1. \A r \in Rows : lower[r] \in Truth /\ upper[r] \in Truth
    BY CellTruths
  <2>2. \A r \in Rows : sem[r] = Conj(lower[r], upper[r])
    BY DEF Between
  <2>3. QED BY <2>1, <2>2, JoinTruths
<1>2. /\ AllowedLeaf(lower, SetComparisonValues(below, lo), CompareRange(below, lo))
      /\ AllowedLeaf(upper, SetComparisonValues(above, hi), CompareRange(above, hi))
  BY CompareAllowed DEF Comparisons, Orderings
<1>3. BetweenRange(lo, hi, closed) =
          IF lo = Null \/ hi = Null THEN Positions
          ELSE CompareRange(below, lo) \intersect CompareRange(above, hi)
  BY DEF BetweenRange, Universe
<1> HIDE DEF below, above, lower, upper
<1>4. QED BY <1>1, <1>2, <1>3, TargetCell DEF AllowedLeaf, AnyValue

(* One step per visit.                                                     *)
LEMMA AllowedStep ==
    ASSUME \A n \in visited : AllowedInv(n), [Next]_visited
    PROVE  \A n \in visited' : AllowedInv(n)
<1>1. CASE UNCHANGED visited
  BY <1>1
<1>2. ASSUME NEW e \in Leaves, VisitComparison(e)
      PROVE  \A n \in visited' : AllowedInv(n)
  <2> DEFINE sem == [r \in Rows |-> IF e.flipped THEN Compare(e.op, e.value, r[e.col])
                                    ELSE Compare(e.op, r[e.col], e.value)]
             values == IF e.flipped THEN AnyValue ELSE SetComparisonValues(e.op, e.value)
             range == IF e.flipped THEN Universe ELSE CompareRange(e.op, e.value)
  <2>1. e.op \in Comparisons /\ e.value \in Cell
    BY <1>2, LeavesAssumption DEF VisitComparison, LeafSyntax
  <2>2. sem \in [Rows -> Truth]
    BY CellTruths
  <2>3. PICK m : Leaf(sem, e.col, m, values, range)
    BY <1>2 DEF VisitComparison
  <2>4. e.col = Target => AllowedLeaf(sem, values, range)
    <3>1. CASE e.flipped
      BY <3>1, TargetCell DEF AllowedLeaf, AnyValue, Universe
    <3>2. CASE ~e.flipped /\ e.col = Target
      <4>1. sem = [r \in Rows |-> Compare(e.op, r[Target], e.value)]
        BY <3>2
      <4> HIDE DEF sem
      <4>2. QED BY <2>1, <3>2, <4>1, CompareAllowed
    <3>3. QED BY <3>1, <3>2
  <2> HIDE DEF sem, values, range
  <2>5. QED BY <2>2, <2>3, <2>4, LeafAllowed
<1>3. ASSUME NEW e \in Leaves, VisitIsIn(e)
      PROVE  \A n \in visited' : AllowedInv(n)
  <2> DEFINE sem == [r \in Rows |-> IsIn(r[e.col], e.values, e.nulls_equal)]
             values == OnlyValues(e.values, e.nulls_equal \/ Null \notin e.values)
             range == IsInRange(e.values)
  <2>1. e.values \in SUBSET Cell /\ e.nulls_equal \in BOOLEAN
    BY <1>3, LeavesAssumption DEF VisitIsIn, LeafSyntax
  <2>2. sem \in [Rows -> Truth]
    BY CellTruths
  <2>3. PICK m : Leaf(sem, e.col, m, values, range)
    BY <1>3 DEF VisitIsIn
  <2>4. e.col = Target => AllowedLeaf(sem, values, range)
    BY <2>1, IsInAllowed
  <2> HIDE DEF sem, values, range
  <2>5. QED BY <2>2, <2>3, <2>4, LeafAllowed
<1>4. ASSUME NEW e \in Leaves, VisitBetween(e)
      PROVE  \A n \in visited' : AllowedInv(n)
  <2> DEFINE sem == [r \in Rows |-> Between(r[e.col], e.lower, e.upper, e.closed)]
             range == BetweenRange(e.lower, e.upper, e.closed)
  <2>1. e.lower \in Cell /\ e.upper \in Cell
    BY <1>4, LeavesAssumption DEF VisitBetween, LeafSyntax
  <2>2. sem \in [Rows -> Truth]
    BY CellTruths
  <2>3. PICK m : Leaf(sem, e.col, m, AnyValue, range)
    BY <1>4 DEF VisitBetween
  <2>4. e.col = Target => AllowedLeaf(sem, AnyValue, range)
    BY <2>1, BetweenAllowed
  <2> HIDE DEF sem, range
  <2>5. QED BY <2>2, <2>3, <2>4, LeafAllowed
<1>5. ASSUME NEW e \in Leaves, VisitIsNull(e)
      PROVE  \A n \in visited' : AllowedInv(n)
  <2> DEFINE sem == [r \in Rows |-> Known(r[e.col] = Null)]
  <2>1. sem \in [Rows -> Truth]
    BY TruthFacts
  <2>2. PICK m : Leaf(sem, e.col, m, OnlyValues({Null}, TRUE), Universe)
    BY <1>5 DEF VisitIsNull
  <2>3. e.col = Target => AllowedLeaf(sem, OnlyValues({Null}, TRUE), Universe)
    BY TargetCell DEF AllowedLeaf, OnlyValues, Universe, Known, True, False
  <2> HIDE DEF sem
  <2>4. QED BY <2>1, <2>2, <2>3, LeafAllowed
<1>6. ASSUME NEW e \in Leaves, VisitIsNotNull(e)
      PROVE  \A n \in visited' : AllowedInv(n)
  <2> DEFINE sem == [r \in Rows |-> Known(r[e.col] # Null)]
  <2>1. sem \in [Rows -> Truth]
    BY TruthFacts
  <2>2. PICK m : Leaf(sem, e.col, m, ButValues({Null}), Universe)
    BY <1>6 DEF VisitIsNotNull
  <2>3. e.col = Target => AllowedLeaf(sem, ButValues({Null}), Universe)
    BY TargetCell DEF AllowedLeaf, ButValues, Universe, Known, True, False
  <2> HIDE DEF sem
  <2>4. QED BY <2>1, <2>2, <2>3, LeafAllowed
<1>7. ASSUME NEW e \in Leaves, VisitMatches(e)
      PROVE  \A n \in visited' : AllowedInv(n)
  <2> DEFINE sem == [r \in Rows |-> Matches(r[e.col])]
  <2>1. sem \in [Rows -> Truth]
    BY CellTruths
  <2>2. PICK m : Leaf(sem, e.col, m, AnyValue, Universe)
    BY <1>7 DEF VisitMatches
  <2>3. AllowedLeaf(sem, AnyValue, Universe)
    BY TargetCell DEF AllowedLeaf, AnyValue, Universe
  <2> HIDE DEF sem
  <2>4. QED BY <2>1, <2>2, <2>3, LeafAllowed
<1>8. ASSUME NEW e \in Leaves, VisitLiteral(e)
      PROVE  \A n \in visited' : AllowedInv(n)
  <2> DEFINE sem == [r \in Rows |-> e.value]
             rest == [pos |-> sem, neg |-> Negated(sem)]
  <2>1. sem \in [Rows -> Truth]
    BY <1>8, LeavesAssumption DEF VisitLiteral, LeafSyntax
  <2>2. visited' = visited \union
            {Made(sem, {}, TRUE, rest, NoDnf, AnyValue, Universe)}
    BY <1>8 DEF VisitLiteral, Visited
  <2> HIDE DEF sem, rest
  <2>3. QED BY <2>1, <2>2, AnyAllowed
<1>9. ASSUME NEW e \in Leaves, VisitOpaque(e)
      PROVE  \A n \in visited' : AllowedInv(n)
  <2>1. e.sem \in [Rows -> Truth]
    BY <1>9, LeavesAssumption DEF VisitOpaque, LeafSyntax
  <2>2. PICK w : visited' = visited \union
            {Made(e.sem, e.roots, FALSE, w, NoDnf, AnyValue, Universe)}
    BY <1>9 DEF VisitOpaque, Visited
  <2>3. QED BY <2>1, <2>2, AnyAllowed
<1>10. ASSUME NEW n \in visited, VisitNot(n)
       PROVE  \A m \in visited' : AllowedInv(m)
  <2> DEFINE sem == Negated(n.sem)
  <2>1. AllowedInv(n)
    OBVIOUS
  <2>2. /\ sem \in [Rows -> Truth]
        /\ \A r \in Rows : sem[r] = True => n.sem[r] = False
    <3>1. n.sem \in [Rows -> Truth]
      BY <2>1 DEF AllowedInv
    <3>2. sem \in [Rows -> Truth] /\ \A r \in Rows : sem[r] = 2 - n.sem[r]
      BY <3>1, NegatedFacts
    <3>3. \A r \in Rows : n.sem[r] \in Truth
      BY <3>1
    <3>4. QED BY <3>2, <3>3 DEF Truth, True, False, Unknown
  <2>3. PICK w, m : visited' = visited \union
            {Made(sem, n.roots, FALSE, w, m, SetNot(n), Universe)}
    BY <1>10 DEF VisitNot, Visited
  <2> HIDE DEF sem
  <2>4. CASE ValidValues(n) # None /\ n.exact
    <3>1. /\ n.incl # None /\ n.excl = {} /\ ValidValues(n) = n.incl
          /\ \A r \in Rows : sem[r] = True => r[Target] \notin n.incl
      BY <2>1, <2>2, <2>4 DEF AllowedInv, ValidValues
    <3>2. SetNot(n) = [incl |-> None, excl |-> n.incl, exact |-> FALSE]
      BY <2>4, <3>1 DEF SetNot, ButValues
    <3>3. AllowedInv(Made(sem, n.roots, FALSE, w, m, SetNot(n), Universe))
      BY <2>2, <3>1, <3>2, TargetCell DEF AllowedInv, Made, Universe
    <3>4. QED BY <2>3, <3>3
  <2>5. CASE ~(ValidValues(n) # None /\ n.exact)
    BY <2>2, <2>3, <2>5, AnyAllowed DEF SetNot
  <2>6. QED BY <2>4, <2>5
<1>11. ASSUME NEW l \in visited, NEW r \in visited, NEW isAnd \in BOOLEAN,
              VisitBinary(isAnd, l, r)
       PROVE  \A m \in visited' : AllowedInv(m)
  <2> DEFINE sem == [w \in Rows |-> IF isAnd THEN Conj(l.sem[w], r.sem[w])
                                    ELSE Disj(l.sem[w], r.sem[w])]
             roots == l.roots \union r.roots
             range == IF isAnd THEN l.range \intersect r.range ELSE l.range \union r.range
  <2>1. PICK w, m : visited' = visited \union
            {Made(sem, roots, FALSE, w, m, SetBinary(isAnd, l, r), range)}
    BY <1>11 DEF VisitBinary, Visited
  <2>2. AllowedInv(l) /\ AllowedInv(r)
    OBVIOUS
  <2>3. sem \in [Rows -> Truth]
    BY <2>2, TruthFacts DEF AllowedInv
  <2>4. \A x \in Rows :
           /\ sem[x] = True => IF isAnd THEN l.sem[x] = True /\ r.sem[x] = True
                               ELSE l.sem[x] = True \/ r.sem[x] = True
           /\ sem[x] = False => IF isAnd THEN l.sem[x] = False \/ r.sem[x] = False
                                ELSE l.sem[x] = False /\ r.sem[x] = False
    <3>1. \A x \in Rows : l.sem[x] \in Truth /\ r.sem[x] \in Truth
      BY <2>2 DEF AllowedInv
    <3>2. QED BY <3>1 DEF Conj, Disj, Truth, True, False, Unknown
  <2> HIDE DEF sem
  <2>5. AllowedLeaf(sem, SetBinary(isAnd, l, r), range)
    <3>1. CASE isAnd
      BY <2>2, <2>4, <3>1 DEF AllowedLeaf, AllowedInv, SetBinary
    <3>2. CASE ~isAnd
      BY <2>2, <2>4, <3>2 DEF AllowedLeaf, AllowedInv, SetBinary
    <3>3. QED BY <3>1, <3>2
  <2> HIDE DEF roots, range
  <2>6. AllowedInv(Made(sem, roots, FALSE, w, m, SetBinary(isAnd, l, r), range))
    BY <2>3, <2>5 DEF AllowedLeaf, AllowedInv, Made
  <2>7. QED BY <2>1, <2>6
<1>12. ASSUME NEW p \in visited, NEW t \in visited, NEW f \in visited,
              VisitTernary(p, t, f)
       PROVE  \A m \in visited' : AllowedInv(m)
  <2> DEFINE sem == [r \in Rows |-> IF p.sem[r] = True THEN t.sem[r] ELSE f.sem[r]]
             roots == p.roots \union t.roots \union f.roots
             range == t.range \union f.range
  <2>1. PICK w, m : visited' = visited \union
            {Made(sem, roots, FALSE, w, m, AnyValue, range)}
    BY <1>12 DEF VisitTernary, Visited
  <2>2. AllowedInv(t) /\ AllowedInv(f)
    OBVIOUS
  <2>3. /\ sem \in [Rows -> Truth]
        /\ \A r \in Rows : sem[r] = True => t.sem[r] = True \/ f.sem[r] = True
    BY <2>2 DEF AllowedInv
  <2> HIDE DEF sem, roots
  <2>4. AllowedInv(Made(sem, roots, FALSE, w, m, AnyValue, range))
    BY <2>2, <2>3 DEF AllowedInv, Made, AnyValue
  <2>5. QED BY <2>1, <2>4
<1>13. ASSUME NEW k \in 1..MaxOperands, NEW args \in [1..k -> visited],
              NEW isAnd \in BOOLEAN, VisitHorizontal(isAnd, args)
       PROVE  \A m \in visited' : AllowedInv(m)
  <2> DEFINE sem == HorizontalSem(isAnd, args)
             roots == UNION {args[i].roots : i \in DOMAIN args}
  <2>1. sem \in [Rows -> Truth]
    BY DEF HorizontalSem, AllOf, AnyOf, Truth
  <2>2. PICK w, m : visited' = visited \union
            {Made(sem, roots, FALSE, w, m, AnyValue, Universe)}
    BY <1>13 DEF VisitHorizontal, Visited
  <2> HIDE DEF sem, roots
  <2>3. QED BY <2>1, <2>2, AnyAllowed
<1>14. QED BY <1>1, <1>2, <1>3, <1>4, <1>5, <1>6, <1>7, <1>8, <1>9, <1>10, <1>11,
              <1>12, <1>13 DEF Next

-----------------------------------------------------------------------------
(* Splits.                                                                 *)

(* A set of naturals has a least element: what stands here for induction.  *)
LEMMA LeastNatural ==
    ASSUME NEW S \in SUBSET Nat, S # {}
    PROVE  \E m \in S : \A k \in S : m <= k
<1> DEFINE less == OpToRel(<, Nat)
<1>1. IsWellFoundedOn(less, Nat)
  BY NatLessThanWellFounded
<1>2. \A x, y \in Nat : x < y => <<x, y>> \in less
  BY DEF OpToRel
<1> HIDE DEF less
<1>3. PICK m \in S : \A k \in S : ~(<<k, m>> \in less)
  BY <1>1, WFMin
<1>4. \A k \in S : m \in Nat /\ k \in Nat /\ ~(k < m)
  BY <1>2, <1>3
<1>5. QED BY <1>4

(* Multiples of a width are at least the width apart.                      *)
LEMMA Multiples ==
    ASSUME NEW E \in Nat \ {0}, NEW a \in Int, NEW b \in Int, a < b
    PROVE  /\ a * E \in Int /\ b * E \in Int
           /\ (a + 1) * E = a * E + E
           /\ a * E + E <= b * E
<1>1. a * E \in Int /\ b * E \in Int /\ (a + 1) * E = a * E + E
  OBVIOUS
<1>2. PICK d \in Nat : b = a + 1 + d
  <2>1. b - a - 1 \in Nat /\ b = a + 1 + (b - a - 1)
    OBVIOUS
  <2>2. QED BY <2>1
<1>3. d * E \in Nat /\ b * E = a * E + E + d * E
  <2>1. d * E \in Nat
    OBVIOUS
  <2>2. (a + 1 + d) * E = a * E + E + d * E
    OBVIOUS
  <2>3. QED BY <1>2, <2>1, <2>2
<1>4. QED BY <1>1, <1>3

(* The multiple of a width at or before a number.                          *)
LEMMA MultipleBefore ==
    ASSUME NEW E \in Nat \ {0}, NEW v \in Int
    PROVE  /\ v \div E \in Int
           /\ (v \div E) * E <= v
           /\ v < (v \div E) * E + E
<1>1. v \div E \in Int /\ v % E \in 0..E-1 /\ v = E * (v \div E) + (v % E)
  OBVIOUS
<1>2. (v \div E) * E = E * (v \div E)
  BY <1>1
<1>3. E * (v \div E) \in Int /\ v % E \in Int /\ 0 <= v % E /\ v % E < E
  BY <1>1
<1>4. QED BY <1>1, <1>2, <1>3

(* A position of a bounded range is on one of its atomic intervals.         *)
LEMMA OnAtomic ==
    ASSUME NEW a \in Int, NEW b \in Int, NEW R \in SUBSET (a..b), NEW p \in R
    PROVE  \E i \in Atomics(R) : i.first <= p /\ p <= i.last
<1> DEFINE up == {k \in Nat : p + k + 1 \notin R}
           down == {k \in Nat : p - k - 1 \notin R}
<1>1. p \in Int /\ a <= p /\ p <= b
  OBVIOUS
<1>2. PICK u \in up : \A k \in up : u <= k
  <2>1. b - p \in up
    BY <1>1
  <2>2. QED BY <2>1, LeastNatural
<1>3. PICK d \in down : \A k \in down : d <= k
  <2>1. p - a \in down
    BY <1>1
  <2>2. QED BY <2>1, LeastNatural
<1>4. /\ u \in Nat /\ p + u + 1 \notin R
      /\ d \in Nat /\ p - d - 1 \notin R
  OBVIOUS
<1> HIDE DEF up, down
<1>5. \A q \in p..p + u : q \in R
  <2>1. SUFFICES ASSUME NEW q \in p..p + u, q # p PROVE q \in R
    OBVIOUS
  <2>2. PICK k \in Nat : q = p + k + 1 /\ k < u
    <3>1. q - p - 1 \in Nat /\ q - p - 1 < u /\ q = p + (q - p - 1) + 1
      BY <1>1, <1>4, <2>1
    <3>2. QED BY <3>1
  <2>3. k \notin up
    BY <1>2, <1>4, <2>2
  <2>4. p + k + 1 \in R
    BY <2>3 DEF up
  <2>5. QED BY <2>2, <2>4
<1>6. \A q \in p - d..p : q \in R
  <2>1. SUFFICES ASSUME NEW q \in p - d..p, q # p PROVE q \in R
    OBVIOUS
  <2>2. PICK k \in Nat : q = p - k - 1 /\ k < d
    <3>1. p - q - 1 \in Nat /\ p - q - 1 < d /\ q = p - (p - q - 1) - 1
      BY <1>1, <1>4, <2>1
    <3>2. QED BY <3>1
  <2>3. k \notin down
    BY <1>3, <1>4, <2>2
  <2>4. p - k - 1 \in R
    BY <2>3 DEF down
  <2>5. QED BY <2>2, <2>4
<1> DEFINE i == [first |-> p - d, last |-> p + u]
<1>7. p - d \in R /\ p + u \in R /\ (p - d)..(p + u) \subseteq R
  BY <1>1, <1>4, <1>5, <1>6
<1>8. i \in Atomics(R) /\ i.first <= p /\ p <= i.last
  BY <1>1, <1>4, <1>7 DEF Atomics
<1>9. QED BY <1>8

(* What an atomic interval is.                                             *)
LEMMA AtomicFacts ==
    ASSUME NEW R \in SUBSET Int, NEW i \in Atomics(R)
    PROVE  /\ i = [first |-> i.first, last |-> i.last]
           /\ i.first \in Int /\ i.last \in Int
           /\ \A p \in Int : i.first <= p /\ p <= i.last => p \in R
           /\ i.first - 1 \notin R /\ i.last + 1 \notin R
<1>1. /\ i \in [first : R, last : R] /\ i.first..i.last \subseteq R
      /\ i.first - 1 \notin R /\ i.last + 1 \notin R
  BY DEF Atomics
<1>2. i.first \in Int /\ i.last \in Int /\ i = [first |-> i.first, last |-> i.last]
  BY <1>1
<1>3. \A p \in Int : i.first <= p /\ p <= i.last => p \in i.first..i.last
  BY <1>2
<1>4. QED BY <1>1, <1>2, <1>3

(* No other atomic interval reaches a position, or stops beside it.         *)
LEMMA OneAtomic ==
    ASSUME NEW R \in SUBSET Int, NEW i \in Atomics(R), NEW j \in Atomics(R), NEW p \in Int,
           i.first <= p, p <= i.last, j.first - 1 <= p, p <= j.last + 1
    PROVE  i = j
<1>1. /\ i = [first |-> i.first, last |-> i.last]
      /\ j = [first |-> j.first, last |-> j.last]
      /\ i.first \in Int /\ i.last \in Int /\ j.first \in Int /\ j.last \in Int
      /\ i.first - 1 \notin R /\ i.last + 1 \notin R
      /\ j.first - 1 \notin R /\ j.last + 1 \notin R
  BY AtomicFacts
<1>2. /\ \A q \in Int : i.first <= q /\ q <= i.last => q \in R
      /\ \A q \in Int : j.first <= q /\ q <= j.last => q \in R
  BY AtomicFacts
<1>3. j.first <= p /\ p <= j.last
  <2>1. p \in R
    BY <1>2
  <2>2. p # j.first - 1 /\ p # j.last + 1
    BY <1>1, <2>1
  <2>3. QED BY <1>1, <2>2
<1>4. i.first = j.first
  <2>1. ~(i.first <= j.first - 1)
    BY <1>1, <1>2, <1>3
  <2>2. ~(j.first <= i.first - 1)
    BY <1>1, <1>2, <1>3
  <2>3. QED BY <1>1, <2>1, <2>2
<1>5. i.last = j.last
  <2>1. ~(j.last >= i.last + 1)
    BY <1>1, <1>2, <1>3
  <2>2. ~(i.last >= j.last + 1)
    BY <1>1, <1>2, <1>3
  <2>3. QED BY <1>1, <2>1, <2>2
<1>6. QED BY <1>1, <1>4, <1>5

(* The bounds of an interval and the values on it.                         *)
LEMMA BoundsOf ==
    ASSUME NEW i, i.first \in Int, i.last \in Int, NEW v \in Int
    PROVE  /\ LowerOf(i) \in Int /\ UpperOf(i) \in Int
           /\ i.first <= 2 * v => LowerOf(i) <= v
           /\ 2 * v <= i.last => v <= UpperOf(i) /\ (ClosedAbove(i) \/ v < UpperOf(i))
           /\ LowerOf(i) <= v => i.first - 1 <= 2 * v
           /\ v <= UpperOf(i) => 2 * v <= i.last + 1
  BY DEF LowerOf, UpperOf, ClosedAbove

(* A value on an atomic interval is in exactly one of its buckets: the full*)
(* ones are numbered from 0 to below their count, the last takes the rest. *)
LEMMA BucketsOnce ==
    ASSUME NEW i, i.first \in Int, i.last \in Int, NEW v \in Values,
           i.first <= 2 * v, 2 * v <= i.last
    PROVE  \E p \in Buckets(i) : v \in p.cells /\ \A q \in Buckets(i) : v \in q.cells => q = p
<1> DEFINE lo == LowerOf(i)
           hi == UpperOf(i)
           full == {k \in 0..hi - lo : lo + (k + 1) * Every < hi}
           enough == {k \in Nat : lo + (k + 1) * Every >= hi}
<1>1. v \in Int /\ Every \in Nat \ {0}
  BY CellsAssumption, UsesAssumption
<1>2. /\ lo \in Int /\ hi \in Int /\ lo <= v /\ v <= hi /\ (ClosedAbove(i) \/ v < hi)
  BY <1>1, BoundsOf
<1> HIDE DEF lo, hi
<1>3. \A a \in Int : a * Every \in Int /\ (a + 1) * Every = a * Every + Every
  BY <1>1
<1>4. \A a, b \in Int : a < b => a * Every + Every <= b * Every
  BY <1>1, Multiples
<1>5. hi - lo \in enough
  <2>1. hi - lo \in Nat /\ 0 * Every = 0
    BY <1>1, <1>2
  <2>2. hi - lo <= (hi - lo) * Every
    <3>1. \A a \in Nat, e \in Nat \ {0} : a <= a * e
      <4>1. SUFFICES ASSUME NEW a \in Nat, NEW e \in Nat \ {0} PROVE a <= a * e
        OBVIOUS
      <4>2. PICK f \in Nat : e = 1 + f
        <5>1. e - 1 \in Nat /\ e = 1 + (e - 1)
          OBVIOUS
        <5>2. QED BY <5>1
      <4>3. a * f \in Nat /\ a * (1 + f) = a + a * f
        OBVIOUS
      <4>4. QED BY <4>2, <4>3
    <3>2. QED BY <1>1, <2>1, <3>1
  <2>3. QED BY <1>1, <1>2, <1>3, <2>1, <2>2
<1>6. PICK m \in enough : \A k \in enough : m <= k
  BY <1>5, LeastNatural
<1>7. m \in Nat /\ m <= hi - lo /\ lo + (m + 1) * Every >= hi
  BY <1>5, <1>6
<1>8. \A k \in Nat : k < m => lo + (k + 1) * Every < hi
  <2>1. SUFFICES ASSUME NEW k \in Nat, k < m PROVE lo + (k + 1) * Every < hi
    OBVIOUS
  <2>2. k \notin enough
    BY <1>6, <1>7, <2>1
  <2>3. (k + 1) * Every \in Int
    BY <1>3
  <2>4. QED BY <1>2, <2>2, <2>3
<1> HIDE DEF enough
<1>9. full = 0..m - 1
  <2>1. ASSUME NEW k \in full PROVE k \in 0..m - 1
    <3>1. k \in Nat /\ lo + (k + 1) * Every < hi
      BY <1>2
    <3>2. ~(m <= k)
      <4>1. SUFFICES ASSUME m < k PROVE FALSE
        BY <1>2, <1>3, <1>7, <3>1
      <4>2. m * Every + Every <= k * Every
        BY <1>4, <1>7, <3>1, <4>1
      <4>3. /\ k * Every \in Int /\ (k + 1) * Every = k * Every + Every
            /\ m * Every \in Int /\ (m + 1) * Every = m * Every + Every
        BY <1>3, <1>7, <3>1
      <4>4. QED BY <1>1, <1>2, <1>7, <3>1, <4>2, <4>3
    <3>3. QED BY <1>7, <3>1, <3>2
  <2>2. ASSUME NEW k \in 0..m - 1 PROVE k \in full
    <3>1. k \in Nat /\ k < m /\ k \in 0..hi - lo
      BY <1>2, <1>7
    <3>2. QED BY <1>8, <3>1
  <2>3. QED BY <2>1, <2>2
<1> HIDE DEF full
<1>10. Cardinality(full) = m
  BY <1>7, <1>9, FS_Interval
<1> DEFINE last == lo + m * Every
           tail == [key |-> <<last, hi>>,
                    cells |-> {x \in Values : last <= x /\ (x < hi \/ (ClosedAbove(i) /\ x = hi))}]
           bucket(k) == Span(lo + k * Every, lo + (k + 1) * Every)
<1>11. Buckets(i) = {bucket(k) : k \in 0..m - 1} \union {tail}
  BY <1>9, <1>10 DEF Buckets, full, lo, hi
<1>12. last \in Int
  BY <1>2, <1>3, <1>7
<1>13. \A k \in Nat : v \in bucket(k).cells <=>
                        lo + k * Every <= v /\ v < lo + k * Every + Every
  <2>1. SUFFICES ASSUME NEW k \in Nat
                 PROVE  v \in bucket(k).cells <=>
                        lo + k * Every <= v /\ v < lo + k * Every + Every
    OBVIOUS
  <2>2. v \in bucket(k).cells <=> lo + k * Every <= v /\ v < lo + (k + 1) * Every
    BY DEF Span
  <2>3. k * Every \in Int /\ (k + 1) * Every = k * Every + Every
    BY <1>3
  <2>4. QED BY <1>1, <1>2, <2>2, <2>3
<1>14. v \in tail.cells <=> last <= v
  BY <1>1, <1>2
<1> HIDE DEF tail, bucket
<1>15. CASE last <= v
  <2>1. \A k \in 0..m - 1 : v \notin bucket(k).cells
    <3>1. SUFFICES ASSUME NEW k \in 0..m - 1 PROVE ~(v < lo + k * Every + Every)
      BY <1>7, <1>13
    <3>2. k \in Int /\ m \in Int /\ k < m
      BY <1>7
    <3>3. k * Every \in Int /\ m * Every \in Int /\ k * Every + Every <= m * Every
      BY <1>3, <1>4, <3>2
    <3>4. QED BY <1>1, <1>2, <1>15, <3>3
  <2>2. QED BY <1>11, <1>14, <1>15, <2>1
<1>16. CASE v < last
  <2> DEFINE k == (v - lo) \div Every
  <2>1. k \in Int /\ k * Every <= v - lo /\ v - lo < k * Every + Every
    BY <1>1, <1>2, MultipleBefore
  <2> HIDE DEF k
  <2>2. k * Every \in Int /\ m * Every \in Int /\ 0 * Every = 0
    BY <1>1, <1>3, <1>7, <2>1
  <2>3. 0 <= k
    <3>1. k < 0 => k * Every + Every <= 0
      BY <1>4, <2>1, <2>2
    <3>2. QED BY <1>1, <1>2, <2>1, <2>2, <3>1
  <2>4. k < m
    <3>1. m < k => m * Every + Every <= k * Every
      BY <1>4, <1>7, <2>1
    <3>2. ~(m < k) /\ m # k
      BY <1>1, <1>2, <1>16, <2>1, <2>2, <3>1
    <3>3. QED BY <1>7, <2>1, <3>2
  <2>5. k \in 0..m - 1 /\ v \in bucket(k).cells
    BY <1>1, <1>2, <1>7, <1>13, <2>1, <2>2, <2>3, <2>4
  <2>6. ASSUME NEW j \in 0..m - 1, v \in bucket(j).cells PROVE j = k
    <3>1. j \in Nat /\ lo + j * Every <= v /\ v < lo + j * Every + Every /\ j * Every \in Int
      BY <1>3, <1>13, <2>6
    <3>2. /\ j < k => j * Every + Every <= k * Every
          /\ k < j => k * Every + Every <= j * Every
      BY <1>4, <2>1, <3>1
    <3>3. ~(j < k) /\ ~(k < j)
      BY <1>1, <1>2, <2>1, <2>2, <3>1, <3>2
    <3>4. QED BY <2>1, <3>1, <3>3
  <2>7. v \notin tail.cells
    BY <1>1, <1>12, <1>14, <1>16
  <2>8. QED BY <1>11, <2>5, <2>6, <2>7
<1>17. QED BY <1>1, <1>12, <1>15, <1>16

(* The buckets of an interval take no value beyond the one beside its end. *)
LEMMA BucketsWithin ==
    ASSUME NEW i, i.first \in Int, i.last \in Int, NEW v \in Values,
           NEW q \in Buckets(i), v \in q.cells
    PROVE  i.first - 1 <= 2 * v /\ 2 * v <= i.last + 1
<1> DEFINE lo == LowerOf(i)
           hi == UpperOf(i)
           full == {k \in 0..hi - lo : lo + (k + 1) * Every < hi}
           m == Cardinality(full)
<1>1. v \in Int /\ Every \in Nat \ {0} /\ lo \in Int /\ hi \in Int
  BY CellsAssumption, UsesAssumption, BoundsOf
<1>2. m \in Nat
  <2>1. hi - lo \in Int
    BY <1>1
  <2> HIDE DEF lo, hi
  <2>2. IsFiniteSet(full)
    <3>1. IsFiniteSet(0..hi - lo)
      BY <2>1, FS_Interval
    <3>2. full \subseteq 0..hi - lo
      OBVIOUS
    <3>3. QED BY <3>1, <3>2, FS_Subset
  <2>3. QED BY <2>2, FS_CardinalityType
<1>3. \A k \in Nat : k * Every \in Nat /\ (k + 1) * Every \in Nat
  BY <1>1
<1>4. lo <= v /\ v <= hi
  <2>1. CASE \E k \in full : q = Span(lo + k * Every, lo + (k + 1) * Every)
    <3> HIDE DEF lo, hi
    <3>1. PICK k \in full : q = Span(lo + k * Every, lo + (k + 1) * Every)
      BY <2>1
    <3>2. k \in Nat /\ lo + (k + 1) * Every < hi
      BY <1>1
    <3>3. lo + k * Every <= v /\ v < lo + (k + 1) * Every
      BY <3>1 DEF Span
    <3>4. k * Every \in Nat /\ (k + 1) * Every \in Nat
      BY <1>3, <3>2
    <3>5. QED BY <1>1, <3>2, <3>3, <3>4
  <2>2. CASE v >= lo + m * Every /\ v <= hi
    <3> HIDE DEF lo, hi, m
    <3>1. m * Every \in Nat
      BY <1>2, <1>3
    <3>2. QED BY <1>1, <2>2, <3>1
  <2>3. (\E k \in full : q = Span(lo + k * Every, lo + (k + 1) * Every))
        \/ (v >= lo + m * Every /\ v <= hi)
    <3>1. \/ \E k \in full : q = Span(lo + k * Every, lo + (k + 1) * Every)
          \/ q = [key |-> <<lo + m * Every, hi>>,
                  cells |-> {x \in Values : lo + m * Every <= x
                                /\ (x < hi \/ (ClosedAbove(i) /\ x = hi))}]
      BY DEF Buckets
    <3> HIDE DEF lo, hi, m, full
    <3>2. m * Every \in Nat
      BY <1>2, <1>3
    <3>3. QED BY <1>1, <3>1, <3>2
  <2>4. QED BY <2>1, <2>2, <2>3
<1>5. QED BY <1>1, <1>4, BoundsOf

(* The window of a value on an atomic interval is one of its windows.      *)
LEMMA WindowsOnce ==
    ASSUME NEW i, i.first \in Int, i.last \in Int, NEW v \in Values,
           i.first <= 2 * v, 2 * v <= i.last
    PROVE  LET k == v \div Every
           IN Span(k * Every, k * Every + Every) \in Windows(i)
<1> DEFINE lo == LowerOf(i)
           hi == UpperOf(i)
           k == v \div Every
<1>1. v \in Int /\ Every \in Nat \ {0}
  BY CellsAssumption, UsesAssumption
<1>2. /\ lo \in Int /\ hi \in Int /\ lo <= v /\ v <= hi /\ (ClosedAbove(i) \/ v < hi)
  BY <1>1, BoundsOf
<1>3. \A a, b \in Int : a < b => a * Every + Every <= b * Every
  BY <1>1, Multiples
<1>4. \A a \in Int : a \div Every \in Int /\ (a \div Every) * Every \in Int
                     /\ (a \div Every) * Every <= a /\ a < (a \div Every) * Every + Every
  BY <1>1, MultipleBefore
<1> HIDE DEF lo, hi
<1>5. \A a, b \in Int : a <= b => a \div Every <= b \div Every
  <2>1. SUFFICES ASSUME NEW a \in Int, NEW b \in Int, a <= b, b \div Every < a \div Every
                 PROVE  FALSE
    BY <1>4
  <2>2. (b \div Every) * Every + Every <= (a \div Every) * Every
    BY <1>3, <1>4, <2>1
  <2>3. /\ (a \div Every) * Every \in Int /\ (b \div Every) * Every \in Int
        /\ (a \div Every) * Every <= a /\ b < (b \div Every) * Every + Every
    BY <1>4
  <2>4. QED BY <1>1, <2>1, <2>2, <2>3
<1>6. k \in (lo \div Every)..(hi \div Every)
  <2>1. k \in Int /\ lo \div Every \in Int /\ hi \div Every \in Int
    BY <1>1, <1>2, <1>4
  <2>2. lo \div Every <= k /\ k <= hi \div Every
    BY <1>1, <1>2, <1>5
  <2> HIDE DEF k
  <2>3. QED BY <2>1, <2>2
<1>7. k * Every <= v /\ k * Every \in Int
  BY <1>1, <1>4
<1> HIDE DEF k
<1>8. IF ClosedAbove(i) THEN k * Every <= hi ELSE k * Every < hi
  BY <1>1, <1>2, <1>7
<1>9. Span(k * Every, k * Every + Every) \in Windows(i)
  BY <1>6, <1>8 DEF Windows, lo, hi
<1>10. QED BY <1>9 DEF k

(* It is the only window that takes the value, of this interval or another.*)
LEMMA WindowHolds ==
    ASSUME NEW v \in Values
    PROVE  LET k == v \div Every
               p == Span(k * Every, k * Every + Every)
           IN /\ v \in p.cells
              /\ \A i : (i.first \in Int /\ i.last \in Int) =>
                     \A q \in Windows(i) : v \in q.cells => q = p
<1> DEFINE k == v \div Every
<1>1. v \in Int /\ Every \in Nat \ {0}
  BY CellsAssumption, UsesAssumption
<1>2. k \in Int /\ k * Every \in Int /\ k * Every <= v /\ v < k * Every + Every
  BY <1>1, MultipleBefore
<1>3. \A a, b \in Int : a < b => a * Every + Every <= b * Every
  BY <1>1, Multiples
<1> HIDE DEF k
<1>4. v \in Span(k * Every, k * Every + Every).cells
  BY <1>2 DEF Span
<1>5. ASSUME NEW i, i.first \in Int, i.last \in Int, NEW q \in Windows(i), v \in q.cells
      PROVE  q = Span(k * Every, k * Every + Every)
  <2>1. LowerOf(i) \div Every \in Int /\ UpperOf(i) \div Every \in Int
    BY <1>1, <1>5, BoundsOf, MultipleBefore
  <2>2. PICK j \in (LowerOf(i) \div Every)..(UpperOf(i) \div Every) :
            q = Span(j * Every, j * Every + Every)
    BY DEF Windows
  <2>3. j \in Int /\ j * Every \in Int
    BY <1>1, <2>1
  <2>4. j * Every <= v /\ v < j * Every + Every
    BY <1>5, <2>2 DEF Span
  <2>5. /\ j < k => j * Every + Every <= k * Every
        /\ k < j => k * Every + Every <= j * Every
    BY <1>2, <1>3, <2>3
  <2>6. ~(j < k) /\ ~(k < j)
    BY <1>1, <1>2, <2>3, <2>4, <2>5
  <2>7. j = k
    BY <1>2, <2>3, <2>6
  <2>8. QED BY <2>2, <2>7
<1>6. QED BY <1>4, <1>5 DEF k

(* The positions lie between two of them.                                  *)
LEMMA PositionsBounded ==
    /\ Positions \subseteq Int
    /\ \E a, b \in Int : Positions \subseteq a..b /\ a \in Positions
<1>1. PICK lo \in Values, hi \in Values : \A v \in Values : lo <= v /\ v <= hi
  BY LineAssumption
<1>2. \A v \in Values : v \in Int
  BY CellsAssumption
<1>3. 2 * lo - 1 \in Positions
  BY DEF Positions
<1>4. ASSUME NEW p \in Positions PROVE p \in (2 * lo - 1)..(2 * hi + 1)
  <2>1. PICK v \in Values : p \in {2 * v - 1, 2 * v, 2 * v + 1}
    BY DEF Positions
  <2>2. v \in Int /\ lo \in Int /\ hi \in Int /\ lo <= v /\ v <= hi
    BY <1>1, <1>2
  <2>3. QED BY <2>1, <2>2
<1>5. 2 * lo - 1 \in Int /\ 2 * hi + 1 \in Int
  BY <1>2
<1>6. \A p \in (2 * lo - 1)..(2 * hi + 1) : p \in Int
  BY <1>5
<1>7. QED BY <1>3, <1>4, <1>5, <1>6

(* A range with an end is not the whole line, so it keeps no null; a value  *)
(* it keeps is on one of its atomic intervals.                             *)
LEMMA SplitValues ==
    ASSUME NEW n, AllowedInv(n), Splittable(n), NEW r \in Rows, n.sem[r] = True
    PROVE  /\ r[Target] \in Values
           /\ \E i \in Atomics(n.range) : i.first <= 2 * r[Target] /\ 2 * r[Target] <= i.last
<1>1. PICK a \in Int, b \in Int : Positions \subseteq a..b /\ a \in Positions
  BY PositionsBounded
<1>2. n.range \in SUBSET (a..b) /\ n.range \in SUBSET Int
  <2>1. n.range \in SUBSET Positions
    BY DEF AllowedInv
  <2>2. QED BY <1>1, <2>1, PositionsBounded
<1>3. \A p \in n.range : \E i \in Atomics(n.range) : i.first <= p /\ p <= i.last
  BY <1>2, OnAtomic
<1>4. r[Target] # Null
  <2>1. SUFFICES ASSUME r[Target] = Null PROVE FALSE
    OBVIOUS
  <2>2. n.range = Positions
    BY <2>1 DEF AllowedInv
  <2>3. PICK i \in Atomics(n.range) : i.first <= a /\ a <= i.last
    BY <1>1, <1>3, <2>2
  <2>4. i.first = a
    <3>1. i.first \in n.range
      BY DEF Atomics
    <3>2. i.first \in Int /\ a <= i.first
      BY <1>2, <3>1
    <3>3. QED BY <2>3, <3>2
  <2>5. First(Positions) = a
    <3>1. \A q \in Positions : q \in Int /\ a <= q
      BY <1>1
    <3>2. First(Positions) \in Positions /\ \A q \in Positions : First(Positions) <= q
      BY <1>1, <3>1 DEF First
    <3>3. First(Positions) \in Int /\ a <= First(Positions) /\ First(Positions) <= a
      BY <1>1, <3>1, <3>2
    <3>4. QED BY <3>3
  <2>6. QED BY <2>4, <2>5 DEF Splittable, Unbounded
<1>5. r[Target] \in Values /\ 2 * r[Target] \in n.range
  BY <1>4, TargetCell DEF AllowedInv
<1>6. QED BY <1>3, <1>5

(* The partitions of a node that keeps a row.                              *)
LEMMA ByValueOnce ==
    ASSUME NEW n, AllowedInv(n), ByValue(n) # None, NEW r \in Rows, n.sem[r] = True
    PROVE  \E p \in ByValue(n) : \A q \in ByValue(n) : r[Target] \in q.cells <=> q = p
<1>1. ValidValues(n) # None
  BY DEF ByValue
<1>2. r[Target] \in ValidValues(n)
  BY <1>1 DEF ValidValues, AllowedInv
<1> DEFINE part(v) == [key |-> <<v>>, cells |-> {v}]
<1>3. ByValue(n) = {part(v) : v \in ValidValues(n)}
  BY <1>1 DEF ByValue
<1>4. \A v : r[Target] \in part(v).cells <=> v = r[Target]
  OBVIOUS
<1>5. \A v : part(v) = part(r[Target]) => r[Target] \in part(v).cells
  OBVIOUS
<1> HIDE DEF part
<1>6. QED BY <1>2, <1>3, <1>4, <1>5

(* Of the intervals of a range, only the one a value is on takes it.       *)
LEMMA ByRangeOnce ==
    ASSUME NEW n, AllowedInv(n), ByRange(n) # None, NEW r \in Rows, n.sem[r] = True
    PROVE  \E p \in ByRange(n) : \A q \in ByRange(n) : r[Target] \in q.cells <=> q = p
<1> DEFINE v == r[Target]
<1>1. Splittable(n)
  BY DEF ByRange
<1>2. v \in Values /\ v \in Int /\ n.range \in SUBSET Int
  <2>1. v \in Values
    BY <1>1, SplitValues
  <2>2. n.range \in SUBSET Positions
    BY DEF AllowedInv
  <2>3. QED BY <2>1, <2>2, PositionsBounded, CellsAssumption
<1>3. PICK i \in Atomics(n.range) : i.first <= 2 * v /\ 2 * v <= i.last
  BY <1>1, SplitValues
<1>4. \A j \in Atomics(n.range) : j.first \in Int /\ j.last \in Int
  BY <1>2, AtomicFacts
<1> HIDE DEF v
<1>5. PICK p \in Buckets(i) : v \in p.cells /\ \A q \in Buckets(i) : v \in q.cells => q = p
  BY <1>2, <1>3, <1>4, BucketsOnce
<1>6. ASSUME NEW j \in Atomics(n.range), NEW q \in Buckets(j), v \in q.cells
      PROVE  q = p
  <2>1. j.first - 1 <= 2 * v /\ 2 * v <= j.last + 1
    BY <1>2, <1>4, <1>6, BucketsWithin
  <2>2. i = j
    BY <1>2, <1>3, <2>1, OneAtomic
  <2>3. QED BY <1>5, <1>6, <2>2
<1>7. ByRange(n) = UNION {Buckets(j) : j \in Atomics(n.range)}
  BY <1>1 DEF ByRange
<1>8. p \in ByRange(n)
  BY <1>3, <1>5, <1>7
<1>9. \A q \in ByRange(n) : v \in q.cells <=> q = p
  BY <1>5, <1>6, <1>7
<1>10. QED BY <1>8, <1>9 DEF v

(* A window is told by its start, so two intervals that meet it share it.  *)
LEMMA ByTimeOnce ==
    ASSUME NEW n, AllowedInv(n), ByTime(n) # None, NEW r \in Rows, n.sem[r] = True
    PROVE  \E p \in ByTime(n) : \A q \in ByTime(n) : r[Target] \in q.cells <=> q = p
<1> DEFINE v == r[Target]
           k == v \div Every
           p == Span(k * Every, k * Every + Every)
<1>1. Splittable(n)
  BY DEF ByTime
<1>2. v \in Values /\ n.range \in SUBSET Int
  <2>1. v \in Values
    BY <1>1, SplitValues
  <2>2. n.range \in SUBSET Positions
    BY DEF AllowedInv
  <2>3. QED BY <2>1, <2>2, PositionsBounded
<1>3. PICK i \in Atomics(n.range) : i.first <= 2 * v /\ 2 * v <= i.last
  BY <1>1, SplitValues
<1>4. \A j \in Atomics(n.range) : j.first \in Int /\ j.last \in Int
  BY <1>2, AtomicFacts
<1> HIDE DEF v
<1>5. p \in Windows(i)
  BY <1>2, <1>3, <1>4, WindowsOnce
<1>6. /\ v \in p.cells
      /\ \A j : (j.first \in Int /\ j.last \in Int) =>
             \A q \in Windows(j) : v \in q.cells => q = p
  BY <1>2, WindowHolds
<1>7. ByTime(n) = UNION {Windows(j) : j \in Atomics(n.range)}
  BY <1>1 DEF ByTime
<1> HIDE DEF p
<1>8. \A q \in ByTime(n) : v \in q.cells <=> q = p
  BY <1>4, <1>6, <1>7
<1>9. p \in ByTime(n)
  BY <1>3, <1>5, <1>7
<1>10. QED BY <1>8, <1>9 DEF v

(* Every row the predicate keeps is read by exactly one partition of a     *)
(* split by value, by range or by calendar window (partitions.py:102-246).  *)
THEOREM PartitionsCoverOnceHolds == Spec => []PartitionsCoverOnce
<1>1. Init => \A n \in visited : AllowedInv(n)
  BY DEF Init
<1>2. (\A n \in visited : AllowedInv(n)) /\ [Next]_visited
          => (\A n \in visited : AllowedInv(n))'
  BY AllowedStep
<1>3. (\A n \in visited : AllowedInv(n)) => PartitionsCoverOnce
  BY ByValueOnce, ByRangeOnce, ByTimeOnce DEF PartitionsCoverOnce
<1>4. QED BY <1>1, <1>2, <1>3, PTL DEF Spec
=============================================================================
