---------------------- MODULE PredicateVisitors_proofs ----------------------
(***************************************************************************)
(* What the visitors return and what the translators hand on is sound for  *)
(* every set of columns, values and leaf expressions.  The invariants      *)
(* speak of one node at a time; each holds of a node because stronger      *)
(* facts hold of its operands.                                             *)
(***************************************************************************)
EXTENDS PushedPredicates, TLAPS

-----------------------------------------------------------------------------
(* Restriction.  The property alone is not inductive: a ternary fills the  *)
(* nulls of the negation of its predicate, and for that the restriction    *)
(* has to be null, or true, where the predicate is.  So what is kept is    *)
(* that a restriction is nowhere below its predicate.                      *)

Sees(t, cols) == \A r, s \in Rows : Agree(r, s, cols) => t[r] = t[s]

Relaxes(t, sem) ==
    /\ t \in [Rows -> Truth]
    /\ \A r \in Rows : t[r] >= sem[r]
    /\ Sees(t, Kept)

RestrictInv(n) ==
    /\ n.sem \in [Rows -> Truth]
    /\ Sees(n.sem, n.roots)
    /\ n.pos # None => Relaxes(n.pos, n.sem)
    /\ n.neg # None => Relaxes(n.neg, Negated(n.sem))

(* The connectives stay within the three truths.                           *)
LEMMA TruthFacts ==
    /\ \A t \in Truth : Not(t) \in Truth /\ t \in Int
    /\ \A s, t \in Truth : Conj(s, t) \in Truth /\ Disj(s, t) \in Truth
    /\ \A b \in BOOLEAN : Known(b) \in Truth
BY DEF Truth, False, Unknown, True, Not, Conj, Disj, Known

(* Negation turns a truth around and reads no other column.                *)
LEMMA NegatedFacts ==
    ASSUME NEW t \in [Rows -> Truth]
    PROVE  /\ Negated(t) \in [Rows -> Truth]
           /\ \A r \in Rows : Negated(t)[r] = 2 - t[r]
           /\ \A cols : Sees(t, cols) => Sees(Negated(t), cols)
BY TruthFacts DEF Negated, Not, Sees

(* What relaxes a predicate relaxes any that is true less often.           *)
LEMMA RelaxesLess ==
    ASSUME NEW a, NEW s \in [Rows -> Truth], NEW u \in [Rows -> Truth],
           Relaxes(a, s), \A r \in Rows : u[r] <= s[r]
    PROVE  Relaxes(a, u)
<1>1. \A r \in Rows : a[r] \in Int /\ s[r] \in Int /\ u[r] \in Int
  BY TruthFacts DEF Relaxes
<1>. QED BY <1>1 DEF Relaxes

(* What is left of the sides of a conjunction relaxes all that is below    *)
(* both.                                                                   *)
LEMMA CombineAndRelaxes ==
    ASSUME NEW a, NEW b, NEW s, NEW t, NEW u \in [Rows -> Truth],
           s \in [Rows -> Truth], t \in [Rows -> Truth],
           a # None => Relaxes(a, s), b # None => Relaxes(b, t),
           \A r \in Rows : u[r] <= s[r] /\ u[r] <= t[r],
           CombineAnd(a, b) # None
    PROVE  Relaxes(CombineAnd(a, b), u)
<1>0. \A r \in Rows : s[r] \in Int /\ t[r] \in Int /\ u[r] \in Int
  BY TruthFacts
<1>1. CASE a = None
  BY <1>1, RelaxesLess DEF CombineAnd
<1>2. CASE a # None /\ b = None
  BY <1>2, RelaxesLess DEF CombineAnd
<1>3. CASE a # None /\ b # None
  <2>1. CombineAnd(a, b) = [r \in Rows |-> Conj(a[r], b[r])]
    BY <1>3 DEF CombineAnd
  <2>2. a \in [Rows -> Truth] /\ b \in [Rows -> Truth]
    BY <1>3 DEF Relaxes
  <2>3. CombineAnd(a, b) \in [Rows -> Truth]
    BY <2>1, <2>2, TruthFacts
  <2>4. \A r \in Rows : CombineAnd(a, b)[r] >= u[r]
    <3>1. SUFFICES ASSUME NEW r \in Rows PROVE Conj(a[r], b[r]) >= u[r]
      BY <2>1
    <3>2. a[r] \in Int /\ b[r] \in Int
      BY <2>2, TruthFacts
    <3>3. a[r] >= s[r] /\ b[r] >= t[r]
      BY <1>3 DEF Relaxes
    <3>. QED BY <1>0, <3>2, <3>3 DEF Conj
  <2>5. Sees(CombineAnd(a, b), Kept)
    BY <1>3, <2>1 DEF Relaxes, Sees
  <2>. QED BY <2>3, <2>4, <2>5 DEF Relaxes
<1>. QED BY <1>1, <1>2, <1>3

(* What is left of the sides of a disjunction, if of both, relaxes all that*)
(* is below one of them.                                                   *)
LEMMA CombineOrRelaxes ==
    ASSUME NEW a, NEW b, NEW s, NEW t, NEW u \in [Rows -> Truth],
           s \in [Rows -> Truth], t \in [Rows -> Truth],
           a # None => Relaxes(a, s), b # None => Relaxes(b, t),
           \A r \in Rows : u[r] <= s[r] \/ u[r] <= t[r],
           CombineOr(a, b) # None
    PROVE  Relaxes(CombineOr(a, b), u)
<1>0. \A r \in Rows : s[r] \in Int /\ t[r] \in Int /\ u[r] \in Int
  BY TruthFacts
<1>1. a # None /\ b # None
  BY DEF CombineOr
<1>2. CombineOr(a, b) = [r \in Rows |-> Disj(a[r], b[r])]
  BY <1>1 DEF CombineOr
<1>3. a \in [Rows -> Truth] /\ b \in [Rows -> Truth]
  BY <1>1 DEF Relaxes
<1>4. CombineOr(a, b) \in [Rows -> Truth]
  BY <1>2, <1>3, TruthFacts
<1>5. \A r \in Rows : CombineOr(a, b)[r] >= u[r]
  <2>1. SUFFICES ASSUME NEW r \in Rows PROVE Disj(a[r], b[r]) >= u[r]
    BY <1>2
  <2>2. a[r] \in Int /\ b[r] \in Int
    BY <1>3, TruthFacts
  <2>3. a[r] >= s[r] /\ b[r] >= t[r]
    BY <1>1 DEF Relaxes
  <2>. QED BY <1>0, <2>2, <2>3 DEF Disj
<1>6. Sees(CombineOr(a, b), Kept)
  BY <1>1, <1>2 DEF Relaxes, Sees
<1>. QED BY <1>4, <1>5, <1>6 DEF Relaxes

(* Where the predicate of a ternary is not true, its filled negation is.    *)
LEMMA FillTrueRelaxes ==
    ASSUME NEW a, NEW s \in [Rows -> Truth],
           a # None => Relaxes(a, Negated(s)), FillTrue(a) # None
    PROVE  /\ FillTrue(a) \in [Rows -> Truth]
           /\ \A r \in Rows : s[r] # True => FillTrue(a)[r] = True
           /\ Sees(FillTrue(a), Kept)
<1>1. a # None
  BY DEF FillTrue
<1>2. FillTrue(a) = [r \in Rows |-> IF a[r] = Unknown THEN True ELSE a[r]]
  BY <1>1 DEF FillTrue
<1>3. a \in [Rows -> Truth] /\ Sees(a, Kept) /\ \A r \in Rows : a[r] >= 2 - s[r]
  BY <1>1, NegatedFacts DEF Relaxes
<1>4. \A r \in Rows : s[r] # True => FillTrue(a)[r] = True
  BY <1>2, <1>3 DEF Truth, True, Unknown, False
<1>5. FillTrue(a) \in [Rows -> Truth]
  BY <1>2, <1>3 DEF Truth, True
<1>6. Sees(FillTrue(a), Kept)
  BY <1>2, <1>3 DEF Sees
<1>. QED BY <1>4, <1>5, <1>6

(* A conjunction is the least of its operands, a disjunction the greatest.  *)
LEMMA AllOfFacts ==
    ASSUME NEW S, NEW ts \in [S -> Truth]
    PROVE  /\ AllOf(ts) \in Truth
           /\ \A i \in S : AllOf(ts) <= ts[i]
           /\ S # {} => \E i \in S : AllOf(ts) = ts[i]
<1>1. CASE \E i \in S : ts[i] = False
  BY <1>1 DEF AllOf, Truth, False, Unknown, True
<1>2. CASE ~(\E i \in S : ts[i] = False) /\ \E i \in S : ts[i] = Unknown
  BY <1>2 DEF AllOf, Truth, False, Unknown, True
<1>3. CASE \A i \in S : ts[i] = True
  BY <1>3 DEF AllOf, Truth, False, Unknown, True
<1>. QED BY <1>1, <1>2, <1>3 DEF Truth

(* The truth of any_horizontal is the greatest of its operands.            *)
LEMMA AnyOfFacts ==
    ASSUME NEW S, NEW ts \in [S -> Truth]
    PROVE  /\ AnyOf(ts) \in Truth
           /\ \A i \in S : AnyOf(ts) >= ts[i]
           /\ S # {} => \E i \in S : AnyOf(ts) = ts[i]
<1>1. CASE \E i \in S : ts[i] = True
  BY <1>1 DEF AnyOf, Truth, False, Unknown, True
<1>2. CASE ~(\E i \in S : ts[i] = True) /\ \E i \in S : ts[i] = Unknown
  BY <1>2 DEF AnyOf, Truth, False, Unknown, True
<1>3. CASE \A i \in S : ts[i] = False
  BY <1>3 DEF AnyOf, Truth, False, Unknown, True
<1>. QED BY <1>1, <1>2, <1>3 DEF Truth

(* The same for what is left of all_horizontal.                            *)
LEMMA CombineAllRelaxes ==
    ASSUME NEW some, NEW ts, NEW s, NEW u \in [Rows -> Truth],
           \A i \in some : s[i] \in [Rows -> Truth] /\ Relaxes(ts[i], s[i]),
           \A r \in Rows : \A i \in some : u[r] <= s[i][r],
           CombineAll(ts, some) # None
    PROVE  Relaxes(CombineAll(ts, some), u)
<1>1. some # {} /\ CombineAll(ts, some) = [r \in Rows |-> AllOf([i \in some |-> ts[i][r]])]
  BY DEF CombineAll
<1>2. ASSUME NEW r \in Rows
      PROVE  AllOf([i \in some |-> ts[i][r]]) \in Truth
             /\ AllOf([i \in some |-> ts[i][r]]) >= u[r]
  <2>. DEFINE row == [i \in some |-> ts[i][r]]
  <2>1. row \in [some -> Truth]
    BY DEF Relaxes
  <2>0. /\ AllOf(row) \in Truth
        /\ \E i \in some : AllOf(row) = row[i]
    <3>. HIDE DEF row
    <3>. QED BY <1>1, <2>1, AllOfFacts
  <2>2. PICK i \in some : AllOf(row) = ts[i][r]
    BY <2>0
  <2>3. ts[i][r] >= s[i][r] /\ s[i][r] >= u[r]
    <3>1. s[i][r] \in Int /\ u[r] \in Int
      BY TruthFacts
    <3>. QED BY <3>1 DEF Relaxes
  <2>4. ts[i][r] \in Int /\ s[i][r] \in Int /\ u[r] \in Int
    BY TruthFacts DEF Relaxes
  <2>. QED BY <2>0, <2>2, <2>3, <2>4
<1>3. Sees(CombineAll(ts, some), Kept)
  <2>1. SUFFICES ASSUME NEW r \in Rows, NEW q \in Rows, Agree(r, q, Kept)
                 PROVE  [i \in some |-> ts[i][r]] = [i \in some |-> ts[i][q]]
    BY <1>1 DEF Sees
  <2>. QED BY <2>1 DEF Relaxes, Sees
<1>. QED BY <1>1, <1>2, <1>3 DEF Relaxes

(* The same for what is left of any_horizontal.                            *)
LEMMA CombineAnyRelaxes ==
    ASSUME NEW some, NEW ts, NEW s, NEW u \in [Rows -> Truth],
           \A i \in some : s[i] \in [Rows -> Truth] /\ Relaxes(ts[i], s[i]),
           \A r \in Rows : \E i \in some : u[r] <= s[i][r],
           CombineAny(ts, some) # None
    PROVE  Relaxes(CombineAny(ts, some), u)
<1>1. CombineAny(ts, some) = [r \in Rows |-> AnyOf([i \in some |-> ts[i][r]])]
  BY DEF CombineAny
<1>2. ASSUME NEW r \in Rows
      PROVE  AnyOf([i \in some |-> ts[i][r]]) \in Truth
             /\ AnyOf([i \in some |-> ts[i][r]]) >= u[r]
  <2>1. [i \in some |-> ts[i][r]] \in [some -> Truth]
    BY DEF Relaxes
  <2>2. PICK i \in some : u[r] <= s[i][r]
    OBVIOUS
  <2>3. AnyOf([j \in some |-> ts[j][r]]) >= ts[i][r]
        /\ AnyOf([j \in some |-> ts[j][r]]) \in Truth
    BY <2>1, AnyOfFacts
  <2>4. ts[i][r] >= s[i][r]
    BY DEF Relaxes
  <2>5. ts[i][r] \in Int /\ s[i][r] \in Int /\ u[r] \in Int
        /\ AnyOf([j \in some |-> ts[j][r]]) \in Int
    BY <2>3, TruthFacts DEF Relaxes
  <2>. QED BY <2>2, <2>3, <2>4, <2>5
<1>3. Sees(CombineAny(ts, some), Kept)
  <2>1. SUFFICES ASSUME NEW r \in Rows, NEW q \in Rows, Agree(r, q, Kept)
                 PROVE  [i \in some |-> ts[i][r]] = [i \in some |-> ts[i][q]]
    BY <1>1 DEF Sees
  <2>. QED BY <2>1 DEF Relaxes, Sees
<1>. QED BY <1>1, <1>2, <1>3 DEF Relaxes

(* A node that reads kept columns only is its own restriction.             *)
LEMMA WholeRelaxes ==
    ASSUME NEW roots, NEW sem \in [Rows -> Truth], Sees(sem, roots), NEW rest,
           rest.pos # None => Relaxes(rest.pos, sem),
           rest.neg # None => Relaxes(rest.neg, Negated(sem)),
           NEW w, w = WholeOr(roots, sem, rest)
    PROVE  /\ w.pos # None => Relaxes(w.pos, sem)
           /\ w.neg # None => Relaxes(w.neg, Negated(sem))
<1>1. CASE Relevant(roots)
  <2>1. Sees(sem, Kept)
    BY <1>1 DEF Relevant, Sees, Agree
  <2>2. \A t \in [Rows -> Truth] : Sees(t, Kept) => Relaxes(t, t)
    BY TruthFacts DEF Relaxes
  <2>3. Relaxes(sem, sem) /\ Relaxes(Negated(sem), Negated(sem))
    BY <2>1, <2>2, NegatedFacts
  <2>. QED BY <1>1, <2>3 DEF WholeOr
<1>2. CASE ~Relevant(roots)
  BY <1>2 DEF WholeOr
<1>. QED BY <1>1, <1>2

BinarySem(isAnd, l, r) ==
    [w \in Rows |-> IF isAnd THEN Conj(l.sem[w], r.sem[w])
                    ELSE Disj(l.sem[w], r.sem[w])]

(* A restriction of a node that reads these columns.                       *)
Restricted(rest, sem, roots) ==
    /\ sem \in [Rows -> Truth]
    /\ Sees(sem, roots)
    /\ rest.pos # None => Relaxes(rest.pos, sem)
    /\ rest.neg # None => Relaxes(rest.neg, Negated(sem))

(* AND and OR, and their negations, restricted.                            *)
LEMMA BinaryRestricted ==
    ASSUME NEW l, NEW r, RestrictInv(l), RestrictInv(r), NEW isAnd \in BOOLEAN
    PROVE  Restricted(RestrictBinary(isAnd, l, r), BinarySem(isAnd, l, r),
                      l.roots \union r.roots)
<1>. SUFFICES ASSUME NEW sem, sem = [w \in Rows |-> IF isAnd THEN Conj(l.sem[w], r.sem[w])
                                                   ELSE Disj(l.sem[w], r.sem[w])],
                     NEW x, x = RestrictBinary(isAnd, l, r)
              PROVE  /\ sem \in [Rows -> Truth]
                     /\ Sees(sem, l.roots \union r.roots)
                     /\ x.pos # None => Relaxes(x.pos, sem)
                     /\ x.neg # None => Relaxes(x.neg, Negated(sem))
  BY DEF Restricted, BinarySem
<1>1. l.sem \in [Rows -> Truth] /\ r.sem \in [Rows -> Truth]
  BY DEF RestrictInv
<1>2. sem \in [Rows -> Truth]
  BY <1>1, TruthFacts
<1>3. Sees(sem, l.roots \union r.roots)
  BY <1>1 DEF RestrictInv, Sees, Agree
<1>4. /\ Negated(l.sem) \in [Rows -> Truth] /\ Negated(r.sem) \in [Rows -> Truth]
      /\ Negated(sem) \in [Rows -> Truth]
  BY <1>1, <1>2, NegatedFacts
<1>7. \A w \in Rows :
        /\ l.sem[w] \in Int /\ r.sem[w] \in Int /\ sem[w] \in Int
        /\ Negated(l.sem)[w] = 2 - l.sem[w] /\ Negated(r.sem)[w] = 2 - r.sem[w]
        /\ Negated(sem)[w] = 2 - sem[w]
  BY <1>1, <1>2, NegatedFacts, TruthFacts
<1>8. /\ l.pos # None => Relaxes(l.pos, l.sem)
      /\ r.pos # None => Relaxes(r.pos, r.sem)
      /\ l.neg # None => Relaxes(l.neg, Negated(l.sem))
      /\ r.neg # None => Relaxes(r.neg, Negated(r.sem))
  BY DEF RestrictInv
<1>5. CASE isAnd
  <2>1. \A w \in Rows : /\ sem[w] <= l.sem[w] /\ sem[w] <= r.sem[w]
                        /\ \/ Negated(sem)[w] <= Negated(l.sem)[w]
                           \/ Negated(sem)[w] <= Negated(r.sem)[w]
    <3>1. SUFFICES ASSUME NEW w \in Rows
                   PROVE  /\ sem[w] <= l.sem[w] /\ sem[w] <= r.sem[w]
                          /\ sem[w] >= l.sem[w] \/ sem[w] >= r.sem[w]
      BY <1>7
    <3>2. sem[w] = Conj(l.sem[w], r.sem[w])
      BY <1>5
    <3>. QED BY <1>7, <3>2 DEF Conj
  <2>2. x.pos = CombineAnd(l.pos, r.pos) /\ x.neg = CombineOr(l.neg, r.neg)
    BY <1>5 DEF RestrictBinary
  <2>3. x.pos # None => Relaxes(x.pos, sem)
    <3>1. \A w \in Rows : sem[w] <= l.sem[w] /\ sem[w] <= r.sem[w]
      BY <2>1
    <3>. QED BY ONLY <1>1, <1>2, <1>8, <2>2, <3>1, CombineAndRelaxes
  <2>4. x.neg # None => Relaxes(x.neg, Negated(sem))
    <3>1. \A w \in Rows : \/ Negated(sem)[w] <= Negated(l.sem)[w]
                         \/ Negated(sem)[w] <= Negated(r.sem)[w]
      BY <2>1
    <3>. QED BY ONLY <1>4, <1>8, <2>2, <3>1, CombineOrRelaxes
  <2>. QED BY <1>2, <1>3, <2>3, <2>4
<1>6. CASE ~isAnd
  <2>1. \A w \in Rows : /\ sem[w] <= l.sem[w] \/ sem[w] <= r.sem[w]
                        /\ Negated(sem)[w] <= Negated(l.sem)[w]
                        /\ Negated(sem)[w] <= Negated(r.sem)[w]
    <3>1. SUFFICES ASSUME NEW w \in Rows
                   PROVE  /\ sem[w] <= l.sem[w] \/ sem[w] <= r.sem[w]
                          /\ sem[w] >= l.sem[w] /\ sem[w] >= r.sem[w]
      BY <1>7
    <3>2. sem[w] = Disj(l.sem[w], r.sem[w])
      BY <1>6
    <3>. QED BY <1>7, <3>2 DEF Disj
  <2>2. x.pos = CombineOr(l.pos, r.pos) /\ x.neg = CombineAnd(l.neg, r.neg)
    BY <1>6 DEF RestrictBinary
  <2>3. x.pos # None => Relaxes(x.pos, sem)
    <3>1. \A w \in Rows : sem[w] <= l.sem[w] \/ sem[w] <= r.sem[w]
      BY <2>1
    <3>2. CombineOr(l.pos, r.pos) # None => Relaxes(CombineOr(l.pos, r.pos), sem)
      <4>1. /\ l.pos # None => Relaxes(l.pos, l.sem)
            /\ r.pos # None => Relaxes(r.pos, r.sem)
        BY <1>8
      <4>. QED BY ONLY <1>1, <1>2, <3>1, <4>1, CombineOrRelaxes
    <3>. QED BY <2>2, <3>2
  <2>4. x.neg # None => Relaxes(x.neg, Negated(sem))
    <3>1. \A w \in Rows : /\ Negated(sem)[w] <= Negated(l.sem)[w]
                         /\ Negated(sem)[w] <= Negated(r.sem)[w]
      BY <2>1
    <3>. QED BY ONLY <1>4, <1>8, <2>2, <3>1, CombineAndRelaxes
  <2>. QED BY <1>2, <1>3, <2>3, <2>4
<1>. QED BY <1>5, <1>6

(* A ternary restricted: the nulls of its negated predicate count as true. *)
LEMMA TernaryRestricted ==
    ASSUME NEW p, NEW t, NEW f, RestrictInv(p), RestrictInv(t), RestrictInv(f),
           NEW sem,
           sem = [r \in Rows |-> IF p.sem[r] = True THEN t.sem[r] ELSE f.sem[r]],
           NEW x, x = RestrictTernary(p, t, f)
    PROVE  /\ sem \in [Rows -> Truth]
           /\ Sees(sem, p.roots \union t.roots \union f.roots)
           /\ x.pos # None => Relaxes(x.pos, sem)
           /\ x.neg # None => Relaxes(x.neg, Negated(sem))
<1>1. p.sem \in [Rows -> Truth] /\ t.sem \in [Rows -> Truth] /\ f.sem \in [Rows -> Truth]
  BY DEF RestrictInv
<1>2. sem \in [Rows -> Truth]
  BY <1>1
<1>3. Sees(sem, p.roots \union t.roots \union f.roots)
  BY <1>1 DEF RestrictInv, Sees, Agree
<1>. DEFINE when == [r \in Rows |-> IF p.sem[r] = True THEN True ELSE False]
            arms(a, b) == CombineOr(CombineAnd(p.pos, a), CombineAnd(FillTrue(p.neg), b))
<1>4. /\ when \in [Rows -> Truth] /\ Negated(when) \in [Rows -> Truth]
      /\ \A r \in Rows : when[r] <= p.sem[r]
      /\ \A r \in Rows : Negated(when)[r] = IF p.sem[r] = True THEN False ELSE True
  <2>1. when \in [Rows -> Truth]
    BY DEF Truth
  <2>. QED BY <1>1, <2>1, NegatedFacts, TruthFacts DEF True, False, Truth, Unknown
<1>5. p.pos # None => Relaxes(p.pos, when)
  BY <1>1, <1>4, RelaxesLess DEF RestrictInv
<1>6. FillTrue(p.neg) # None => Relaxes(FillTrue(p.neg), Negated(when))
  <2>1. SUFFICES ASSUME FillTrue(p.neg) # None
                 PROVE  Relaxes(FillTrue(p.neg), Negated(when))
    OBVIOUS
  <2>2. /\ FillTrue(p.neg) \in [Rows -> Truth] /\ Sees(FillTrue(p.neg), Kept)
        /\ \A r \in Rows : p.sem[r] # True => FillTrue(p.neg)[r] = True
    BY <1>1, <2>1, FillTrueRelaxes DEF RestrictInv
  <2>3. \A r \in Rows : FillTrue(p.neg)[r] >= Negated(when)[r]
    BY <1>4, <2>2 DEF Truth, True, False, Unknown
  <2>. QED BY <2>2, <2>3 DEF Relaxes
<1>7. ASSUME NEW a, NEW b, NEW s \in [Rows -> Truth], NEW q \in [Rows -> Truth],
             a # None => Relaxes(a, s), b # None => Relaxes(b, q), arms(a, b) # None,
             NEW u \in [Rows -> Truth],
             \A r \in Rows : u[r] = IF p.sem[r] = True THEN s[r] ELSE q[r]
      PROVE  Relaxes(arms(a, b), u)
  <2>. DEFINE left == [r \in Rows |-> IF p.sem[r] = True THEN s[r] ELSE False]
              right == [r \in Rows |-> IF p.sem[r] = True THEN False ELSE q[r]]
  <2>1. left \in [Rows -> Truth] /\ right \in [Rows -> Truth]
    BY DEF Truth
  <2>2. /\ \A r \in Rows : left[r] <= when[r] /\ left[r] <= s[r]
        /\ \A r \in Rows : right[r] <= Negated(when)[r] /\ right[r] <= q[r]
        /\ \A r \in Rows : u[r] <= left[r] \/ u[r] <= right[r]
    <3>1. SUFFICES ASSUME NEW r \in Rows
                   PROVE  /\ left[r] <= when[r] /\ left[r] <= s[r]
                          /\ right[r] <= Negated(when)[r] /\ right[r] <= q[r]
                          /\ u[r] <= left[r] \/ u[r] <= right[r]
      OBVIOUS
    <3>2. s[r] \in Truth /\ q[r] \in Truth
      OBVIOUS
    <3>3. CASE p.sem[r] = True
      <4>1. /\ left[r] = s[r] /\ right[r] = False /\ u[r] = s[r]
            /\ when[r] = True /\ Negated(when)[r] = False
        BY <1>4, <1>7, <3>3
      <4>. QED BY <3>2, <4>1 DEF Truth, True, False, Unknown
    <3>4. CASE p.sem[r] # True
      <4>1. /\ left[r] = False /\ right[r] = q[r] /\ u[r] = q[r]
            /\ when[r] = False /\ Negated(when)[r] = True
        BY <1>4, <1>7, <3>4
      <4>. QED BY <3>2, <4>1 DEF Truth, True, False, Unknown
    <3>. QED BY <3>3, <3>4
  <2>. HIDE DEF left, right, when
  <2>3. CombineAnd(p.pos, a) # None => Relaxes(CombineAnd(p.pos, a), left)
    <3>1. \A r \in Rows : left[r] <= when[r] /\ left[r] <= s[r]
      BY <2>2
    <3>. QED BY ONLY <1>4, <1>5, <1>7, <2>1, <3>1, CombineAndRelaxes
  <2>4. CombineAnd(FillTrue(p.neg), b) # None
            => Relaxes(CombineAnd(FillTrue(p.neg), b), right)
    <3>1. \A r \in Rows : right[r] <= Negated(when)[r] /\ right[r] <= q[r]
      BY <2>2
    <3>. QED BY ONLY <1>4, <1>6, <1>7, <2>1, <3>1, CombineAndRelaxes
  <2>5. \A r \in Rows : u[r] <= left[r] \/ u[r] <= right[r]
    BY <2>2
  <2>. QED BY ONLY <1>7, <2>1, <2>3, <2>4, <2>5, CombineOrRelaxes
<1>8. x.pos # None => Relaxes(x.pos, sem)
  <2>1. x.pos # None => x.pos = arms(t.pos, f.pos)
    BY DEF RestrictTernary
  <2>2. \A r \in Rows : sem[r] = IF p.sem[r] = True THEN t.sem[r] ELSE f.sem[r]
    BY <1>1, <1>2
  <2>3. /\ t.pos # None => Relaxes(t.pos, t.sem)
        /\ f.pos # None => Relaxes(f.pos, f.sem)
        /\ t.sem \in [Rows -> Truth] /\ f.sem \in [Rows -> Truth]
        /\ sem \in [Rows -> Truth]
    BY <1>1, <1>2 DEF RestrictInv
  <2>. HIDE DEF arms
  <2>. QED BY ONLY <1>7, <2>1, <2>2, <2>3
<1>9. x.neg # None => Relaxes(x.neg, Negated(sem))
  <2>1. x.neg # None => x.neg = arms(t.neg, f.neg)
    BY DEF RestrictTernary
  <2>2. \A r \in Rows : Negated(sem)[r] =
            IF p.sem[r] = True THEN Negated(t.sem)[r] ELSE Negated(f.sem)[r]
    BY <1>1, <1>2, NegatedFacts
  <2>3. /\ t.neg # None => Relaxes(t.neg, Negated(t.sem))
        /\ f.neg # None => Relaxes(f.neg, Negated(f.sem))
        /\ Negated(t.sem) \in [Rows -> Truth] /\ Negated(f.sem) \in [Rows -> Truth]
        /\ Negated(sem) \in [Rows -> Truth]
    BY <1>1, <1>2, NegatedFacts DEF RestrictInv
  <2>. HIDE DEF arms
  <2>. QED BY ONLY <1>7, <2>1, <2>2, <2>3
<1>. QED BY <1>2, <1>3, <1>8, <1>9

(* Horizontal functions restricted.                                        *)
LEMMA HorizontalRestricted ==
    ASSUME NEW args, DOMAIN args # {}, NEW isAnd \in BOOLEAN,
           \A i \in DOMAIN args : RestrictInv(args[i])
    PROVE  LET sem == HorizontalSem(isAnd, args)
               x == RestrictHorizontal(isAnd, args)
           IN /\ sem \in [Rows -> Truth]
              /\ Sees(sem, UNION {args[i].roots : i \in DOMAIN args})
              /\ x.pos # None => Relaxes(x.pos, sem)
              /\ x.neg # None => Relaxes(x.neg, Negated(sem))
<1>. SUFFICES ASSUME NEW all, all = DOMAIN args,
                     NEW sem, sem = HorizontalSem(isAnd, args),
                     NEW x, x = RestrictHorizontal(isAnd, args)
              PROVE  /\ sem \in [Rows -> Truth]
                     /\ Sees(sem, UNION {args[i].roots : i \in all})
                     /\ x.pos # None => Relaxes(x.pos, sem)
                     /\ x.neg # None => Relaxes(x.neg, Negated(sem))
  OBVIOUS
<1>0. sem = [r \in Rows |-> LET ts == [i \in all |-> args[i].sem[r]]
                           IN IF isAnd THEN AllOf(ts) ELSE AnyOf(ts)]
  BY DEF HorizontalSem
<1>. DEFINE sems == [i \in all |-> args[i].sem]
            sems2 == [i \in all |-> Negated(args[i].sem)]
            pos == [i \in all |-> args[i].pos]
            neg == [i \in all |-> args[i].neg]
            posOf == {i \in all : pos[i] # None}
            negOf == {i \in all : neg[i] # None}
<1>1. \A i \in all : /\ sems[i] \in [Rows -> Truth]
                     /\ sems2[i] \in [Rows -> Truth]
                     /\ \A r \in Rows : sems2[i][r] = 2 - sems[i][r]
  BY NegatedFacts DEF RestrictInv
<1>2. ASSUME NEW r \in Rows
      PROVE  /\ sem[r] \in Truth
             /\ isAnd => /\ \A i \in all : sem[r] <= sems[i][r]
                         /\ \E i \in all : sem[r] = sems[i][r]
             /\ ~isAnd => /\ \A i \in all : sem[r] >= sems[i][r]
                          /\ \E i \in all : sem[r] = sems[i][r]
  <2>. DEFINE ts == [i \in all |-> args[i].sem[r]]
  <2>1. ts \in [all -> Truth] /\ \A i \in all : ts[i] = sems[i][r]
    BY <1>1
  <2>2. sem[r] = IF isAnd THEN AllOf(ts) ELSE AnyOf(ts)
    BY <1>0
  <2>. HIDE DEF ts, sems
  <2>3. /\ AllOf(ts) \in Truth /\ \A i \in all : AllOf(ts) <= ts[i]
        /\ \E i \in all : AllOf(ts) = ts[i]
    BY <2>1, AllOfFacts
  <2>4. /\ AnyOf(ts) \in Truth /\ \A i \in all : AnyOf(ts) >= ts[i]
        /\ \E i \in all : AnyOf(ts) = ts[i]
    BY <2>1, AnyOfFacts
  <2>. QED BY <2>1, <2>2, <2>3, <2>4
<1>3. sem \in [Rows -> Truth] /\ Negated(sem) \in [Rows -> Truth]
  <2>1. sem \in [Rows -> Truth]
    BY <1>0, <1>2
  <2>. QED BY <2>1, NegatedFacts
<1>4. Sees(sem, UNION {args[i].roots : i \in all})
  <2>1. SUFFICES ASSUME NEW r \in Rows, NEW s \in Rows,
                        Agree(r, s, UNION {args[i].roots : i \in all})
                 PROVE  sem[r] = sem[s]
    BY DEF Sees
  <2>2. \A i \in all : args[i].sem[r] = args[i].sem[s]
    BY <2>1 DEF RestrictInv, Sees, Agree
  <2>3. [i \in all |-> args[i].sem[r]] = [i \in all |-> args[i].sem[s]]
    BY <2>2
  <2>. QED BY <1>0, <2>3
<1>5. /\ \A i \in posOf : Relaxes(pos[i], sems[i])
      /\ \A i \in negOf : Relaxes(neg[i], sems2[i])
  BY DEF RestrictInv
<1>6. \A r \in Rows : /\ sem[r] \in Int /\ Negated(sem)[r] = 2 - sem[r]
                      /\ \A i \in all : sems[i][r] \in Int /\ sems2[i][r] \in Int
  BY <1>1, <1>3, NegatedFacts, TruthFacts
<1>. HIDE DEF sems, sems2
<1>7. CASE isAnd
  <2>1. x.pos = CombineAll(pos, posOf)
        /\ x.neg = IF negOf = all THEN CombineAny(neg, negOf) ELSE None
    BY <1>7 DEF RestrictHorizontal
  <2>. HIDE DEF pos, neg
  <2>2. \A r \in Rows : \A i \in posOf : sem[r] <= sems[i][r]
    BY <1>2, <1>7
  <2>3. ASSUME NEW r \in Rows
        PROVE  \E i \in all : Negated(sem)[r] <= sems2[i][r]
    <3>1. PICK i \in all : sem[r] = sems[i][r]
      BY <1>2, <1>7
    <3>2. sem[r] \in Int /\ sems2[i][r] = 2 - sems[i][r] /\ Negated(sem)[r] = 2 - sem[r]
      BY <1>1, <1>6
    <3>3. Negated(sem)[r] <= sems2[i][r]
      BY ONLY <3>1, <3>2
    <3>. QED BY <3>3
  <2>4. x.pos # None => Relaxes(x.pos, sem)
    <3>1. \A i \in posOf : sems[i] \in [Rows -> Truth]
      BY <1>1
    <3>. HIDE DEF posOf
    <3>. QED BY ONLY <1>3, <1>5, <2>1, <2>2, <3>1, CombineAllRelaxes
  <2>5. x.neg # None => Relaxes(x.neg, Negated(sem))
    <3>1. SUFFICES ASSUME negOf = all, CombineAny(neg, all) # None
                   PROVE  Relaxes(CombineAny(neg, all), Negated(sem))
      BY <2>1
    <3>2. \A i \in all : sems2[i] \in [Rows -> Truth] /\ Relaxes(neg[i], sems2[i])
      BY <1>1, <1>5, <3>1
    <3>. HIDE DEF negOf
    <3>. QED BY ONLY <1>3, <2>3, <3>1, <3>2, CombineAnyRelaxes
  <2>. QED BY <1>3, <1>4, <2>4, <2>5
<1>8. CASE ~isAnd
  <2>1. x.pos = (IF posOf = all THEN CombineAny(pos, posOf) ELSE None)
        /\ x.neg = IF negOf = all THEN CombineAll(neg, negOf) ELSE None
    BY <1>8 DEF RestrictHorizontal
  <2>. HIDE DEF pos, neg
  <2>2. \A r \in Rows : \E i \in all : sem[r] <= sems[i][r]
    BY <1>1, <1>2, <1>6, <1>8
  <2>3. ASSUME NEW r \in Rows, NEW i \in all
        PROVE  Negated(sem)[r] <= sems2[i][r]
    <3>1. sem[r] >= sems[i][r] /\ sem[r] \in Int /\ sems[i][r] \in Int
      BY <1>2, <1>6, <1>8
    <3>2. sems2[i][r] = 2 - sems[i][r] /\ Negated(sem)[r] = 2 - sem[r]
      BY <1>1, <1>6
    <3>. QED BY ONLY <3>1, <3>2
  <2>4. x.pos # None => Relaxes(x.pos, sem)
    <3>1. SUFFICES ASSUME posOf = all, CombineAny(pos, all) # None
                   PROVE  Relaxes(CombineAny(pos, all), sem)
      BY <2>1
    <3>2. \A i \in all : sems[i] \in [Rows -> Truth] /\ Relaxes(pos[i], sems[i])
      BY <1>1, <1>5, <3>1
    <3>. QED BY ONLY <1>3, <2>2, <3>1, <3>2, CombineAnyRelaxes
  <2>5. x.neg # None => Relaxes(x.neg, Negated(sem))
    <3>1. \A i \in negOf : sems2[i] \in [Rows -> Truth]
      BY <1>1
    <3>. HIDE DEF negOf
    <3>. QED BY ONLY <1>3, <1>5, <2>1, <2>3, <3>1, CombineAllRelaxes
  <2>. QED BY <1>3, <1>4, <2>4, <2>5
<1>. QED BY <1>7, <1>8

(* A node made by any visit has the invariant when its parts have it.      *)
LEMMA MadeRestricted ==
    ASSUME NEW sem \in [Rows -> Truth], NEW roots, Sees(sem, roots), NEW lit, NEW rest,
           rest.pos # None => Relaxes(rest.pos, sem),
           rest.neg # None => Relaxes(rest.neg, Negated(sem)),
           NEW normal, NEW values, NEW range
    PROVE  /\ RestrictInv(Made(sem, roots, lit, WholeOr(roots, sem, rest),
                               normal, values, range))
           /\ RestrictInv(Made(sem, roots, lit, rest, normal, values, range))
<1>1. \A w : (w.pos # None => Relaxes(w.pos, sem)) /\ (w.neg # None => Relaxes(w.neg, Negated(sem)))
          => RestrictInv(Made(sem, roots, lit, w, normal, values, range))
  BY DEF RestrictInv, Made
<1>. QED BY <1>1, WholeRelaxes

(* What a leaf makes of a cell is a truth.                                 *)
LEMMA CellTruths ==
    ASSUME NEW x
    PROVE  /\ \A op, y : Compare(op, x, y) \in Truth /\ Compare(op, y, x) \in Truth
           /\ \A vals, eq : IsIn(x, vals, eq) \in Truth
           /\ \A lo, hi, closed : Between(x, lo, hi, closed) \in Truth
           /\ Matches(x) \in Truth
<1>1. \A op, y : Compare(op, x, y) \in Truth /\ Compare(op, y, x) \in Truth
  BY DEF Compare, Known, Truth
<1>2. \A lo, hi, closed : Between(x, lo, hi, closed) \in Truth
  BY <1>1, TruthFacts DEF Between
<1>. QED BY <1>1, <1>2 DEF IsIn, Matches, Known, Truth

(* Leaf nodes.                                                             *)
LEMMA LeafRestricted ==
    ASSUME NEW sem \in [Rows -> Truth], NEW c, NEW normal, NEW values, NEW range,
           \A r, s \in Rows : r[c] = s[c] => sem[r] = sem[s],
           Leaf(sem, c, normal, values, range),
           \A n \in visited : RestrictInv(n)
    PROVE  \A n \in visited' : RestrictInv(n)
<1>1. Sees(sem, {c})
  BY DEF Sees, Agree
<1>2. PICK v, g : visited' = visited \union
          {Made(sem, {c}, FALSE, WholeOr({c}, sem, NoRestriction), normal, v, g)}
  BY DEF Leaf, Visited
<1>3. NoRestriction.pos = None /\ NoRestriction.neg = None
  BY DEF NoRestriction
<1>4. RestrictInv(Made(sem, {c}, FALSE, WholeOr({c}, sem, NoRestriction), normal, v, g))
  BY <1>1, <1>3, MadeRestricted
<1>. QED BY <1>2, <1>4

(* One step per visit; the leaves differ in what they evaluate to only.     *)
LEMMA RestrictStep ==
    ASSUME \A n \in visited : RestrictInv(n), [Next]_visited
    PROVE  \A n \in visited' : RestrictInv(n)
<1>1. CASE UNCHANGED visited
  BY <1>1
<1>2. ASSUME NEW e \in Leaves, VisitComparison(e)
      PROVE  \A n \in visited' : RestrictInv(n)
  <2>. DEFINE sem == [r \in Rows |-> IF e.flipped THEN Compare(e.op, e.value, r[e.col])
                                     ELSE Compare(e.op, r[e.col], e.value)]
  <2>1. sem \in [Rows -> Truth]
    BY CellTruths
  <2>2. \A r, s \in Rows : r[e.col] = s[e.col] => sem[r] = sem[s]
    OBVIOUS
  <2>3. PICK m, v, g : Leaf(sem, e.col, m, v, g)
    BY <1>2 DEF VisitComparison
  <2>. HIDE DEF sem
  <2>. QED BY <2>1, <2>2, <2>3, LeafRestricted
<1>3. ASSUME NEW e \in Leaves, VisitIsIn(e)
      PROVE  \A n \in visited' : RestrictInv(n)
  <2>. DEFINE sem == [r \in Rows |-> IsIn(r[e.col], e.values, e.nulls_equal)]
  <2>1. sem \in [Rows -> Truth]
    BY CellTruths
  <2>2. \A r, s \in Rows : r[e.col] = s[e.col] => sem[r] = sem[s]
    OBVIOUS
  <2>3. PICK m, v, g : Leaf(sem, e.col, m, v, g)
    BY <1>3 DEF VisitIsIn
  <2>. HIDE DEF sem
  <2>. QED BY <2>1, <2>2, <2>3, LeafRestricted
<1>4. ASSUME NEW e \in Leaves, VisitBetween(e)
      PROVE  \A n \in visited' : RestrictInv(n)
  <2>. DEFINE sem == [r \in Rows |-> Between(r[e.col], e.lower, e.upper, e.closed)]
  <2>1. sem \in [Rows -> Truth]
    BY CellTruths
  <2>2. \A r, s \in Rows : r[e.col] = s[e.col] => sem[r] = sem[s]
    OBVIOUS
  <2>3. PICK m, v, g : Leaf(sem, e.col, m, v, g)
    BY <1>4 DEF VisitBetween
  <2>. HIDE DEF sem
  <2>. QED BY <2>1, <2>2, <2>3, LeafRestricted
<1>5. ASSUME NEW e \in Leaves, VisitIsNull(e)
      PROVE  \A n \in visited' : RestrictInv(n)
  <2>. DEFINE sem == [r \in Rows |-> Known(r[e.col] = Null)]
  <2>1. sem \in [Rows -> Truth]
    BY TruthFacts
  <2>2. \A r, s \in Rows : r[e.col] = s[e.col] => sem[r] = sem[s]
    OBVIOUS
  <2>3. PICK m, v, g : Leaf(sem, e.col, m, v, g)
    BY <1>5 DEF VisitIsNull
  <2>. HIDE DEF sem
  <2>. QED BY <2>1, <2>2, <2>3, LeafRestricted
<1>6. ASSUME NEW e \in Leaves, VisitIsNotNull(e)
      PROVE  \A n \in visited' : RestrictInv(n)
  <2>. DEFINE sem == [r \in Rows |-> Known(r[e.col] # Null)]
  <2>1. sem \in [Rows -> Truth]
    BY TruthFacts
  <2>2. \A r, s \in Rows : r[e.col] = s[e.col] => sem[r] = sem[s]
    OBVIOUS
  <2>3. PICK m, v, g : Leaf(sem, e.col, m, v, g)
    BY <1>6 DEF VisitIsNotNull
  <2>. HIDE DEF sem
  <2>. QED BY <2>1, <2>2, <2>3, LeafRestricted
<1>7. ASSUME NEW e \in Leaves, VisitMatches(e)
      PROVE  \A n \in visited' : RestrictInv(n)
  <2>. DEFINE sem == [r \in Rows |-> Matches(r[e.col])]
  <2>1. sem \in [Rows -> Truth]
    BY CellTruths
  <2>2. \A r, s \in Rows : r[e.col] = s[e.col] => sem[r] = sem[s]
    OBVIOUS
  <2>3. PICK m, v, g : Leaf(sem, e.col, m, v, g)
    BY <1>7 DEF VisitMatches
  <2>. HIDE DEF sem
  <2>. QED BY <2>1, <2>2, <2>3, LeafRestricted
<1>8. ASSUME NEW e \in Leaves, VisitLiteral(e)
      PROVE  \A n \in visited' : RestrictInv(n)
  <2>. DEFINE sem == [r \in Rows |-> e.value]
              rest == [pos |-> sem, neg |-> Negated(sem)]
  <2>1. e.value \in Truth
    BY <1>8, LeavesAssumption DEF VisitLiteral, LeafSyntax
  <2>2. sem \in [Rows -> Truth] /\ \A cols : Sees(sem, cols)
    BY <2>1 DEF Sees
  <2>3. PICK m, v, g : visited' = visited \union {Made(sem, {}, TRUE, rest, m, v, g)}
    BY <1>8 DEF VisitLiteral, Visited
  <2>. HIDE DEF sem
  <2>4. Relaxes(sem, sem) /\ Relaxes(Negated(sem), Negated(sem))
    BY <2>2, NegatedFacts, TruthFacts DEF Relaxes
  <2>5. RestrictInv(Made(sem, {}, TRUE, rest, m, v, g))
    BY <2>2, <2>4, MadeRestricted
  <2>. QED BY <2>3, <2>5
<1>9. ASSUME NEW e \in Leaves, VisitOpaque(e)
      PROVE  \A n \in visited' : RestrictInv(n)
  <2>1. e.sem \in [Rows -> Truth] /\ Sees(e.sem, e.roots)
    BY <1>9, LeavesAssumption, VisitorsAssumption DEF VisitOpaque, LeafSyntax, Sees
  <2>2. PICK m, v, g : visited' = visited \union
            {Made(e.sem, e.roots, FALSE, WholeOr(e.roots, e.sem, NoRestriction), m, v, g)}
    BY <1>9 DEF VisitOpaque, Visited
  <2>3. NoRestriction.pos = None /\ NoRestriction.neg = None
    BY DEF NoRestriction
  <2>4. RestrictInv(Made(e.sem, e.roots, FALSE,
                         WholeOr(e.roots, e.sem, NoRestriction), m, v, g))
    BY <2>1, <2>3, MadeRestricted
  <2>. QED BY <2>2, <2>4
<1>10. ASSUME NEW n \in visited, VisitNot(n)
       PROVE  \A m \in visited' : RestrictInv(m)
  <2>. DEFINE rest == [pos |-> n.neg, neg |-> n.pos]
  <2>1. RestrictInv(n)
    OBVIOUS
  <2>2. /\ n.sem \in [Rows -> Truth] /\ Negated(n.sem) \in [Rows -> Truth]
        /\ Sees(Negated(n.sem), n.roots)
    BY <2>1, NegatedFacts DEF RestrictInv
  <2>3. Negated(Negated(n.sem)) = n.sem
    <3>1. \A r \in Rows : 2 - (2 - n.sem[r]) = n.sem[r]
      BY <2>2, TruthFacts
    <3>. QED BY <2>2, <3>1 DEF Negated, Not
  <2>4. /\ rest.pos # None => Relaxes(rest.pos, Negated(n.sem))
        /\ rest.neg # None => Relaxes(rest.neg, Negated(Negated(n.sem)))
    BY <2>1, <2>3 DEF RestrictInv
  <2>5. PICK m, v, g : visited' = visited \union
            {Made(Negated(n.sem), n.roots, FALSE,
                  WholeOr(n.roots, Negated(n.sem), rest), m, v, g)}
    BY <1>10 DEF VisitNot, Visited
  <2>. HIDE DEF rest
  <2>6. RestrictInv(Made(Negated(n.sem), n.roots, FALSE,
                         WholeOr(n.roots, Negated(n.sem), rest), m, v, g))
    BY <2>2, <2>4, MadeRestricted
  <2>. QED BY <2>5, <2>6
<1>11. ASSUME NEW l \in visited, NEW r \in visited, NEW isAnd \in BOOLEAN,
              VisitBinary(isAnd, l, r)
       PROVE  \A m \in visited' : RestrictInv(m)
  <2>. DEFINE sem == [w \in Rows |-> IF isAnd THEN Conj(l.sem[w], r.sem[w])
                                     ELSE Disj(l.sem[w], r.sem[w])]
              roots == l.roots \union r.roots
              rest == RestrictBinary(isAnd, l, r)
  <2>1. PICK m, v, g : visited' = visited \union
            {Made(sem, roots, FALSE, WholeOr(roots, sem, rest), m, v, g)}
    BY <1>11 DEF VisitBinary, Visited
  <2>2. /\ sem \in [Rows -> Truth] /\ Sees(sem, roots)
        /\ rest.pos # None => Relaxes(rest.pos, sem)
        /\ rest.neg # None => Relaxes(rest.neg, Negated(sem))
    <3>1. sem = BinarySem(isAnd, l, r)
      BY DEF BinarySem
    <3>2. Restricted(rest, BinarySem(isAnd, l, r), roots)
      BY BinaryRestricted
    <3>. QED BY <3>1, <3>2 DEF Restricted
  <2>. HIDE DEF sem, roots, rest
  <2>3. RestrictInv(Made(sem, roots, FALSE, WholeOr(roots, sem, rest), m, v, g))
    BY <2>2, MadeRestricted
  <2>. QED BY <2>1, <2>3
<1>12. ASSUME NEW p \in visited, NEW t \in visited, NEW f \in visited,
              VisitTernary(p, t, f)
       PROVE  \A m \in visited' : RestrictInv(m)
  <2>. DEFINE sem == [r \in Rows |-> IF p.sem[r] = True THEN t.sem[r] ELSE f.sem[r]]
              roots == p.roots \union t.roots \union f.roots
              rest == RestrictTernary(p, t, f)
  <2>1. PICK m, v, g : visited' = visited \union
            {Made(sem, roots, FALSE, WholeOr(roots, sem, rest), m, v, g)}
    BY <1>12 DEF VisitTernary, Visited
  <2>2. /\ sem \in [Rows -> Truth] /\ Sees(sem, roots)
        /\ rest.pos # None => Relaxes(rest.pos, sem)
        /\ rest.neg # None => Relaxes(rest.neg, Negated(sem))
    BY TernaryRestricted
  <2>. HIDE DEF sem, roots, rest
  <2>3. RestrictInv(Made(sem, roots, FALSE, WholeOr(roots, sem, rest), m, v, g))
    BY <2>2, MadeRestricted
  <2>. QED BY <2>1, <2>3
<1>13. ASSUME NEW k \in 1..MaxOperands, NEW args \in [1..k -> visited],
              NEW isAnd \in BOOLEAN, VisitHorizontal(isAnd, args)
       PROVE  \A m \in visited' : RestrictInv(m)
  <2>. DEFINE sem == HorizontalSem(isAnd, args)
              roots == UNION {args[i].roots : i \in DOMAIN args}
              rest == RestrictHorizontal(isAnd, args)
  <2>1. DOMAIN args # {} /\ \A i \in DOMAIN args : RestrictInv(args[i])
    BY VisitorsAssumption
  <2>2. PICK m, v, g : visited' = visited \union
            {Made(sem, roots, FALSE, WholeOr(roots, sem, rest), m, v, g)}
    BY <1>13 DEF VisitHorizontal, Visited
  <2>3. /\ sem \in [Rows -> Truth] /\ Sees(sem, roots)
        /\ rest.pos # None => Relaxes(rest.pos, sem)
        /\ rest.neg # None => Relaxes(rest.neg, Negated(sem))
    BY <2>1, HorizontalRestricted
  <2>. HIDE DEF sem, roots, rest
  <2>4. RestrictInv(Made(sem, roots, FALSE, WholeOr(roots, sem, rest), m, v, g))
    BY <2>3, MadeRestricted
  <2>. QED BY <2>2, <2>4
<1>. QED BY <1>1, <1>2, <1>3, <1>4, <1>5, <1>6, <1>7, <1>8, <1>9, <1>10, <1>11,
            <1>12, <1>13 DEF Next

(* Restricting a predicate loses no row and reads no other column.          *)
THEOREM RestrictionHolds == Spec => []RestrictionKeepsRows
<1>. DEFINE Inv == \A n \in visited : RestrictInv(n)
<1>1. Init => Inv
  BY DEF Init
<1>2. Inv /\ [Next]_visited => Inv'
  BY RestrictStep
<1>3. Inv => RestrictionKeepsRows
  <2>1. SUFFICES ASSUME NEW n \in visited, RestrictInv(n)
                 PROVE  /\ n.pos # None => \A r \in Rows : n.sem[r] = True => n.pos[r] = True
                        /\ n.neg # None => \A r \in Rows : n.sem[r] = False => n.neg[r] = True
                        /\ \A t \in {n.pos, n.neg} \ {None} : Sees(t, Kept)
    BY DEF RestrictionKeepsRows, Sees
  <2>2. n.sem \in [Rows -> Truth] /\ \A r \in Rows : Negated(n.sem)[r] = 2 - n.sem[r]
    BY <2>1, NegatedFacts DEF RestrictInv
  <2>3. \A t, s : Relaxes(t, s) => \A r \in Rows : s[r] = True => t[r] = True
    BY DEF Relaxes, Truth, True, False, Unknown
  <2>4. \A r \in Rows : n.sem[r] = False => Negated(n.sem)[r] = True
    BY <2>2 DEF True, False
  <2>. QED BY <2>1, <2>3, <2>4 DEF RestrictInv, Relaxes
<1>. QED BY <1>1, <1>2, <1>3, PTL DEF Spec

-----------------------------------------------------------------------------
(* Translation.  What feeds AND and OR only has to keep rows, what may be   *)
(* negated has to mean the same.  For Narwhals that holds of the null-safe  *)
(* nodes, and on a Delta table of every node that is translated whole.     *)

Keeps(t, sem, rows) ==
    t \in [Rows -> Truth] /\ \A r \in rows : sem[r] = True => t[r] = True
SqlOf(sql, sem) ==
    /\ sql.mono # None => Keeps(sql.mono.sem, sem, DatabaseRows)
    /\ sql.exact # None =>
          /\ sql.exact.sem \in [Rows -> Truth]
          /\ \A r \in DatabaseRows : sql.exact.sem[r] = sem[r]
StoredOf(stored, sem) ==
    stored # None => \A s \in Rows : stored[s] = sem[Read(s)]
TopOf(top, sem) ==
    top # None => \A s \in Rows : sem[Read(s)] = True => top[s] = True

TranslatedInv(n) ==
    /\ n.sem \in [Rows -> Truth]
    /\ n.roots \in SUBSET Columns
    /\ Sees(n.sem, n.roots)
    /\ \A d \in Dialects : SqlOf(n.sql[d], n.sem)
    /\ n.nw # None => Keeps(n.nw, n.sem, Rows)
    /\ NullSafe(n) => n.nw = n.sem
    /\ StoredOf(n.stored, n.sem)
    /\ TopOf(n.top, n.sem)

(* A stored row is read as a row of the frame.                             *)
LEMMA ReadRows ==
    \A s \in Rows : /\ Read(s) \in Rows
                    /\ \A c \in Columns \ Mapped : Read(s)[c] = s[c]
  BY PushedAssumption DEF Read, Rows

(* A database row is a row.                                                *)
LEMMA DatabaseRowsAreRows == DatabaseRows \subseteq Rows
  BY DEF DatabaseRows

(* What is translated whole keeps the rows of the predicate.                *)
LEMMA StoredTopOf ==
    ASSUME NEW stored, NEW sem, StoredOf(stored, sem)
    PROVE  TopOf(stored, sem)
  BY DEF StoredOf, TopOf

(* A node that reads no mapped column means the same on the stored rows.   *)
LEMMA AsIsStored ==
    ASSUME NEW roots \in SUBSET Columns, NEW sem \in [Rows -> Truth], Sees(sem, roots)
    PROVE  StoredOf(StoredAsIs(roots, sem), sem)
<1>1. CASE roots \intersect Mapped = {}
  <2>1. \A s \in Rows : Agree(Read(s), s, roots)
    BY <1>1, ReadRows DEF Agree
  <2>2. QED BY <1>1, <2>1, ReadRows DEF StoredOf, StoredAsIs, Sees
<1>2. CASE roots \intersect Mapped # {}
  BY <1>2 DEF StoredOf, StoredAsIs
<1>3. QED BY <1>1, <1>2

(* What is pushed as it is means the same.                                 *)
LEMMA SameSql ==
    ASSUME NEW sem \in [Rows -> Truth], NEW bool
    PROVE  /\ SqlOf(Both(Sql(sem, bool)), sem)
           /\ SqlOf(Pushed(sem), sem)
           /\ SqlOf(NoSql, sem)
  BY DatabaseRowsAreRows DEF SqlOf, Keeps, Pushed, Both, Sql, NoSql

(* The node that a visit adds.                                             *)
LEMMA TranslatedKeeps ==
    ASSUME NEW kind, NEW sem, NEW roots, NEW sql, NEW nw, NEW stored, NEW top,
           Translated(kind, sem, roots, sql, nw, stored, top),
           \A n \in translated : TranslatedInv(n),
           sem \in [Rows -> Truth], roots \in SUBSET Columns, Sees(sem, roots),
           \A d \in Dialects : SqlOf(sql[d], sem),
           nw # None => Keeps(nw, sem, Rows),
           kind # "other" /\ nw # None => nw = sem,
           StoredOf(stored, sem), TopOf(top, sem)
    PROVE  \A n \in translated' : TranslatedInv(n)
<1> DEFINE made == [kind |-> kind, sem |-> sem, roots |-> roots, sql |-> sql, nw |-> nw,
                    stored |-> stored, top |-> top]
<1>1. translated' = translated \union {made}
  BY DEF Translated
<1>2. TranslatedInv(made)
  BY DEF TranslatedInv, NullSafe
<1>3. QED BY <1>1, <1>2

(* The node that the visit of a leaf adds.                                 *)
LEMMA LeafKeeps ==
    ASSUME NEW sem \in [Rows -> Truth], NEW c \in Columns, NEW sql, NEW nw,
           TranslatedLeaf(sem, c, sql, nw),
           \A n \in translated : TranslatedInv(n),
           \A r, s \in Rows : r[c] = s[c] => sem[r] = sem[s],
           SqlOf(sql, sem),
           nw # None => Keeps(nw, sem, Rows)
    PROVE  \A n \in translated' : TranslatedInv(n)
<1>1. Sees(sem, {c}) /\ {c} \in SUBSET Columns
  BY DEF Sees, Agree
<1>2. StoredOf(Stored(sem), sem) /\ TopOf(Stored(sem), sem)
  BY DEF StoredOf, TopOf, Stored
<1>3. \A d \in Dialects : SqlOf([e \in Dialects |-> sql][d], sem)
  OBVIOUS
<1>4. Translated("other", sem, {c}, [d \in Dialects |-> sql], nw, Stored(sem), Stored(sem))
  BY DEF TranslatedLeaf
<1>5. QED BY <1>1, <1>2, <1>3, <1>4, TranslatedKeeps

-----------------------------------------------------------------------------
(* The operators.                                                          *)

(* Truth tables: what decides a conjunction or a disjunction.              *)
LEMMA JoinTruths ==
    \A s, t \in Truth :
        /\ Conj(s, t) = True <=> s = True /\ t = True
        /\ Disj(s, t) = True <=> s = True \/ t = True
  BY DEF Truth, True, Unknown, False, Conj, Disj

(* A conjunction or disjunction reads what its sides read.                  *)
LEMMA JoinSees ==
    ASSUME NEW isAnd \in BOOLEAN, NEW s \in [Rows -> Truth], NEW t \in [Rows -> Truth],
           NEW u, NEW v
    PROVE  /\ JoinSem(isAnd, s, t) \in [Rows -> Truth]
           /\ Sees(s, u) /\ Sees(t, v) => Sees(JoinSem(isAnd, s, t), u \union v)
<1>1. JoinSem(isAnd, s, t) \in [Rows -> Truth]
  BY TruthFacts DEF JoinSem
<1>2. \A r \in Rows : JoinSem(isAnd, s, t)[r] = IF isAnd THEN Conj(s[r], t[r]) ELSE Disj(s[r], t[r])
  BY DEF JoinSem
<1>3. QED BY <1>1, <1>2 DEF Sees, Agree

(* Joining what keeps rows keeps the rows of the joined predicate.          *)
LEMMA JoinKeeps ==
    ASSUME NEW isAnd \in BOOLEAN, NEW rows \in SUBSET Rows,
           NEW s \in [Rows -> Truth], NEW t \in [Rows -> Truth], NEW a, NEW b,
           Keeps(a, s, rows), Keeps(b, t, rows)
    PROVE  Keeps(JoinSem(isAnd, a, b), JoinSem(isAnd, s, t), rows)
<1>1. JoinSem(isAnd, a, b) \in [Rows -> Truth]
  BY JoinSees DEF Keeps
<1>2. ASSUME NEW r \in rows, JoinSem(isAnd, s, t)[r] = True
      PROVE  JoinSem(isAnd, a, b)[r] = True
  <2>1. /\ a[r] \in Truth /\ b[r] \in Truth /\ s[r] \in Truth /\ t[r] \in Truth
        /\ s[r] = True => a[r] = True
        /\ t[r] = True => b[r] = True
    BY DEF Keeps
  <2>2. CASE isAnd
    BY <1>2, <2>1, <2>2, JoinTruths DEF JoinSem
  <2>3. CASE ~isAnd
    BY <1>2, <2>1, <2>3, JoinTruths DEF JoinSem
  <2>4. QED BY <2>2, <2>3
<1>3. QED BY <1>1, <1>2 DEF Keeps

(* One side of a conjunction keeps the rows of the conjunction.             *)
LEMMA SideKeeps ==
    ASSUME NEW rows \in SUBSET Rows,
           NEW s \in [Rows -> Truth], NEW t \in [Rows -> Truth], NEW a
    PROVE  /\ Keeps(a, s, rows) => Keeps(a, JoinSem(TRUE, s, t), rows)
           /\ Keeps(a, t, rows) => Keeps(a, JoinSem(TRUE, s, t), rows)
  BY JoinTruths DEF Keeps, JoinSem

(* AND and OR in SQL (sql_utils.py, visit_binary_expr).                    *)
LEMMA BinarySql ==
    ASSUME NEW isAnd \in BOOLEAN, NEW l, NEW r,
           NEW s \in [Rows -> Truth], NEW t \in [Rows -> Truth],
           SqlOf(l, s), SqlOf(r, t)
    PROVE  SqlOf(SqlBinary(isAnd, l, r), JoinSem(isAnd, s, t))
<1> DEFINE j == JoinSem(isAnd, s, t)
<1>1. DatabaseRows \in SUBSET Rows
  BY DatabaseRowsAreRows
<1>2. ASSUME SqlMonoBinary(isAnd, l.mono, r.mono) # None
      PROVE  Keeps(SqlMonoBinary(isAnd, l.mono, r.mono).sem, j, DatabaseRows)
  <2>1. CASE l.mono # None /\ r.mono # None
    <3>1. Keeps(l.mono.sem, s, DatabaseRows) /\ Keeps(r.mono.sem, t, DatabaseRows)
      BY <2>1 DEF SqlOf
    <3>2. SqlMonoBinary(isAnd, l.mono, r.mono).sem = JoinSem(isAnd, l.mono.sem, r.mono.sem)
      BY <2>1 DEF SqlMonoBinary, Sql
    <3>3. QED BY <1>1, <3>1, <3>2, JoinKeeps
  <2>2. CASE l.mono = None /\ r.mono # None
    <3>1. isAnd /\ SqlMonoBinary(isAnd, l.mono, r.mono) = r.mono
      BY <1>2, <2>2 DEF SqlMonoBinary
    <3>2. Keeps(r.mono.sem, t, DatabaseRows)
      BY <2>2 DEF SqlOf
    <3>3. QED BY <1>1, <3>1, <3>2, SideKeeps
  <2>3. CASE r.mono = None
    <3>1. isAnd /\ SqlMonoBinary(isAnd, l.mono, r.mono) = l.mono /\ l.mono # None
      BY <1>2, <2>3 DEF SqlMonoBinary
    <3>2. Keeps(l.mono.sem, s, DatabaseRows)
      BY <3>1 DEF SqlOf
    <3>3. QED BY <1>1, <3>1, <3>2, SideKeeps
  <2>4. QED BY <2>1, <2>2, <2>3
<1>3. ASSUME SqlExactBinary(isAnd, l.exact, r.exact) # None
      PROVE  /\ SqlExactBinary(isAnd, l.exact, r.exact).sem \in [Rows -> Truth]
             /\ \A w \in DatabaseRows :
                    SqlExactBinary(isAnd, l.exact, r.exact).sem[w] = j[w]
  <2>1. /\ l.exact # None /\ r.exact # None
        /\ SqlExactBinary(isAnd, l.exact, r.exact).sem
             = JoinSem(isAnd, l.exact.sem, r.exact.sem)
    BY <1>3 DEF SqlExactBinary, Sql
  <2>2. /\ l.exact.sem \in [Rows -> Truth] /\ r.exact.sem \in [Rows -> Truth]
        /\ \A w \in DatabaseRows : l.exact.sem[w] = s[w] /\ r.exact.sem[w] = t[w]
    BY <2>1 DEF SqlOf
  <2>3. JoinSem(isAnd, l.exact.sem, r.exact.sem) \in [Rows -> Truth]
    BY <2>2, JoinSees
  <2>4. \A w \in DatabaseRows : JoinSem(isAnd, l.exact.sem, r.exact.sem)[w] = j[w]
    BY <1>1, <2>2 DEF JoinSem
  <2>5. QED BY <2>1, <2>3, <2>4
<1>4. QED BY <1>2, <1>3 DEF SqlOf, SqlBinary

(* NOT in SQL takes an operand that means the same.                        *)
LEMMA NotSql ==
    ASSUME NEW n, NEW s \in [Rows -> Truth], SqlOf(n, s)
    PROVE  SqlOf(SqlNot(n), Negated(s))
<1>1. CASE n.exact = None
  BY <1>1 DEF SqlOf, SqlNot, NoSql, Both
<1>2. CASE n.exact # None
  <2>1. /\ n.exact.sem \in [Rows -> Truth]
        /\ \A r \in DatabaseRows : n.exact.sem[r] = s[r]
    BY <1>2 DEF SqlOf
  <2>2. /\ Negated(n.exact.sem) \in [Rows -> Truth]
        /\ \A r \in DatabaseRows : Negated(n.exact.sem)[r] = Negated(s)[r]
    BY <2>1, NegatedFacts, DatabaseRowsAreRows
  <2>3. SqlNot(n).mono.sem = Negated(n.exact.sem)
        /\ (SqlNot(n).exact # None => SqlNot(n).exact.sem = Negated(n.exact.sem))
    BY <1>2 DEF SqlNot, Sql
  <2>4. QED BY <2>2, <2>3 DEF SqlOf, Keeps
<1>3. QED BY <1>1, <1>2

(* IS NULL in SQL takes an operand that means the same.                    *)
LEMMA IsNullSql ==
    ASSUME NEW n, NEW s \in [Rows -> Truth], SqlOf(n, s)
    PROVE  SqlOf(SqlIsNull(n), [r \in Rows |-> Known(s[r] = Unknown)])
<1>1. CASE n.exact = None
  BY <1>1 DEF SqlOf, SqlIsNull, NoSql, Both
<1>2. CASE n.exact # None
  <2> DEFINE u == [r \in Rows |-> Known(n.exact.sem[r] = Unknown)]
  <2>1. \A r \in DatabaseRows : n.exact.sem[r] = s[r]
    BY <1>2 DEF SqlOf
  <2>2. u \in [Rows -> Truth]
    BY TruthFacts
  <2>3. \A r \in DatabaseRows : u[r] = [q \in Rows |-> Known(s[q] = Unknown)][r]
    BY <2>1, DatabaseRowsAreRows
  <2>4. SqlIsNull(n).mono.sem = u /\ SqlIsNull(n).exact.sem = u
    BY <1>2 DEF SqlIsNull, Pushed, Both, Sql
  <2> HIDE DEF u
  <2>5. QED BY <2>2, <2>3, <2>4 DEF SqlOf, Keeps
<1>3. QED BY <1>1, <1>2

(* Two predicates compared by ==.                                          *)
LEMMA EqualTruths ==
    ASSUME NEW s \in [Rows -> Truth], NEW t \in [Rows -> Truth]
    PROVE  EqualSem(s, t) \in [Rows -> Truth]
  BY TruthFacts DEF EqualSem, Truth

(* The comparison takes operands that mean the same.                       *)
LEMMA EqualSql ==
    ASSUME NEW l, NEW r, NEW s \in [Rows -> Truth], NEW t \in [Rows -> Truth],
           SqlOf(l, s), SqlOf(r, t)
    PROVE  SqlOf(SqlEqual(l, r), EqualSem(s, t))
<1>1. CASE None \in {l.exact, r.exact}
  BY <1>1 DEF SqlOf, SqlEqual, NoSql, Both
<1>2. CASE None \notin {l.exact, r.exact}
  <2>1. /\ l.exact.sem \in [Rows -> Truth] /\ r.exact.sem \in [Rows -> Truth]
        /\ \A w \in DatabaseRows : l.exact.sem[w] = s[w] /\ r.exact.sem[w] = t[w]
    BY <1>2 DEF SqlOf
  <2>2. EqualSem(l.exact.sem, r.exact.sem) \in [Rows -> Truth]
    BY <2>1, EqualTruths
  <2>3. \A w \in DatabaseRows : EqualSem(l.exact.sem, r.exact.sem)[w] = EqualSem(s, t)[w]
    BY <2>1, DatabaseRowsAreRows DEF EqualSem
  <2>4. SqlEqual(l, r).mono.sem = EqualSem(l.exact.sem, r.exact.sem)
        /\ SqlEqual(l, r).exact.sem = EqualSem(l.exact.sem, r.exact.sem)
    BY <1>2 DEF SqlEqual, Pushed, Both, Sql
  <2>5. QED BY <2>2, <2>3, <2>4 DEF SqlOf, Keeps
<1>3. QED BY <1>1, <1>2

(* A choice reads what its predicate and its arms read.                     *)
LEMMA ChoiceSees ==
    ASSUME NEW p \in [Rows -> Truth], NEW t \in [Rows -> Truth], NEW f \in [Rows -> Truth],
           NEW u, NEW v, NEW w
    PROVE  /\ ChoiceSem(p, t, f) \in [Rows -> Truth]
           /\ Sees(p, u) /\ Sees(t, v) /\ Sees(f, w)
                => Sees(ChoiceSem(p, t, f), u \union v \union w)
<1>1. ChoiceSem(p, t, f) \in [Rows -> Truth]
  BY DEF ChoiceSem
<1>2. \A r \in Rows : ChoiceSem(p, t, f)[r] = IF p[r] = True THEN t[r] ELSE f[r]
  BY DEF ChoiceSem
<1>3. QED BY <1>1, <1>2 DEF Sees, Agree

(* CASE takes operands that mean the same.                                 *)
LEMMA TernarySql ==
    ASSUME NEW d, NEW p, NEW t, NEW f, NEW a \in [Rows -> Truth],
           NEW b \in [Rows -> Truth], NEW c \in [Rows -> Truth],
           SqlOf(p, a), SqlOf(t, b), SqlOf(f, c)
    PROVE  SqlOf(SqlTernary(d, p, t, f), ChoiceSem(a, b, c))
<1>1. CASE d \in NoBooleans \/ None \in {p.exact, t.exact, f.exact}
  BY <1>1 DEF SqlOf, SqlTernary, NoSql, Both
<1>2. CASE ~(d \in NoBooleans \/ None \in {p.exact, t.exact, f.exact})
  <2> DEFINE u == ChoiceSem(p.exact.sem, t.exact.sem, f.exact.sem)
  <2>1. /\ p.exact.sem \in [Rows -> Truth] /\ t.exact.sem \in [Rows -> Truth]
        /\ f.exact.sem \in [Rows -> Truth]
        /\ \A r \in DatabaseRows : /\ p.exact.sem[r] = a[r] /\ t.exact.sem[r] = b[r]
                                   /\ f.exact.sem[r] = c[r]
    BY <1>2 DEF SqlOf
  <2>2. u \in [Rows -> Truth]
    BY <2>1, ChoiceSees
  <2>3. \A r \in DatabaseRows : u[r] = ChoiceSem(a, b, c)[r]
    BY <2>1, DatabaseRowsAreRows DEF ChoiceSem
  <2>4. SqlTernary(d, p, t, f).mono.sem = u /\ SqlTernary(d, p, t, f).exact.sem = u
    BY <1>2 DEF SqlTernary, Both, Sql
  <2> HIDE DEF u
  <2>5. QED BY <2>2, <2>3, <2>4 DEF SqlOf, Keeps
<1>3. QED BY <1>1, <1>2

(* A cast means what it casts.                                             *)
LEMMA CastSql ==
    ASSUME NEW known \in BOOLEAN, NEW n, NEW s \in [Rows -> Truth], SqlOf(n, s)
    PROVE  SqlOf(SqlCast(known, n), s)
<1>1. CASE ~known
  BY <1>1 DEF SqlCast
<1>2. CASE known /\ n.exact # None /\ n.exact.bool
  BY <1>2, DatabaseRowsAreRows DEF SqlCast, SqlOf, Both, Keeps
<1>3. CASE known /\ ~(n.exact # None /\ n.exact.bool)
  BY <1>3 DEF SqlCast, SqlOf, NoSql, Both
<1>4. QED BY <1>1, <1>2, <1>3

-----------------------------------------------------------------------------
(* The leaves.                                                             *)

(* A comparison is pushed as it is, or not at all.                         *)
LEMMA CompareSql ==
    ASSUME NEW op, NEW v, NEW sem \in [Rows -> Truth]
    PROVE  SqlOf(SqlCompare(op, v, sem), sem)
  BY SameSql DEF SqlCompare

(* So is an interval.                                                      *)
LEMMA BetweenSql ==
    ASSUME NEW lo, NEW hi, NEW sem \in [Rows -> Truth]
    PROVE  SqlOf(SqlBetween(lo, hi, sem), sem)
  BY SameSql DEF SqlBetween

(* Narwhals keeps the rows with a NaN.                                     *)
LEMMA CompareNw ==
    ASSUME NEW c, NEW op, NEW v, NEW sem \in [Rows -> Truth]
    PROVE  NwCompare(c, op, v, sem) # None => Keeps(NwCompare(c, op, v, sem), sem, Rows)
<1>1. CASE c \in Incomparable \/ v = NaN
  BY <1>1 DEF NwCompare
<1>2. CASE ~(c \in Incomparable \/ v = NaN)
  BY <1>2, TruthFacts DEF NwCompare, Keeps, Truth
<1>3. QED BY <1>1, <1>2

(* A list without its null finds the same cells, but for the null.          *)
LEMMA IsInSql ==
    ASSUME NEW c \in Columns, NEW vals, NEW nullsEqual \in BOOLEAN,
           NEW sem, sem = [r \in Rows |-> IsIn(r[c], vals, nullsEqual)]
    PROVE  SqlOf(SqlIsIn(c, vals, nullsEqual), sem)
<1> DEFINE listed == vals \ {Null}
           q == [r \in Rows |-> IF nullsEqual /\ Null \in vals /\ r[c] = Null THEN True
                                ELSE IsIn(r[c], listed, FALSE)]
<1>1. CASE Cardinality(vals) > MaxIn \/ listed = {} \/ ~Spelled(listed)
  BY <1>1 DEF SqlOf, SqlIsIn, NoSql, Both
<1>2. CASE ~(Cardinality(vals) > MaxIn \/ listed = {} \/ ~Spelled(listed))
  <2>1. q \in [Rows -> Truth]
    BY CellTruths DEF Truth
  <2>2. ASSUME NEW r \in Rows
        PROVE  /\ sem[r] = True => q[r] = True
               /\ ~nullsEqual => q[r] = sem[r]
    BY DEF IsIn, Known, True, False, Unknown
  <2>3. SqlIsIn(c, vals, nullsEqual) =
            [mono |-> Sql(q, TRUE), exact |-> IF nullsEqual THEN None ELSE Sql(q, TRUE)]
    BY <1>2 DEF SqlIsIn
  <2> HIDE DEF q
  <2>4. /\ SqlIsIn(c, vals, nullsEqual).mono.sem = q
        /\ SqlIsIn(c, vals, nullsEqual).exact # None =>
               ~nullsEqual /\ SqlIsIn(c, vals, nullsEqual).exact.sem = q
    BY <2>3 DEF Sql
  <2>5. QED BY <2>1, <2>2, <2>4, DatabaseRowsAreRows DEF SqlOf, Keeps
<1>3. QED BY <1>1, <1>2

(* A backend never misses a cell of a list.                                *)
LEMMA IsInNw ==
    ASSUME NEW c, NEW vals, NEW nullsEqual \in BOOLEAN,
           NEW sem, sem = [r \in Rows |-> IsIn(r[c], vals, nullsEqual)]
    PROVE  NwIsIn(c, vals) # None => Keeps(NwIsIn(c, vals), sem, Rows)
<1>1. CASE c \in Incomparable \/ NaN \in vals
  BY <1>1 DEF NwIsIn
<1>2. CASE ~(c \in Incomparable \/ NaN \in vals)
  <2>1. NwIsIn(c, vals) = [r \in Rows |-> Known(r[c] \in vals)]
    BY <1>2 DEF NwIsIn
  <2>2. NwIsIn(c, vals) \in [Rows -> Truth]
    BY <2>1 DEF Known, Truth
  <2>3. \A r \in Rows : sem[r] = True => NwIsIn(c, vals)[r] = True
    BY <2>1 DEF IsIn, Known, True, False, Unknown
  <2>4. QED BY <2>2, <2>3 DEF Keeps
<1>3. QED BY <1>1, <1>2

(* LIKE may match more than polars where case is ignored.                   *)
LEMMA LikeSql ==
    ASSUME NEW c, NEW d, NEW sem, sem = [r \in Rows |-> Matches(r[c])]
    PROVE  SqlOf(SqlLike(c, d), sem)
<1> DEFINE like(s) == [r \in Rows |-> IF r[c] = Null THEN Unknown ELSE Known(r[c] \in s)]
<1>1. sem = like(Matching) /\ sem \in [Rows -> Truth]
  BY CellTruths DEF Matches
<1>2. CASE d \in CaseSensitive
  <2>1. SqlLike(c, d) = Pushed(sem)
    BY <1>1, <1>2 DEF SqlLike
  <2>2. QED BY <1>1, <2>1, SameSql
<1>3. CASE d \notin CaseSensitive
  <2> DEFINE q == like(MatchingAnyCase)
  <2>1. q \in [Rows -> Truth]
    BY DEF Truth, Known
  <2>2. \A r \in Rows : sem[r] = True => q[r] = True
    BY <1>1, PushedAssumption DEF Known, True, False, Unknown
  <2>3. SqlLike(c, d).mono = Sql(q, TRUE) /\ SqlLike(c, d).exact = None
    BY <1>3 DEF SqlLike
  <2>4. Sql(q, TRUE).sem = q
    BY DEF Sql
  <2> HIDE DEF q
  <2>5. QED BY <2>1, <2>2, <2>3, <2>4, DatabaseRowsAreRows DEF SqlOf, Keeps
<1>4. QED BY <1>2, <1>3

(* A predicate keeps its own rows.                                         *)
LEMMA SelfKeeps == \A sem \in [Rows -> Truth] : Keeps(sem, sem, Rows)
  BY DEF Keeps

-----------------------------------------------------------------------------
(* A leaf of the grammar: one that is opaque reads the columns it names.   *)
LEMMA LeafShapes ==
    ASSUME NEW e \in PushedLeaves
    PROVE  /\ e.k \in {"compare", "is_in", "between", "is_null", "is_not_null", "matches",
                       "flag"} => e.col \in Columns
           /\ e.k = "compare" => e.flipped \in BOOLEAN
           /\ e.k = "is_in" => e.nulls_equal \in BOOLEAN
           /\ e.k = "literal" => e.value \in Truth
           /\ e.k = "opaque" => /\ e.roots \in SUBSET Columns
                                /\ e.sem \in [Rows -> Truth]
                                /\ Sees(e.sem, e.roots)
<1>1. e \in LeafSyntax \/ e \in [k : {"flag"}, col : Columns]
  BY PushedAssumption
<1>2. e.k = "opaque" => Sees(e.sem, e.roots)
  BY PushedAssumption DEF Sees
<1>3. QED BY <1>1, <1>2 DEF LeafSyntax

(* One step per leaf.                                                      *)
LEMMA LeafStep ==
    ASSUME \A n \in translated : TranslatedInv(n), NEW e \in PushedLeaves,
           \/ TranslateComparison(e) \/ TranslateIsIn(e) \/ TranslateBetween(e)
           \/ TranslateNullTest(e) \/ TranslateMatches(e) \/ TranslateLiteral(e)
           \/ TranslateFlag(e) \/ TranslateOpaque(e)
    PROVE  \A n \in translated' : TranslatedInv(n)
<1>1. CASE TranslateComparison(e)
  <2> DEFINE sem == [r \in Rows |-> IF e.flipped THEN Compare(e.op, e.value, r[e.col])
                                    ELSE Compare(e.op, r[e.col], e.value)]
  <2>0. e.col \in Columns
    BY <1>1, LeafShapes DEF TranslateComparison
  <2>1. sem \in [Rows -> Truth]
    BY CellTruths
  <2>2. \A r, s \in Rows : r[e.col] = s[e.col] => sem[r] = sem[s]
    OBVIOUS
  <2>3. TranslatedLeaf(sem, e.col, SqlCompare(e.op, e.value, sem),
                       NwCompare(e.col, e.op, e.value, sem))
    BY <1>1 DEF TranslateComparison
  <2> HIDE DEF sem
  <2>4. QED BY <2>0, <2>1, <2>2, <2>3, LeafKeeps, CompareSql, CompareNw
<1>2. CASE TranslateIsIn(e)
  <2> DEFINE sem == [r \in Rows |-> IsIn(r[e.col], e.values, e.nulls_equal)]
  <2>0. e.col \in Columns
    BY <1>2, LeafShapes DEF TranslateIsIn
  <2>1. sem \in [Rows -> Truth]
    BY CellTruths
  <2>2. \A r, s \in Rows : r[e.col] = s[e.col] => sem[r] = sem[s]
    OBVIOUS
  <2>3. TranslatedLeaf(sem, e.col, SqlIsIn(e.col, e.values, e.nulls_equal),
                       NwIsIn(e.col, e.values))
    BY <1>2 DEF TranslateIsIn
  <2>4. /\ SqlOf(SqlIsIn(e.col, e.values, e.nulls_equal), sem)
        /\ NwIsIn(e.col, e.values) # None => Keeps(NwIsIn(e.col, e.values), sem, Rows)
    BY <1>2, LeafShapes, IsInSql, IsInNw DEF TranslateIsIn
  <2> HIDE DEF sem
  <2>5. QED BY <2>0, <2>1, <2>2, <2>3, <2>4, LeafKeeps
<1>3. CASE TranslateBetween(e)
  <2> DEFINE sem == [r \in Rows |-> Between(r[e.col], e.lower, e.upper, e.closed)]
  <2>0. e.col \in Columns
    BY <1>3, LeafShapes DEF TranslateBetween
  <2>1. sem \in [Rows -> Truth]
    BY CellTruths
  <2>2. \A r, s \in Rows : r[e.col] = s[e.col] => sem[r] = sem[s]
    OBVIOUS
  <2>3. TranslatedLeaf(sem, e.col, SqlBetween(e.lower, e.upper, sem), None)
    BY <1>3 DEF TranslateBetween
  <2> HIDE DEF sem
  <2>4. QED BY <2>0, <2>1, <2>2, <2>3, LeafKeeps, BetweenSql
<1>4. CASE TranslateNullTest(e)
  <2> DEFINE sem == [r \in Rows |-> Known((r[e.col] = Null) = (e.k = "is_null"))]
  <2>0. e.col \in Columns
    BY <1>4, LeafShapes DEF TranslateNullTest
  <2>1. sem \in [Rows -> Truth]
    BY TruthFacts
  <2>2. \A r, s \in Rows : r[e.col] = s[e.col] => sem[r] = sem[s]
    OBVIOUS
  <2>3. TranslatedLeaf(sem, e.col, Pushed(sem), sem)
    BY <1>4 DEF TranslateNullTest
  <2> HIDE DEF sem
  <2>4. QED BY <2>0, <2>1, <2>2, <2>3, LeafKeeps, SameSql, SelfKeeps
<1>5. CASE TranslateMatches(e)
  <2> DEFINE sem == [r \in Rows |-> Matches(r[e.col])]
             stored == StoredAsIs({e.col}, sem)
             sql == [d \in Dialects |-> SqlLike(e.col, d)]
  <2>1. sem \in [Rows -> Truth]
    BY CellTruths
  <2>2. Sees(sem, {e.col}) /\ {e.col} \in SUBSET Columns
    BY <1>5, LeafShapes DEF Sees, Agree, TranslateMatches
  <2>3. Translated("other", sem, {e.col}, sql, None, stored, stored)
    BY <1>5 DEF TranslateMatches
  <2>4. \A d \in Dialects : SqlOf(sql[d], sem)
    BY LikeSql
  <2>5. StoredOf(stored, sem) /\ TopOf(stored, sem)
    BY <2>1, <2>2, AsIsStored, StoredTopOf
  <2> HIDE DEF sem, stored, sql
  <2>6. QED BY <2>1, <2>2, <2>3, <2>4, <2>5, TranslatedKeeps
<1>6. CASE TranslateLiteral(e)
  <2> DEFINE sem == [r \in Rows |-> e.value]
             sql == [d \in Dialects |-> Both(Sql(sem, e.value # Unknown))]
  <2>1. sem \in [Rows -> Truth]
    BY <1>6, LeafShapes DEF TranslateLiteral
  <2>2. Sees(sem, {}) /\ StoredOf(sem, sem) /\ TopOf(sem, sem)
    BY ReadRows DEF Sees, StoredOf, TopOf
  <2>3. Translated("literal", sem, {}, sql, sem, sem, sem)
    BY <1>6 DEF TranslateLiteral
  <2>4. \A d \in Dialects : SqlOf(sql[d], sem)
    BY <2>1, SameSql
  <2> HIDE DEF sem, sql
  <2>5. QED BY <2>1, <2>2, <2>3, <2>4, SelfKeeps, TranslatedKeeps
<1>7. CASE TranslateFlag(e)
  <2> DEFINE sem == [r \in Rows |-> IF r[e.col] = Null THEN Unknown ELSE Known(r[e.col] > 1)]
             sql == [d \in Dialects |-> Both(Sql(sem, FALSE))]
  <2>1. sem \in [Rows -> Truth]
    BY DEF Truth, Known
  <2>2. Sees(sem, {e.col}) /\ {e.col} \in SUBSET Columns
    BY <1>7, LeafShapes DEF Sees, Agree, TranslateFlag
  <2>3. Translated("column", sem, {e.col}, sql, sem, Stored(sem), Stored(sem))
    BY <1>7 DEF TranslateFlag
  <2>4. \A d \in Dialects : SqlOf(sql[d], sem)
    BY <2>1, SameSql
  <2> HIDE DEF sem, sql
  <2>5. StoredOf(Stored(sem), sem) /\ TopOf(Stored(sem), sem)
    BY DEF StoredOf, TopOf, Stored
  <2>6. QED BY <2>1, <2>2, <2>3, <2>4, <2>5, SelfKeeps, TranslatedKeeps
<1>8. CASE TranslateOpaque(e)
  <2> DEFINE stored == StoredAsIs(e.roots, e.sem)
             sql == [d \in Dialects |-> NoSql]
  <2>1. e.sem \in [Rows -> Truth] /\ e.roots \in SUBSET Columns /\ Sees(e.sem, e.roots)
    BY <1>8, LeafShapes DEF TranslateOpaque
  <2>2. Translated("other", e.sem, e.roots, sql, None, stored, stored)
    BY <1>8 DEF TranslateOpaque
  <2>3. \A d \in Dialects : SqlOf(sql[d], e.sem)
    BY <2>1, SameSql
  <2>4. StoredOf(stored, e.sem) /\ TopOf(stored, e.sem)
    BY <2>1, AsIsStored, StoredTopOf
  <2> HIDE DEF stored, sql
  <2>5. QED BY <2>1, <2>2, <2>3, <2>4, TranslatedKeeps
<1>9. QED BY <1>1, <1>2, <1>3, <1>4, <1>5, <1>6, <1>7, <1>8

-----------------------------------------------------------------------------
(* The other visits.                                                       *)

(* A conjunct at the top may be left out.                                  *)
LEMMA TopJoin ==
    ASSUME NEW isAnd \in BOOLEAN, NEW l, NEW r, NEW whole,
           NEW s \in [Rows -> Truth], NEW t \in [Rows -> Truth],
           TopOf(l, s), TopOf(r, t), TopOf(whole, JoinSem(isAnd, s, t))
    PROVE  TopOf(StoredTop(isAnd, l, r, whole), JoinSem(isAnd, s, t))
<1>1. CASE ~isAnd
  BY <1>1 DEF StoredTop
<1>2. CASE isAnd
  <2>1. ASSUME NEW w \in Rows, JoinSem(isAnd, s, t)[Read(w)] = True
        PROVE  /\ s[Read(w)] = True /\ t[Read(w)] = True
               /\ l # None => l[w] = True
               /\ r # None => r[w] = True
    <3>1. Read(w) \in Rows
      BY ReadRows
    <3>2. s[Read(w)] = True /\ t[Read(w)] = True
      BY <1>2, <2>1, <3>1, JoinTruths DEF JoinSem
    <3>3. QED BY <3>2 DEF TopOf
  <2>2. CASE l = None \/ r = None
    BY <1>2, <2>1, <2>2 DEF StoredTop, TopOf
  <2>3. CASE l # None /\ r # None
    <3>1. StoredTop(isAnd, l, r, whole) = JoinSem(TRUE, l, r)
      BY <1>2, <2>3 DEF StoredTop
    <3>2. \A w \in Rows : l[w] = True /\ r[w] = True => JoinSem(TRUE, l, r)[w] = True
      BY DEF JoinSem, Conj, True
    <3>3. QED BY <2>1, <2>3, <3>1, <3>2 DEF TopOf
  <2>4. QED BY <2>2, <2>3
<1>3. QED BY <1>1, <1>2

(* The visit of AND and OR.                                                *)
LEMMA BinaryStep ==
    ASSUME \A n \in translated : TranslatedInv(n), NEW l \in translated, NEW r \in translated,
           NEW isAnd \in BOOLEAN, TranslateBinary(isAnd, l, r)
    PROVE  \A n \in translated' : TranslatedInv(n)
<1> DEFINE sem == JoinSem(isAnd, l.sem, r.sem)
           roots == l.roots \union r.roots
           sql == [d \in Dialects |-> SqlBinary(isAnd, l.sql[d], r.sql[d])]
           nw == NwBinary(isAnd, l.nw, r.nw)
           stored == StoredBinary(isAnd, l.stored, r.stored)
           top == StoredTop(isAnd, l.top, r.top, stored)
<1>1. TranslatedInv(l) /\ TranslatedInv(r)
  OBVIOUS
<1>2. l.sem \in [Rows -> Truth] /\ r.sem \in [Rows -> Truth]
  BY <1>1 DEF TranslatedInv
<1>3. sem \in [Rows -> Truth] /\ Sees(sem, roots) /\ roots \in SUBSET Columns
  BY <1>1, <1>2, JoinSees DEF TranslatedInv
<1>4. ASSUME NEW d \in Dialects PROVE SqlOf(sql[d], sem)
  <2>1. SqlOf(l.sql[d], l.sem) /\ SqlOf(r.sql[d], r.sem)
    BY <1>1 DEF TranslatedInv
  <2>2. QED BY <1>2, <2>1, BinarySql
<1>5. nw # None => Keeps(nw, sem, Rows)
  <2>1. CASE None \in {l.nw, r.nw}
    BY <2>1 DEF NwBinary
  <2>2. CASE None \notin {l.nw, r.nw}
    <3>1. Keeps(l.nw, l.sem, Rows) /\ Keeps(r.nw, r.sem, Rows)
      BY <1>1, <2>2 DEF TranslatedInv
    <3>2. nw = JoinSem(isAnd, l.nw, r.nw)
      BY <2>2 DEF NwBinary
    <3>3. QED BY <1>2, <3>1, <3>2, JoinKeeps
  <2>3. QED BY <2>1, <2>2
<1>6. StoredOf(stored, sem)
  <2>1. StoredOf(l.stored, l.sem) /\ StoredOf(r.stored, r.sem)
    BY <1>1 DEF TranslatedInv
  <2>2. QED BY <2>1, ReadRows DEF StoredOf, StoredBinary, JoinSem
<1>7. TopOf(top, sem)
  <2>1. TopOf(l.top, l.sem) /\ TopOf(r.top, r.sem) /\ TopOf(stored, sem)
    BY <1>1, <1>6, StoredTopOf DEF TranslatedInv
  <2>2. QED BY <1>2, <2>1, TopJoin
<1>8. Translated("other", sem, roots, sql, nw, stored, top)
  BY DEF TranslateBinary
<1> HIDE DEF sem, roots, sql, nw, stored, top
<1>9. QED BY <1>3, <1>4, <1>5, <1>6, <1>7, <1>8, TranslatedKeeps

(* The visit of NOT.                                                       *)
LEMMA NotStep ==
    ASSUME \A n \in translated : TranslatedInv(n), NEW n \in translated, TranslateNot(n)
    PROVE  \A m \in translated' : TranslatedInv(m)
<1> DEFINE sem == Negated(n.sem)
           sql == [d \in Dialects |-> SqlNot(n.sql[d])]
           stored == IF n.stored = None THEN None ELSE Negated(n.stored)
<1>1. TranslatedInv(n)
  OBVIOUS
<1>2. /\ n.sem \in [Rows -> Truth] /\ sem \in [Rows -> Truth]
      /\ Sees(sem, n.roots) /\ n.roots \in SUBSET Columns
  BY <1>1, NegatedFacts DEF TranslatedInv
<1>3. \A d \in Dialects : SqlOf(sql[d], sem)
  BY <1>1, <1>2, NotSql DEF TranslatedInv
<1>4. StoredOf(stored, sem) /\ TopOf(stored, sem)
  <2>1. StoredOf(stored, sem)
    BY <1>1, ReadRows DEF TranslatedInv, StoredOf, Negated
  <2>2. QED BY <2>1, StoredTopOf
<1>5. Translated("other", sem, n.roots, sql, None, stored, stored)
  BY DEF TranslateNot
<1> HIDE DEF sem, sql, stored
<1>6. QED BY <1>2, <1>3, <1>4, <1>5, TranslatedKeeps

(* The visit of IS NULL.                                                   *)
LEMMA IsNullStep ==
    ASSUME \A n \in translated : TranslatedInv(n), NEW n \in translated, TranslateIsNull(n)
    PROVE  \A m \in translated' : TranslatedInv(m)
<1> DEFINE nulls(t) == [r \in Rows |-> Known(t[r] = Unknown)]
           sem == nulls(n.sem)
           sql == [d \in Dialects |-> SqlIsNull(n.sql[d])]
           nw == IF NullSafe(n) THEN nulls(n.nw) ELSE None
           stored == IF n.stored = None THEN None ELSE nulls(n.stored)
<1>1. TranslatedInv(n)
  OBVIOUS
<1>2. /\ n.sem \in [Rows -> Truth] /\ sem \in [Rows -> Truth]
      /\ Sees(sem, n.roots) /\ n.roots \in SUBSET Columns
  BY <1>1, TruthFacts DEF TranslatedInv, Sees
<1>3. \A d \in Dialects : SqlOf(sql[d], sem)
  BY <1>1, <1>2, IsNullSql DEF TranslatedInv
<1>4. StoredOf(stored, sem) /\ TopOf(stored, sem)
  <2>1. StoredOf(stored, sem)
    BY <1>1, ReadRows DEF TranslatedInv, StoredOf
  <2>2. QED BY <2>1, StoredTopOf
<1>5. nw # None => Keeps(nw, sem, Rows)
  <2>1. NullSafe(n) => nw = sem
    BY <1>1 DEF TranslatedInv
  <2>2. QED BY <1>2, <2>1, SelfKeeps
<1>6. Translated("other", sem, n.roots, sql, nw, stored, stored)
  BY DEF TranslateIsNull
<1> HIDE DEF sem, sql, nw, stored
<1>7. QED BY <1>2, <1>3, <1>4, <1>5, <1>6, TranslatedKeeps

(* The visit of ==.                                                        *)
LEMMA EqualStep ==
    ASSUME \A n \in translated : TranslatedInv(n), NEW l \in translated, NEW r \in translated,
           TranslateEqual(l, r)
    PROVE  \A n \in translated' : TranslatedInv(n)
<1> DEFINE sem == EqualSem(l.sem, r.sem)
           roots == l.roots \union r.roots
           sql == [d \in Dialects |-> SqlEqual(l.sql[d], r.sql[d])]
           nw == IF NullSafe(l) /\ NullSafe(r) THEN EqualSem(l.nw, r.nw) ELSE None
           stored == IF None \in {l.stored, r.stored} THEN None
                     ELSE EqualSem(l.stored, r.stored)
<1>1. TranslatedInv(l) /\ TranslatedInv(r)
  OBVIOUS
<1>2. /\ l.sem \in [Rows -> Truth] /\ r.sem \in [Rows -> Truth]
      /\ sem \in [Rows -> Truth]
  BY <1>1, EqualTruths DEF TranslatedInv
<1>3. Sees(sem, roots) /\ roots \in SUBSET Columns
  BY <1>1 DEF TranslatedInv, Sees, Agree, EqualSem
<1>4. ASSUME NEW d \in Dialects PROVE SqlOf(sql[d], sem)
  <2>1. SqlOf(l.sql[d], l.sem) /\ SqlOf(r.sql[d], r.sem)
    BY <1>1 DEF TranslatedInv
  <2>2. QED BY <1>2, <2>1, EqualSql
<1>5. StoredOf(stored, sem) /\ TopOf(stored, sem)
  <2>1. StoredOf(l.stored, l.sem) /\ StoredOf(r.stored, r.sem)
    BY <1>1 DEF TranslatedInv
  <2>2. StoredOf(stored, sem)
    BY <2>1, ReadRows DEF StoredOf, EqualSem
  <2>3. QED BY <2>2, StoredTopOf
<1>6. nw # None => Keeps(nw, sem, Rows)
  <2>1. NullSafe(l) /\ NullSafe(r) => nw = sem
    BY <1>1 DEF TranslatedInv
  <2>2. QED BY <1>2, <2>1, SelfKeeps
<1>7. Translated("other", sem, roots, sql, nw, stored, stored)
  BY DEF TranslateEqual
<1> HIDE DEF sem, roots, sql, nw, stored
<1>8. QED BY <1>2, <1>3, <1>4, <1>5, <1>6, <1>7, TranslatedKeeps

(* The visit of a ternary.                                                 *)
LEMMA TernaryStep ==
    ASSUME \A n \in translated : TranslatedInv(n), NEW p \in translated,
           NEW t \in translated, NEW f \in translated, TranslateTernary(p, t, f)
    PROVE  \A n \in translated' : TranslatedInv(n)
<1> DEFINE roots == p.roots \union t.roots \union f.roots
           sem == ChoiceSem(p.sem, t.sem, f.sem)
           sql == [d \in Dialects |-> SqlTernary(d, p.sql[d], t.sql[d], f.sql[d])]
           stored == StoredAsIs(roots, sem)
<1>1. TranslatedInv(p) /\ TranslatedInv(t) /\ TranslatedInv(f)
  OBVIOUS
<1>2. p.sem \in [Rows -> Truth] /\ t.sem \in [Rows -> Truth] /\ f.sem \in [Rows -> Truth]
  BY <1>1 DEF TranslatedInv
<1>3. sem \in [Rows -> Truth] /\ Sees(sem, roots) /\ roots \in SUBSET Columns
  BY <1>1, <1>2, ChoiceSees DEF TranslatedInv
<1>4. ASSUME NEW d \in Dialects PROVE SqlOf(sql[d], sem)
  <2>1. SqlOf(p.sql[d], p.sem) /\ SqlOf(t.sql[d], t.sem) /\ SqlOf(f.sql[d], f.sem)
    BY <1>1 DEF TranslatedInv
  <2>2. QED BY <1>2, <2>1, TernarySql
<1>5. StoredOf(stored, sem) /\ TopOf(stored, sem)
  BY <1>3, AsIsStored, StoredTopOf
<1>6. Translated("other", sem, roots, sql, None, stored, stored)
  BY DEF TranslateTernary
<1> HIDE DEF roots, sem, sql, stored
<1>7. QED BY <1>3, <1>4, <1>5, <1>6, TranslatedKeeps

(* The visit of a cast.                                                    *)
LEMMA CastStep ==
    ASSUME \A n \in translated : TranslatedInv(n), NEW n \in translated,
           NEW known \in BOOLEAN, TranslateCast(known, n)
    PROVE  \A m \in translated' : TranslatedInv(m)
<1> DEFINE sql == [d \in Dialects |-> SqlCast(known, n.sql[d])]
           nw == IF known /\ n.kind = "column" THEN n.nw ELSE None
<1>1. TranslatedInv(n)
  OBVIOUS
<1>2. /\ n.sem \in [Rows -> Truth]
      /\ Sees(n.sem, n.roots) /\ n.roots \in SUBSET Columns
  BY <1>1 DEF TranslatedInv
<1>3. \A d \in Dialects : SqlOf(sql[d], n.sem)
  BY <1>1, <1>2, CastSql DEF TranslatedInv
<1>4. nw # None => nw = n.sem
  BY <1>1 DEF TranslatedInv, NullSafe
<1>5. StoredOf(n.stored, n.sem) /\ TopOf(n.top, n.sem)
  BY <1>1 DEF TranslatedInv
<1>6. Translated("cast", n.sem, n.roots, sql, nw, n.stored, n.stored)
  BY DEF TranslateCast
<1>7. TopOf(n.stored, n.sem)
  BY <1>5, StoredTopOf
<1> HIDE DEF sql, nw
<1>8. QED BY <1>2, <1>3, <1>4, <1>5, <1>6, <1>7, SelfKeeps, TranslatedKeeps

(* The visit of a horizontal function.                                     *)
LEMMA HorizontalStep ==
    ASSUME \A n \in translated : TranslatedInv(n), NEW l \in translated, NEW r \in translated,
           NEW isAnd \in BOOLEAN, TranslateHorizontal(isAnd, l, r)
    PROVE  \A n \in translated' : TranslatedInv(n)
<1> DEFINE sem == JoinSem(isAnd, l.sem, r.sem)
           roots == l.roots \union r.roots
           sql == [d \in Dialects |-> NoSql]
           stored == StoredAsIs(roots, sem)
<1>1. TranslatedInv(l) /\ TranslatedInv(r)
  OBVIOUS
<1>2. l.sem \in [Rows -> Truth] /\ r.sem \in [Rows -> Truth]
  BY <1>1 DEF TranslatedInv
<1>3. sem \in [Rows -> Truth] /\ Sees(sem, roots) /\ roots \in SUBSET Columns
  BY <1>1, <1>2, JoinSees DEF TranslatedInv
<1>4. \A d \in Dialects : SqlOf(sql[d], sem)
  BY <1>3, SameSql
<1>5. StoredOf(stored, sem) /\ TopOf(stored, sem)
  BY <1>3, AsIsStored, StoredTopOf
<1>6. Translated("other", sem, roots, sql, None, stored, stored)
  BY DEF TranslateHorizontal
<1> HIDE DEF sem, roots, sql, stored
<1>7. QED BY <1>3, <1>4, <1>5, <1>6, TranslatedKeeps

(* What a database, a Narwhals backend or a Delta table is handed of a      *)
(* predicate loses no row of it, and what SQL may negate or test for null  *)
(* means what polars means.                                                *)
THEOREM TranslationHolds == PushedSpec => []PushedKeepsRows
<1> DEFINE Inv == \A n \in translated : TranslatedInv(n)
<1>1. PushedInit => Inv
  BY DEF PushedInit
<1>2. Inv /\ [PushedNext]_translated => Inv'
  <2> SUFFICES ASSUME \A n \in translated : TranslatedInv(n), [PushedNext]_translated
               PROVE  \A n \in translated' : TranslatedInv(n)
    BY DEF TranslatedInv
  <2>1. CASE UNCHANGED translated
    BY <2>1
  <2>2. CASE PushedNext
    BY <2>2, LeafStep, NotStep, IsNullStep, CastStep, EqualStep, BinaryStep,
       HorizontalStep, TernaryStep DEF PushedNext
  <2>3. QED BY <2>1, <2>2
<1>3. Inv => PushedKeepsRows
  BY DatabaseRowsAreRows
  DEF PushedKeepsRows, TranslatedInv, SqlOf, Keeps, TopOf
<1>4. QED BY <1>1, <1>2, <1>3, PTL DEF PushedSpec

(* A predicate leaves the same rows, filtered as what a system is handed    *)
(* first or not.                                                           *)
LEMMA FilteredBefore ==
    ASSUME NEW places, NEW s, NEW t,
           \A i \in places : t[SourceRows[i]] = True => s[SourceRows[i]] = True
    PROVE  Filtered(Filtered(places, s), t) = Filtered(places, t)
BY DEF Filtered

(* A reader that is handed a predicate alone answers as if it had filtered *)
(* itself, and one that is handed a limit alone is filtered after it.      *)
LEMMA LimitAnswers ==
    ASSUME PushedKeepsRows
    PROVE  LimitCountsReadRows
<1> SUFFICES ASSUME NEW n \in translated, NEW limit \in Limits \union {None}
             PROVE  /\ \A d \in Dialects :
                           DatabaseAnswer(n, d, limit)
                               = Filtered(Taken(DatabasePlaces, limit), n.sem)
                    /\ \A failing \in BOOLEAN :
                           NarwhalsAnswer(n, failing, limit)
                               = Filtered(Taken(Places, limit), n.sem)
                    /\ DeltaAnswer(n, limit) = Filtered(Taken(Places, limit), Stored(n.sem))
  BY DEF LimitCountsReadRows
<1>1. \A i \in Places : SourceRows[i] \in Rows
  BY PushedAssumption DEF Places
<1>2. \A places, t : Filtered(Filtered(places, t), t) = Filtered(places, t)
  BY DEF Filtered
<1>3. \A places : Taken(places, None) = places
  BY DEF Taken
<1>4. ASSUME NEW d \in Dialects
      PROVE  DatabaseAnswer(n, d, limit) = Filtered(Taken(DatabasePlaces, limit), n.sem)
  <2>1. CASE limit # None
    BY <2>1 DEF DatabaseAnswer, LimitBeforeFilter, ReadDatabase
  <2>2. ASSUME n.sql[d].mono # None
        PROVE  Filtered(Filtered(DatabasePlaces, n.sql[d].mono.sem), n.sem)
                   = Filtered(DatabasePlaces, n.sem)
    <3>1. \A i \in DatabasePlaces : n.sem[SourceRows[i]] = True
                                      => n.sql[d].mono.sem[SourceRows[i]] = True
      BY <2>2 DEF PushedKeepsRows, DatabasePlaces
    <3>2. QED BY <3>1, FilteredBefore
  <2>3. CASE limit = None
    BY <1>2, <1>3, <2>2, <2>3 DEF DatabaseAnswer, LimitBeforeFilter, ReadDatabase
  <2>4. QED BY <2>1, <2>3
<1>5. ASSUME NEW failing \in BOOLEAN
      PROVE  NarwhalsAnswer(n, failing, limit) = Filtered(Taken(Places, limit), n.sem)
  <2>1. CASE limit # None
    BY <2>1 DEF NarwhalsAnswer, LimitBeforeFilter, ReadNarwhals, PushedTo
  <2>2. ASSUME n.nw # None
        PROVE  Filtered(Filtered(Places, n.nw), n.sem) = Filtered(Places, n.sem)
    <3>1. \A i \in Places : n.sem[SourceRows[i]] = True => n.nw[SourceRows[i]] = True
      BY <1>1, <2>2 DEF PushedKeepsRows
    <3>2. QED BY <3>1, FilteredBefore
  <2>3. CASE limit = None
    BY <1>2, <1>3, <2>2, <2>3 DEF NarwhalsAnswer, LimitBeforeFilter, ReadNarwhals, PushedTo
  <2>4. QED BY <2>1, <2>3
<1>6. DeltaAnswer(n, limit) = Filtered(Taken(Places, limit), Stored(n.sem))
  <2>1. CASE limit # None
    BY <2>1 DEF DeltaAnswer, LimitBeforeFilter, ReadDelta, PushedTo
  <2>2. ASSUME n.top # None
        PROVE  Filtered(Filtered(Places, n.top), Stored(n.sem))
                   = Filtered(Places, Stored(n.sem))
    <3>1. \A i \in Places : Stored(n.sem)[SourceRows[i]] = True
                              => n.top[SourceRows[i]] = True
      BY <1>1, <2>2 DEF PushedKeepsRows, Stored
    <3>2. QED BY <3>1, FilteredBefore
  <2>3. CASE limit = None
    BY <1>3, <2>2, <2>3 DEF DeltaAnswer, LimitBeforeFilter, ReadDelta, PushedTo
  <2>4. QED BY <2>1, <2>3
<1>7. QED BY <1>4, <1>5, <1>6

(* A limit counts the rows that are read, whatever of the predicate is      *)
(* handed to the system that reads them.                                   *)
THEOREM LimitHolds == PushedSpec => []LimitCountsReadRows
<1>1. PushedSpec => []PushedKeepsRows
  BY TranslationHolds
<1>2. PushedKeepsRows => LimitCountsReadRows
  BY LimitAnswers
<1>3. QED BY <1>1, <1>2, PTL
=============================================================================
