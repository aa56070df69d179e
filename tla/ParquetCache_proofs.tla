------------------------- MODULE ParquetCache_proofs -------------------------
(***************************************************************************)
(* Proofs about ParquetCache for every set of processes, asks and faults,   *)
(* any number of days, revisions and batches, with and without a lock.      *)
(*                                                                         *)
(* WriterSound says of the locals of one process what it has written and    *)
(* has yet to write, SharedInv what the files hold; neither needs a lock.   *)
(* With a lock, LockInv and KeptInv say what its holder may rely on.  How   *)
(* recent the answers are is FreshInv, which follows each day from the plan *)
(* through the write (WriterDay) to the scan (ReaderDay).                  *)
(***************************************************************************)
EXTENDS ParquetCache, FiniteSetTheorems, SequenceTheorems, TLAPS

(* Where a query holds the lock, if there is one.                          *)
Writing == {"write", "sink", "cleanup", "empties", "stale", "relist"}

(* The days whose files a query takes for good, and those it fetches.      *)
KnownKeys(m) == IF m.mode = "REBUILD" THEN {} ELSE m.listed \ m.refresh
PlanSound(m) ==
    /\ m.fetch \subseteq Scope(m.query)
    /\ m.pc \in Writing =>
          /\ m.mode \in {"CACHE", "REBUILD"}
          /\ m.refresh \subseteq Scope(m.query) \cap m.listed
          /\ m.fetch = Scope(m.query) \ KnownKeys(m)

(* The batches that are left are disjoint parts of what is fetched; without *)
(* batches there is one, of all days.                                      *)
BatchSound(m) ==
    /\ m.pc \in {"write", "sink", "empties", "stale"} =>
          /\ m.batches # <<>>
          /\ \A i \in 1..Len(m.batches) : m.batches[i] \subseteq m.fetch
          /\ \A i, j \in 1..Len(m.batches) : i # j => m.batches[i] \cap m.batches[j] = {}
          /\ \A i \in 1..Len(m.batches) :
                i > 1 \/ m.pc \in {"write", "sink"} => m.batches[i] \cap m.completed = {}
          /\ m.batched =>
                /\ m.mode = "CACHE" /\ Finite(m.query)
                /\ \A d \in m.fetch \ m.completed : \E i \in 1..Len(m.batches) : d \in m.batches[i]
    /\ m.pc \in {"write", "sink"} /\ ~m.batched => m.batches[1] = m.fetch /\ m.completed = {}
    /\ m.pc \in {"write", "sink", "empties", "stale"} /\ ~m.batched => Len(m.batches) = 1
    /\ m.wrote \subseteq m.completed
    /\ m.pc = "stale" /\ m.mode = "REBUILD" => m.completed \subseteq m.wrote
    /\ m.pc \in {"plan", "lock"} => m.completed = {}

(* What is written, emptied or deleted is fetched and not yet complete, and *)
(* what is emptied has no rows in the snapshot it was read from.           *)
Rowless(m, d) == Shown(m.snap[d]) = 0
Finishing(m) == m.pc \in {"stale", "relist"} \/ (m.pc = "empties" /\ ~m.batched)
GapSound(m) ==
    /\ m.pc = "sink" => m.written \subseteq {d \in m.batches[1] : ~Rowless(m, d)}
    /\ m.pc \in {"cleanup", "empties"} =>
          m.pending \subseteq m.fetch /\ m.pending \cap m.completed = {}
    /\ m.pc = "empties" => \A d \in m.pending : Rowless(m, d)
    /\ m.pc = "empties" /\ m.batched =>
          m.pending \subseteq m.batches[1] /\ m.batches[1] \subseteq m.completed \cup m.pending
    /\ m.pc = "stale" => ~m.batched
    /\ Finishing(m) => \A d \in m.fetch \ m.completed : Rowless(m, d)

WriterSound(m) == PlanSound(m) /\ BatchSound(m) /\ GapSound(m)
WriterInv == \A p \in Procs : WriterSound(me[p])

(* Every complete file holds a day as the source had it.                   *)
Snapped == {"sink", "empties", "stale", "relist"}
SharedInv ==
    /\ \A d \in Days : d > frontier => source[d] = 0
    /\ \A d \in Days : asof[d] <= source[d] /\ (Cached(d) => files[d] = Shown(asof[d]))
    /\ \A p \in Procs : me[p].pc \in Snapped => \A d \in Days : me[p].snap[d] <= source[d]

(* The lock is held while anything is written, and what is written is not   *)
(* older than what is there.                                               *)
LockInv ==
    /\ \A p \in Procs : me[p].pc \in Writing => lock = p
    /\ \A p \in Procs : me[p].pc \in Snapped => \A d \in Days : asof[d] <= me[p].snap[d]

(* A complete file of a day that is fetched is expired, unless the holder   *)
(* wrote it.                                                               *)
KeptInv ==
    \A p \in Procs : me[p].pc \in Writing /\ me[p].mode = "CACHE" =>
        \A d \in me[p].fetch : Cached(d) =>
            \/ d \in expired \cup me[p].completed
            \/ me[p].pc \in {"sink", "cleanup"} /\ d \in me[p].written

-----------------------------------------------------------------------------
(* Days, batches and gaps.                                                 *)

(* Division keeps the order.                                              *)
LEMMA DivFacts ==
    ASSUME NEW k \in Nat \ {0}, NEW a \in Nat, NEW b \in Nat
    PROVE  /\ a \div k \in Nat
           /\ a >= k => a \div k >= 1
           /\ a <= b => a \div k <= b \div k
           /\ a >= k + k => a \div k >= 2
<1>1. a \div k \in Nat
  OBVIOUS
<1>2. a >= k => a \div k >= 1
  OBVIOUS
<1>3. a <= b => a \div k <= b \div k
  OBVIOUS
<1>4. a >= k + k => a \div k >= 2
  OBVIOUS
<1>5. QED BY <1>1, <1>2, <1>3, <1>4

(* Days have a first and a last.                                           *)
LEMMA LeastDay ==
    ASSUME NEW S \in SUBSET Days, S # {}
    PROVE  \E x \in S : \A y \in S : x <= y
<1> DEFINE Below(x) == {y \in S : y < x}
<1>1. Days \subseteq Nat /\ IsFiniteSet(Days)
  BY ParquetCacheAssumption, FS_Interval DEF Days
<1>2. \A x \in S : Below(x) \in FiniteSubsetsOf(S)
  BY <1>1, FS_Subset DEF FiniteSubsetsOf
<1> DEFINE T == {Below(x) : x \in S}
<1>3. T \subseteq FiniteSubsetsOf(S) /\ T # {}
  BY <1>2
<1> DEFINE R == StrictSubsetOrdering(S)
<1>4. IsWellFoundedOn(R, FiniteSubsetsOf(S))
  BY FS_StrictSubsetOrderingWellFounded
<1> HIDE DEF T, R
<1>5. PICK B \in T : \A C \in T : <<C, B>> \notin R
  BY <1>3, <1>4, WFMin
<1> USE DEF T
<1>6. PICK x \in S : B = Below(x)
  BY <1>5
<1>7. ASSUME NEW y \in S, y < x PROVE FALSE
  <2>1. Below(y) \subseteq Below(x) /\ y \in Below(x) /\ y \notin Below(y)
    <3>1. x \in Nat /\ y \in Nat /\ \A z \in S : z \in Nat
      BY <1>1, <1>7
    <3>2. ~(y < y) /\ \A z \in S : z < y => z < x
      BY <1>7, <3>1
    <3>3. QED BY <1>7, <3>2
  <2>2. <<Below(y), Below(x)>> \in R
    <3>1. Below(y) \in SUBSET S /\ Below(x) \in SUBSET S /\ Below(y) # Below(x)
      BY <2>1
    <3> HIDE DEF Below
    <3>2. QED BY <2>1, <3>1 DEF R, StrictSubsetOrdering
  <2>3. Below(y) \in T
    OBVIOUS
  <2>4. QED BY <1>5, <1>6, <2>2, <2>3
<1>8. QED BY <1>1, <1>7

(* A set of days that is not empty has a greatest one.                      *)
LEMMA GreatestDay ==
    ASSUME NEW S \in SUBSET Days, S # {}
    PROVE  \E x \in S : \A y \in S : x >= y
<1>1. MaxDay \in Nat /\ \A x \in S : x \in 1..MaxDay
  BY ParquetCacheAssumption DEF Days
<1> DEFINE T == {d \in Days : MaxDay + 1 - d \in S}
<1>2. T \in SUBSET Days /\ T # {}
  <2>1. PICK x \in S : TRUE
    OBVIOUS
  <2>2. MaxDay + 1 - x \in Days /\ MaxDay + 1 - (MaxDay + 1 - x) = x
    BY <1>1, <2>1 DEF Days
  <2>3. QED BY <2>1, <2>2
<1>3. PICK z \in T : \A y \in T : z <= y
  BY <1>2, LeastDay
<1>4. ASSUME NEW y \in S PROVE MaxDay + 1 - z >= y
  <2>1. MaxDay + 1 - y \in Days /\ MaxDay + 1 - (MaxDay + 1 - y) = y
    BY <1>1 DEF Days
  <2>2. MaxDay + 1 - y \in T
    BY <2>1
  <2>3. z <= MaxDay + 1 - y
    BY <1>3, <2>2
  <2>5. z \in Nat /\ y \in Nat
    <3>1. z \in Days
      BY <1>3
    <3>2. QED BY <1>1, <3>1 DEF Days
  <2>4. QED BY <1>1, <2>3, <2>5
<1>5. QED BY <1>4

(* The first and the last of some days.                                    *)
LEMMA Extrema ==
    ASSUME NEW S \in SUBSET Days, S # {}
    PROVE  Min(S) \in S /\ Max(S) \in S
<1>1. Min(S) \in S
  BY LeastDay DEF Min
<1>2. Max(S) \in S
  BY GreatestDay DEF Max
<1>3. QED BY <1>1, <1>2

(* The batches are disjoint parts of S that cover it.                      *)
LEMMA SplitSound ==
    ASSUME NEW p \in Procs, NEW q, NEW S \in SUBSET Days, NEW B, B = SplitWriteBatches(p, q, S)
    PROVE  /\ B \in Seq(SUBSET Days) /\ Len(B) >= 1
           /\ \A i \in 1..Len(B) : B[i] \subseteq S
           /\ \A i, j \in 1..Len(B) : i # j => B[i] \cap B[j] = {}
           /\ \A d \in S : \E i \in 1..Len(B) : d \in B[i]
           /\ Len(B) = 1 => B[1] = S
           /\ Len(B) > 1 => me[p].mode = "CACHE" /\ Finite(q)
<1> DEFINE n == Cardinality(S)
           k == WriteBatchSize
<1>1. IsFiniteSet(S) /\ n \in Nat /\ k \in Nat
  <2>1. k \in Nat /\ MaxDay \in Nat
    BY ParquetCacheAssumption
  <2>2. IsFiniteSet(Days)
    BY <2>1, FS_Interval DEF Days
  <2>3. IsFiniteSet(S)
    BY <2>2, FS_Subset
  <2>4. QED BY <2>1, <2>3, FS_CardinalityType
<1>2. ASSUME me[p].mode # "CACHE" \/ ~Finite(q) \/ k = 0 \/ n <= k
      PROVE  B = <<S>>
  BY <1>2 DEF SplitWriteBatches
<1>3. CASE B = <<S>>
  <2>1. B \in Seq(SUBSET Days) /\ Len(B) = 1 /\ B[1] = S
    BY <1>3
  <2>2. QED BY <2>1
<1>4. CASE B # <<S>>
  <2> DEFINE m == (n + k - 1) \div k
  <2>1. me[p].mode = "CACHE" /\ Finite(q) /\ k # 0 /\ ~(n <= k)
    BY <1>2, <1>4
  <2>2. B = [i \in 1..m |-> {d \in S : (Rank(d, S) + k - 1) \div k = i}]
    BY <2>1 DEF SplitWriteBatches
  <2>3. k \in Nat \ {0} /\ n + k - 1 \in Nat /\ n + k - 1 >= k + k
    BY <1>1, <2>1
  <2>4. m \in Nat /\ m >= 2
    BY <2>3, DivFacts
  <2>5. ASSUME NEW d \in S PROVE (Rank(d, S) + k - 1) \div k \in 1..m
    <3> DEFINE r == Rank(d, S)
    <3>1. {e \in S : e <= d} \in SUBSET S /\ d \in {e \in S : e <= d}
      BY DEF Days
    <3>2. r \in Nat /\ r <= n /\ r # 0
      BY <1>1, <3>1, FS_Subset, FS_CardinalityType, FS_EmptySet DEF Rank
    <3> HIDE DEF r, n
    <3>3. r + k - 1 \in Nat /\ r + k - 1 >= k /\ r + k - 1 <= n + k - 1
      BY <1>1, <2>3, <3>2
    <3>4. (r + k - 1) \div k \in Nat /\ (r + k - 1) \div k >= 1 /\ (r + k - 1) \div k <= m
      BY <2>3, <3>3, DivFacts
    <3>5. QED BY <2>4, <3>4 DEF r
  <2> HIDE DEF m
  <2>6. Len(B) = m /\ B \in Seq(SUBSET Days)
    <3>1. \A i \in 1..m : {d \in S : (Rank(d, S) + k - 1) \div k = i} \in SUBSET Days
      OBVIOUS
    <3>2. QED BY <2>2, <2>4, <3>1, LenProperties
  <2>7. QED BY <2>1, <2>2, <2>4, <2>5, <2>6
<1>5. QED BY <1>3, <1>4

(* What the constants are.                                                 *)
LEMMA ConstantFacts ==
    /\ MaxDay \in Nat /\ Days \subseteq Nat /\ MaxRev \in Nat /\ Rev = 0..MaxRev
    /\ 0 \in Rev /\ NoFile \in Content /\ Torn \in Content /\ Rev \subseteq Content
    /\ NoFile \notin Rev /\ Torn \notin Rev
    /\ \A r \in Rev : Shown(r) \in Rev /\ Shown(0) = 0
    /\ Zero \in [Days -> Rev] /\ NoRows \in [Days -> Content]
    /\ ReadRetries \in Nat /\ MaxQueries \in Nat
<1>1. MaxDay \in Nat /\ MaxRev \in Nat /\ RowRevs \subseteq 1..MaxRev
      /\ ReadRetries \in Nat /\ MaxQueries \in Nat
  BY ParquetCacheAssumption
<1>2. Days \subseteq Nat /\ Rev = 0..MaxRev /\ 0 \in Rev
  BY <1>1 DEF Days, Rev
<1>3. NoFile \in Content /\ Torn \in Content /\ Rev \subseteq Content
      /\ NoFile \notin Rev /\ Torn \notin Rev
  BY <1>1 DEF Rev, Content, NoFile, Torn
<1>4. \A r \in Rev : Shown(r) \in Rev /\ Shown(0) = 0
  BY <1>1, <1>2 DEF Shown
<1>5. Zero \in [Days -> Rev] /\ NoRows \in [Days -> Content]
  BY <1>2, <1>3 DEF Zero, NoRows
<1>6. QED BY <1>1, <1>2, <1>3, <1>4, <1>5

(* The locals a query starts with.                                         *)
LEMMA IdleFacts ==
    /\ Idle \in Local /\ Idle.pc = "idle" /\ Idle.mode = "CACHE" /\ Idle.query = NoQuery
    /\ Idle.fetch = {} /\ Idle.refresh = {} /\ Idle.listed = {} /\ Idle.batches = <<>>
    /\ Idle.wrote = {} /\ Idle.completed = {} /\ Idle.written = {} /\ Idle.pending = {}
    /\ Idle.ans = NoRows /\ Idle.up = NoRows /\ ~Idle.fetching /\ ~Idle.batched /\ ~Idle.glob
    /\ Idle.paths = {} /\ Idle.floor = Zero /\ Idle.ansof = Zero
<1>1. 0 \in 0..ReadRetries /\ 0 \in 0..MaxQueries /\ 1 \in Days /\ MaxDay \in Days
  BY ConstantFacts, ParquetCacheAssumption DEF Days
<1>2. <<>> \in Seq(SUBSET Days) /\ "CACHE" \in Modes /\ "all" \in Kinds
  BY DEF Modes, Kinds
<1>3. NoQuery \in Query
  BY <1>1, <1>2 DEF NoQuery, Query
<1>4. Idle \in Local
  BY <1>1, <1>2, <1>3, ConstantFacts DEF Idle, Local
<1>5. QED BY <1>4 DEF Idle

(* A step of p gives p the locals r.                                       *)
Becomes(p, r) == me' = [me EXCEPT ![p] = r]

(* The step of one process leaves the locals of the others.                 *)
LEMMA Others ==
    ASSUME me \in [Procs -> Local], NEW p \in Procs, NEW r \in Local, Becomes(p, r)
    PROVE  /\ me' \in [Procs -> Local] /\ me'[p] = r
           /\ \A q \in Procs : q # p => me'[q] = me[q]
  BY DEF Becomes

(* What a step leaves of the plan, of the writing and of the reading.      *)
SamePlan(r, m) ==
    /\ r.mode = m.mode /\ r.query = m.query /\ r.listed = m.listed /\ r.refresh = m.refresh
    /\ (r.fetching <=> m.fetching) /\ r.fetch = m.fetch /\ r.floor = m.floor
SameBatches(r, m) == r.batches = m.batches /\ (r.batched <=> m.batched) /\ r.snap = m.snap
SameWork(r, m) ==
    SameBatches(r, m) /\ r.written = m.written /\ r.wrote = m.wrote /\ r.completed = m.completed
SameRead(r, m) ==
    /\ (r.glob <=> m.glob) /\ r.paths = m.paths /\ r.ans = m.ans /\ r.up = m.up
    /\ r.ansof = m.ansof

(* A query that is reset has nothing in hand.                              *)
Reset(r) ==
    /\ r.fetch = {} /\ r.wrote = {} /\ r.completed = {} /\ r.ans = NoRows /\ r.up = NoRows
    /\ r.floor = Zero

(* A query starts with what it was asked and nothing done.                  *)
LEMMA StartBecomes ==
    ASSUME TypeOK, NEW p \in Procs, NEW a \in Asks, Start(p, a)
    PROVE  \E r \in Local : Becomes(p, r) /\ Reset(r) /\ r.pc = "plan" /\ r.mode = a.mode
                            /\ r.query = a.query
<1>1. PICK m \in Local : m = me[p]
  BY DEF TypeOK
<1>2. PICK i \in Local : i = Idle
  BY IdleFacts
<1>3. PICK mode \in Modes : mode = a.mode
  BY ParquetCacheAssumption
<1>4. PICK q \in Query : q = a.query
  BY ParquetCacheAssumption
<1>5. PICK n \in 0..MaxQueries : n = m.runs + 1
  BY <1>1, ConstantFacts DEF Start, Local
<1> DEFINE r == [i EXCEPT !.pc = "plan", !.mode = mode, !.query = q, !.runs = n]
<1>6. Becomes(p, r)
  BY <1>1, <1>2, <1>3, <1>4, <1>5 DEF Start, Becomes
<1>7. r \in Local
  BY DEF Local
<1>8. r.pc = "plan" /\ r.mode = mode /\ r.query = q
  BY DEF Local
<1>9. Reset(r)
  BY <1>2, IdleFacts DEF Local, Reset
<1>10. QED BY <1>3, <1>4, <1>6, <1>7, <1>8, <1>9

(* A query that fails is over, one that is killed is gone.                 *)
LEMMA ResetBecomes ==
    ASSUME TypeOK, NEW p \in Procs, NEW how \in {"idle", "error"},
           me' = [me EXCEPT ![p] = [Idle EXCEPT !.pc = how, !.runs = me[p].runs]]
    PROVE  \E r \in Local : Becomes(p, r) /\ Reset(r) /\ r.pc = how
<1>1. PICK n \in 0..MaxQueries : n = me[p].runs
  BY DEF TypeOK, Local
<1>2. PICK i \in Local : i = Idle
  BY IdleFacts
<1> DEFINE r == [i EXCEPT !.pc = how, !.runs = n]
<1>3. Becomes(p, r)
  BY <1>1, <1>2 DEF Becomes
<1>4. r \in Local /\ r.pc = how
  BY DEF Local
<1>5. Reset(r)
  BY <1>2, IdleFacts DEF Local, Reset
<1>6. QED BY <1>3, <1>4, <1>5

(* A query that raises forgets what it has done.                            *)
LEMMA RaiseBecomes ==
    ASSUME TypeOK, NEW p \in Procs, Raise(p)
    PROVE  \E r \in Local : Becomes(p, r) /\ Reset(r) /\ r.pc = "error"
  BY ResetBecomes DEF Raise

(* A killed process forgets what it has done.                               *)
LEMMA KillBecomes ==
    ASSUME TypeOK, NEW p \in Procs, Kill(p)
    PROVE  \E r \in Local : Becomes(p, r) /\ Reset(r) /\ r.pc = "idle"
<1>1. PICK n \in 0..MaxQueries : n = me[p].runs
  BY DEF TypeOK, Local
<1>2. PICK i \in Local : i = Idle
  BY IdleFacts
<1> DEFINE r == [i EXCEPT !.runs = n]
<1>3. Becomes(p, r)
  BY <1>1, <1>2 DEF Becomes, Kill
<1>4. r \in Local /\ r.pc = "idle"
  BY <1>2, IdleFacts DEF Local
<1>5. Reset(r)
  BY <1>2, IdleFacts DEF Local, Reset
<1>6. QED BY <1>3, <1>4, <1>5

-----------------------------------------------------------------------------
(* Planning.                                                               *)

(* What the plan made of a listing seen is.                                *)
LEMMA PlannedFacts ==
    ASSUME TypeOK, NEW p \in Procs, NEW seen \in SUBSET Days, NEW m, m = Planned(p, seen)
    PROVE  /\ m \in Local /\ m.pc = me[p].pc /\ m.mode = me[p].mode /\ m.query = me[p].query
           /\ m.listed = seen /\ m.refresh = RefreshKeys(p, me[p].query, seen)
           /\ m.fetching <=> FetchUpstream(p, me[p].query, seen)
           /\ m.fetch = IF FetchUpstream(p, me[p].query, seen)
                        THEN FetchSet(p, me[p].query, seen) ELSE {}
           /\ \A d \in Days : m.floor[d] = IF d \in Trusted(p) THEN asof[d] ELSE source[d]
           /\ SameWork(m, me[p]) /\ SameRead(m, me[p]) /\ m.pending = me[p].pending
<1>1. PICK n \in Local : n = me[p]
  BY DEF TypeOK
<1>2. n.query \in Query /\ Scope(n.query) \subseteq Days
  BY DEF Local, Scope
<1>3. PICK refresh \in SUBSET Days : refresh = RefreshKeys(p, n.query, seen)
  BY <1>2 DEF RefreshKeys
<1>4. PICK fetching \in BOOLEAN : fetching <=> FetchUpstream(p, n.query, seen)
  BY DEF FetchUpstream
<1>5. PICK fetch \in SUBSET Days : fetch = IF fetching THEN FetchSet(p, n.query, seen) ELSE {}
  BY <1>2 DEF FetchSet
<1>6. PICK floor \in [Days -> Rev] :
         floor = [d \in Days |-> IF d \in Trusted(p) THEN asof[d] ELSE source[d]]
  BY DEF TypeOK
<1> DEFINE r == [n EXCEPT !.listed = seen, !.refresh = refresh, !.fetching = fetching,
                          !.fetch = fetch, !.floor = floor]
<1>7. m = r
  <2>1. FetchUpstream(p, n.query, seen) = fetching
    BY <1>4 DEF FetchUpstream
  <2>2. QED BY <1>1, <1>3, <1>5, <1>6, <2>1 DEF Planned
<1>8. r \in Local
  BY DEF Local
<1>9. /\ r.pc = n.pc /\ r.mode = n.mode /\ r.query = n.query /\ r.listed = seen
      /\ r.refresh = refresh /\ r.fetch = fetch /\ r.floor = floor /\ r.pending = n.pending
      /\ (r.fetching <=> fetching)
  BY DEF Local
<1>10. SameWork(r, n) /\ SameRead(r, n)
  BY DEF Local, SameWork, SameBatches, SameRead
<1> HIDE DEF r
<1>11. QED BY <1>1, <1>3, <1>4, <1>5, <1>6, <1>7, <1>8, <1>9, <1>10

(* A listing is of days, and the directory itself when none is lost.       *)
LEMMA ListingFacts ==
    /\ \A seen \in Listings : seen \in SUBSET Days
    /\ "listing" \notin Faults => Listings = {Listed}
  BY DEF Listings, Listed

(* Some days are no more than all.                                          *)
LEMMA DayCount ==
    ASSUME NEW S \in SUBSET Days
    PROVE  Cardinality(S) \in Nat /\ Cardinality(S) <= MaxDay
           /\ \A T \in SUBSET S : Cardinality(T) \in Nat /\ Cardinality(T) <= Cardinality(S)
<1>1. MaxDay \in Nat /\ MaxDay >= 1
  BY ParquetCacheAssumption
<1>2. IsFiniteSet(Days) /\ Cardinality(Days) = IF 1 > MaxDay THEN 0 ELSE MaxDay - 1 + 1
  BY <1>1, FS_Interval DEF Days
<1>3. IsFiniteSet(Days) /\ Cardinality(Days) = MaxDay
  BY <1>1, <1>2
<1>4. IsFiniteSet(S) /\ Cardinality(S) <= MaxDay /\ Cardinality(S) \in Nat
  BY <1>3, FS_Subset, FS_CardinalityType
<1>5. ASSUME NEW T \in SUBSET S PROVE Cardinality(T) \in Nat /\ Cardinality(T) <= Cardinality(S)
  BY <1>4, FS_Subset, FS_CardinalityType
<1>6. QED BY <1>4, <1>5

(* A range of which the scan can name every path.                          *)
Nameable(q) == Finite(q) /\ Cardinality(Scope(q)) <= MaxScanPaths

(* The read plan of a query: a glob, or paths that are there, which leave   *)
(* out only what is known to be expired.  READ_ONLY reads nothing expired.  *)
ReadPlanned(q, refresh, existing, mode, glob, paths) ==
    /\ ~glob => paths \subseteq existing
    /\ ~glob => (Scope(q) \cap existing) \ refresh \subseteq paths
    /\ ~glob /\ mode \in {"CACHE", "REBUILD"} => Scope(q) \cap existing \subseteq paths
    /\ mode = "READ_ONLY" => IF glob THEN refresh = {} ELSE paths \cap refresh = {}
    /\ Nameable(q) => ~glob

(* The plan of a read is a glob or some of the paths in scope.              *)
LEMMA ReadPlanFacts ==
    ASSUME NEW p, NEW q, NEW refresh, NEW existing \in SUBSET Days,
           NEW some, some = (existing # {})
    PROVE  \E glob \in BOOLEAN, paths \in SUBSET Days :
              /\ ReadPlan(p, q, refresh, existing, some) = [glob |-> glob, paths |-> paths]
              /\ ReadPlanned(q, refresh, existing, me[p].mode, glob, paths)
<1> DEFINE kept == existing \ refresh
           hits == Scope(q) \cap IF me[p].mode = "READ_ONLY" THEN kept ELSE existing
           glob == some /\ (Finite(q) => Cardinality(hits) > MaxScanPaths)
           plan == ReadPlan(p, q, refresh, existing, some)
<1>1. plan =
         CASE glob /\ refresh # {} /\ NoWrite(p) -> [glob |-> FALSE, paths |-> kept]
           [] glob /\ ~(refresh # {} /\ NoWrite(p)) -> [glob |-> TRUE, paths |-> {}]
           [] OTHER -> [glob |-> FALSE, paths |-> IF some THEN hits ELSE {}]
  BY DEF ReadPlan
<1>2. /\ hits \in SUBSET Days /\ kept \in SUBSET Days /\ {} \in SUBSET Days
      /\ hits = Scope(q) \cap (IF me[p].mode = "READ_ONLY" THEN kept ELSE existing)
      /\ kept = existing \ refresh
  OBVIOUS
<1>3. Nameable(q) => ~glob
  <2>1. Scope(q) \in SUBSET Days
    BY DEF Scope
  <2>2. Cardinality(hits) <= Cardinality(Scope(q)) /\ Cardinality(hits) \in Nat
        /\ Cardinality(Scope(q)) \in Nat
    BY <2>1, DayCount
  <2>3. MaxScanPaths \in Nat
    BY ParquetCacheAssumption
  <2> HIDE DEF hits
  <2>4. QED BY <2>2, <2>3 DEF Nameable
<1>4. glob => existing # {}
  OBVIOUS
<1> HIDE DEF kept, hits, glob, plan
<1>5. CASE glob /\ refresh # {} /\ NoWrite(p)
  <2>1. plan = [glob |-> FALSE, paths |-> kept]
    BY <1>1, <1>5
  <2>2. ReadPlanned(q, refresh, existing, me[p].mode, FALSE, kept)
    BY <1>2, <1>5 DEF ReadPlanned, NoWrite
  <2>3. QED BY <1>2, <2>1, <2>2 DEF plan
<1>6. CASE glob /\ ~(refresh # {} /\ NoWrite(p))
  <2>1. plan = [glob |-> TRUE, paths |-> {}]
    BY <1>1, <1>6
  <2>2. ReadPlanned(q, refresh, existing, me[p].mode, TRUE, {})
    BY <1>3, <1>6 DEF ReadPlanned, NoWrite
  <2>3. QED BY <1>2, <2>1, <2>2 DEF plan
<1>7. CASE ~glob /\ some
  <2>1. plan = [glob |-> FALSE, paths |-> hits]
    BY <1>1, <1>7
  <2>2. ReadPlanned(q, refresh, existing, me[p].mode, FALSE, hits)
    BY <1>2, <1>7 DEF ReadPlanned
  <2>3. QED BY <1>2, <2>1, <2>2 DEF plan
<1>8. CASE ~glob /\ ~some
  <2>1. plan = [glob |-> FALSE, paths |-> {}]
    BY <1>1, <1>8
  <2>2. ReadPlanned(q, refresh, existing, me[p].mode, FALSE, {})
    BY <1>8 DEF ReadPlanned
  <2>3. QED BY <1>2, <2>1, <2>2 DEF plan
<1>9. QED BY <1>5, <1>6, <1>7, <1>8

(* PlanRead, PlanLock and PlanWrite keep the plan and go on.               *)
LEMMA PlanReadBecomes ==
    ASSUME TypeOK, NEW p \in Procs, PlanRead(p)
    PROVE  \E seen \in Listings, m \in Local, r \in Local, glob \in BOOLEAN, paths \in SUBSET Days :
              /\ m = Planned(p, seen) /\ Becomes(p, r) /\ r.pc = "scan"
              /\ SamePlan(r, m) /\ SameWork(r, m) /\ r.ans = m.ans /\ r.up = m.up
              /\ (r.glob <=> glob) /\ r.paths = paths
              /\ ReadPlanned(m.query, m.refresh, seen, me[p].mode, glob, paths)
              /\ NoWrite(p) \/ ~FetchUpstream(p, me[p].query, seen)
<1>1. PICK seen \in Listings :
         /\ NoWrite(p) \/ ~FetchUpstream(p, me[p].query, seen)
         /\ LET m == Planned(p, seen)
                r == ReadPlan(p, m.query, m.refresh, seen, seen # {})
            IN me' = [me EXCEPT ![p] = [m EXCEPT !.pc = "scan", !.glob = r.glob, !.paths = r.paths]]
  BY DEF PlanRead
<1>2. seen \in SUBSET Days
  BY ListingFacts
<1>3. PICK m \in Local : m = Planned(p, seen)
  BY <1>2, PlannedFacts
<1> DEFINE plan == ReadPlan(p, m.query, m.refresh, seen, seen # {})
<1>4. PICK glob \in BOOLEAN, paths \in SUBSET Days :
         /\ plan = [glob |-> glob, paths |-> paths]
         /\ ReadPlanned(m.query, m.refresh, seen, me[p].mode, glob, paths)
  <2>1. PICK some : some = (seen # {})
    BY Zenon
  <2>2. plan = ReadPlan(p, m.query, m.refresh, seen, some)
    BY <2>1, Zenon
  <2> HIDE DEF plan
  <2>3. QED BY ZenonT(40), <1>2, <2>1, <2>2, ReadPlanFacts
<1> HIDE DEF plan
<1> DEFINE r == [m EXCEPT !.pc = "scan", !.glob = glob, !.paths = paths]
<1>5. plan.glob = glob /\ plan.paths = paths
  BY <1>4
<1>6. Becomes(p, r)
  BY <1>1, <1>3, <1>5 DEF Becomes, plan
<1>7. r \in Local /\ r.pc = "scan" /\ (r.glob <=> glob) /\ r.paths = paths
  BY DEF Local
<1>8. SamePlan(r, m) /\ SameWork(r, m) /\ r.ans = m.ans /\ r.up = m.up
  BY DEF Local, SamePlan, SameWork, SameBatches
<1> HIDE DEF r
<1>9. QED BY <1>1, <1>3, <1>4, <1>6, <1>7, <1>8 DEF plan

(* Planning a write before the lock is held.                                *)
LEMMA PlanLockBecomes ==
    ASSUME TypeOK, NEW p \in Procs, PlanLock(p)
    PROVE  \E seen \in Listings, m \in Local, r \in Local :
              /\ m = Planned(p, seen) /\ Becomes(p, r) /\ r.pc = "lock"
              /\ SamePlan(r, m) /\ SameWork(r, m) /\ SameRead(r, m)
<1>1. PICK seen \in Listings : me' = [me EXCEPT ![p] = [Planned(p, seen) EXCEPT !.pc = "lock"]]
  BY DEF PlanLock
<1>2. PICK m \in Local : m = Planned(p, seen)
  BY ListingFacts, PlannedFacts
<1> DEFINE r == [m EXCEPT !.pc = "lock"]
<1>3. Becomes(p, r)
  BY <1>1, <1>2 DEF Becomes
<1>4. r \in Local /\ r.pc = "lock"
  BY DEF Local
<1>5. SamePlan(r, m) /\ SameWork(r, m) /\ SameRead(r, m)
  BY DEF Local, SamePlan, SameWork, SameBatches, SameRead
<1> HIDE DEF r
<1>6. QED BY <1>2, <1>3, <1>4, <1>5

(* Planning a write under the lock, batches included.                       *)
LEMMA PlanWriteBecomes ==
    ASSUME TypeOK, NEW p \in Procs, PlanWrite(p)
    PROVE  \E seen \in Listings, m \in Local, r \in Local :
              /\ m = Planned(p, seen) /\ Becomes(p, r) /\ r.pc = "write"
              /\ SamePlan(r, m) /\ r.completed = m.completed /\ r.wrote = m.wrote
              /\ SameRead(r, m)
              /\ r.batches = SplitWriteBatches(p, m.query, m.fetch)
              /\ (r.batched <=> Len(r.batches) > 1)
              /\ ~NoWrite(p) /\ FetchUpstream(p, me[p].query, seen)
<1>1. PICK seen \in Listings :
         /\ ~NoWrite(p) /\ FetchUpstream(p, me[p].query, seen)
         /\ LET m == Planned(p, seen)
                batches == SplitWriteBatches(p, m.query, m.fetch)
            IN me' = [me EXCEPT ![p] = [m EXCEPT !.pc = "write", !.batches = batches,
                                                 !.batched = Len(batches) > 1]]
  BY DEF PlanWrite
<1>2. PICK m \in Local : m = Planned(p, seen)
  BY ListingFacts, PlannedFacts
<1>3. PICK batches \in Seq(SUBSET Days) : batches = SplitWriteBatches(p, m.query, m.fetch)
  <2>1. m.fetch \in SUBSET Days
    BY DEF Local
  <2>2. QED BY <2>1, SplitSound
<1>4. PICK batched \in BOOLEAN : batched = (Len(batches) > 1)
  <2>1. (Len(batches) > 1) \in BOOLEAN
    OBVIOUS
  <2>2. QED BY <2>1, Zenon
<1> DEFINE r == [m EXCEPT !.pc = "write", !.batches = batches, !.batched = batched]
<1>5. Becomes(p, r)
  BY <1>1, <1>2, <1>3, <1>4 DEF Becomes
<1>6. r \in Local /\ r.pc = "write" /\ r.batches = batches /\ (r.batched <=> batched)
      /\ r.completed = m.completed /\ r.wrote = m.wrote
  BY DEF Local
<1>7. SamePlan(r, m) /\ SameRead(r, m)
  BY DEF Local, SamePlan, SameRead
<1> HIDE DEF r
<1>8. QED BY <1>1, <1>2, <1>3, <1>4, <1>5, <1>6, <1>7

(* Taking the lock, after which the query plans again.                      *)
LEMMA AcquireBecomes ==
    ASSUME TypeOK, NEW p \in Procs, AcquireLock(p)
    PROVE  \E r \in Local :
              /\ Becomes(p, r) /\ r.pc = "plan"
              /\ SamePlan(r, me[p]) /\ SameWork(r, me[p]) /\ SameRead(r, me[p])
<1>1. PICK m \in Local : m = me[p]
  BY DEF TypeOK
<1> DEFINE r == [m EXCEPT !.pc = "plan"]
<1>2. Becomes(p, r)
  BY <1>1 DEF AcquireLock, Becomes, TypeOK
<1>3. r \in Local /\ r.pc = "plan"
  BY DEF Local
<1>4. SamePlan(r, m) /\ SameWork(r, m) /\ SameRead(r, m)
  BY DEF Local, SamePlan, SameWork, SameBatches, SameRead
<1> HIDE DEF r
<1>5. QED BY <1>1, <1>2, <1>3, <1>4

-----------------------------------------------------------------------------
(* Writing.                                                                *)

(* The days a sink has rows for are in its batch.                          *)
LEMMA SinkRowsFacts ==
    ASSUME TypeOK, NEW p \in Procs, WriterSound(me[p]), me[p].pc \in {"write", "sink"}
    PROVE  /\ SinkRows(p) = {d \in me[p].batches[1] : ~Rowless(me[p], d)}
           /\ SinkRows(p) \subseteq me[p].fetch /\ SinkRows(p) \subseteq Days
           /\ 1 \in 1..Len(me[p].batches) /\ Head(me[p].batches) = me[p].batches[1]
<1>1. me[p].batches \in Seq(SUBSET Days) /\ me[p].batches # <<>> /\ me[p].fetch \in SUBSET Days
  BY DEF TypeOK, Local, WriterSound, BatchSound
<1>2. 1 \in 1..Len(me[p].batches) /\ Head(me[p].batches) = me[p].batches[1]
  BY <1>1, EmptySeq, HeadTailProperties
<1>3. me[p].batches[1] \subseteq me[p].fetch
  BY <1>2 DEF WriterSound, BatchSound
<1>4. QED BY <1>1, <1>2, <1>3 DEF SinkRows, Rowless

(* The gaps of a write are fetched and not yet written; a range that can    *)
(* be enumerated has no others.                                            *)
LEMMA MissingFacts ==
    ASSUME TypeOK, NEW p \in Procs, PlanSound(me[p]), me[p].pc \in Writing
    PROVE  /\ MissingEmptyKeys(p) \subseteq me[p].fetch \ me[p].wrote
           /\ Finite(me[p].query) => MissingEmptyKeys(p) = me[p].fetch \ me[p].wrote
           /\ me[p].refresh \subseteq me[p].fetch
           /\ me[p].fetch \subseteq Days /\ me[p].fetch \subseteq Scope(me[p].query)
<1> DEFINE m == me[p]
           expected == IF Finite(m.query) THEN Scope(m.query) ELSE Clipped(m.query, m.listed)
<1>1. /\ m.listed \in SUBSET Days /\ Scope(m.query) \subseteq Days /\ m.query \in Query
      /\ m.fetch = Scope(m.query) \ KnownKeys(m) /\ m.fetch \subseteq Scope(m.query)
      /\ m.refresh \subseteq Scope(m.query)
  BY DEF TypeOK, Local, PlanSound, Scope
<1>2. Clipped(m.query, m.listed) \subseteq Scope(m.query)
  <2>1. CASE m.listed = {}
    BY <2>1 DEF Clipped
  <2>2. CASE m.listed # {}
    <3>1. Max(m.listed) \in 1..MaxDay /\ Min(m.listed) \in 1..MaxDay
      BY <1>1, <2>2, Extrema DEF Days
    <3>2. m.query.lo \in 1..MaxDay /\ m.query.hi \in 1..MaxDay /\ MaxDay \in Nat
      BY <1>1, ConstantFacts DEF Query, Days
    <3> HIDE DEF m
    <3>3. CASE m.query.kind = "above"
      BY <2>2, <3>1, <3>2, <3>3 DEF Clipped, Scope, Days
    <3>4. CASE m.query.kind = "below"
      BY <2>2, <3>1, <3>2, <3>4 DEF Clipped, Scope, Days
    <3>5. CASE m.query.kind \notin {"above", "below"}
      BY <2>2, <3>5 DEF Clipped
    <3>6. QED BY <3>3, <3>4, <3>5
  <2>3. QED BY <2>1, <2>2
<1>3. MissingEmptyKeys(p) = expected \ (m.wrote \cup KnownKeys(m))
  BY DEF MissingEmptyKeys, KnownKeys, Rebuilding
<1>4. expected \subseteq Scope(m.query) /\ (Finite(m.query) => expected = Scope(m.query))
  BY <1>2
<1> HIDE DEF expected
<1>5. m.refresh \cap KnownKeys(m) = {}
  BY DEF KnownKeys
<1>6. QED BY <1>1, <1>3, <1>4, <1>5

(* Reading upstream for a batch.                                            *)
LEMMA SinkReadsBecomes ==
    ASSUME TypeOK, NEW p \in Procs, SinkReads(p)
    PROVE  \E r \in Local :
              /\ Becomes(p, r) /\ r.pc = "sink" /\ r.snap = source /\ r.written = {}
              /\ SamePlan(r, me[p]) /\ SameRead(r, me[p]) /\ r.batches = me[p].batches
              /\ (r.batched <=> me[p].batched) /\ r.wrote = me[p].wrote
              /\ r.completed = me[p].completed
<1>1. PICK m \in Local : m = me[p]
  BY DEF TypeOK
<1>2. PICK snap \in [Days -> Rev] : snap = source
  BY DEF TypeOK
<1> DEFINE r == [m EXCEPT !.pc = "sink", !.snap = snap, !.written = {}]
<1>3. Becomes(p, r)
  BY <1>1, <1>2 DEF SinkReads, Becomes, TypeOK
<1>4. /\ r \in Local /\ r.pc = "sink" /\ r.snap = snap /\ r.written = {}
      /\ r.batches = m.batches /\ (r.batched <=> m.batched) /\ r.wrote = m.wrote
      /\ r.completed = m.completed
  BY DEF Local
<1>5. SamePlan(r, m) /\ SameRead(r, m)
  BY DEF Local, SamePlan, SameRead
<1> HIDE DEF r
<1>6. QED BY <1>1, <1>2, <1>3, <1>4, <1>5

(* Writing the file of one day of a batch.                                  *)
LEMMA SinkFileBecomes ==
    ASSUME TypeOK, NEW p \in Procs, NEW d \in Days, SinkFile(p, d)
    PROVE  \E r \in Local :
              /\ Becomes(p, r) /\ r.pc = "sink" /\ r.written = me[p].written \cup {d}
              /\ SamePlan(r, me[p]) /\ SameRead(r, me[p]) /\ SameBatches(r, me[p])
              /\ r.wrote = me[p].wrote /\ r.completed = me[p].completed
<1>1. PICK m \in Local : m = me[p]
  BY DEF TypeOK
<1>2. PICK written \in SUBSET Days : written = m.written \cup {d}
  BY DEF Local
<1> DEFINE r == [m EXCEPT !.written = written]
<1>3. Becomes(p, r) /\ m.pc = "sink"
  BY <1>1, <1>2 DEF SinkFile, Becomes, TypeOK
<1>4. r \in Local /\ r.pc = m.pc /\ r.written = written /\ r.wrote = m.wrote
      /\ r.completed = m.completed
  BY DEF Local
<1>5. SamePlan(r, m) /\ SameRead(r, m) /\ SameBatches(r, m)
  BY DEF Local, SamePlan, SameRead, SameBatches
<1> HIDE DEF r
<1>6. QED BY <1>1, <1>2, <1>3, <1>4, <1>5

(* The end of a sink, which completes the days it wrote.                    *)
LEMMA SinkDoneBecomes ==
    ASSUME TypeOK, NEW p \in Procs, WriterSound(me[p]), SinkDone(p)
    PROVE  \E r \in Local :
              /\ Becomes(p, r) /\ r.pc = IF me[p].batched THEN "empties" ELSE "stale"
              /\ r.written = me[p].written
              /\ SamePlan(r, me[p]) /\ SameRead(r, me[p]) /\ SameBatches(r, me[p])
              /\ r.wrote = me[p].wrote \cup SinkRows(p)
              /\ r.completed = me[p].completed \cup SinkRows(p)
              /\ r.pending = IF me[p].batched
                             THEN ((MissingEmptyKeys(p) \cup me[p].refresh) \cap me[p].batches[1])
                                  \ SinkRows(p)
                             ELSE {}
<1>1. PICK m \in Local : m = me[p]
  BY DEF TypeOK
<1>2. m.pc = "sink" /\ m.written = SinkRows(p)
  BY <1>1 DEF SinkDone
<1>3. PICK rows \in SUBSET Days : rows = SinkRows(p)
  BY <1>1, <1>2, SinkRowsFacts
<1>4. m.batches # <<>> /\ m.batches \in Seq(SUBSET Days) /\ PlanSound(m)
  BY <1>1, <1>2 DEF WriterSound, BatchSound, Local
<1>5. Head(m.batches) = m.batches[1] /\ m.batches[1] \in SUBSET Days
  BY <1>4, HeadTailProperties
<1>6. PICK wrote \in SUBSET Days, completed \in SUBSET Days :
         wrote = m.wrote \cup rows /\ completed = m.completed \cup rows
  BY DEF Local
<1>7. PICK pending \in SUBSET Days :
         pending = IF m.batched
                   THEN ((MissingEmptyKeys(p) \cup m.refresh) \cap m.batches[1]) \ rows ELSE {}
  BY <1>5
<1>8. PICK pc \in {"empties", "stale"} : pc = IF m.batched THEN "empties" ELSE "stale"
  OBVIOUS
<1> DEFINE n == [m EXCEPT !.wrote = wrote, !.completed = completed]
           r == [n EXCEPT !.pc = pc, !.pending = pending]
<1>9. n \in Local /\ n.written = m.written /\ n.batched = m.batched /\ n.refresh = m.refresh
  BY DEF Local
<1>10. Becomes(p, r)
  <2>1. n = [me[p] EXCEPT !.wrote = @ \cup me[p].written, !.completed = @ \cup me[p].written]
    BY <1>1, <1>2, <1>3, <1>6
  <2> HIDE DEF n
  <2>2. QED BY <1>1, <1>2, <1>3, <1>5, <1>7, <1>8, <1>9, <2>1 DEF SinkDone, Becomes
<1>11. n.wrote = wrote /\ n.completed = completed
  BY DEF Local
<1>12. SamePlan(n, m) /\ SameRead(n, m) /\ SameBatches(n, m)
  BY DEF Local, SamePlan, SameRead, SameBatches
<1> HIDE DEF n
<1>13. /\ r \in Local /\ r.pc = pc /\ r.pending = pending
       /\ r.wrote = n.wrote /\ r.completed = n.completed /\ r.written = n.written
  BY <1>9 DEF Local
<1>14. SamePlan(r, n) /\ SameRead(r, n) /\ SameBatches(r, n)
  BY <1>9 DEF Local, SamePlan, SameRead, SameBatches
<1> HIDE DEF r
<1>15. SamePlan(r, m) /\ SameRead(r, m) /\ SameBatches(r, m)
  BY <1>12, <1>14 DEF SamePlan, SameRead, SameBatches
<1>16. QED BY <1>1, <1>2, <1>3, <1>6, <1>7, <1>8, <1>9, <1>10, <1>11, <1>13, <1>15

(* A sink that fails with files half written.                               *)
LEMMA SinkFailsBecomes ==
    ASSUME TypeOK, NEW p \in Procs, WriterSound(me[p]), SinkFails(p)
    PROVE  \E r \in Local, opened \in SUBSET SinkRows(p), torn \in SUBSET Days :
              /\ Becomes(p, r) /\ r.pc = "cleanup" /\ r.pending = opened
              /\ SamePlan(r, me[p]) /\ SameRead(r, me[p]) /\ SameWork(r, me[p])
              /\ me[p].written \subseteq opened /\ torn \subseteq opened \ me[p].written
              /\ files' = [d \in Days |-> IF d \in torn THEN Torn ELSE files[d]]
<1>1. PICK m \in Local : m = me[p]
  BY DEF TypeOK
<1>2. PICK opened \in SUBSET SinkRows(p) :
         /\ me[p].written \subseteq opened
         /\ \E torn \in SUBSET (opened \ me[p].written) :
               files' = [d \in Days |-> IF d \in torn THEN Torn ELSE files[d]]
         /\ me' = [me EXCEPT ![p].pc = "cleanup", ![p].pending = opened]
  BY DEF SinkFails
<1>3. PICK torn \in SUBSET (opened \ me[p].written) :
         files' = [d \in Days |-> IF d \in torn THEN Torn ELSE files[d]]
  BY <1>2
<1>4. opened \in SUBSET Days /\ me[p].pc = "sink"
  BY SinkRowsFacts DEF SinkFails
<1> DEFINE r == [m EXCEPT !.pc = "cleanup", !.pending = opened]
<1>5. Becomes(p, r)
  BY <1>1, <1>2 DEF Becomes, TypeOK
<1>6. r \in Local /\ r.pc = "cleanup" /\ r.pending = opened
  BY <1>4 DEF Local
<1>7. SamePlan(r, m) /\ SameRead(r, m) /\ SameWork(r, m)
  BY <1>4 DEF Local, SamePlan, SameRead, SameWork, SameBatches
<1> HIDE DEF r
<1>8. QED BY <1>1, <1>2, <1>3, <1>4, <1>5, <1>6, <1>7

(* Deleting one file of a failed sink.                                      *)
LEMMA CleanUpBecomes ==
    ASSUME TypeOK, NEW p \in Procs, CleanUp(p)
    PROVE  \E r \in Local, d \in me[p].pending :
              /\ Becomes(p, r) /\ r.pc = "cleanup" /\ r.pending = me[p].pending \ {d}
              /\ SamePlan(r, me[p]) /\ SameRead(r, me[p]) /\ SameWork(r, me[p])
              /\ d \in Days /\ Delete(d)
<1>1. PICK m \in Local : m = me[p]
  BY DEF TypeOK
<1>2. PICK d \in Days : d = Min(m.pending) /\ d \in m.pending
  BY <1>1, Extrema DEF CleanUp, Local
<1>3. PICK pending \in SUBSET Days : pending = m.pending \ {d}
  BY DEF Local
<1> DEFINE r == [m EXCEPT !.pending = pending]
<1>4. Becomes(p, r) /\ m.pc = "cleanup" /\ Delete(d)
  BY <1>1, <1>2, <1>3 DEF CleanUp, Becomes, TypeOK
<1>5. r \in Local /\ r.pc = m.pc /\ r.pending = pending
  BY DEF Local
<1>6. SamePlan(r, m) /\ SameRead(r, m) /\ SameWork(r, m)
  BY DEF Local, SamePlan, SameRead, SameWork, SameBatches
<1> HIDE DEF r
<1>7. QED BY <1>1, <1>2, <1>3, <1>4, <1>5, <1>6

(* Writing an empty file for one day without rows.                          *)
LEMMA WriteEmptyBecomes ==
    ASSUME TypeOK, NEW p \in Procs, WriteEmpty(p)
    PROVE  \E r \in Local, d \in me[p].pending :
              /\ Becomes(p, r) /\ r.pc = "empties" /\ r.pending = me[p].pending \ {d}
              /\ SamePlan(r, me[p]) /\ SameRead(r, me[p]) /\ SameBatches(r, me[p])
              /\ r.wrote = me[p].wrote /\ r.completed = me[p].completed \cup {d}
              /\ r.written = me[p].written
              /\ d \in Days /\ Write(d, 0, me[p].snap[d])
<1>1. PICK m \in Local : m = me[p]
  BY DEF TypeOK
<1>2. PICK d \in Days : d = Min(m.pending) /\ d \in m.pending
  BY <1>1, Extrema DEF WriteEmpty, Local
<1>3. PICK pending \in SUBSET Days, completed \in SUBSET Days :
         pending = m.pending \ {d} /\ completed = m.completed \cup {d}
  BY DEF Local
<1> DEFINE r == [m EXCEPT !.pending = pending, !.completed = completed]
<1>4. Becomes(p, r) /\ m.pc = "empties" /\ Write(d, 0, m.snap[d])
  BY <1>1, <1>2, <1>3 DEF WriteEmpty, Becomes, TypeOK
<1>5. r \in Local /\ r.pc = m.pc /\ r.pending = pending /\ r.completed = completed
      /\ r.wrote = m.wrote /\ r.written = m.written
  BY DEF Local
<1>6. SamePlan(r, m) /\ SameRead(r, m) /\ SameBatches(r, m)
  BY DEF Local, SamePlan, SameRead, SameBatches
<1> HIDE DEF r
<1>7. QED BY <1>1, <1>2, <1>3, <1>4, <1>5, <1>6

(* After the empty files: the next batch, the stale files, or the last      *)
(* listing.                                                                 *)
LEMMA EmptiesDoneBecomes ==
    ASSUME TypeOK, NEW p \in Procs, WriterSound(me[p]), EmptiesDone(p)
    PROVE  \E r \in Local, more \in BOOLEAN :
              /\ more <=> Len(me[p].batches) > 1
              /\ Becomes(p, r)
              /\ r.pc = IF more THEN "write" ELSE IF me[p].batched THEN "stale" ELSE "relist"
              /\ r.batches = IF more THEN Tail(me[p].batches) ELSE me[p].batches
              /\ r.batched <=> me[p].batched /\ more
              /\ SamePlan(r, me[p]) /\ SameRead(r, me[p]) /\ r.snap = me[p].snap
              /\ r.wrote = me[p].wrote /\ r.completed = me[p].completed
              /\ r.written = me[p].written /\ r.pending = me[p].pending
<1>1. PICK m \in Local : m = me[p]
  BY DEF TypeOK
<1>2. m.pc = "empties" /\ m.batches # <<>> /\ m.batches \in Seq(SUBSET Days)
  BY <1>1 DEF EmptiesDone, WriterSound, BatchSound, Local
<1>3. PICK more \in BOOLEAN : more = (Len(m.batches) > 1)
  <2>1. (Len(m.batches) > 1) \in BOOLEAN
    OBVIOUS
  <2>2. QED BY <2>1, Zenon
<1>4. PICK batches \in Seq(SUBSET Days) : batches = IF more THEN Tail(m.batches) ELSE m.batches
  BY <1>2, HeadTailProperties
<1>5. PICK batched \in BOOLEAN : batched = (m.batched /\ more)
  <2>1. (m.batched /\ more) \in BOOLEAN
    OBVIOUS
  <2>2. QED BY <2>1, Zenon
<1>6. PICK pc \in {"write", "stale", "relist"} :
         pc = IF more THEN "write" ELSE IF m.batched THEN "stale" ELSE "relist"
  OBVIOUS
<1> DEFINE r == [m EXCEPT !.batches = batches, !.batched = batched, !.pc = pc]
<1>7. Becomes(p, r)
  BY <1>1, <1>3, <1>4, <1>5, <1>6 DEF EmptiesDone, Becomes, TypeOK
<1>8. /\ r \in Local /\ r.pc = pc /\ r.batches = batches /\ (r.batched <=> batched)
      /\ r.snap = m.snap /\ r.wrote = m.wrote /\ r.completed = m.completed
      /\ r.written = m.written /\ r.pending = m.pending
  BY DEF Local
<1>9. SamePlan(r, m) /\ SameRead(r, m)
  BY DEF Local, SamePlan, SameRead
<1>10. more <=> Len(m.batches) > 1
  BY <1>3
<1>11. batched <=> m.batched /\ more
  BY <1>5
<1> HIDE DEF r
<1>12. QED BY <1>1, <1>4, <1>6, <1>7, <1>8, <1>9, <1>10, <1>11

(* Deleting one file that a rebuild made stale.                             *)
LEMMA DeleteStaleBecomes ==
    ASSUME TypeOK, NEW p \in Procs, DeleteStale(p)
    PROVE  \E r \in Local, d \in StaleKeys(p) \ me[p].pending :
              /\ Becomes(p, r) /\ r.pc = "stale" /\ r.pending = me[p].pending \cup {d}
              /\ SamePlan(r, me[p]) /\ SameRead(r, me[p]) /\ SameWork(r, me[p])
              /\ d \in Days /\ Delete(d)
<1>1. PICK m \in Local : m = me[p]
  BY DEF TypeOK
<1>2. StaleKeys(p) \subseteq Days
  BY DEF StaleKeys, Scope
<1>3. PICK d \in Days : d = Min(StaleKeys(p) \ m.pending) /\ d \in StaleKeys(p) \ m.pending
  BY <1>1, <1>2, Extrema DEF DeleteStale, Local
<1>4. PICK pending \in SUBSET Days : pending = m.pending \cup {d}
  BY DEF Local
<1> DEFINE r == [m EXCEPT !.pending = pending]
<1>5. Becomes(p, r) /\ m.pc = "stale" /\ Delete(d)
  BY <1>1, <1>3, <1>4 DEF DeleteStale, Becomes, TypeOK
<1>6. r \in Local /\ r.pc = m.pc /\ r.pending = pending
  BY DEF Local
<1>7. SamePlan(r, m) /\ SameRead(r, m) /\ SameWork(r, m)
  BY DEF Local, SamePlan, SameRead, SameWork, SameBatches
<1> HIDE DEF r
<1>8. QED BY <1>1, <1>3, <1>4, <1>5, <1>6, <1>7

(* After the stale files, the gaps that are to be filled.                   *)
LEMMA StaleDoneBecomes ==
    ASSUME TypeOK, NEW p \in Procs, WriterSound(me[p]), StaleDone(p)
    PROVE  \E r \in Local :
              /\ Becomes(p, r) /\ r.pc = "empties"
              /\ r.pending = ((MissingEmptyKeys(p) \cup me[p].refresh) \ me[p].wrote)
                             \ me[p].completed
              /\ SamePlan(r, me[p]) /\ SameRead(r, me[p]) /\ SameWork(r, me[p])
<1>1. PICK m \in Local : m = me[p]
  BY DEF TypeOK
<1>2. m.pc = "stale" /\ PlanSound(m)
  BY <1>1 DEF StaleDone, WriterSound
<1>3. MissingEmptyKeys(p) \subseteq Days /\ m.refresh \subseteq Days
  BY <1>1, <1>2, MissingFacts DEF Writing
<1>4. PICK pending \in SUBSET Days :
         pending = ((MissingEmptyKeys(p) \cup m.refresh) \ m.wrote) \ m.completed
  BY <1>3
<1> DEFINE r == [m EXCEPT !.pc = "empties", !.pending = pending]
<1>5. Becomes(p, r)
  BY <1>1, <1>4 DEF StaleDone, Becomes, TypeOK
<1>6. r \in Local /\ r.pc = "empties" /\ r.pending = pending
  BY DEF Local
<1>7. SamePlan(r, m) /\ SameRead(r, m) /\ SameWork(r, m)
  BY DEF Local, SamePlan, SameRead, SameWork, SameBatches
<1> HIDE DEF r
<1>8. QED BY <1>1, <1>4, <1>5, <1>6, <1>7

-----------------------------------------------------------------------------
(* Reading.                                                                *)

(* The last listing changes what the plan knows of the directory.          *)
LEMMA RelistBecomes ==
    ASSUME TypeOK, NEW p \in Procs, Relist(p)
    PROVE  \E seen \in Listings, r \in Local, glob \in BOOLEAN, paths \in SUBSET Days :
              /\ Becomes(p, r) /\ r.pc = "scan" /\ r.listed = seen
              /\ (r.glob <=> glob) /\ r.paths = paths
              /\ ReadPlanned(me[p].query, me[p].refresh, seen, me[p].mode, glob, paths)
              /\ r.mode = me[p].mode /\ r.query = me[p].query /\ r.fetch = me[p].fetch
              /\ (r.fetching <=> me[p].fetching) /\ r.floor = me[p].floor
              /\ SameWork(r, me[p]) /\ r.ans = me[p].ans /\ r.up = me[p].up
<1>1. PICK m \in Local : m = me[p]
  BY DEF TypeOK
<1>2. PICK seen \in Listings :
         LET r == ReadPlan(p, m.query, m.refresh, seen, seen # {})
         IN me' = [me EXCEPT ![p].pc = "scan", ![p].listed = seen,
                             ![p].glob = r.glob, ![p].paths = r.paths]
  BY <1>1 DEF Relist
<1>3. seen \in SUBSET Days
  BY ListingFacts
<1> DEFINE plan == ReadPlan(p, m.query, m.refresh, seen, seen # {})
<1>4. PICK glob \in BOOLEAN, paths \in SUBSET Days :
         /\ plan = [glob |-> glob, paths |-> paths]
         /\ ReadPlanned(m.query, m.refresh, seen, me[p].mode, glob, paths)
  <2>1. PICK some : some = (seen # {})
    BY Zenon
  <2>2. plan = ReadPlan(p, m.query, m.refresh, seen, some)
    BY <2>1, Zenon
  <2> HIDE DEF plan
  <2>3. QED BY ZenonT(40), <1>3, <2>1, <2>2, ReadPlanFacts
<1> HIDE DEF plan
<1>5. plan.glob = glob /\ plan.paths = paths
  BY <1>4
<1> DEFINE r == [m EXCEPT !.pc = "scan", !.listed = seen, !.glob = glob, !.paths = paths]
<1>6. Becomes(p, r)
  <2>1. me' = [me EXCEPT ![p].pc = "scan", ![p].listed = seen,
                         ![p].glob = plan.glob, ![p].paths = plan.paths]
    BY <1>2 DEF plan
  <2>2. QED BY <1>1, <1>5, <2>1 DEF Becomes, TypeOK
<1>7. r \in Local /\ r.pc = "scan" /\ (r.glob <=> glob) /\ r.paths = paths /\ r.listed = seen
  BY <1>3 DEF Local
<1>8. /\ r.mode = m.mode /\ r.query = m.query /\ r.fetch = m.fetch
      /\ (r.fetching <=> m.fetching) /\ r.floor = m.floor
      /\ SameWork(r, m) /\ r.ans = m.ans /\ r.up = m.up
  BY DEF Local, SameWork, SameBatches
<1> HIDE DEF r
<1>9. QED BY <1>1, <1>4, <1>6, <1>7, <1>8

(* Opening the files of the read plan.                                      *)
LEMMA OpenScanBecomes ==
    ASSUME TypeOK, NEW p \in Procs, OpenScan(p)
    PROVE  \E r \in Local :
              /\ Becomes(p, r) /\ r.pc = "read" /\ r.ansof = asof
              /\ r.paths = IF me[p].glob THEN Listed ELSE me[p].paths
              /\ \A d \in Days : r.ans[d] = IF d \in r.paths THEN files[d] ELSE NoFile
              /\ SamePlan(r, me[p]) /\ SameWork(r, me[p]) /\ r.up = me[p].up
              /\ (r.glob <=> me[p].glob)
<1>1. PICK m \in Local : m = me[p]
  BY DEF TypeOK
<1>2. PICK paths \in SUBSET Days : paths = IF m.glob THEN Listed ELSE m.paths
  BY DEF Local, Listed
<1>3. PICK ansof \in [Days -> Rev] : ansof = asof
  BY DEF TypeOK
<1>4. PICK ans \in [Days -> Content] :
         ans = [d \in Days |-> IF d \in paths THEN files[d] ELSE NoFile]
  BY ConstantFacts DEF TypeOK
<1> DEFINE r == [m EXCEPT !.pc = "read", !.paths = paths, !.ansof = ansof, !.ans = ans]
<1>5. Becomes(p, r)
  BY <1>1, <1>2, <1>3, <1>4 DEF OpenScan, Becomes, TypeOK
<1>6. r \in Local /\ r.pc = "read" /\ r.ansof = ansof /\ r.paths = paths /\ r.ans = ans
  BY DEF Local
<1>7. SamePlan(r, m) /\ SameWork(r, m) /\ r.up = m.up /\ (r.glob <=> m.glob)
  BY DEF Local, SamePlan, SameWork, SameBatches
<1> HIDE DEF r
<1>8. QED BY <1>1, <1>2, <1>3, <1>4, <1>5, <1>6, <1>7

(* The answer, of the files that were read and of upstream.                 *)
LEMMA ReadDoneBecomes ==
    ASSUME TypeOK, NEW p \in Procs, ReadDone(p)
    PROVE  \E r \in Local :
              /\ Becomes(p, r) /\ r.pc = "done"
              /\ r.mode = me[p].mode /\ r.query = me[p].query /\ r.fetch = me[p].fetch
              /\ r.floor = me[p].floor /\ r.ansof = me[p].ansof
              /\ r.completed = {} /\ r.wrote = {}
              /\ \A d \in Days : r.ans[d] = IF d \in Scope(me[p].query) THEN me[p].ans[d] ELSE NoFile
              /\ \A d \in Days : r.up[d] = IF ReadsUpstream(p) /\ d \in me[p].fetch
                                           THEN Shown(source[d]) ELSE NoFile
<1>1. PICK m \in Local : m = me[p]
  BY DEF TypeOK
<1>2. PICK i \in Local : i = Idle
  BY IdleFacts
<1>3. PICK ans \in [Days -> Content] :
         ans = [d \in Days |-> IF d \in Scope(m.query) THEN m.ans[d] ELSE NoFile]
  BY ConstantFacts DEF Local
<1>4. PICK up \in [Days -> Content] :
         up = [d \in Days |-> IF ReadsUpstream(p) /\ d \in m.fetch
                              THEN Shown(source[d]) ELSE NoFile]
  BY ConstantFacts DEF TypeOK
<1> DEFINE r == [i EXCEPT !.pc = "done", !.mode = m.mode, !.query = m.query, !.fetch = m.fetch,
                          !.ans = ans, !.up = up, !.floor = m.floor, !.ansof = m.ansof,
                          !.runs = m.runs]
<1>5. Becomes(p, r)
  BY <1>1, <1>2, <1>3, <1>4 DEF ReadDone, Becomes
<1>6. /\ m.mode \in Modes /\ m.query \in Query /\ m.fetch \in SUBSET Days
      /\ m.floor \in [Days -> Rev] /\ m.ansof \in [Days -> Rev] /\ m.runs \in 0..MaxQueries
  BY DEF Local
<1>7. r \in Local
  BY <1>6 DEF Local
<1>8. /\ r.pc = "done" /\ r.mode = m.mode /\ r.query = m.query /\ r.fetch = m.fetch
      /\ r.floor = m.floor /\ r.ansof = m.ansof /\ r.ans = ans /\ r.up = up
      /\ r.completed = i.completed /\ r.wrote = i.wrote
  BY DEF Local
<1> HIDE DEF r
<1>9. QED BY <1>1, <1>2, <1>3, <1>4, <1>5, <1>7, <1>8, IdleFacts

(* A read that was disturbed scans again, with the same plan.               *)
LEMMA ReadRetryBecomes ==
    ASSUME TypeOK, NEW p \in Procs, ReadRetry(p)
    PROVE  \E r \in Local :
              /\ Becomes(p, r) /\ r.pc = "scan"
              /\ SamePlan(r, me[p]) /\ SameWork(r, me[p]) /\ SameRead(r, me[p])
<1>1. PICK m \in Local : m = me[p]
  BY DEF TypeOK
<1>2. PICK n \in 0..ReadRetries : n = m.attempt + 1
  BY <1>1, ConstantFacts DEF ReadRetry, Local
<1> DEFINE r == [m EXCEPT !.pc = "scan", !.attempt = n]
<1>3. Becomes(p, r)
  BY <1>1, <1>2 DEF ReadRetry, Becomes, TypeOK
<1>4. r \in Local /\ r.pc = "scan"
  BY DEF Local
<1>5. SamePlan(r, m) /\ SameWork(r, m) /\ SameRead(r, m)
  BY DEF Local, SamePlan, SameWork, SameBatches, SameRead
<1> HIDE DEF r
<1>6. QED BY <1>1, <1>3, <1>4, <1>5

-----------------------------------------------------------------------------
(* The writing of one process.                                             *)

(* Outside a write there is nothing to say but the plan.                   *)
LEMMA NotWriting ==
    ASSUME NEW r, r.pc \notin Writing, r.fetch \subseteq Scope(r.query),
           r.wrote \subseteq r.completed, r.pc \in {"plan", "lock"} => r.completed = {}
    PROVE  WriterSound(r)
<1>1. PlanSound(r) /\ BatchSound(r)
  BY DEF PlanSound, BatchSound, Writing
<1>2. GapSound(r)
  BY DEF GapSound, Finishing, Writing
<1>3. QED BY <1>1, <1>2 DEF WriterSound

(* A query that has done nothing is sound.                                  *)
LEMMA ResetSound ==
    ASSUME NEW r, Reset(r), r.pc \notin Writing
    PROVE  WriterSound(r)
  BY NotWriting DEF Reset

(* PlanSound depends on the plan and on holding the lock only.              *)
LEMMA PlanSoundFrame ==
    ASSUME NEW r, NEW m, SamePlan(r, m), PlanSound(m), r.pc \in Writing => m.pc \in Writing
    PROVE  PlanSound(r)
  BY DEF SamePlan, PlanSound, KnownKeys

(* The days a plan fetches.                                                *)
LEMMA FetchFacts ==
    ASSUME TypeOK, NEW p \in Procs, NEW seen \in Listings, NEW m, m = Planned(p, seen)
    PROVE  /\ m.fetch \subseteq Scope(m.query)
           /\ m.refresh \subseteq Scope(m.query) \cap m.listed
           /\ ~NoWrite(p) /\ FetchUpstream(p, me[p].query, seen) =>
                 m.mode \in {"CACHE", "REBUILD"} /\ m.fetch = Scope(m.query) \ KnownKeys(m)
<1>1. /\ m.mode = me[p].mode /\ m.query = me[p].query /\ m.listed = seen
      /\ m.refresh = RefreshKeys(p, me[p].query, seen)
      /\ m.fetch = IF FetchUpstream(p, me[p].query, seen)
                   THEN FetchSet(p, me[p].query, seen) ELSE {}
  BY ListingFacts, PlannedFacts
<1>2. me[p].mode \in Modes
  BY DEF TypeOK, Local
<1>3. QED BY <1>1, <1>2 DEF RefreshKeys, FetchSet, KnownKeys, Rebuilding, NoWrite, Modes

(* The batches of a plan are disjoint and cover what is fetched.            *)
LEMMA PlanWriteSound ==
    ASSUME TypeOK, NEW p \in Procs, WriterSound(me[p]), PlanWrite(p)
    PROVE  \E r \in Local : Becomes(p, r) /\ r.pc = "write" /\ WriterSound(r)
<1>1. PICK seen \in Listings, m \in Local, r \in Local :
         /\ m = Planned(p, seen) /\ Becomes(p, r) /\ r.pc = "write"
         /\ SamePlan(r, m) /\ r.completed = m.completed /\ r.wrote = m.wrote
         /\ SameRead(r, m)
         /\ r.batches = SplitWriteBatches(p, m.query, m.fetch)
         /\ (r.batched <=> Len(r.batches) > 1)
         /\ ~NoWrite(p) /\ FetchUpstream(p, me[p].query, seen)
  BY PlanWriteBecomes
<1>2. PlanSound(r)
  BY <1>1, FetchFacts DEF PlanSound, SamePlan, KnownKeys
<1>3. r.completed = {} /\ r.wrote = {}
  <2>1. me[p].completed = {} /\ me[p].wrote = {}
    BY DEF WriterSound, BatchSound, PlanWrite
  <2>2. SameWork(m, me[p])
    BY <1>1, ListingFacts, PlannedFacts
  <2>3. QED BY <1>1, <2>1, <2>2 DEF SameWork
<1>4. PICK B : B = r.batches
  OBVIOUS
<1>5. m.fetch \in SUBSET Days /\ r.fetch = m.fetch /\ r.query = m.query /\ r.mode = me[p].mode
  <2>1. m.mode = me[p].mode
    BY <1>1, ListingFacts, PlannedFacts
  <2>2. QED BY <1>1, <2>1 DEF Local, SamePlan
<1>6. /\ B \in Seq(SUBSET Days) /\ Len(B) >= 1
      /\ \A i \in 1..Len(B) : B[i] \subseteq m.fetch
      /\ \A i, j \in 1..Len(B) : i # j => B[i] \cap B[j] = {}
      /\ \A d \in m.fetch : \E i \in 1..Len(B) : d \in B[i]
      /\ Len(B) = 1 => B[1] = m.fetch
      /\ Len(B) > 1 => me[p].mode = "CACHE" /\ Finite(m.query)
  BY <1>1, <1>4, <1>5, SplitSound
<1>7. B # <<>> /\ Len(B) \in Nat
  BY <1>6
<1>8. BatchSound(r)
  <2>6. r.batched <=> Len(B) > 1
    BY <1>1, <1>4, Zenon
  <2>1. /\ r.pc = "write" /\ r.batches = B /\ r.fetch = m.fetch /\ r.completed = {}
        /\ r.wrote = {} /\ r.mode = me[p].mode /\ r.query = m.query
        /\ r.batched <=> Len(B) > 1
    BY <1>1, <1>3, <1>4, <1>5, <2>6, Zenon
  <2>2. (Len(B) > 1 /\ Len(B) # 1) \/ (Len(B) = 1 /\ ~(Len(B) > 1))
    <3>1. PICK n \in Nat : n = Len(B)
      BY <1>7
    <3>2. n >= 1
      BY <1>6, <3>1
    <3>3. (n > 1 /\ n # 1) \/ (n = 1 /\ ~(n > 1))
      BY <3>2
    <3>4. QED BY <3>1, <3>3, Zenon
  <2> HIDE <1>1, <1>3, <1>4, <1>5
  <2>3. CASE r.batched
    BY <1>6, <1>7, <2>1, <2>2, <2>3 DEF BatchSound
  <2>4. CASE ~r.batched
    BY <1>6, <1>7, <2>1, <2>2, <2>4 DEF BatchSound
  <2>5. QED BY <2>3, <2>4
<1>9. GapSound(r)
  BY <1>1 DEF GapSound, Finishing
<1>10. QED BY <1>1, <1>2, <1>8, <1>9 DEF WriterSound

(* A snapshot is taken with nothing written of it.                          *)
LEMMA SinkReadsSound ==
    ASSUME TypeOK, NEW p \in Procs, WriterSound(me[p]), SinkReads(p)
    PROVE  \E r \in Local : Becomes(p, r) /\ WriterSound(r)
<1>1. PICK r \in Local :
         /\ Becomes(p, r) /\ r.pc = "sink" /\ r.snap = source /\ r.written = {}
         /\ SamePlan(r, me[p]) /\ SameRead(r, me[p]) /\ r.batches = me[p].batches
         /\ (r.batched <=> me[p].batched) /\ r.wrote = me[p].wrote
         /\ r.completed = me[p].completed
  BY SinkReadsBecomes
<1>2. PICK m : m = me[p]
  OBVIOUS
<1>3. m.pc = "write"
  BY <1>2 DEF SinkReads
<1>4. PlanSound(r)
  BY <1>1, <1>2, <1>3, PlanSoundFrame DEF WriterSound, Writing
<1>5. BatchSound(r)
  BY <1>1, <1>2, <1>3 DEF WriterSound, BatchSound, SamePlan
<1>6. GapSound(r)
  BY <1>1 DEF GapSound, Finishing
<1>7. QED BY <1>1, <1>4, <1>5, <1>6 DEF WriterSound

(* A sink writes days of its batch that have rows.                          *)
LEMMA SinkFileSound ==
    ASSUME TypeOK, NEW p \in Procs, WriterSound(me[p]), NEW d \in Days, SinkFile(p, d)
    PROVE  \E r \in Local : Becomes(p, r) /\ WriterSound(r)
<1>1. PICK r \in Local :
         /\ Becomes(p, r) /\ r.pc = "sink" /\ r.written = me[p].written \cup {d}
         /\ SamePlan(r, me[p]) /\ SameRead(r, me[p]) /\ SameBatches(r, me[p])
         /\ r.wrote = me[p].wrote /\ r.completed = me[p].completed
  BY SinkFileBecomes
<1>2. me[p].pc = "sink" /\ d \in me[p].batches[1] /\ ~Rowless(me[p], d)
  BY SinkRowsFacts DEF SinkFile
<1>3. PICK m : m = me[p]
  OBVIOUS
<1>4. PlanSound(r)
  BY <1>1, <1>2, PlanSoundFrame DEF WriterSound, Writing
<1>5. BatchSound(r)
  BY <1>1, <1>2, <1>3 DEF WriterSound, BatchSound, SamePlan, SameBatches
<1>6. GapSound(r)
  BY <1>1, <1>2, <1>3 DEF WriterSound, GapSound, Finishing, Rowless, SameBatches
<1>7. QED BY <1>1, <1>4, <1>5, <1>6 DEF WriterSound

(* What a batch has left to write has no rows.                              *)
LEMMA SinkDoneSound ==
    ASSUME TypeOK, NEW p \in Procs, WriterSound(me[p]), SinkDone(p)
    PROVE  \E r \in Local : Becomes(p, r) /\ WriterSound(r)
<1>1. PICK r \in Local :
         /\ Becomes(p, r) /\ r.pc = IF me[p].batched THEN "empties" ELSE "stale"
         /\ r.written = me[p].written
         /\ SamePlan(r, me[p]) /\ SameRead(r, me[p]) /\ SameBatches(r, me[p])
         /\ r.wrote = me[p].wrote \cup SinkRows(p)
         /\ r.completed = me[p].completed \cup SinkRows(p)
         /\ r.pending = IF me[p].batched
                        THEN ((MissingEmptyKeys(p) \cup me[p].refresh) \cap me[p].batches[1])
                             \ SinkRows(p)
                        ELSE {}
  BY SinkDoneBecomes
<1>2. PICK m : m = me[p]
  OBVIOUS
<1>3. m.pc = "sink" /\ WriterSound(m)
  BY <1>2 DEF SinkDone
<1>4. PICK rows : rows = SinkRows(p)
  OBVIOUS
<1>5. /\ rows = {d \in m.batches[1] : ~Rowless(m, d)} /\ rows \subseteq m.fetch
      /\ 1 \in 1..Len(m.batches)
  BY <1>2, <1>3, <1>4, SinkRowsFacts
<1>6. PICK missing : missing = MissingEmptyKeys(p)
  OBVIOUS
<1>7. /\ missing \subseteq m.fetch \ m.wrote /\ m.refresh \subseteq m.fetch
      /\ Finite(m.query) => missing = m.fetch \ m.wrote
  BY <1>2, <1>3, <1>6, MissingFacts DEF WriterSound, Writing
<1>8. PlanSound(r)
  BY <1>1, <1>2, <1>3, PlanSoundFrame DEF WriterSound, Writing
<1>9. m.wrote \subseteq m.completed /\ m.batches[1] \subseteq m.fetch
      /\ m.batches[1] \cap m.completed = {}
  BY <1>3, <1>5 DEF WriterSound, BatchSound
<1>10. \A i \in 1..Len(m.batches) : i > 1 => m.batches[i] \cap (m.completed \cup rows) = {}
  <2>1. \A i \in 1..Len(m.batches) : i > 1 => m.batches[i] \cap m.completed = {}
                                              /\ m.batches[i] \cap m.batches[1] = {}
    BY <1>3, <1>5 DEF WriterSound, BatchSound
  <2>2. QED BY <1>5, <2>1
<1>11. BatchSound(r)
  <2>1. /\ r.batches = m.batches /\ (r.batched <=> m.batched) /\ r.fetch = m.fetch
        /\ r.mode = m.mode /\ r.query = m.query
        /\ r.wrote = m.wrote \cup rows /\ r.completed = m.completed \cup rows
        /\ r.pc = IF m.batched THEN "empties" ELSE "stale"
    BY <1>1, <1>2, <1>4 DEF SamePlan, SameBatches
  <2>2. /\ m.batches # <<>>
        /\ \A i \in 1..Len(m.batches) : m.batches[i] \subseteq m.fetch
        /\ \A i, j \in 1..Len(m.batches) : i # j => m.batches[i] \cap m.batches[j] = {}
        /\ m.batched =>
              /\ m.mode = "CACHE" /\ Finite(m.query)
              /\ \A d \in m.fetch \ m.completed : \E i \in 1..Len(m.batches) : d \in m.batches[i]
        /\ ~m.batched => Len(m.batches) = 1
    BY <1>3 DEF WriterSound, BatchSound
  <2>3. m.wrote \cup rows \subseteq m.completed \cup rows
    BY <1>9
  <2>5. ~m.batched => m.completed \cup rows \subseteq m.wrote \cup rows
    BY <1>3 DEF WriterSound, BatchSound
  <2>4. QED BY <1>10, <2>1, <2>2, <2>3, <2>5 DEF BatchSound
<1>12. GapSound(r)
  <2>1. /\ r.batches = m.batches /\ (r.batched <=> m.batched) /\ r.fetch = m.fetch
        /\ r.snap = m.snap /\ r.completed = m.completed \cup rows
        /\ r.pc = IF m.batched THEN "empties" ELSE "stale"
        /\ r.pending = IF m.batched THEN ((missing \cup m.refresh) \cap m.batches[1]) \ rows ELSE {}
    BY <1>1, <1>2, <1>4, <1>6 DEF SamePlan, SameBatches
  <2>2. CASE m.batched
    <3>1. Finite(m.query)
      BY <1>3, <2>2 DEF WriterSound, BatchSound
    <3>2. r.pending = m.batches[1] \ rows
      BY <1>7, <1>9, <2>1, <2>2, <3>1
    <3>3. \A d \in r.pending : Rowless(r, d)
      BY <1>5, <2>1, <3>2 DEF Rowless
    <3>4. QED BY <1>5, <1>9, <2>1, <2>2, <3>2, <3>3 DEF GapSound, Finishing
  <2>3. CASE ~m.batched
    <3>1. m.batches[1] = m.fetch
      BY <1>3, <2>3 DEF WriterSound, BatchSound
    <3>2. \A d \in r.fetch \ r.completed : Rowless(r, d)
      BY <1>5, <2>1, <3>1 DEF Rowless
    <3>3. QED BY <2>1, <2>3, <3>2 DEF GapSound, Finishing
  <2>4. QED BY <2>2, <2>3
<1>13. QED BY <1>1, <1>8, <1>11, <1>12 DEF WriterSound

(* What a failed sink opened was not complete.                              *)
LEMMA SinkFailsSound ==
    ASSUME TypeOK, NEW p \in Procs, WriterSound(me[p]), SinkFails(p)
    PROVE  \E r \in Local : Becomes(p, r) /\ WriterSound(r)
<1>1. PICK r \in Local, opened \in SUBSET SinkRows(p) :
         /\ Becomes(p, r) /\ r.pc = "cleanup" /\ r.pending = opened
         /\ SamePlan(r, me[p]) /\ SameRead(r, me[p]) /\ SameWork(r, me[p])
  BY SinkFailsBecomes
<1>2. PICK m : m = me[p]
  OBVIOUS
<1>3. m.pc = "sink" /\ WriterSound(m)
  BY <1>2 DEF SinkFails
<1>4. SinkRows(p) \subseteq m.fetch /\ SinkRows(p) \subseteq m.batches[1] /\ 1 \in 1..Len(m.batches)
  BY <1>2, <1>3, SinkRowsFacts
<1>5. m.batches[1] \cap m.completed = {} /\ m.wrote \subseteq m.completed
  BY <1>3, <1>4 DEF WriterSound, BatchSound
<1>6. PlanSound(r)
  BY <1>1, <1>2, <1>3, PlanSoundFrame DEF WriterSound, Writing
<1>7. BatchSound(r) /\ GapSound(r)
  <2>1. r.fetch = m.fetch /\ r.completed = m.completed /\ r.wrote = m.wrote
    BY <1>1, <1>2 DEF SamePlan, SameWork
  <2>2. QED BY <1>1, <1>4, <1>5, <2>1 DEF BatchSound, GapSound, Finishing
<1>8. QED BY <1>1, <1>6, <1>7 DEF WriterSound

(* A cleanup deletes only what the failed sink wrote.                       *)
LEMMA CleanUpSound ==
    ASSUME TypeOK, NEW p \in Procs, WriterSound(me[p]), CleanUp(p)
    PROVE  \E r \in Local : Becomes(p, r) /\ WriterSound(r)
<1>1. PICK r \in Local, d \in me[p].pending :
         /\ Becomes(p, r) /\ r.pc = "cleanup" /\ r.pending = me[p].pending \ {d}
         /\ SamePlan(r, me[p]) /\ SameRead(r, me[p]) /\ SameWork(r, me[p])
  BY CleanUpBecomes
<1>2. me[p].pc = "cleanup"
  BY DEF CleanUp
<1>3. PlanSound(r)
  BY <1>1, <1>2, PlanSoundFrame DEF WriterSound, Writing
<1>4. BatchSound(r) /\ GapSound(r)
  BY <1>1, <1>2 DEF WriterSound, BatchSound, GapSound, Finishing, SamePlan, SameWork
<1>5. QED BY <1>1, <1>3, <1>4 DEF WriterSound

(* A day emptied is completed and no longer pending.                        *)
LEMMA WriteEmptySound ==
    ASSUME TypeOK, NEW p \in Procs, WriterSound(me[p]), WriteEmpty(p)
    PROVE  \E r \in Local : Becomes(p, r) /\ WriterSound(r)
<1>1. PICK r \in Local, d \in me[p].pending :
         /\ Becomes(p, r) /\ r.pc = "empties" /\ r.pending = me[p].pending \ {d}
         /\ SamePlan(r, me[p]) /\ SameRead(r, me[p]) /\ SameBatches(r, me[p])
         /\ r.wrote = me[p].wrote /\ r.completed = me[p].completed \cup {d}
  BY WriteEmptyBecomes
<1>2. PICK m : m = me[p]
  OBVIOUS
<1>3. m.pc = "empties" /\ WriterSound(m)
  BY <1>2 DEF WriteEmpty
<1>4. PlanSound(r)
  BY <1>1, <1>2, <1>3, PlanSoundFrame DEF WriterSound, Writing
<1>5. /\ r.batches = m.batches /\ (r.batched <=> m.batched) /\ r.fetch = m.fetch
      /\ r.mode = m.mode /\ r.query = m.query /\ r.snap = m.snap
      /\ r.wrote = m.wrote /\ r.completed = m.completed \cup {d} /\ r.pending = m.pending \ {d}
  BY <1>1, <1>2 DEF SamePlan, SameBatches
<1>6. \A i \in 1..Len(m.batches) : i > 1 => m.batches[i] \cap (m.completed \cup {d}) = {}
  <2>1. CASE m.batched
    <3>1. d \in m.batches[1]
      BY <1>1, <1>2, <1>3, <2>1 DEF WriterSound, GapSound
    <3>2. m.batches \in Seq(SUBSET Days) /\ m.batches # <<>>
      BY <1>2, <1>3 DEF TypeOK, Local, WriterSound, BatchSound
    <3>3. 1 \in 1..Len(m.batches)
      BY <3>2, EmptySeq
    <3>4. \A i \in 1..Len(m.batches) : i > 1 => m.batches[i] \cap m.completed = {}
                                                /\ m.batches[i] \cap m.batches[1] = {}
      BY <1>3, <3>3 DEF WriterSound, BatchSound
    <3>5. QED BY <3>1, <3>4
  <2>2. CASE ~m.batched
    <3>1. Len(m.batches) = 1
      BY <1>3, <2>2 DEF WriterSound, BatchSound
    <3>2. QED BY <3>1
  <2>3. QED BY <2>1, <2>2
<1>7. BatchSound(r)
  <2>1. m.wrote \subseteq m.completed
    BY <1>3 DEF WriterSound, BatchSound
  <2>2. QED BY <1>1, <1>3, <1>5, <1>6, <2>1 DEF WriterSound, BatchSound
<1>8. GapSound(r)
  BY <1>1, <1>3, <1>5 DEF WriterSound, GapSound, Finishing, Rowless
<1>9. QED BY <1>1, <1>4, <1>7, <1>8 DEF WriterSound

(* The next batch is disjoint from all that is complete.                    *)
LEMMA EmptiesDoneSound ==
    ASSUME TypeOK, NEW p \in Procs, WriterSound(me[p]), EmptiesDone(p)
    PROVE  \E r \in Local : Becomes(p, r) /\ WriterSound(r)
<1>1. PICK r \in Local, more \in BOOLEAN :
         /\ more <=> Len(me[p].batches) > 1
         /\ Becomes(p, r)
         /\ r.pc = IF more THEN "write" ELSE IF me[p].batched THEN "stale" ELSE "relist"
         /\ r.batches = IF more THEN Tail(me[p].batches) ELSE me[p].batches
         /\ r.batched <=> me[p].batched /\ more
         /\ SamePlan(r, me[p]) /\ SameRead(r, me[p]) /\ r.snap = me[p].snap
         /\ r.wrote = me[p].wrote /\ r.completed = me[p].completed
  BY EmptiesDoneBecomes
<1>2. PICK m \in Local : m = me[p]
  BY DEF TypeOK
<1>3. m.pc = "empties" /\ m.pending = {} /\ WriterSound(m)
  BY <1>2 DEF EmptiesDone
<1>4. PICK B : B = m.batches
  OBVIOUS
<1>5. /\ B \in Seq(SUBSET Days) /\ B # <<>>
      /\ \A i \in 1..Len(B) : B[i] \subseteq m.fetch
      /\ \A i, j \in 1..Len(B) : i # j => B[i] \cap B[j] = {}
      /\ \A i \in 1..Len(B) : i > 1 => B[i] \cap m.completed = {}
      /\ m.batched => /\ m.mode = "CACHE" /\ Finite(m.query)
                      /\ \A d \in m.fetch \ m.completed : \E i \in 1..Len(B) : d \in B[i]
                      /\ B[1] \subseteq m.completed
      /\ ~m.batched => Len(B) = 1
      /\ m.wrote \subseteq m.completed
      /\ ~m.batched => \A d \in m.fetch \ m.completed : Rowless(m, d)
  <2>1. B \in Seq(SUBSET Days)
    BY <1>4 DEF Local
  <2>2. BatchSound(m) /\ GapSound(m)
    BY <1>3 DEF WriterSound
  <2>3. /\ B # <<>>
        /\ \A i \in 1..Len(B) : B[i] \subseteq m.fetch
        /\ \A i, j \in 1..Len(B) : i # j => B[i] \cap B[j] = {}
        /\ \A i \in 1..Len(B) : i > 1 => B[i] \cap m.completed = {}
        /\ m.batched => /\ m.mode = "CACHE" /\ Finite(m.query)
                        /\ \A d \in m.fetch \ m.completed : \E i \in 1..Len(B) : d \in B[i]
        /\ ~m.batched => Len(B) = 1
        /\ m.wrote \subseteq m.completed
    BY <1>3, <1>4, <2>2 DEF BatchSound
  <2>4. /\ m.batched => B[1] \subseteq m.completed
        /\ ~m.batched => \A d \in m.fetch \ m.completed : Rowless(m, d)
    BY <1>3, <1>4, <2>2 DEF GapSound, Finishing
  <2>5. QED BY <2>1, <2>3, <2>4
<1>6. PICK n \in Nat \ {0} : n = Len(B)
  BY <1>5, EmptySeq, LenProperties
<1>7. /\ r.fetch = m.fetch /\ r.mode = m.mode /\ r.query = m.query /\ r.snap = m.snap
      /\ r.wrote = m.wrote /\ r.completed = m.completed
  BY <1>1, <1>2 DEF SamePlan
<1>8. (r.batched <=> m.batched /\ more) /\ (more <=> n > 1)
  BY <1>1, <1>2, <1>4, <1>6
<1>9. r.pc = IF more THEN "write" ELSE IF m.batched THEN "stale" ELSE "relist"
  BY <1>1, <1>2
<1>10. r.batches = IF more THEN Tail(B) ELSE B
  BY <1>1, <1>2, <1>4
<1>11. PlanSound(r)
  BY <1>1, <1>2, <1>3, PlanSoundFrame DEF WriterSound, Writing
<1>12. CASE more
  <2>1. m.batched /\ r.batched /\ r.pc = "write"
    BY <1>5, <1>6, <1>8, <1>9, <1>12
  <2>2. PICK C : C = Tail(B)
    OBVIOUS
  <2>3. /\ C \in Seq(SUBSET Days) /\ Len(C) = n - 1
        /\ \A i \in 1..Len(C) : i + 1 \in 1..n /\ i + 1 > 1 /\ C[i] = B[i + 1]
    <3>1. /\ C \in Seq(SUBSET Days) /\ Len(C) = n - 1
          /\ \A i \in 1..(n - 1) : C[i] = B[i + 1]
      BY <1>5, <1>6, <2>2, HeadTailProperties
    <3>2. QED BY <3>1
  <2>4. C # <<>>
    BY <1>8, <1>12, <2>3
  <2>5. \A i \in 1..Len(C) : C[i] \subseteq m.fetch /\ C[i] \cap m.completed = {}
    BY <1>5, <1>6, <2>3
  <2>6. \A i, j \in 1..Len(C) : i # j => C[i] \cap C[j] = {}
    <3>1. SUFFICES ASSUME NEW i \in 1..Len(C), NEW j \in 1..Len(C), i # j
                   PROVE  C[i] \cap C[j] = {}
      OBVIOUS
    <3>2. i + 1 \in 1..n /\ j + 1 \in 1..n /\ C[i] = B[i + 1] /\ C[j] = B[j + 1]
      BY <2>3
    <3>3. i + 1 # j + 1
      BY <2>3, <3>1
    <3>4. QED BY <1>5, <1>6, <3>2, <3>3
  <2>7. ASSUME NEW d \in m.fetch \ m.completed PROVE \E i \in 1..Len(C) : d \in C[i]
    <3>1. PICK j \in 1..n : d \in B[j]
      BY <1>5, <1>6, <2>1
    <3>2. j # 1
      BY <1>5, <2>1, <3>1
    <3>3. j - 1 \in 1..Len(C) /\ j - 1 + 1 = j
      BY <2>3, <3>2
    <3>4. d \in C[j - 1]
      BY <2>3, <3>1, <3>3
    <3>5. QED BY <3>3, <3>4
  <2>8. r.batches = C
    BY <1>10, <1>12, <2>2
  <2>9. BatchSound(r)
    BY <1>5, <1>7, <2>1, <2>4, <2>5, <2>6, <2>7, <2>8 DEF BatchSound
  <2>10. GapSound(r)
    BY <2>1 DEF GapSound, Finishing
  <2>11. QED BY <1>1, <1>11, <2>9, <2>10 DEF WriterSound
<1>13. CASE ~more
  <2>1. n = 1 /\ r.batches = B /\ ~r.batched /\ Len(B) = 1
    BY <1>6, <1>8, <1>10, <1>13
  <2>2. \A d \in m.fetch \ m.completed : Rowless(m, d)
    <3>1. CASE m.batched
      <4>1. ASSUME NEW d \in m.fetch \ m.completed PROVE FALSE
        <5>1. PICK j \in 1..n : d \in B[j]
          BY <1>5, <1>6, <3>1
        <5>2. j = 1
          BY <2>1
        <5>3. QED BY <1>5, <3>1, <5>1, <5>2
      <4>2. QED BY <4>1
    <3>2. CASE ~m.batched
      BY <1>5, <3>2
    <3>3. QED BY <3>1, <3>2
  <2>3. r.pc \in {"stale", "relist"}
    BY <1>9, <1>13
  <2>4. \A i \in 1..Len(B) : ~(i > 1)
    BY <2>1
  <2>9. r.pc = "stale" => m.mode # "REBUILD"
    BY <1>5, <1>9, <1>13
  <2>5. BatchSound(r)
    BY <1>5, <1>7, <2>1, <2>3, <2>4, <2>9 DEF BatchSound
  <2>6. \A d \in r.fetch \ r.completed : Rowless(r, d)
    BY <1>7, <2>2 DEF Rowless
  <2>7. GapSound(r)
    BY <2>1, <2>3, <2>6 DEF GapSound, Finishing
  <2>8. QED BY <1>1, <1>11, <2>5, <2>7 DEF WriterSound
<1>14. QED BY <1>12, <1>13

(* Deleting stale files completes nothing.                                  *)
LEMMA DeleteStaleSound ==
    ASSUME TypeOK, NEW p \in Procs, WriterSound(me[p]), DeleteStale(p)
    PROVE  \E r \in Local : Becomes(p, r) /\ WriterSound(r)
<1>1. PICK r \in Local :
         /\ Becomes(p, r) /\ r.pc = "stale"
         /\ SamePlan(r, me[p]) /\ SameRead(r, me[p]) /\ SameWork(r, me[p])
  BY DeleteStaleBecomes
<1>2. me[p].pc = "stale"
  BY DEF DeleteStale
<1>3. PICK m : m = me[p]
  OBVIOUS
<1>4. PlanSound(r)
  BY <1>1, <1>2, PlanSoundFrame DEF WriterSound, Writing
<1>5. BatchSound(r)
  BY <1>1, <1>2, <1>3 DEF WriterSound, BatchSound, SamePlan, SameWork, SameBatches
<1>6. GapSound(r)
  BY <1>1, <1>2, <1>3 DEF WriterSound, GapSound, Finishing, Rowless, SamePlan, SameWork, SameBatches
<1>7. QED BY <1>1, <1>4, <1>5, <1>6 DEF WriterSound

(* Gaps are filled with days that have no rows.                             *)
LEMMA StaleDoneSound ==
    ASSUME TypeOK, NEW p \in Procs, WriterSound(me[p]), StaleDone(p)
    PROVE  \E r \in Local : Becomes(p, r) /\ WriterSound(r)
<1>1. PICK r \in Local :
         /\ Becomes(p, r) /\ r.pc = "empties"
         /\ r.pending = ((MissingEmptyKeys(p) \cup me[p].refresh) \ me[p].wrote)
                        \ me[p].completed
         /\ SamePlan(r, me[p]) /\ SameRead(r, me[p]) /\ SameWork(r, me[p])
  BY StaleDoneBecomes
<1>2. PICK m : m = me[p]
  OBVIOUS
<1>3. m.pc = "stale" /\ WriterSound(m)
  BY <1>2 DEF StaleDone
<1>4. MissingEmptyKeys(p) \subseteq m.fetch /\ m.refresh \subseteq m.fetch
  BY <1>2, <1>3, MissingFacts DEF WriterSound, Writing
<1>5. PlanSound(r)
  BY <1>1, <1>2, <1>3, PlanSoundFrame DEF WriterSound, Writing
<1>6. /\ r.fetch = m.fetch /\ r.completed = m.completed /\ r.wrote = m.wrote
      /\ r.batches = m.batches /\ (r.batched <=> m.batched) /\ r.snap = m.snap
      /\ r.mode = m.mode /\ r.query = m.query
  BY <1>1, <1>2 DEF SamePlan, SameWork, SameBatches
<1>7. ~m.batched /\ \A d \in m.fetch \ m.completed : Rowless(m, d)
  BY <1>3 DEF WriterSound, GapSound, Finishing
<1>8. r.pending \subseteq m.fetch \ m.completed
  BY <1>1, <1>2, <1>4
<1>9. BatchSound(r)
  BY <1>1, <1>3, <1>6 DEF WriterSound, BatchSound
<1>10. GapSound(r)
  BY <1>1, <1>6, <1>7, <1>8 DEF GapSound, Finishing, Rowless
<1>11. QED BY <1>1, <1>5, <1>9, <1>10 DEF WriterSound

(* Planning, reading and failing leave nothing being written.              *)
LEMMA PlanningSound ==
    ASSUME TypeOK, NEW p \in Procs, WriterSound(me[p]),
           PlanRead(p) \/ PlanLock(p) \/ AcquireLock(p)
    PROVE  \E r \in Local : Becomes(p, r) /\ WriterSound(r)
<1>1. me[p].wrote \subseteq me[p].completed /\ me[p].fetch \subseteq Scope(me[p].query)
  BY DEF WriterSound, BatchSound, PlanSound
<1>2. CASE PlanRead(p)
  <2>1. PICK seen \in Listings, m \in Local, r \in Local :
           /\ m = Planned(p, seen) /\ Becomes(p, r) /\ r.pc = "scan"
           /\ SamePlan(r, m) /\ SameWork(r, m)
    BY <1>2, PlanReadBecomes
  <2>2. SameWork(m, me[p]) /\ m.fetch \subseteq Scope(m.query)
    BY <2>1, ListingFacts, PlannedFacts, FetchFacts
  <2>3. QED BY <1>1, <2>1, <2>2, NotWriting DEF Writing, SamePlan, SameWork
<1>3. CASE PlanLock(p)
  <2>1. PICK seen \in Listings, m \in Local, r \in Local :
           /\ m = Planned(p, seen) /\ Becomes(p, r) /\ r.pc = "lock"
           /\ SamePlan(r, m) /\ SameWork(r, m)
    BY <1>3, PlanLockBecomes
  <2>2. SameWork(m, me[p]) /\ m.fetch \subseteq Scope(m.query)
    BY <2>1, ListingFacts, PlannedFacts, FetchFacts
  <2>3. me[p].completed = {}
    BY <1>3 DEF PlanLock, WriterSound, BatchSound
  <2>4. QED BY <1>1, <2>1, <2>2, <2>3, NotWriting DEF Writing, SamePlan, SameWork
<1>4. CASE AcquireLock(p)
  <2>1. PICK r \in Local :
           /\ Becomes(p, r) /\ r.pc = "plan"
           /\ SamePlan(r, me[p]) /\ SameWork(r, me[p]) /\ SameRead(r, me[p])
    BY <1>4, AcquireBecomes
  <2>2. me[p].completed = {}
    BY <1>4 DEF AcquireLock, WriterSound, BatchSound
  <2>3. QED BY <1>1, <2>1, <2>2, NotWriting DEF Writing, SamePlan, SameWork
<1>5. QED BY <1>2, <1>3, <1>4

(* The steps of a read leave the writing as it is.                          *)
LEMMA ReadingSound ==
    ASSUME TypeOK, NEW p \in Procs, WriterSound(me[p]),
           Relist(p) \/ OpenScan(p) \/ ReadDone(p) \/ ReadRetry(p)
    PROVE  \E r \in Local : Becomes(p, r) /\ WriterSound(r)
<1>1. me[p].wrote \subseteq me[p].completed /\ me[p].fetch \subseteq Scope(me[p].query)
  BY DEF WriterSound, BatchSound, PlanSound
<1>2. CASE Relist(p)
  <2>1. PICK r \in Local :
           /\ Becomes(p, r) /\ r.pc = "scan" /\ r.query = me[p].query /\ r.fetch = me[p].fetch
           /\ SameWork(r, me[p])
    BY <1>2, RelistBecomes
  <2>2. QED BY <1>1, <2>1, NotWriting DEF Writing, SameWork
<1>3. CASE OpenScan(p)
  <2>1. PICK r \in Local :
           Becomes(p, r) /\ r.pc = "read" /\ SamePlan(r, me[p]) /\ SameWork(r, me[p])
    BY <1>3, OpenScanBecomes
  <2>2. QED BY <1>1, <2>1, NotWriting DEF Writing, SamePlan, SameWork
<1>4. CASE ReadDone(p)
  <2>1. PICK r \in Local :
           /\ Becomes(p, r) /\ r.pc = "done" /\ r.query = me[p].query /\ r.fetch = me[p].fetch
           /\ r.completed = {} /\ r.wrote = {}
    BY <1>4, ReadDoneBecomes
  <2>2. QED BY <1>1, <2>1, NotWriting DEF Writing
<1>5. CASE ReadRetry(p)
  <2>1. PICK r \in Local :
           Becomes(p, r) /\ r.pc = "scan" /\ SamePlan(r, me[p]) /\ SameWork(r, me[p])
    BY <1>5, ReadRetryBecomes
  <2>2. QED BY <1>1, <2>1, NotWriting DEF Writing, SamePlan, SameWork
<1>6. QED BY <1>2, <1>3, <1>4, <1>5

(* Starting, raising and being killed reset the query.                      *)
LEMMA RaisingSound ==
    ASSUME TypeOK, NEW p \in Procs, Raise(p) \/ Kill(p) \/ \E a \in Asks : Start(p, a)
    PROVE  \E r \in Local : Becomes(p, r) /\ Reset(r) /\ WriterSound(r)
                            /\ r.pc \in {"error", "idle", "plan"}
<1>1. CASE Raise(p)
  <2>1. PICK r \in Local : Becomes(p, r) /\ Reset(r) /\ r.pc = "error"
    BY <1>1, RaiseBecomes
  <2>2. QED BY <2>1, ResetSound DEF Writing
<1>2. CASE Kill(p)
  <2>1. PICK r \in Local : Becomes(p, r) /\ Reset(r) /\ r.pc = "idle"
    BY <1>2, KillBecomes
  <2>2. QED BY <2>1, ResetSound DEF Writing
<1>3. CASE \E a \in Asks : Start(p, a)
  <2>1. PICK r \in Local : Becomes(p, r) /\ Reset(r) /\ r.pc = "plan"
    BY <1>3, StartBecomes
  <2>2. QED BY <2>1, ResetSound DEF Writing
<1>4. QED BY <1>1, <1>2, <1>3

(* A step of a query leaves its process sound.                             *)
LEMMA StepSound ==
    ASSUME TypeOK, NEW p \in Procs, WriterSound(me[p]), Step(p)
    PROVE  \E r \in Local : Becomes(p, r) /\ WriterSound(r)
<1>1. CASE PlanRead(p) \/ PlanLock(p) \/ AcquireLock(p)
  BY <1>1, PlanningSound
<1>2. CASE PlanWrite(p)
  BY <1>2, PlanWriteSound
<1>3. CASE SinkReads(p)
  BY <1>3, SinkReadsSound
<1>4. CASE \E d \in Days : SinkFile(p, d)
  BY <1>4, SinkFileSound
<1>5. CASE SinkDone(p)
  BY <1>5, SinkDoneSound
<1>6. CASE SinkFails(p)
  BY <1>6, SinkFailsSound
<1>7. CASE CleanUp(p)
  BY <1>7, CleanUpSound
<1>8. CASE WriteEmpty(p)
  BY <1>8, WriteEmptySound
<1>9. CASE EmptiesDone(p)
  BY <1>9, EmptiesDoneSound
<1>10. CASE DeleteStale(p)
  BY <1>10, DeleteStaleSound
<1>11. CASE StaleDone(p)
  BY <1>11, StaleDoneSound
<1>12. CASE RefuseBatch(p) \/ CleanedUp(p) \/ VisitorRaises(p) \/ ReadFails(p)
  <2>1. Raise(p)
    BY <1>12 DEF RefuseBatch, CleanedUp, VisitorRaises, ReadFails
  <2>2. QED BY <2>1, RaisingSound
<1>13. CASE Relist(p) \/ OpenScan(p) \/ ReadDone(p) \/ ReadRetry(p)
  BY <1>13, ReadingSound
<1>14. QED
  BY <1>1, <1>2, <1>3, <1>4, <1>5, <1>6, <1>7, <1>8, <1>9, <1>10, <1>11, <1>12, <1>13
  DEF Step

-----------------------------------------------------------------------------
(* What a step of a query does to the files, to the lock and to what it     *)
(* knows of the source.                                                    *)
Writes(p, d) ==
    /\ me[p].pc \in {"sink", "empties"} /\ d \in me[p].fetch \ me[p].completed
    /\ me[p].pc = "sink" => d \in SinkRows(p) \ me[p].written
    /\ me[p].pc = "empties" => d \in me[p].pending
    /\ \/ me'[p].pc \notin Writing \/ d \in me'[p].completed
       \/ me'[p].pc = "sink" /\ d \in me'[p].written
    /\ Write(d, Shown(me[p].snap[d]), me[p].snap[d])
Deletes(p, d) ==
    /\ \/ me[p].pc = "cleanup" /\ d \in me[p].pending
       \/ me[p].pc = "stale" /\ d \in StaleKeys(p) \ me[p].pending
    /\ files' = [files EXCEPT ![d] = NoFile] /\ expired' = expired \ {d} /\ asof' = asof
Tears(p, torn) ==
    /\ me[p].pc = "sink" /\ torn \subseteq SinkRows(p) \ me[p].written
    /\ me'[p].pc = "cleanup" /\ torn \subseteq me'[p].pending
    /\ files' = [d \in Days |-> IF d \in torn THEN Torn ELSE files[d]]
    /\ UNCHANGED <<expired, asof>>
SameFiles == UNCHANGED <<files, expired, asof>>

FileEffect(p) ==
    \/ SameFiles
    \/ /\ (\E d \in Days : Writes(p, d) \/ Deletes(p, d)) \/ (\E torn \in SUBSET Days : Tears(p, torn))
       /\ me'[p] # me[p]
LockEffect(p) ==
    /\ me'[p].pc \in Writing => lock' = lock /\ (me[p].pc \in Writing \/ (UseLock => lock = p))
    /\ lock' = lock \/ (lock \in {p, Nobody} /\ lock' \in {p, Nobody})
SnapEffect(p) ==
    me'[p].pc \in Snapped =>
        me'[p].snap = source \/ (me[p].pc \in Snapped /\ me'[p].snap = me[p].snap)

(* Raising frees the lock.                                                 *)
LEMMA RaiseEffects ==
    ASSUME TypeOK, NEW p \in Procs, Raise(p) \/ Kill(p) \/ \E a \in Asks : Start(p, a)
    PROVE  LockEffect(p) /\ SnapEffect(p) /\ me'[p].pc \in {"error", "idle", "plan"}
<1>1. PICK r \in Local : Becomes(p, r) /\ r.pc \in {"error", "idle", "plan"}
  BY RaisingSound
<1>2. me'[p].pc \in {"error", "idle", "plan"}
  BY <1>1, Others DEF TypeOK
<1>3. lock' = lock \/ (lock = p /\ lock' = Nobody)
  BY DEF Raise, Kill, Start
<1>4. QED BY <1>2, <1>3 DEF LockEffect, SnapEffect, Writing, Snapped

(* The steps of a process that write no file.                               *)
LEMMA QuietEffects ==
    ASSUME TypeOK, NEW p \in Procs, WriterSound(me[p]),
           \/ PlanRead(p) \/ PlanLock(p) \/ AcquireLock(p) \/ PlanWrite(p)
           \/ SinkReads(p) \/ SinkDone(p) \/ EmptiesDone(p) \/ StaleDone(p)
           \/ Relist(p) \/ OpenScan(p) \/ ReadDone(p) \/ ReadRetry(p)
    PROVE  LockEffect(p) /\ SnapEffect(p) /\ SameFiles /\ UNCHANGED <<source, frontier>>
<1>1. SameFiles /\ UNCHANGED <<source, frontier>>
  BY DEF SameFiles, PlanRead, PlanLock, AcquireLock, PlanWrite, SinkReads, SinkDone,
         EmptiesDone, StaleDone, Relist, OpenScan, ReadDone, ReadRetry
<1>2. CASE \/ PlanRead(p) \/ PlanLock(p) \/ AcquireLock(p)
           \/ Relist(p) \/ OpenScan(p) \/ ReadDone(p) \/ ReadRetry(p)
  <2>1. \E r \in Local : Becomes(p, r) /\ r.pc \in {"scan", "lock", "plan", "read", "done"}
    BY <1>2, PlanReadBecomes, PlanLockBecomes, AcquireBecomes, RelistBecomes, OpenScanBecomes,
       ReadDoneBecomes, ReadRetryBecomes
  <2>2. me'[p].pc \in {"scan", "lock", "plan", "read", "done"}
    BY <2>1, Others DEF TypeOK
  <2>3. lock' = lock \/ (lock = p /\ lock' = Nobody) \/ (lock = Nobody /\ lock' = p)
    BY <1>2 DEF PlanRead, PlanLock, AcquireLock, Relist, OpenScan, ReadDone, ReadRetry
  <2>4. QED BY <1>1, <2>2, <2>3 DEF LockEffect, SnapEffect, Writing, Snapped
<1>3. CASE PlanWrite(p)
  <2>1. PICK r \in Local : Becomes(p, r) /\ r.pc = "write"
    BY <1>3, PlanWriteSound
  <2>2. me'[p].pc = "write"
    BY <2>1, Others DEF TypeOK
  <2>3. lock' = lock /\ (UseLock => lock = p)
    BY <1>3 DEF PlanWrite
  <2>4. QED BY <1>1, <2>2, <2>3 DEF LockEffect, SnapEffect, Snapped
<1>4. CASE SinkReads(p)
  <2>1. PICK r \in Local : Becomes(p, r) /\ r.pc = "sink" /\ r.snap = source
    BY <1>4, SinkReadsBecomes
  <2>2. me'[p].pc = "sink" /\ me'[p].snap = source
    BY <2>1, Others DEF TypeOK
  <2>3. lock' = lock /\ me[p].pc = "write"
    BY <1>4 DEF SinkReads
  <2>4. QED BY <1>1, <2>2, <2>3 DEF LockEffect, SnapEffect, Writing
<1>5. CASE SinkDone(p) \/ EmptiesDone(p) \/ StaleDone(p)
  <2>1. \E r \in Local : Becomes(p, r) /\ r.snap = me[p].snap
    <3>1. CASE SinkDone(p)
      BY <3>1, SinkDoneBecomes DEF SameBatches
    <3>2. CASE EmptiesDone(p)
      BY <3>2, EmptiesDoneBecomes
    <3>3. CASE StaleDone(p)
      BY <3>3, StaleDoneBecomes DEF SameWork, SameBatches
    <3>4. QED BY <1>5, <3>1, <3>2, <3>3
  <2>2. me'[p].snap = me[p].snap
    BY <2>1, Others DEF TypeOK
  <2>3. lock' = lock /\ me[p].pc \in Snapped
    BY <1>5 DEF SinkDone, EmptiesDone, StaleDone, Snapped
  <2>4. QED BY <1>1, <2>2, <2>3 DEF LockEffect, SnapEffect, Writing, Snapped
<1>6. QED BY <1>2, <1>3, <1>4, <1>5

(* The steps of a process that write or delete a file.                      *)
LEMMA BusyEffects ==
    ASSUME TypeOK, NEW p \in Procs, WriterSound(me[p]),
           \/ (\E d \in Days : SinkFile(p, d)) \/ SinkFails(p) \/ CleanUp(p)
           \/ WriteEmpty(p) \/ DeleteStale(p)
    PROVE  LockEffect(p) /\ SnapEffect(p) /\ FileEffect(p) /\ UNCHANGED <<source, frontier>>
<1>1. UNCHANGED <<source, frontier, lock>> /\ me[p].pc \in Writing
  BY DEF SinkFile, SinkFails, CleanUp, WriteEmpty, DeleteStale, Writing
<1>2. LockEffect(p)
  BY <1>1 DEF LockEffect
<1>3. \A r \in Local : Becomes(p, r) => me'[p] = r
  BY Others DEF TypeOK
<1>4. CASE \E d \in Days : SinkFile(p, d)
  <2>1. PICK d \in Days : SinkFile(p, d)
    BY <1>4
  <2>2. PICK r \in Local :
           /\ Becomes(p, r) /\ r.pc = "sink" /\ r.written = me[p].written \cup {d}
           /\ SameBatches(r, me[p])
    BY <2>1, SinkFileBecomes
  <2>3. me'[p] = r /\ me[p].pc = "sink"
    BY <1>3, <2>1, <2>2 DEF SinkFile
  <2>4. d \in SinkRows(p) /\ d \notin me[p].written
    BY <2>1 DEF SinkFile
  <2>5. d \in me[p].fetch \ me[p].completed
    <3>1. SinkRows(p) \cap me[p].completed = {}
      BY <2>3, SinkRowsFacts DEF WriterSound, BatchSound
    <3>2. QED BY <2>3, <2>4, <3>1, SinkRowsFacts
  <2>6. Writes(p, d)
    BY <2>1, <2>2, <2>3, <2>4, <2>5 DEF Writes, SinkFile
  <2>7. me'[p] # me[p]
    BY <2>2, <2>3, <2>4
  <2>8. QED BY <1>1, <1>2, <2>2, <2>3, <2>6, <2>7 DEF FileEffect, SnapEffect, SameBatches, Snapped
<1>5. CASE SinkFails(p)
  <2>1. PICK r \in Local, opened \in SUBSET SinkRows(p), torn \in SUBSET Days :
           /\ Becomes(p, r) /\ r.pc = "cleanup" /\ r.pending = opened
           /\ SamePlan(r, me[p]) /\ SameRead(r, me[p]) /\ SameWork(r, me[p])
           /\ me[p].written \subseteq opened /\ torn \subseteq opened \ me[p].written
           /\ files' = [d \in Days |-> IF d \in torn THEN Torn ELSE files[d]]
    BY <1>5, SinkFailsBecomes
  <2>2. me'[p] = r /\ me[p].pc = "sink" /\ UNCHANGED <<expired, asof>>
    BY <1>3, <1>5, <2>1 DEF SinkFails
  <2>3. Tears(p, torn)
    BY <2>1, <2>2 DEF Tears
  <2>4. QED BY <1>1, <1>2, <2>1, <2>2, <2>3 DEF FileEffect, SnapEffect, Snapped
<1>6. CASE CleanUp(p)
  <2>1. PICK r \in Local, d \in me[p].pending :
           /\ Becomes(p, r) /\ r.pc = "cleanup" /\ r.pending = me[p].pending \ {d}
           /\ d \in Days /\ Delete(d)
    BY <1>6, CleanUpBecomes
  <2>2. me'[p] = r /\ me[p].pc = "cleanup" /\ asof' = asof
    BY <1>3, <1>6, <2>1 DEF CleanUp
  <2>3. Deletes(p, d) \/ SameFiles
    BY <2>1, <2>2 DEF Deletes, SameFiles, Delete
  <2>4. me'[p] # me[p]
    BY <2>1, <2>2
  <2>5. QED BY <1>1, <1>2, <2>1, <2>2, <2>3, <2>4 DEF FileEffect, SnapEffect, Snapped
<1>7. CASE WriteEmpty(p)
  <2>1. PICK r \in Local, d \in me[p].pending :
           /\ Becomes(p, r) /\ r.pc = "empties" /\ r.pending = me[p].pending \ {d}
           /\ SameBatches(r, me[p]) /\ r.completed = me[p].completed \cup {d}
           /\ d \in Days /\ Write(d, 0, me[p].snap[d])
    BY <1>7, WriteEmptyBecomes
  <2>2. me'[p] = r /\ me[p].pc = "empties"
    BY <1>3, <1>7, <2>1 DEF WriteEmpty
  <2>3. d \in me[p].fetch \ me[p].completed /\ Shown(me[p].snap[d]) = 0
    BY <2>1, <2>2 DEF WriterSound, GapSound, Rowless
  <2>4. Writes(p, d)
    BY <2>1, <2>2, <2>3 DEF Writes
  <2>5. me'[p] # me[p]
    BY <2>1, <2>2
  <2>6. QED BY <1>1, <1>2, <2>1, <2>2, <2>4, <2>5 DEF FileEffect, SnapEffect, SameBatches, Snapped
<1>8. CASE DeleteStale(p)
  <2>1. PICK r \in Local, d \in StaleKeys(p) \ me[p].pending :
           /\ Becomes(p, r) /\ r.pc = "stale" /\ r.pending = me[p].pending \cup {d}
           /\ SameWork(r, me[p])
           /\ d \in Days /\ Delete(d)
    BY <1>8, DeleteStaleBecomes
  <2>2. me'[p] = r /\ me[p].pc = "stale" /\ asof' = asof
    BY <1>3, <1>8, <2>1 DEF DeleteStale
  <2>3. Deletes(p, d) \/ SameFiles
    BY <2>1, <2>2 DEF Deletes, SameFiles, Delete
  <2>4. me'[p] # me[p]
    BY <2>1, <2>2
  <2>5. QED BY <1>1, <1>2, <2>1, <2>2, <2>3, <2>4
        DEF FileEffect, SnapEffect, SameWork, SameBatches, Snapped
<1>9. QED BY <1>4, <1>5, <1>6, <1>7, <1>8

(* What a step of a query does to the lock, the snapshots and the files.    *)
LEMMA StepEffects ==
    ASSUME TypeOK, NEW p \in Procs, WriterSound(me[p]), Step(p)
    PROVE  LockEffect(p) /\ SnapEffect(p) /\ FileEffect(p) /\ UNCHANGED <<source, frontier>>
<1>1. CASE RefuseBatch(p) \/ CleanedUp(p) \/ VisitorRaises(p) \/ ReadFails(p)
  <2>1. Raise(p) /\ UNCHANGED <<source, frontier>>
    BY <1>1 DEF RefuseBatch, CleanedUp, VisitorRaises, ReadFails
  <2>2. LockEffect(p) /\ SnapEffect(p) /\ me'[p].pc \in {"error", "idle", "plan"}
    BY <2>1, RaiseEffects
  <2>3. CASE SameFiles
    BY <2>1, <2>2, <2>3 DEF FileEffect
  <2>4. CASE ~SameFiles
    <3>1. VisitorRaises(p)
      BY <1>1, <2>4 DEF RefuseBatch, CleanedUp, ReadFails, SameFiles
    <3>2. me[p].pc = "empties" /\ me[p].pending # {} /\ Write(Min(me[p].pending), 0, me[p].snap[Min(me[p].pending)])
      BY <2>4, <3>1 DEF VisitorRaises, SameFiles
    <3>3. PICK d \in Days : d = Min(me[p].pending) /\ d \in me[p].pending
      BY <3>2, Extrema DEF TypeOK, Local
    <3>4. d \in me[p].fetch \ me[p].completed /\ Shown(me[p].snap[d]) = 0
      BY <3>2, <3>3 DEF WriterSound, GapSound, Rowless
    <3>5. Writes(p, d)
      BY <2>2, <3>2, <3>3, <3>4 DEF Writes, Writing
    <3>6. me'[p] # me[p]
      BY <2>2, <3>2
    <3>7. QED BY <2>1, <2>2, <3>5, <3>6 DEF FileEffect
  <2>5. QED BY <2>3, <2>4
<1>2. CASE \/ PlanRead(p) \/ PlanLock(p) \/ AcquireLock(p) \/ PlanWrite(p)
           \/ SinkReads(p) \/ SinkDone(p) \/ EmptiesDone(p) \/ StaleDone(p)
           \/ Relist(p) \/ OpenScan(p) \/ ReadDone(p) \/ ReadRetry(p)
  BY <1>2, QuietEffects DEF FileEffect
<1>3. CASE \/ (\E d \in Days : SinkFile(p, d)) \/ SinkFails(p) \/ CleanUp(p)
           \/ WriteEmpty(p) \/ DeleteStale(p)
  BY <1>3, BusyEffects
<1>4. QED BY <1>1, <1>2, <1>3 DEF Step

-----------------------------------------------------------------------------
(* Types, and the writing of every process.                                *)

(* A step of process p, or of a user of it.                                *)
Moves(p) == Step(p) \/ Kill(p) \/ \E a \in Asks : Start(p, a)

(* The same for starts and kills, with the locals of every process.         *)
LEMMA MoveEffects ==
    ASSUME TypeOK, NEW p \in Procs, WriterSound(me[p]), Moves(p)
    PROVE  /\ me' \in [Procs -> Local] /\ WriterSound(me'[p])
           /\ \A q \in Procs : q # p => me'[q] = me[q]
           /\ LockEffect(p) /\ SnapEffect(p) /\ FileEffect(p)
           /\ UNCHANGED <<source, frontier>>
<1>1. CASE Step(p)
  <2>1. PICK r \in Local : Becomes(p, r) /\ WriterSound(r)
    BY <1>1, StepSound
  <2>2. QED BY <1>1, <2>1, Others, StepEffects DEF TypeOK
<1>2. CASE Kill(p) \/ \E a \in Asks : Start(p, a)
  <2>1. PICK r \in Local : Becomes(p, r) /\ WriterSound(r)
    BY <1>2, RaisingSound
  <2>2. SameFiles /\ UNCHANGED <<source, frontier>>
    BY <1>2 DEF Kill, Start, SameFiles
  <2>3. QED BY <1>2, <2>1, <2>2, Others, RaiseEffects DEF TypeOK, FileEffect
<1>3. QED BY <1>1, <1>2 DEF Moves

(* The steps of the world around the processes.                            *)
World == (\E r \in {0, 1} \cap Rev : Arrive(r)) \/ (\E d \in Days : Correct(d) \/ Expire(d))

(* A step is one of the world, one of a process, or none.                   *)
LEMMA NextCases ==
    ASSUME [Next]_vars
    PROVE  World \/ (\E p \in Procs : Moves(p)) \/ UNCHANGED vars
  BY DEF Next, World, Moves

(* The world moves the source forward, and no file.                         *)
LEMMA WorldEffects ==
    ASSUME TypeOK, World
    PROVE  /\ UNCHANGED <<files, lock, me, asof>>
           /\ source' \in [Days -> Rev] /\ frontier' \in 0..MaxDay /\ frontier <= frontier'
           /\ expired' \in SUBSET Days /\ expired \subseteq expired'
           /\ (\A d \in Days : d > frontier => source[d] = 0) =>
                 \A d \in Days : (d > frontier' => source'[d] = 0) /\ source[d] <= source'[d]
<1>1. CASE \E r \in {0, 1} \cap Rev : Arrive(r)
  <2>1. PICK r \in {0, 1} \cap Rev : Arrive(r)
    BY <1>1
  <2>2. frontier \in Nat /\ MaxDay \in Nat /\ frontier < MaxDay /\ frontier' = frontier + 1
        /\ frontier + 1 \in Days /\ frontier' \in 0..MaxDay /\ frontier <= frontier'
    BY <2>1, ConstantFacts DEF Arrive, TypeOK, Days
  <2>3. /\ source' = [source EXCEPT ![frontier + 1] = r]
        /\ UNCHANGED <<files, expired, lock, me, asof>>
    BY <2>1 DEF Arrive
  <2>4. source' \in [Days -> Rev]
    BY <2>3 DEF TypeOK
  <2>5. \A d \in Days : source[d] \in Nat /\ d \in Nat
    BY ConstantFacts DEF TypeOK
  <2>6. ASSUME \A d \in Days : d > frontier => source[d] = 0, NEW d \in Days
        PROVE  (d > frontier' => source'[d] = 0) /\ source[d] <= source'[d]
    <3>1. CASE d = frontier + 1
      <4>1. source'[d] = r /\ source[d] = 0 /\ r \in {0, 1}
        BY <2>2, <2>3, <2>6, <3>1 DEF TypeOK
      <4>2. QED BY <2>2, <3>1, <4>1
    <3>2. CASE d # frontier + 1
      <4>1. source'[d] = source[d]
        BY <2>3, <3>2 DEF TypeOK
      <4>2. d > frontier' => d > frontier
        BY <2>2, <2>5
      <4>3. QED BY <2>5, <2>6, <4>1, <4>2
    <3>3. QED BY <3>1, <3>2
  <2>7. QED BY <2>2, <2>3, <2>4, <2>6 DEF TypeOK
<1>2. CASE \E d \in Days : Correct(d)
  <2>1. PICK e \in Days : Correct(e)
    BY <1>2
  <2>2. /\ source' = [source EXCEPT ![e] = source[e] + 1] /\ source[e] \in 1..(MaxRev - 1)
        /\ UNCHANGED <<frontier, files, expired, lock, me, asof>>
    BY <2>1 DEF Correct
  <2>3. source[e] + 1 \in Rev /\ source[e] # 0 /\ source[e] <= source[e] + 1
    <3>1. PICK s : s = source[e]
      OBVIOUS
    <3>2. s \in 1..(MaxRev - 1) /\ MaxRev \in Nat /\ Rev = 0..MaxRev
      BY <2>2, <3>1, ConstantFacts
    <3>3. s + 1 \in Rev /\ s # 0 /\ s <= s + 1
      BY <3>2
    <3>4. QED BY <3>1, <3>3
  <2>4. source' \in [Days -> Rev]
    BY <2>2, <2>3 DEF TypeOK
  <2>5. \A d \in Days : source[d] <= source'[d] /\ (source[d] = 0 => source'[d] = 0)
    <3>1. SUFFICES ASSUME NEW d \in Days
                   PROVE  source[d] <= source'[d] /\ (source[d] = 0 => source'[d] = 0)
      OBVIOUS
    <3>2. CASE d = e
      BY <2>2, <2>3, <3>2 DEF TypeOK
    <3>3. CASE d # e
      <4>1. source'[d] = source[d] /\ source[d] \in Rev
        BY <2>2, <3>3 DEF TypeOK
      <4>2. QED BY SMTT(30), <4>1, ConstantFacts
    <3>4. QED BY <3>2, <3>3
  <2>6. frontier' \in 0..MaxDay /\ frontier <= frontier'
    BY <2>2, ConstantFacts DEF TypeOK
  <2>7. QED BY <2>2, <2>4, <2>5, <2>6 DEF TypeOK
<1>3. CASE \E d \in Days : Expire(d)
  <2>1. PICK e \in Days : Expire(e)
    BY <1>3
  <2>2. expired' = expired \cup {e} /\ UNCHANGED <<source, frontier, files, lock, me, asof>>
    BY <2>1 DEF Expire
  <2>3. \A d \in Days : source[d] <= source[d]
    BY ConstantFacts DEF TypeOK
  <2>4. frontier' \in 0..MaxDay /\ frontier <= frontier'
    BY <2>2, ConstantFacts DEF TypeOK
  <2>5. QED BY <2>2, <2>3, <2>4 DEF TypeOK
<1>4. QED BY <1>1, <1>2, <1>3 DEF World

(* What the files become is complete, empty or torn.                       *)
LEMMA FilesTyped ==
    ASSUME TypeOK, NEW p \in Procs, FileEffect(p)
    PROVE  files' \in [Days -> Content] /\ asof' \in [Days -> Rev] /\ expired' \in SUBSET Days
<1>1. CASE SameFiles
  BY <1>1 DEF SameFiles, TypeOK
<1>2. CASE \E d \in Days : Writes(p, d)
  <2>1. PICK d \in Days : Writes(p, d)
    BY <1>2
  <2>2. me[p].snap[d] \in Rev
    BY DEF TypeOK, Local
  <2>3. Shown(me[p].snap[d]) \in Content
    BY <2>2, ConstantFacts
  <2>4. PICK snap \in Rev, content \in Content :
           snap = me[p].snap[d] /\ content = Shown(me[p].snap[d])
    BY <2>2, <2>3
  <2>5. /\ files' = [files EXCEPT ![d] = content] /\ asof' = [asof EXCEPT ![d] = snap]
        /\ expired' = expired \ {d}
    BY <2>1, <2>4 DEF Writes, Write
  <2>6. QED BY <2>5 DEF TypeOK
<1>3. CASE \E d \in Days : Deletes(p, d)
  <2>1. PICK d \in Days :
           /\ files' = [files EXCEPT ![d] = NoFile] /\ expired' = expired \ {d} /\ asof' = asof
    BY <1>3 DEF Deletes
  <2>2. NoFile \in Content /\ files \in [Days -> Content]
    BY ConstantFacts DEF TypeOK
  <2>3. files' \in [Days -> Content]
    BY <2>1, <2>2
  <2>4. QED BY <2>1, <2>3 DEF TypeOK
<1>4. CASE \E torn \in SUBSET Days : Tears(p, torn)
  <2>1. PICK torn \in SUBSET Days :
           /\ files' = [d \in Days |-> IF d \in torn THEN Torn ELSE files[d]]
           /\ UNCHANGED <<expired, asof>>
    BY <1>4 DEF Tears
  <2>2. \A d \in Days : files[d] \in Content /\ Torn \in Content
    BY ConstantFacts DEF TypeOK
  <2>3. files' \in [Days -> Content]
    BY <2>1, <2>2
  <2>4. QED BY <2>1, <2>3 DEF TypeOK
<1>5. QED BY <1>1, <1>2, <1>3, <1>4 DEF FileEffect

(* Types and the soundness of the writers are kept together: that a batch   *)
(* is left to write is what makes its head a set of days.                  *)
TypedInv == TypeOK /\ WriterInv

(* Types and the soundness of writers are inductive together.               *)
LEMMA TypedStep == TypedInv /\ [Next]_vars => TypedInv'
<1> SUFFICES ASSUME TypedInv, [Next]_vars PROVE TypedInv'
  OBVIOUS
<1>1. TypeOK /\ WriterInv
  BY DEF TypedInv
<1>2. CASE World
  <2>1. TypeOK'
    BY <1>1, <1>2, WorldEffects DEF TypeOK
  <2>2. WriterInv'
    BY <1>1, <1>2, WorldEffects DEF WriterInv
  <2>3. QED BY <2>1, <2>2 DEF TypedInv
<1>3. CASE \E p \in Procs : Moves(p)
  <2>1. PICK p \in Procs : Moves(p)
    BY <1>3
  <2>2. /\ me' \in [Procs -> Local] /\ WriterSound(me'[p])
        /\ \A q \in Procs : q # p => me'[q] = me[q]
        /\ LockEffect(p) /\ FileEffect(p)
        /\ UNCHANGED <<source, frontier>>
    BY <1>1, <2>1, MoveEffects DEF WriterInv
  <2>3. lock' \in Procs \cup {Nobody}
    BY <1>1, <2>2 DEF LockEffect, TypeOK
  <2>4. TypeOK'
    BY <1>1, <2>2, <2>3, FilesTyped DEF TypeOK
  <2>5. WriterInv'
    BY <1>1, <2>2 DEF WriterInv
  <2>6. QED BY <2>4, <2>5 DEF TypedInv
<1>4. CASE UNCHANGED vars
  BY <1>1, <1>4 DEF vars, TypedInv, TypeOK, WriterInv
<1>5. QED BY <1>2, <1>3, <1>4, NextCases

(* They hold initially.                                                     *)
LEMMA TypedInit == Init => TypedInv
<1> SUFFICES ASSUME Init PROVE TypedInv
  OBVIOUS
<1>1. \A p \in Procs : me[p] = Idle
  BY DEF Init
<1>2. TypeOK
  BY ConstantFacts, IdleFacts, ParquetCacheAssumption DEF Init, TypeOK
<1>3. WriterInv
  <2>1. WriterSound(Idle)
    BY IdleFacts, NotWriting DEF Writing
  <2>2. QED BY <1>1, <2>1 DEF WriterInv
<1>4. QED BY <1>2, <1>3 DEF TypedInv

(* The variables have their types in every state.                          *)
THEOREM TypeCorrect == Spec => []TypeOK
<1>1. TypedInv => TypeOK
  BY DEF TypedInv
<1>2. QED BY <1>1, TypedInit, TypedStep, PTL DEF Spec

(* A write only has in hand what it planned and has not completed: its      *)
(* batches are disjoint, and it empties no day its snapshot has rows for.   *)
THEOREM WritersSound == Spec => []WriterInv
<1>1. TypedInv => WriterInv
  BY DEF TypedInv
<1>2. QED BY <1>1, TypedInit, TypedStep, PTL DEF Spec

(* No write comes to overwrite a partition it has already completed         *)
(* ("refusing to overwrite completed partition path" is never raised).     *)
THEOREM NoOverwriteRefusedHolds == Spec => []NoOverwriteRefused
<1>1. TypedInv => NoOverwriteRefused
  <2>1. SUFFICES ASSUME TypedInv, NEW p \in Procs
                 PROVE  /\ me[p].pc = "sink" => SinkRows(p) \cap me[p].completed = {}
                        /\ me[p].pc = "empties" => me[p].pending \cap me[p].completed = {}
    BY DEF NoOverwriteRefused
  <2>2. TypeOK /\ WriterSound(me[p])
    BY <2>1 DEF TypedInv, WriterInv
  <2>3. ASSUME me[p].pc = "sink" PROVE SinkRows(p) \cap me[p].completed = {}
    BY <2>2, <2>3, SinkRowsFacts DEF WriterSound, BatchSound
  <2>4. me[p].pc = "empties" => me[p].pending \cap me[p].completed = {}
    BY <2>2 DEF WriterSound, GapSound
  <2>5. QED BY <2>3, <2>4
<1>2. QED BY <1>1, TypedInit, TypedStep, PTL DEF Spec

-----------------------------------------------------------------------------
(* What the files hold.                                                    *)

(* The files after a step: one is written, one is gone or some are torn.    *)
LEMMA FilesAfter ==
    ASSUME TypeOK, NEW p \in Procs, FileEffect(p), NEW d \in Days
    PROVE  \/ files'[d] = files[d] /\ asof'[d] = asof[d] /\ (d \in expired <=> d \in expired')
           \/ /\ me'[p] # me[p] /\ Writes(p, d)
              /\ files'[d] = Shown(me[p].snap[d]) /\ asof'[d] = me[p].snap[d] /\ d \notin expired'
           \/ me'[p] # me[p] /\ Deletes(p, d) /\ files'[d] = NoFile /\ asof'[d] = asof[d]
           \/ /\ me'[p] # me[p] /\ files'[d] = Torn /\ asof'[d] = asof[d] /\ expired' = expired
              /\ \E torn \in SUBSET Days : Tears(p, torn) /\ d \in torn
<1>1. files \in [Days -> Content] /\ asof \in [Days -> Rev]
  BY DEF TypeOK
<1>2. CASE SameFiles
  BY <1>2 DEF SameFiles
<1>3. CASE me'[p] # me[p] /\ \E e \in Days : Writes(p, e)
  <2>1. PICK e \in Days : Writes(p, e)
    BY <1>3
  <2>2. PICK c, r : c = Shown(me[p].snap[e]) /\ r = me[p].snap[e]
    OBVIOUS
  <2>3. /\ files' = [files EXCEPT ![e] = c] /\ asof' = [asof EXCEPT ![e] = r]
        /\ expired' = expired \ {e}
    BY <2>1, <2>2 DEF Writes, Write
  <2>4. CASE d = e
    <3>1. files'[d] = c /\ asof'[d] = r /\ d \notin expired'
      BY <1>1, <2>3, <2>4
    <3>2. QED BY <1>3, <2>1, <2>2, <2>4, <3>1
  <2>5. CASE d # e
    BY <1>1, <2>3, <2>5
  <2>6. QED BY <2>4, <2>5
<1>4. CASE me'[p] # me[p] /\ \E e \in Days : Deletes(p, e)
  <2>1. PICK e \in Days : Deletes(p, e)
    BY <1>4
  <2>2. files' = [files EXCEPT ![e] = NoFile] /\ expired' = expired \ {e} /\ asof' = asof
    BY <2>1 DEF Deletes
  <2>3. CASE d = e
    <3>1. files'[d] = NoFile /\ asof'[d] = asof[d]
      BY <1>1, <2>2, <2>3
    <3>2. QED BY <1>4, <2>1, <2>3, <3>1
  <2>4. CASE d # e
    BY <1>1, <2>2, <2>4
  <2>5. QED BY <2>3, <2>4
<1>5. CASE me'[p] # me[p] /\ \E torn \in SUBSET Days : Tears(p, torn)
  <2>1. PICK torn \in SUBSET Days : Tears(p, torn)
    BY <1>5
  <2>2. /\ files' = [e \in Days |-> IF e \in torn THEN Torn ELSE files[e]]
        /\ expired' = expired /\ asof' = asof
    BY <2>1 DEF Tears
  <2>3. CASE d \in torn
    <3>1. files'[d] = Torn
      BY <2>2, <2>3
    <3>2. QED BY <1>5, <2>1, <2>2, <2>3, <3>1
  <2>4. CASE d \notin torn
    BY <2>2, <2>4
  <2>5. QED BY <2>3, <2>4
<1>6. QED BY <1>2, <1>3, <1>4, <1>5 DEF FileEffect

(* The days a step of a query writes, deletes or tears are in its scope.    *)
LEMMA FilesInScope ==
    ASSUME TypeOK, NEW p \in Procs, WriterSound(me[p]), NEW d \in Days,
           Writes(p, d) \/ Deletes(p, d) \/ \E torn \in SUBSET Days : Tears(p, torn) /\ d \in torn
    PROVE  /\ d \in Scope(me[p].query) /\ me[p].pc \in Writing
           /\ me[p].pc \in {"sink", "empties", "cleanup"} => d \in me[p].fetch \ me[p].completed
           /\ me[p].pc = "stale" => me[p].mode = "REBUILD"
<1>1. me[p].fetch \subseteq Scope(me[p].query)
  BY DEF WriterSound, PlanSound
<1>2. CASE Writes(p, d)
  BY <1>1, <1>2 DEF Writes, Writing
<1>3. CASE Deletes(p, d)
  <2>1. CASE me[p].pc = "cleanup" /\ d \in me[p].pending
    BY <1>1, <2>1 DEF WriterSound, GapSound, Writing
  <2>2. CASE me[p].pc = "stale" /\ d \in StaleKeys(p)
    BY <2>2 DEF StaleKeys, Rebuilding, Writing
  <2>3. QED BY <1>3, <2>1, <2>2 DEF Deletes
<1>4. CASE \E torn \in SUBSET Days : Tears(p, torn) /\ d \in torn
  <2>1. me[p].pc = "sink" /\ d \in SinkRows(p)
    BY <1>4 DEF Tears
  <2>2. SinkRows(p) \subseteq me[p].fetch /\ SinkRows(p) \cap me[p].completed = {}
    BY <2>1, SinkRowsFacts DEF WriterSound, BatchSound
  <2>3. QED BY <1>1, <2>1, <2>2 DEF Writing
<1>5. QED BY <1>2, <1>3, <1>4

(* A step keeps the files within what the source has had.                   *)
LEMMA SharedStep == TypedInv /\ SharedInv /\ [Next]_vars => SharedInv'
<1> SUFFICES ASSUME TypedInv, SharedInv, [Next]_vars PROVE SharedInv'
  OBVIOUS
<1>1. TypeOK /\ WriterInv
  BY DEF TypedInv
<1>2. /\ \A d \in Days : d > frontier => source[d] = 0
      /\ \A d \in Days : asof[d] <= source[d] /\ (Cached(d) => files[d] = Shown(asof[d]))
      /\ \A q \in Procs : me[q].pc \in Snapped => \A d \in Days : me[q].snap[d] <= source[d]
  BY DEF SharedInv
<1>3. CASE World
  <2>1. /\ UNCHANGED <<files, me, asof>> /\ source' \in [Days -> Rev]
        /\ \A d \in Days : (d > frontier' => source'[d] = 0) /\ source[d] <= source'[d]
    BY <1>1, <1>2, <1>3, WorldEffects
  <2>2. \A r, s, t \in Rev : r <= s /\ s <= t => r <= t
    BY ConstantFacts
  <2>3. /\ \A d \in Days : source[d] \in Rev /\ source'[d] \in Rev /\ asof[d] \in Rev
        /\ \A q \in Procs : \A d \in Days : me[q].snap[d] \in Rev
    BY <1>1, <2>1 DEF TypeOK, Local
  <2>4. \A d \in Days : asof'[d] <= source'[d] /\ (Cached(d)' => files'[d] = Shown(asof'[d]))
    BY <1>2, <2>1, <2>2, <2>3 DEF Cached
  <2>5. \A q \in Procs : me'[q].pc \in Snapped => \A d \in Days : me'[q].snap[d] <= source'[d]
    BY <1>2, <2>1, <2>2, <2>3
  <2>6. QED BY <2>1, <2>4, <2>5 DEF SharedInv
<1>4. CASE \E p \in Procs : Moves(p)
  <2>1. PICK p \in Procs : Moves(p)
    BY <1>4
  <2>2. /\ \A q \in Procs : q # p => me'[q] = me[q]
        /\ SnapEffect(p) /\ FileEffect(p) /\ UNCHANGED <<source, frontier>>
    BY <1>1, <2>1, MoveEffects DEF WriterInv
  <2>3. \A d \in Days : source[d] <= source[d]
    BY <1>1, ConstantFacts DEF TypeOK
  <2>4. ASSUME NEW d \in Days
        PROVE  asof'[d] <= source'[d] /\ (Cached(d)' => files'[d] = Shown(asof'[d]))
    <3>1. CASE files'[d] = files[d] /\ asof'[d] = asof[d]
      BY <1>2, <2>2, <3>1 DEF Cached
    <3>2. CASE Writes(p, d) /\ files'[d] = Shown(me[p].snap[d]) /\ asof'[d] = me[p].snap[d]
      <4>1. me[p].pc \in Snapped
        BY <3>2 DEF Writes, Snapped
      <4>2. QED BY <1>2, <2>2, <3>2, <4>1
    <3>3. CASE files'[d] \in {NoFile, Torn} /\ asof'[d] = asof[d]
      BY <1>2, <2>2, <3>3 DEF Cached
    <3>4. QED BY <1>1, <2>2, <3>1, <3>2, <3>3, FilesAfter
  <2>5. ASSUME NEW q \in Procs, me'[q].pc \in Snapped, NEW d \in Days
        PROVE  me'[q].snap[d] <= source'[d]
    BY <1>2, <2>2, <2>3, <2>5 DEF SnapEffect
  <2>6. QED BY <1>2, <2>2, <2>4, <2>5 DEF SharedInv
<1>5. CASE UNCHANGED vars
  BY <1>2, <1>5 DEF vars, SharedInv, Cached
<1>6. QED BY <1>3, <1>4, <1>5, NextCases

(* There are no files initially.                                            *)
LEMMA SharedInit == Init => SharedInv
<1> SUFFICES ASSUME Init PROVE SharedInv
  OBVIOUS
<1>1. /\ source \in [Days -> Rev] /\ \A d \in Days : d > frontier => source[d] = 0
      /\ files = NoRows /\ asof = Zero /\ \A p \in Procs : me[p] = Idle
  BY DEF Init
<1>2. \A d \in Days : source[d] \in Rev /\ files[d] = NoFile /\ asof[d] = 0
  BY <1>1 DEF NoRows, Zero
<1>3. \A d \in Days : asof[d] <= source[d]
  BY SMTT(30), <1>2, ConstantFacts
<1>4. \A p \in Procs : me[p].pc \notin Snapped
  BY <1>1, IdleFacts DEF Snapped
<1>5. QED BY <1>1, <1>2, <1>3, <1>4 DEF SharedInv, Cached

(* A complete file holds all the rows of its day as the source had them at  *)
(* some time, whatever fails and with or without a lock: what is written    *)
(* comes from one snapshot, and gaps are filled only where it has no rows.  *)
THEOREM FilesTrueHolds == Spec => []FilesTrue
<1>1. SharedInv => FilesTrue
  BY DEF SharedInv, FilesTrue
<1>2. QED BY <1>1, TypedInit, TypedStep, SharedInit, SharedStep, PTL DEF Spec

(* A query only writes or deletes files of its own partition scope.        *)
THEOREM WritesStayInScopeHolds == Spec => WritesStayInScope
<1>1. TypedInv /\ [Next]_vars =>
         [\A d \in Days : files'[d] # files[d] =>
             \E p \in Procs : d \in Scope(me[p].query) /\ me'[p] # me[p]]_vars
  <2> SUFFICES ASSUME TypedInv, [Next]_vars, NEW d \in Days, files'[d] # files[d]
               PROVE  \E p \in Procs : d \in Scope(me[p].query) /\ me'[p] # me[p]
    OBVIOUS
  <2>1. TypeOK /\ WriterInv
    BY DEF TypedInv
  <2>2. files' # files
    OBVIOUS
  <2>3. \E p \in Procs : Moves(p)
    BY <2>1, <2>2, NextCases, WorldEffects DEF vars
  <2>4. PICK p \in Procs : Moves(p)
    BY <2>3
  <2>5. FileEffect(p) /\ WriterSound(me[p])
    BY <2>1, <2>4, MoveEffects DEF WriterInv
  <2>6. QED BY <2>1, <2>5, FilesAfter, FilesInScope
<1>2. QED BY <1>1, TypedInit, TypedStep, PTL DEF Spec, WritesStayInScope

-----------------------------------------------------------------------------
(* Under the lock.                                                         *)

(* Every step keeps that who writes holds the lock.                        *)
LEMMA LockStep ==
    ASSUME UseLock
    PROVE  TypedInv /\ SharedInv /\ LockInv /\ [Next]_vars => LockInv'
<1> SUFFICES ASSUME TypedInv, SharedInv, LockInv, [Next]_vars PROVE LockInv'
  OBVIOUS
<1>1. TypeOK /\ WriterInv
  BY DEF TypedInv
<1>2. /\ \A q \in Procs : me[q].pc \in Writing => lock = q
      /\ \A q \in Procs : me[q].pc \in Snapped => \A d \in Days : asof[d] <= me[q].snap[d]
  BY DEF LockInv
<1>3. CASE World
  BY <1>1, <1>2, <1>3, WorldEffects DEF LockInv
<1>4. CASE \E p \in Procs : Moves(p)
  <2>1. PICK p \in Procs : Moves(p)
    BY <1>4
  <2>2. /\ \A q \in Procs : q # p => me'[q] = me[q]
        /\ LockEffect(p) /\ SnapEffect(p) /\ FileEffect(p) /\ UNCHANGED source
        /\ WriterSound(me[p])
    BY <1>1, <2>1, MoveEffects DEF WriterInv
  <2>3. SharedInv' /\ TypeOK'
    BY TypedStep, SharedStep DEF TypedInv
  <2>4. ASSUME NEW q \in Procs, me'[q].pc \in Writing PROVE lock' = q
    <3>1. CASE q = p
      BY <1>2, <2>2, <2>4, <3>1 DEF LockEffect
    <3>2. CASE q # p
      <4>1. lock = q
        BY <1>2, <2>2, <2>4, <3>2
      <4>2. q # Nobody
        BY ParquetCacheAssumption
      <4>3. QED BY <2>2, <3>2, <4>1, <4>2 DEF LockEffect
    <3>3. QED BY <3>1, <3>2
  <2>5. ASSUME NEW q \in Procs, me'[q].pc \in Snapped, NEW d \in Days
        PROVE  asof'[d] <= me'[q].snap[d]
    <3>1. CASE q # p
      <4>1. me'[q] = me[q] /\ lock = q /\ me[q].pc \in Snapped
        BY <1>2, <2>2, <2>5, <3>1 DEF Snapped, Writing
      <4>2. me[p].pc \notin Writing
        BY <1>2, <3>1, <4>1
      <4>3. asof'[d] = asof[d]
        BY <1>1, <2>2, <4>2, FilesAfter, FilesInScope
      <4>4. QED BY <1>2, <4>1, <4>3
    <3>2. CASE q = p /\ me'[p].snap = source
      BY <2>2, <2>3, <3>2 DEF SharedInv
    <3>3. CASE q = p /\ me[p].pc \in Snapped /\ me'[p].snap = me[p].snap
      <4>1. asof[d] <= me[p].snap[d] /\ me[p].snap[d] <= me[p].snap[d]
        <5>1. me[p].snap[d] \in Rev
          BY <1>1 DEF TypeOK, Local
        <5>2. QED BY <1>2, <3>3, <5>1, ConstantFacts
      <4>2. asof'[d] \in {asof[d], me[p].snap[d]}
        BY <1>1, <2>2, FilesAfter
      <4>3. QED BY <3>3, <4>1, <4>2
    <3>4. QED BY <2>2, <2>5, <3>1, <3>2, <3>3 DEF SnapEffect
  <2>6. QED BY <2>4, <2>5 DEF LockInv
<1>5. CASE UNCHANGED vars
  BY <1>2, <1>5 DEF vars, LockInv
<1>6. QED BY <1>3, <1>4, <1>5, NextCases

(* Nobody holds the lock initially.                                         *)
LEMMA LockInit == Init => LockInv
<1> SUFFICES ASSUME Init PROVE LockInv
  OBVIOUS
<1>1. \A p \in Procs : me[p].pc = "idle"
  BY IdleFacts DEF Init
<1>2. QED BY <1>1 DEF LockInv, Snapped, Writing

(* The directory is written by the holder of the lock only.                *)
THEOREM WritersHoldLock ==
    ASSUME UseLock
    PROVE  Spec => [](\A p \in Procs : me[p].pc \in Writing => lock = p)
<1>1. LockInv => \A p \in Procs : me[p].pc \in Writing => lock = p
  BY DEF LockInv
<1>2. QED BY <1>1, TypedInit, TypedStep, SharedInit, SharedStep, LockInit, LockStep, PTL DEF Spec

(* With a lock, a file is never replaced by an older revision of its day:   *)
(* the holder's snapshot is not older than what it replaces.               *)
THEOREM VersionsAdvanceHolds == ASSUME UseLock PROVE Spec => VersionsAdvance
<1>1. TypedInv /\ SharedInv /\ LockInv /\ [Next]_vars =>
         [\A d \in Days : asof'[d] >= asof[d]]_vars
  <2> SUFFICES ASSUME TypedInv, SharedInv, LockInv, [Next]_vars, NEW d \in Days
               PROVE  asof'[d] >= asof[d]
    OBVIOUS
  <2>1. TypeOK /\ WriterInv
    BY DEF TypedInv
  <2>2. asof[d] \in Rev /\ asof[d] >= asof[d]
    <3>1. asof[d] \in Rev
      BY <2>1 DEF TypeOK
    <3>2. QED BY <3>1, ConstantFacts
  <2>3. CASE \E p \in Procs : Moves(p)
    <3>1. PICK p \in Procs : Moves(p)
      BY <2>3
    <3>2. FileEffect(p)
      BY <2>1, <3>1, MoveEffects DEF WriterInv
    <3>3. CASE asof'[d] = asof[d]
      BY <2>2, <3>3
    <3>4. CASE Writes(p, d) /\ asof'[d] = me[p].snap[d]
      <4>1. me[p].pc \in Snapped
        BY <3>4 DEF Writes, Snapped
      <4>2. asof[d] <= me[p].snap[d] /\ me[p].snap[d] \in Rev
        BY <2>1, <4>1 DEF LockInv, TypeOK, Local
      <4>3. QED BY <2>2, <3>4, <4>2, ConstantFacts
    <3>5. QED BY <2>1, <3>2, <3>3, <3>4, FilesAfter
  <2>4. CASE World \/ UNCHANGED vars
    <3>1. asof' = asof
      BY <2>1, <2>4, WorldEffects DEF vars
    <3>2. QED BY <2>2, <3>1
  <2>5. QED BY <2>3, <2>4, NextCases
<1>2. QED
  BY <1>1, TypedInit, TypedStep, SharedInit, SharedStep, LockInit, LockStep, PTL
  DEF Spec, VersionsAdvance

(* A write in progress keeps its plan and what it has completed, and has    *)
(* read nothing yet.                                                       *)
WorkEffect(p) ==
    me'[p].pc \in Writing =>
        \/ PlanWrite(p)
        \/ /\ me[p].pc \in Writing /\ SamePlan(me'[p], me[p]) /\ me'[p].up = me[p].up
           /\ \/ me'[p].pc # "empties" \/ SinkDone(p) \/ StaleDone(p)
              \/ me[p].pc = "empties" /\ me'[p].pending \subseteq me[p].pending
           /\ me[p].completed \subseteq me'[p].completed
           /\ me[p].pc \in {"sink", "cleanup"} =>
                 me[p].written \subseteq
                     me'[p].completed \cup IF me'[p].pc \in {"sink", "cleanup"}
                                           THEN me'[p].written ELSE {}

(* What is complete or written stays so while the lock is held.             *)
LEMMA WorkEffects ==
    ASSUME TypeOK, NEW p \in Procs, WriterSound(me[p]), Moves(p)
    PROVE  WorkEffect(p)
<1>1. \A r \in Local : Becomes(p, r) => me'[p] = r
  BY Others DEF TypeOK
<1>2. CASE me'[p].pc \notin Writing
  BY <1>2 DEF WorkEffect
<1>3. CASE PlanWrite(p)
  BY <1>3 DEF WorkEffect
<1>4. CASE SinkReads(p)
  <2>1. PICK r \in Local :
           /\ Becomes(p, r) /\ r.pc = "sink" /\ SamePlan(r, me[p]) /\ r.up = me[p].up
           /\ r.completed = me[p].completed
    BY <1>4, SinkReadsBecomes DEF SameRead
  <2>2. me'[p] = r /\ me[p].pc = "write"
    BY <1>1, <1>4, <2>1 DEF SinkReads
  <2>3. QED BY <2>1, <2>2 DEF WorkEffect, Writing
<1>5. CASE \E d \in Days : SinkFile(p, d)
  <2>1. PICK d \in Days : SinkFile(p, d)
    BY <1>5
  <2>2. PICK r \in Local :
           /\ Becomes(p, r) /\ r.pc = "sink" /\ r.written = me[p].written \cup {d}
           /\ SamePlan(r, me[p]) /\ r.up = me[p].up /\ r.completed = me[p].completed
    BY <2>1, SinkFileBecomes DEF SameRead
  <2>3. me'[p] = r /\ me[p].pc = "sink"
    BY <1>1, <2>1, <2>2 DEF SinkFile
  <2>4. QED BY <2>2, <2>3 DEF WorkEffect, Writing
<1>6. CASE SinkDone(p)
  <2>1. PICK r \in Local :
           /\ Becomes(p, r) /\ SamePlan(r, me[p]) /\ r.up = me[p].up
           /\ r.completed = me[p].completed \cup SinkRows(p)
    BY <1>6, SinkDoneBecomes DEF SameRead
  <2>2. me'[p] = r /\ me[p].pc = "sink" /\ me[p].written = SinkRows(p)
    BY <1>1, <1>6, <2>1 DEF SinkDone
  <2>3. QED BY <1>6, <2>1, <2>2 DEF WorkEffect, Writing
<1>7. CASE SinkFails(p)
  <2>1. PICK r \in Local, opened \in SUBSET SinkRows(p), torn \in SUBSET Days :
           /\ Becomes(p, r) /\ r.pc = "cleanup" /\ r.pending = opened
           /\ SamePlan(r, me[p]) /\ SameRead(r, me[p]) /\ SameWork(r, me[p])
           /\ me[p].written \subseteq opened /\ torn \subseteq opened \ me[p].written
           /\ files' = [d \in Days |-> IF d \in torn THEN Torn ELSE files[d]]
    BY <1>7, SinkFailsBecomes
  <2>2. me'[p] = r /\ me[p].pc = "sink"
    BY <1>1, <1>7, <2>1 DEF SinkFails
  <2>3. QED BY <2>1, <2>2 DEF WorkEffect, Writing, SameWork, SameRead
<1>8. CASE CleanUp(p) \/ DeleteStale(p) \/ StaleDone(p)
  <2>1. PICK r \in Local :
           /\ Becomes(p, r) /\ SamePlan(r, me[p]) /\ SameWork(r, me[p]) /\ r.up = me[p].up
           /\ CleanUp(p) => r.pc = "cleanup"
           /\ ~StaleDone(p) => r.pc # "empties"
    <3>1. CASE CleanUp(p)
      BY <3>1, CleanUpBecomes DEF SameRead
    <3>2. CASE DeleteStale(p)
      BY <3>2, DeleteStaleBecomes DEF DeleteStale, CleanUp, SameRead
    <3>3. CASE StaleDone(p)
      BY <3>3, StaleDoneBecomes DEF StaleDone, CleanUp, SameRead
    <3>4. QED BY <1>8, <3>1, <3>2, <3>3
  <2>2. me'[p] = r
    BY <1>1, <2>1
  <2>3. (me[p].pc = "cleanup" /\ r.pc = "cleanup") \/ me[p].pc = "stale"
    BY <1>8, <2>1 DEF CleanUp, DeleteStale, StaleDone
  <2>4. QED BY <2>1, <2>2, <2>3 DEF WorkEffect, Writing, SameWork
<1>9. CASE WriteEmpty(p) \/ EmptiesDone(p)
  <2>1. PICK r \in Local :
           /\ Becomes(p, r) /\ SamePlan(r, me[p]) /\ me[p].completed \subseteq r.completed
           /\ r.up = me[p].up /\ r.pending \subseteq me[p].pending
    <3>1. CASE WriteEmpty(p)
      <4>1. PICK r \in Local, d \in me[p].pending :
               /\ Becomes(p, r) /\ SamePlan(r, me[p]) /\ r.up = me[p].up
               /\ r.completed = me[p].completed \cup {d} /\ r.pending = me[p].pending \ {d}
        BY <3>1, WriteEmptyBecomes DEF SameRead
      <4>2. QED BY <4>1
    <3>2. CASE EmptiesDone(p)
      <4>1. PICK r \in Local :
               /\ Becomes(p, r) /\ SamePlan(r, me[p]) /\ SameRead(r, me[p])
               /\ r.completed = me[p].completed /\ r.pending = me[p].pending
        BY <3>2, EmptiesDoneBecomes
      <4>2. QED BY <4>1 DEF SameRead
    <3>3. QED BY <1>9, <3>1, <3>2
  <2>2. me'[p] = r /\ me[p].pc = "empties"
    BY <1>1, <1>9, <2>1 DEF WriteEmpty, EmptiesDone
  <2>3. QED BY <2>1, <2>2 DEF WorkEffect, Writing
<1>10. CASE RefuseBatch(p) \/ CleanedUp(p) \/ VisitorRaises(p) \/ ReadFails(p) \/ Kill(p)
            \/ \E a \in Asks : Start(p, a)
  <2>1. Raise(p) \/ Kill(p) \/ \E a \in Asks : Start(p, a)
    BY <1>10 DEF RefuseBatch, CleanedUp, VisitorRaises, ReadFails
  <2>2. me'[p].pc \notin Writing
    BY <2>1, RaiseEffects DEF Writing
  <2>3. QED BY <1>2, <2>2
<1>11. CASE \/ PlanRead(p) \/ PlanLock(p) \/ AcquireLock(p)
            \/ Relist(p) \/ OpenScan(p) \/ ReadDone(p) \/ ReadRetry(p)
  <2>1. \E r \in Local : Becomes(p, r) /\ r.pc \in {"scan", "lock", "plan", "read", "done"}
    BY <1>11, PlanReadBecomes, PlanLockBecomes, AcquireBecomes, RelistBecomes, OpenScanBecomes,
       ReadDoneBecomes, ReadRetryBecomes
  <2>2. me'[p].pc \notin Writing
    BY <1>1, <2>1 DEF Writing
  <2>3. QED BY <1>2, <2>2
<1>12. QED
  BY <1>3, <1>4, <1>5, <1>6, <1>7, <1>8, <1>9, <1>10, <1>11 DEF Moves, Step

(* The steps of a write that go on with it.                                *)
LEMMA BusyWrites ==
    ASSUME TypeOK, NEW p \in Procs, WriterSound(me[p]),
           \/ SinkReads(p) \/ (\E d \in Days : SinkFile(p, d)) \/ SinkDone(p) \/ SinkFails(p)
           \/ CleanUp(p) \/ WriteEmpty(p) \/ EmptiesDone(p) \/ DeleteStale(p) \/ StaleDone(p)
    PROVE  me'[p].pc \in Writing
<1>1. \E r \in Local : Becomes(p, r) /\ r.pc \in Writing
  <2>1. CASE SinkReads(p) \/ CleanUp(p) \/ WriteEmpty(p) \/ DeleteStale(p)
    BY <2>1, SinkReadsBecomes, CleanUpBecomes, WriteEmptyBecomes, DeleteStaleBecomes
    DEF Writing
  <2>2. CASE SinkDone(p)
    BY <2>2, SinkDoneBecomes DEF Writing
  <2>3. CASE SinkFails(p)
    BY <2>3, SinkFailsBecomes DEF Writing
  <2>4. CASE EmptiesDone(p)
    BY <2>4, EmptiesDoneBecomes DEF Writing
  <2>5. CASE StaleDone(p)
    BY <2>5, StaleDoneBecomes DEF Writing
  <2>6. CASE \E d \in Days : SinkFile(p, d)
    BY <2>6, SinkFileBecomes DEF Writing
  <2>7. QED BY <2>1, <2>2, <2>3, <2>4, <2>5, <2>6
<1>2. QED BY <1>1, Others DEF TypeOK

(* A step keeps what KeptInv says of the files that are fetched.            *)
LEMMA KeptStep ==
    ASSUME UseLock, "listing" \notin Faults
    PROVE  TypedInv /\ LockInv /\ KeptInv /\ [Next]_vars => KeptInv'
<1> SUFFICES ASSUME TypedInv, LockInv, KeptInv, [Next]_vars PROVE KeptInv'
  OBVIOUS
<1>1. TypeOK /\ WriterInv
  BY DEF TypedInv
<1> DEFINE Held(m, d) ==
             m.pc \in Writing /\ m.mode = "CACHE" /\ d \in m.fetch
           Kept(m, d) ==
             \/ d \in expired \/ d \in m.completed
             \/ m.pc \in {"sink", "cleanup"} /\ d \in m.written
<1>2. \A q \in Procs : \A d \in Days : Held(me[q], d) /\ Cached(d) => Kept(me[q], d)
  BY DEF KeptInv
<1>3. SUFFICES ASSUME NEW q \in Procs, NEW d \in Days, me'[q].pc \in Writing,
                      me'[q].mode = "CACHE", d \in me'[q].fetch, Cached(d)'
               PROVE  \/ d \in expired' \/ d \in me'[q].completed
                      \/ me'[q].pc \in {"sink", "cleanup"} /\ d \in me'[q].written
  <2>1. \A q \in Procs : me'[q].fetch \in SUBSET Days
    BY TypedStep DEF TypedInv, TypeOK, Local
  <2>2. QED BY <1>3, <2>1 DEF KeptInv
<1>4. CASE World \/ UNCHANGED vars
  <2>1. UNCHANGED <<files, me>> /\ expired \subseteq expired'
    BY <1>1, <1>4, WorldEffects DEF vars
  <2>2. Held(me[q], d) /\ Cached(d)
    BY <1>3, <2>1 DEF Cached
  <2>3. QED BY <1>2, <2>1, <2>2
<1>5. CASE \E p \in Procs : Moves(p)
  <2>1. PICK p \in Procs : Moves(p)
    BY <1>5
  <2>2. /\ \A x \in Procs : x # p => me'[x] = me[x]
        /\ FileEffect(p) /\ WriterSound(me[p])
    BY <1>1, <2>1, MoveEffects DEF WriterInv
  <2>3. CASE q # p
    <3>1. me'[q] = me[q] /\ lock = q
      BY <1>3, <2>2, <2>3 DEF LockInv
    <3>2. me[p].pc \notin Writing
      BY <2>3, <3>1 DEF LockInv
    <3>3. files'[d] = files[d] /\ (d \in expired <=> d \in expired')
      BY <1>1, <2>2, <3>2, FilesAfter, FilesInScope
    <3>4. Held(me[q], d) /\ Cached(d)
      BY <1>3, <3>1, <3>3 DEF Cached
    <3>5. QED BY <1>2, <3>1, <3>3, <3>4
  <2>4. CASE q = p
    <3>1. CASE PlanWrite(p)
      <4>1. PICK seen \in Listings, m \in Local, r \in Local :
               /\ m = Planned(p, seen) /\ Becomes(p, r) /\ SamePlan(r, m)
               /\ ~NoWrite(p) /\ FetchUpstream(p, me[p].query, seen)
        BY <1>1, <3>1, PlanWriteBecomes
      <4>2. me'[p] = r /\ SameFiles
        BY <1>1, <3>1, <4>1, Others DEF TypeOK, PlanWrite, SameFiles
      <4>3. seen = Listed
        BY ListingFacts
      <4>4. /\ m.fetch = Scope(m.query) \ KnownKeys(m) /\ m.listed = seen
            /\ m.refresh = RefreshKeys(p, me[p].query, seen)
        BY <1>1, <4>1, FetchFacts, PlannedFacts, ListingFacts
      <4>5. d \in Listed
        BY <1>3, <4>2 DEF Cached, Listed, SameFiles
      <4>6. d \notin KnownKeys(m) /\ m.mode = "CACHE"
        BY <1>3, <2>4, <4>1, <4>2, <4>4 DEF SamePlan
      <4>7. d \in m.refresh
        BY <4>3, <4>4, <4>5, <4>6 DEF KnownKeys
      <4>8. d \in expired
        BY <4>4, <4>7 DEF RefreshKeys
      <4>9. QED BY <4>2, <4>8 DEF SameFiles
    <3>2. CASE ~PlanWrite(p)
      <4>1. /\ me[p].pc \in Writing /\ SamePlan(me'[p], me[p])
            /\ me[p].completed \subseteq me'[p].completed
            /\ me[p].pc \in {"sink", "cleanup"} =>
                  me[p].written \subseteq
                      me'[p].completed \cup IF me'[p].pc \in {"sink", "cleanup"}
                                            THEN me'[p].written ELSE {}
        BY <1>1, <1>3, <2>1, <2>2, <2>4, <3>2, WorkEffects DEF WorkEffect
      <4>2. Held(me[p], d)
        BY <1>3, <2>4, <4>1 DEF SamePlan
      <4>3. CASE files'[d] = files[d] /\ (d \in expired <=> d \in expired')
        <5>1. Kept(me[p], d)
          BY <1>2, <1>3, <4>2, <4>3 DEF Cached
        <5>2. QED BY <2>4, <4>1, <4>3, <5>1
      <4>4. CASE Writes(p, d)
        BY <1>3, <2>4, <4>4 DEF Writes
      <4>5. CASE files'[d] \in {NoFile, Torn}
        BY <1>3, <4>5 DEF Cached
      <4>6. QED BY <1>1, <2>2, <4>3, <4>4, <4>5, FilesAfter
    <3>3. QED BY <3>1, <3>2
  <2>5. QED BY <2>3, <2>4
<1>6. QED BY <1>4, <1>5, NextCases

(* Nothing is written initially.                                            *)
LEMMA KeptInit == Init => KeptInv
<1> SUFFICES ASSUME Init PROVE KeptInv
  OBVIOUS
<1>1. \A p \in Procs : me[p].pc = "idle"
  BY IdleFacts DEF Init
<1>2. QED BY <1>1 DEF KeptInv, Writing

(* With a lock and faithful listings, a complete file is replaced only if   *)
(* expired or rebuilt, and removed only by the failed sink that wrote it:   *)
(* what a query waiting for the lock missed, it sees when it plans again.   *)
THEOREM FilesKeptHolds ==
    ASSUME UseLock, "listing" \notin Faults PROVE Spec => FilesKept
<1>1. TypedInv /\ LockInv /\ KeptInv /\ [Next]_vars =>
         [\A d \in Days : Cached(d) /\ <<files, asof>>' # <<files, asof>> =>
             \/ files'[d] = files[d] /\ asof'[d] = asof[d]
             \/ d \in expired
             \/ \E p \in Procs : Rebuilding(p) /\ me'[p] # me[p]
             \/ \E p \in Procs : me[p].pc = "cleanup" /\ d \in me[p].written]_vars
  <2> SUFFICES ASSUME TypedInv, LockInv, KeptInv, [Next]_vars, NEW d \in Days, Cached(d)
               PROVE  \/ files'[d] = files[d] /\ asof'[d] = asof[d]
                      \/ d \in expired
                      \/ \E p \in Procs : Rebuilding(p) /\ me'[p] # me[p]
                      \/ \E p \in Procs : me[p].pc = "cleanup" /\ d \in me[p].written
    OBVIOUS
  <2>1. TypeOK /\ WriterInv
    BY DEF TypedInv
  <2>2. CASE World \/ UNCHANGED vars
    BY <2>1, <2>2, WorldEffects DEF vars
  <2>3. CASE \E p \in Procs : Moves(p)
    <3>1. PICK p \in Procs : Moves(p)
      BY <2>3
    <3>2. FileEffect(p) /\ WriterSound(me[p])
      BY <2>1, <3>1, MoveEffects DEF WriterInv
    <3>3. CASE files'[d] = files[d] /\ asof'[d] = asof[d]
      BY <3>3
    <3>4. CASE /\ me'[p] # me[p]
               /\ Writes(p, d) \/ Deletes(p, d) \/ \E torn \in SUBSET Days : Tears(p, torn) /\ d \in torn
      <4>1. /\ me[p].pc \in Writing
            /\ me[p].pc \in {"sink", "empties", "cleanup"} => d \in me[p].fetch \ me[p].completed
            /\ me[p].pc = "stale" => me[p].mode = "REBUILD"
        BY <2>1, <3>2, <3>4, FilesInScope
      <4>2. CASE me[p].mode = "REBUILD"
        BY <3>4, <4>2 DEF Rebuilding
      <4>3. CASE me[p].mode # "REBUILD"
        <5>1. me[p].mode = "CACHE"
          BY <3>2, <4>1, <4>3 DEF WriterSound, PlanSound
        <5>2. me[p].pc \in {"sink", "empties", "cleanup"}
          BY <3>4, <4>1, <4>3 DEF Writes, Deletes, Tears
        <5>3. d \in expired \/ (me[p].pc \in {"sink", "cleanup"} /\ d \in me[p].written)
          BY <4>1, <5>1, <5>2 DEF KeptInv
        <5>4. me[p].pc = "sink" => d \notin me[p].written
          BY <3>4 DEF Writes, Deletes, Tears
        <5>5. QED BY <5>3, <5>4
      <4>4. QED BY <4>2, <4>3
    <3>5. QED BY <2>1, <3>2, <3>3, <3>4, FilesAfter
  <2>4. QED BY <2>2, <2>3, NextCases
<1>2. QED
  BY <1>1, TypedInit, TypedStep, SharedInit, SharedStep, LockInit, LockStep, KeptInit, KeptStep,
     PTL
  DEF Spec, FilesKept

-----------------------------------------------------------------------------
(* Failed sinks.                                                           *)

(* Every step keeps that a torn file has an owner about to remove it.      *)
LEMMA TornStep ==
    ASSUME "delete" \notin Faults, "kill" \notin Faults
    PROVE  TypedInv /\ TornCleaned /\ [Next]_vars => TornCleaned'
<1> SUFFICES ASSUME TypedInv, TornCleaned, [Next]_vars, NEW d \in Days, files'[d] = Torn
             PROVE  \E q \in Procs : me'[q].pc = "cleanup" /\ d \in me'[q].pending
  BY DEF TornCleaned
<1>1. TypeOK /\ WriterInv
  BY DEF TypedInv
<1>2. CASE World \/ UNCHANGED vars
  <2>1. UNCHANGED <<files, me>>
    BY <1>1, <1>2, WorldEffects DEF vars
  <2>2. QED BY <2>1 DEF TornCleaned
<1>3. CASE \E p \in Procs : Moves(p)
  <2>1. PICK p \in Procs : Moves(p)
    BY <1>3
  <2>2. /\ \A x \in Procs : x # p => me'[x] = me[x]
        /\ FileEffect(p) /\ WriterSound(me[p])
    BY <1>1, <2>1, MoveEffects DEF WriterInv
  <2>3. CASE \E torn \in SUBSET Days : Tears(p, torn) /\ d \in torn
    BY <2>3 DEF Tears
  <2>4. CASE files[d] = Torn
    <3>1. PICK q \in Procs : me[q].pc = "cleanup" /\ d \in me[q].pending
      BY <2>4 DEF TornCleaned
    <3>2. CASE q # p
      BY <2>2, <3>1, <3>2
    <3>3. CASE q = p
      <4>1. CleanUp(p)
        BY <2>1, <3>1, <3>3
        DEF Moves, Kill, Start, Step, PlanRead, PlanLock, AcquireLock, PlanWrite, RefuseBatch,
            SinkReads, SinkFile, SinkDone, SinkFails, CleanedUp, WriteEmpty, EmptiesDone,
            DeleteStale, StaleDone, VisitorRaises, Relist, OpenScan, ReadDone, ReadRetry, ReadFails
      <4>2. PICK r \in Local, e \in me[p].pending :
               /\ Becomes(p, r) /\ r.pc = "cleanup" /\ r.pending = me[p].pending \ {e}
               /\ e \in Days /\ Delete(e)
        BY <1>1, <4>1, CleanUpBecomes
      <4>3. me'[p] = r
        BY <1>1, <4>2, Others DEF TypeOK
      <4>4. files'[e] = NoFile
        BY <1>1, <4>2 DEF Delete, TypeOK
      <4>5. d # e
        BY <4>4 DEF NoFile, Torn
      <4>6. QED BY <3>1, <3>3, <4>2, <4>3, <4>5
    <3>4. QED BY <3>2, <3>3
  <2>5. CASE Writes(p, d) /\ files'[d] = Shown(me[p].snap[d])
    <3>1. me[p].snap[d] \in Rev
      BY <1>1 DEF TypeOK, Local
    <3>2. QED BY <2>5, <3>1, ConstantFacts
  <2>6. CASE files'[d] = NoFile
    BY <2>6 DEF NoFile, Torn
  <2>7. QED BY <1>1, <2>2, <2>3, <2>4, <2>5, <2>6, FilesAfter
<1>4. QED BY <1>2, <1>3, NextCases

(* Unless a deletion fails or a process is killed, every incomplete file    *)
(* is still to be deleted by the failed sink that left it.                 *)
THEOREM TornCleanedHolds ==
    ASSUME "delete" \notin Faults, "kill" \notin Faults PROVE Spec => []TornCleaned
<1>1. Init => TornCleaned
  BY DEF Init, TornCleaned, NoRows, NoFile, Torn
<1>2. QED BY <1>1, TypedInit, TypedStep, TornStep, PTL DEF Spec

-----------------------------------------------------------------------------
(* READ_ONLY: rows of the cache and rows of upstream.                      *)

Reading == {"scan", "read"}

(* What a query that only reads takes from the cache it does not fetch.     *)
RowSound(m) ==
    /\ m.pc # "done" => m.up = NoRows
    /\ m.pc \in {"plan", "lock", "scan", "read"} /\ m.mode = "READ_ONLY" => Nameable(m.query)
    /\ m.pc \in Reading /\ m.mode \in {"READ_ONLY", "CACHE_ONLY"} /\ m.fetching =>
          ~m.glob /\ m.paths \cap m.fetch = {}
    /\ m.pc = "read" => \A d \in Days : d \notin m.paths => m.ans[d] = NoFile
    /\ m.pc = "done" => \A d \in Days : m.ans[d] = NoFile \/ m.up[d] = NoFile
RowInv == \A p \in Procs : RowSound(me[p])

(* A step keeps cached rows and fetched rows apart.                         *)
LEMMA RowStep ==
    ASSUME \A a \in Asks : a.mode = "READ_ONLY" => Nameable(a.query)
    PROVE  TypedInv /\ RowInv /\ [Next]_vars => RowInv'
<1> SUFFICES ASSUME TypedInv, RowInv, [Next]_vars PROVE RowInv'
  OBVIOUS
<1>1. TypeOK /\ WriterInv
  BY DEF TypedInv
<1>2. CASE World \/ UNCHANGED vars
  <2>1. me' = me
    BY <1>1, <1>2, WorldEffects DEF vars
  <2>2. QED BY <2>1 DEF RowInv
<1>3. CASE \E p \in Procs : Moves(p)
  <2>1. PICK p \in Procs : Moves(p)
    BY <1>3
  <2>2. (\A x \in Procs : x # p => me'[x] = me[x]) /\ WriterSound(me[p])
    BY <1>1, <2>1, MoveEffects DEF WriterInv
  <2>3. SUFFICES RowSound(me'[p])
    BY <2>2 DEF RowInv
  <2>4. RowSound(me[p])
    BY DEF RowInv
  <2>5. \A r \in Local : Becomes(p, r) => me'[p] = r
    BY <1>1, Others DEF TypeOK
  <2>6. CASE \E a \in Asks : Start(p, a)
    <3>1. PICK a \in Asks : Start(p, a)
      BY <2>6
    <3>2. PICK r \in Local :
             Becomes(p, r) /\ Reset(r) /\ r.pc = "plan" /\ r.mode = a.mode /\ r.query = a.query
      BY <1>1, <3>1, StartBecomes
    <3>3. QED BY <2>5, <3>2 DEF RowSound, Reset, Reading
  <2>7. CASE RefuseBatch(p) \/ CleanedUp(p) \/ VisitorRaises(p) \/ ReadFails(p) \/ Kill(p)
    <3>1. Raise(p) \/ Kill(p)
      BY <2>7 DEF RefuseBatch, CleanedUp, VisitorRaises, ReadFails
    <3>2. PICK r \in Local : Becomes(p, r) /\ Reset(r) /\ r.pc \in {"error", "idle"}
      BY <1>1, <3>1, RaiseBecomes, KillBecomes
    <3>3. QED BY <2>5, <3>2 DEF RowSound, Reset, Reading
  <2>8. CASE PlanRead(p)
    <3>1. PICK seen \in Listings, m \in Local, r \in Local, glob \in BOOLEAN, paths \in SUBSET Days :
             /\ m = Planned(p, seen) /\ Becomes(p, r) /\ r.pc = "scan"
             /\ SamePlan(r, m) /\ SameWork(r, m) /\ r.ans = m.ans /\ r.up = m.up
             /\ (r.glob <=> glob) /\ r.paths = paths
             /\ ReadPlanned(m.query, m.refresh, seen, me[p].mode, glob, paths)
             /\ NoWrite(p) \/ ~FetchUpstream(p, me[p].query, seen)
      BY <1>1, <2>8, PlanReadBecomes
    <3>2. /\ m.mode = me[p].mode /\ m.query = me[p].query
          /\ m.refresh = RefreshKeys(p, me[p].query, seen)
          /\ (m.fetching <=> FetchUpstream(p, me[p].query, seen))
          /\ m.fetch = IF FetchUpstream(p, me[p].query, seen)
                       THEN FetchSet(p, me[p].query, seen) ELSE {}
          /\ m.up = me[p].up
      BY <1>1, <3>1, ListingFacts, PlannedFacts DEF SameRead
    <3>3. me[p].up = NoRows /\ (me[p].mode = "READ_ONLY" => Nameable(me[p].query))
      BY <2>4, <2>8 DEF RowSound, PlanRead
    <3>4. me'[p] = r
      BY <2>5, <3>1
    <3>5. ASSUME r.mode \in {"READ_ONLY", "CACHE_ONLY"}, r.fetching
          PROVE  ~r.glob /\ r.paths \cap r.fetch = {}
      <4>1. r.mode = me[p].mode /\ m.fetching /\ r.fetch = m.fetch
        BY <3>1, <3>2, <3>5 DEF SamePlan
      <4>2. me[p].mode = "READ_ONLY" /\ Nameable(me[p].query)
        BY <3>2, <3>3, <3>5, <4>1 DEF FetchUpstream
      <4>3. ~glob /\ paths \subseteq seen /\ paths \cap m.refresh = {}
        BY <3>1, <3>2, <4>2 DEF ReadPlanned
      <4>4. m.fetch \subseteq Scope(me[p].query) \ (seen \ m.refresh)
        BY <3>2, <4>1, <4>2 DEF FetchSet, Rebuilding
      <4>5. QED BY <3>1, <4>1, <4>3, <4>4
    <3>6. QED BY <3>1, <3>2, <3>3, <3>4, <3>5 DEF RowSound, SamePlan, Reading
  <2>9. CASE PlanLock(p)
    <3>1. PICK seen \in Listings, m \in Local, r \in Local :
             /\ m = Planned(p, seen) /\ Becomes(p, r) /\ r.pc = "lock"
             /\ SamePlan(r, m) /\ SameRead(r, m)
      BY <1>1, <2>9, PlanLockBecomes
    <3>2. m.mode = me[p].mode /\ m.query = me[p].query /\ SameRead(m, me[p])
      BY <1>1, <3>1, ListingFacts, PlannedFacts
    <3>3. me[p].up = NoRows /\ (me[p].mode = "READ_ONLY" => Nameable(me[p].query))
      BY <2>4, <2>9 DEF RowSound, PlanLock
    <3>4. me'[p] = r /\ r.up = me[p].up /\ r.mode = me[p].mode /\ r.query = me[p].query
      BY <2>5, <3>1, <3>2 DEF SamePlan, SameRead
    <3>5. QED BY <3>1, <3>3, <3>4 DEF RowSound, Reading
  <2>10. CASE PlanWrite(p)
    <3>1. PICK seen \in Listings, m \in Local, r \in Local :
             /\ m = Planned(p, seen) /\ Becomes(p, r) /\ r.pc = "write"
             /\ SamePlan(r, m) /\ SameRead(r, m)
      BY <1>1, <2>10, PlanWriteBecomes
    <3>2. m.mode = me[p].mode /\ m.query = me[p].query /\ SameRead(m, me[p])
      BY <1>1, <3>1, ListingFacts, PlannedFacts
    <3>3. me[p].up = NoRows /\ (me[p].mode = "READ_ONLY" => Nameable(me[p].query))
      BY <2>4, <2>10 DEF RowSound, PlanWrite
    <3>4. me'[p] = r /\ r.up = me[p].up /\ r.mode = me[p].mode /\ r.query = me[p].query
      BY <2>5, <3>1, <3>2 DEF SamePlan, SameRead
    <3>5. QED BY <3>1, <3>3, <3>4 DEF RowSound, Reading
  <2>11. CASE AcquireLock(p)
    <3>1. PICK r \in Local :
             Becomes(p, r) /\ r.pc = "plan" /\ SamePlan(r, me[p]) /\ SameRead(r, me[p])
      BY <1>1, <2>11, AcquireBecomes
    <3>2. QED BY <2>4, <2>5, <2>11, <3>1
          DEF RowSound, SamePlan, SameRead, Reading, AcquireLock
  <2>12. CASE me'[p].pc \in Writing /\ ~PlanWrite(p)
    <3>1. me[p].pc \in Writing /\ me'[p].up = me[p].up
      BY <1>1, <2>1, <2>2, <2>12, WorkEffects DEF WorkEffect
    <3>2. me[p].up = NoRows
      BY <2>4, <3>1 DEF RowSound, Writing
    <3>3. QED BY <2>12, <3>1, <3>2 DEF RowSound, Writing, Reading
  <2>13. CASE Relist(p)
    <3>1. PICK r \in Local :
             /\ Becomes(p, r) /\ r.pc = "scan" /\ r.mode = me[p].mode /\ r.up = me[p].up
      BY <1>1, <2>13, RelistBecomes
    <3>2. me[p].mode \in {"CACHE", "REBUILD"} /\ me[p].up = NoRows
      BY <2>2, <2>4, <2>13 DEF WriterSound, PlanSound, Relist, Writing, RowSound
    <3>3. QED BY <2>5, <3>1, <3>2 DEF RowSound, Reading
  <2>14. CASE OpenScan(p)
    <3>1. PICK r \in Local :
             /\ Becomes(p, r) /\ r.pc = "read"
             /\ r.paths = IF me[p].glob THEN Listed ELSE me[p].paths
             /\ \A d \in Days : r.ans[d] = IF d \in r.paths THEN files[d] ELSE NoFile
             /\ SamePlan(r, me[p]) /\ r.up = me[p].up
             /\ (r.glob <=> me[p].glob)
      BY <1>1, <2>14, OpenScanBecomes
    <3>2. QED BY ZenonT(40), <2>4, <2>5, <2>14, <3>1 DEF RowSound, SamePlan, Reading, OpenScan
  <2>15. CASE ReadDone(p)
    <3>1. PICK r \in Local :
             /\ Becomes(p, r) /\ r.pc = "done"
             /\ \A d \in Days : r.ans[d] = IF d \in Scope(me[p].query) THEN me[p].ans[d] ELSE NoFile
             /\ \A d \in Days : r.up[d] = IF ReadsUpstream(p) /\ d \in me[p].fetch
                                          THEN Shown(source[d]) ELSE NoFile
      BY <1>1, <2>15, ReadDoneBecomes
    <3>2. ASSUME NEW d \in Days PROVE r.ans[d] = NoFile \/ r.up[d] = NoFile
      <4>1. CASE ReadsUpstream(p) /\ d \in me[p].fetch
        <5>1. d \notin me[p].paths
          BY <2>4, <2>15, <4>1 DEF ReadsUpstream, NoWrite, RowSound, Reading, ReadDone
        <5>2. me[p].ans[d] = NoFile
          BY <2>4, <2>15, <5>1 DEF RowSound, ReadDone
        <5>3. QED BY <3>1, <5>2
      <4>2. CASE ~(ReadsUpstream(p) /\ d \in me[p].fetch)
        BY <3>1, <4>2
      <4>3. QED BY <4>1, <4>2
    <3>3. QED BY <2>5, <3>1, <3>2 DEF RowSound, Reading
  <2>16. CASE ReadRetry(p)
    <3>1. PICK r \in Local :
             Becomes(p, r) /\ r.pc = "scan" /\ SamePlan(r, me[p]) /\ SameRead(r, me[p])
      BY <1>1, <2>16, ReadRetryBecomes
    <3>2. QED BY ZenonT(40), <2>4, <2>5, <2>16, <3>1
          DEF RowSound, SamePlan, SameRead, Reading, ReadRetry
  <2>17. CASE \/ SinkReads(p) \/ (\E d \in Days : SinkFile(p, d)) \/ SinkDone(p) \/ SinkFails(p)
              \/ CleanUp(p) \/ WriteEmpty(p) \/ EmptiesDone(p) \/ DeleteStale(p) \/ StaleDone(p)
    <3>1. me'[p].pc \in Writing
      BY <1>1, <2>2, <2>17, BusyWrites
    <3>2. ~PlanWrite(p)
      BY <2>17 DEF PlanWrite, SinkReads, SinkFile, SinkDone, SinkFails, CleanUp, WriteEmpty,
                   EmptiesDone, DeleteStale, StaleDone
    <3>3. QED BY <2>12, <3>1, <3>2
  <2>18. QED
    BY <2>1, <2>6, <2>7, <2>8, <2>9, <2>10, <2>11, <2>13, <2>14, <2>15, <2>16, <2>17
    DEF Moves, Step
<1>4. QED BY <1>2, <1>3, NextCases

(* When READ_ONLY asks are of ranges that can be enumerated, short enough   *)
(* to be read by explicit paths, no day is answered twice, by the cache     *)
(* and by upstream.  Otherwise it may be: a glob reads what is also         *)
(* fetched.                                                                *)
THEOREM NoRowTwiceHolds ==
    ASSUME \A a \in Asks : a.mode = "READ_ONLY" => Nameable(a.query)
    PROVE  Spec => []NoRowTwice
<1>1. Init => RowInv
  BY IdleFacts DEF Init, RowInv, RowSound, Reading
<1>2. RowInv => NoRowTwice
  <2> SUFFICES ASSUME RowInv, NEW p \in Procs, NEW d \in Days
               PROVE  me[p].ans[d] <= 0 \/ me[p].up[d] <= 0
    BY DEF NoRowTwice
  <2>1. me[p].ans[d] = NoFile \/ me[p].up[d] = NoFile
    BY DEF RowInv, RowSound, NoRows
  <2>2. NoFile <= 0
    BY DEF NoFile
  <2>3. QED BY <2>1, <2>2
<1>3. QED BY <1>1, <1>2, TypedInit, TypedStep, RowStep, PTL DEF Spec

-----------------------------------------------------------------------------
(* Gaps and the days that have arrived.                                    *)

(* Files, listings and gaps are of days that have arrived.                 *)
GapsArrived(m, last) ==
    /\ /\ m.pc \in {"plan", "lock"} \cup Writing
       /\ m.mode \in {"CACHE", "REBUILD"} /\ m.query.kind \in {"finite", "below"}
       => m.query.hi <= last
    /\ m.pc \in Writing => m.listed \subseteq 1..last
    /\ m.pc = "empties" => m.pending \subseteq 1..last
ArrivedInv ==
    /\ InitialFrontier <= frontier
    /\ \A d \in Days : files[d] # NoFile => d <= frontier
    /\ \A p \in Procs : GapsArrived(me[p], frontier)

(* Days up to one that has arrived have arrived.                           *)
LEMMA ArrivedDays ==
    ASSUME frontier \in 0..MaxDay, NEW S \in SUBSET Days, \A d \in S : d <= frontier
    PROVE  S \subseteq 1..frontier
  BY ConstantFacts DEF Days

(* The gaps a write fills have arrived upstream.                            *)
LEMMA MissingArrived ==
    ASSUME TypeOK, NEW p \in Procs, PlanSound(me[p]), GapsArrived(me[p], frontier), me[p].pc \in Writing
    PROVE  MissingEmptyKeys(p) \cup me[p].refresh \subseteq 1..frontier
<1> DEFINE m == me[p]
<1>1. /\ frontier \in 0..MaxDay /\ MaxDay \in Nat /\ Days = 1..MaxDay /\ m.query \in Query
      /\ m.listed \subseteq 1..frontier /\ m.refresh \subseteq m.listed /\ m.listed \in SUBSET Days
      /\ m.mode \in {"CACHE", "REBUILD"}
      /\ m.query.kind \in {"finite", "below"} => m.query.hi <= frontier
  BY ConstantFacts DEF TypeOK, Local, PlanSound, GapsArrived, Days
<1>2. m.query.lo \in 1..MaxDay /\ m.query.hi \in 1..MaxDay
  BY <1>1 DEF Query
<1>3. MissingEmptyKeys(p) \subseteq
         IF Finite(m.query) THEN Scope(m.query) ELSE Clipped(m.query, m.listed)
  BY DEF MissingEmptyKeys
<1>4. CASE Finite(m.query)
  <2>1. Scope(m.query) \subseteq 1..frontier
    BY <1>1, <1>2, <1>4 DEF Finite, Scope
  <2>2. QED BY <1>1, <1>3, <1>4, <2>1
<1>5. CASE ~Finite(m.query)
  <2>1. Clipped(m.query, m.listed) \subseteq 1..frontier
    <3>1. CASE m.listed = {}
      BY <3>1 DEF Clipped
    <3>2. CASE m.listed # {} /\ m.query.kind = "above"
      <4>1. Clipped(m.query, m.listed) = m.query.lo..Max(m.listed)
        BY <3>2 DEF Clipped
      <4>2. Max(m.listed) \in 1..frontier
        BY <1>1, <3>2, Extrema
      <4>3. QED BY <1>1, <1>2, <4>1, <4>2
    <3>3. CASE m.listed # {} /\ m.query.kind = "below"
      <4>1. Clipped(m.query, m.listed) = Min(m.listed)..m.query.hi
        BY <3>3 DEF Clipped
      <4>2. Min(m.listed) \in 1..frontier /\ m.query.hi <= frontier
        BY <1>1, <3>3, Extrema
      <4>3. QED BY <1>1, <1>2, <4>1, <4>2
    <3>4. CASE m.listed # {} /\ m.query.kind \notin {"above", "below"}
      BY <3>4 DEF Clipped
    <3>5. QED BY <3>1, <3>2, <3>3, <3>4
  <2>2. QED BY <1>1, <1>3, <1>5, <2>1
<1>6. QED BY <1>4, <1>5

(* A step keeps files and gaps within the days that have arrived.           *)
LEMMA ArrivedStep ==
    ASSUME \A a \in Asks : a.mode \in {"CACHE", "REBUILD"} /\ a.query.kind \in {"finite", "below"}
                              => a.query.hi <= InitialFrontier
    PROVE  TypedInv /\ SharedInv /\ ArrivedInv /\ [Next]_vars => ArrivedInv'
<1> SUFFICES ASSUME TypedInv, SharedInv, ArrivedInv, [Next]_vars PROVE ArrivedInv'
  OBVIOUS
<1>1. TypeOK /\ WriterInv
  BY DEF TypedInv
<1>2. /\ InitialFrontier <= frontier /\ \A q \in Procs : GapsArrived(me[q], frontier)
      /\ \A d \in Days : files[d] # NoFile => d <= frontier
  BY DEF ArrivedInv
<1>3. /\ frontier \in 0..MaxDay /\ InitialFrontier \in 0..MaxDay /\ MaxDay \in Nat
      /\ \A q \in Procs : me[q].query \in Query
      /\ \A a \in Asks : a.query \in Query
  BY <1>1, ParquetCacheAssumption DEF TypeOK, Local
<1>4. \A q \in Query : q.hi \in Nat
  BY ConstantFacts DEF Query
<1>5. CASE World
  <2>1. UNCHANGED <<files, me>> /\ frontier' \in 0..MaxDay /\ frontier <= frontier'
    BY <1>1, <1>5, WorldEffects
  <2>2. InitialFrontier <= frontier' /\ \A n \in Nat : n <= frontier => n <= frontier'
    BY <1>2, <1>3, <2>1
  <2>3. 1..frontier \subseteq 1..frontier'
    BY <1>3, <2>1
  <2>4. \A d \in Days : files'[d] # NoFile => d <= frontier'
    BY <1>2, <2>1, <2>2, ConstantFacts
  <2>5. ASSUME NEW q \in Procs PROVE GapsArrived(me'[q], frontier')
    <3>1. GapsArrived(me[q], frontier) /\ me'[q] = me[q] /\ me[q].query.hi \in Nat
      BY <1>2, <1>3, <1>4, <2>1
    <3>2. QED BY <2>2, <2>3, <3>1 DEF GapsArrived
  <2>6. QED BY <2>2, <2>4, <2>5 DEF ArrivedInv
<1>6. CASE UNCHANGED vars
  BY <1>6 DEF vars, ArrivedInv, GapsArrived
<1>7. CASE \E p \in Procs : Moves(p)
  <2>1. PICK p \in Procs : Moves(p)
    BY <1>7
  <2>2. /\ \A x \in Procs : x # p => me'[x] = me[x]
        /\ FileEffect(p) /\ UNCHANGED <<source, frontier>> /\ WriterSound(me[p])
    BY <1>1, <2>1, MoveEffects DEF WriterInv
  <2>3. ASSUME NEW d \in Days, files'[d] # NoFile PROVE d <= frontier'
    <3>1. CASE files'[d] = files[d]
      BY <1>2, <2>2, <2>3, <3>1
    <3>2. CASE Writes(p, d) /\ me[p].pc = "empties"
      <4>1. d \in me[p].pending
        BY <1>1, <2>1, <2>2, <3>2 DEF Writes
      <4>2. d \in 1..frontier
        BY <1>2, <3>2, <4>1 DEF GapsArrived
      <4>3. QED BY <1>3, <2>2, <4>2
    <3>3. CASE me[p].pc = "sink" /\ d \in SinkRows(p)
      <4>1. Shown(me[p].snap[d]) # 0 /\ me[p].snap[d] <= source[d] /\ me[p].snap[d] \in Rev
            /\ source[d] \in Rev
        BY <1>1, <3>3 DEF SinkRows, SharedInv, Snapped, TypeOK, Local
      <4>2. me[p].snap[d] # 0
        BY <4>1, ConstantFacts
      <4>3. source[d] # 0
        BY SMTT(30), <4>1, <4>2, ConstantFacts
      <4>4. ~(d > frontier) /\ d \in Nat
        BY <4>3, ConstantFacts DEF SharedInv
      <4>5. QED BY <1>3, <2>2, <4>4
    <3>4. QED BY <1>1, <2>2, <2>3, <3>1, <3>2, <3>3, FilesAfter DEF Writes, Tears
  <2>4. GapsArrived(me'[p], frontier')
    <3>1. \A r \in Local : Becomes(p, r) => me'[p] = r
      BY <1>1, Others DEF TypeOK
    <3>2. GapsArrived(me[p], frontier) /\ frontier' = frontier
      BY <1>2, <2>2
    <3>3. CASE \E a \in Asks : Start(p, a)
      <4>1. PICK a \in Asks : Start(p, a)
        BY <3>3
      <4>2. PICK r \in Local :
               Becomes(p, r) /\ r.pc = "plan" /\ r.mode = a.mode /\ r.query = a.query
        BY <1>1, <4>1, StartBecomes
      <4>3. a.mode \in {"CACHE", "REBUILD"} /\ a.query.kind \in {"finite", "below"}
               => a.query.hi <= frontier
        BY <1>2, <1>3, <1>4
      <4>4. QED BY <3>1, <3>2, <4>2, <4>3 DEF GapsArrived, Writing
    <3>4. CASE me'[p].pc \notin {"plan", "lock"} \cup Writing
      BY <3>4 DEF GapsArrived, Writing
    <3>5. CASE PlanLock(p) \/ PlanWrite(p)
      <4>1. PICK seen \in Listings, m \in Local, r \in Local :
               m = Planned(p, seen) /\ Becomes(p, r) /\ r.pc \in {"lock", "write"} /\ SamePlan(r, m)
        BY <1>1, <3>5, PlanLockBecomes, PlanWriteBecomes
      <4>2. m.mode = me[p].mode /\ m.query = me[p].query /\ m.listed = seen
        BY <1>1, <4>1, ListingFacts, PlannedFacts
      <4>3. seen \subseteq 1..frontier
        <5>1. Listed \subseteq 1..frontier
          BY <1>2, <1>3, ArrivedDays DEF Listed
        <5>2. QED BY <5>1 DEF Listings
      <4>4. me'[p] = r /\ me[p].pc = "plan"
        BY <3>1, <3>5, <4>1 DEF PlanLock, PlanWrite
      <4>5. QED BY <3>2, <4>1, <4>2, <4>3, <4>4 DEF GapsArrived, SamePlan
    <3>6. CASE AcquireLock(p)
      <4>1. PICK r \in Local : Becomes(p, r) /\ r.pc = "plan" /\ SamePlan(r, me[p])
        BY <1>1, <3>6, AcquireBecomes
      <4>2. QED BY <3>1, <3>2, <3>6, <4>1 DEF GapsArrived, SamePlan, AcquireLock, Writing
    <3>7. CASE me'[p].pc \in Writing /\ ~PlanWrite(p)
      <4>1. /\ me[p].pc \in Writing /\ SamePlan(me'[p], me[p])
            /\ \/ me'[p].pc # "empties" \/ SinkDone(p) \/ StaleDone(p)
               \/ me[p].pc = "empties" /\ me'[p].pending \subseteq me[p].pending
        BY <1>1, <2>1, <2>2, <3>7, WorkEffects DEF WorkEffect
      <4>2. me'[p].pc = "empties" => me'[p].pending \subseteq 1..frontier
        <5>1. MissingEmptyKeys(p) \cup me[p].refresh \subseteq 1..frontier
          BY <1>1, <2>2, <3>2, <4>1, MissingArrived DEF WriterSound
        <5>2. CASE SinkDone(p)
          <6>1. PICK r \in Local :
                   /\ Becomes(p, r)
                   /\ r.pending \subseteq MissingEmptyKeys(p) \cup me[p].refresh
            BY <1>1, <2>2, <5>2, SinkDoneBecomes
          <6>2. QED BY <3>1, <5>1, <6>1
        <5>3. CASE StaleDone(p)
          <6>1. PICK r \in Local :
                   /\ Becomes(p, r)
                   /\ r.pending \subseteq MissingEmptyKeys(p) \cup me[p].refresh
            BY <1>1, <2>2, <5>3, StaleDoneBecomes
          <6>2. QED BY <3>1, <5>1, <6>1
        <5>4. QED BY <3>2, <4>1, <5>2, <5>3 DEF GapsArrived
      <4>3. QED BY <3>2, <4>1, <4>2 DEF GapsArrived, SamePlan
    <3>8. CASE me'[p].pc \in {"plan", "lock"}
      <4>1. ~(Raise(p) \/ Kill(p))
        <5>1. Raise(p) \/ Kill(p) => \E r \in Local : Becomes(p, r) /\ r.pc \in {"error", "idle"}
          BY <1>1, RaiseBecomes, KillBecomes
        <5>2. QED BY <3>1, <3>8, <5>1
      <4>2. ~(PlanRead(p) \/ Relist(p) \/ OpenScan(p) \/ ReadDone(p) \/ ReadRetry(p))
        <5>1. PlanRead(p) \/ Relist(p) \/ OpenScan(p) \/ ReadDone(p) \/ ReadRetry(p)
                 => \E r \in Local : Becomes(p, r) /\ r.pc \in {"scan", "read", "done"}
          BY <1>1, PlanReadBecomes, RelistBecomes, OpenScanBecomes, ReadDoneBecomes,
             ReadRetryBecomes
        <5>2. QED BY <3>1, <3>8, <5>1
      <4>3. CASE me[p].pc \in Writing
        <5>1. \/ SinkReads(p) \/ (\E d \in Days : SinkFile(p, d)) \/ SinkDone(p) \/ SinkFails(p)
              \/ CleanUp(p) \/ WriteEmpty(p) \/ EmptiesDone(p) \/ DeleteStale(p) \/ StaleDone(p)
          BY <2>1, <4>1, <4>2, <4>3
          DEF Moves, Step, Start, PlanLock, PlanWrite, AcquireLock, RefuseBatch, CleanedUp,
              VisitorRaises, ReadFails, Writing
        <5>2. me'[p].pc \in Writing
          BY <1>1, <2>2, <5>1, BusyWrites
        <5>3. QED BY <3>8, <5>2 DEF Writing
      <4>4. CASE me[p].pc \notin Writing
        BY <2>1, <3>3, <3>5, <3>6, <4>1, <4>2, <4>4
        DEF Moves, Step, RefuseBatch, SinkReads, SinkFile, SinkDone, SinkFails, CleanUp,
            CleanedUp, WriteEmpty, EmptiesDone, DeleteStale, StaleDone, VisitorRaises, ReadFails,
            Writing
      <4>5. QED BY <4>3, <4>4
    <3>9. QED BY <3>4, <3>5, <3>7, <3>8
  <2>5. ASSUME NEW q \in Procs PROVE GapsArrived(me'[q], frontier')
    <3>1. CASE q = p
      BY <2>4, <3>1
    <3>2. CASE q # p
      <4>1. GapsArrived(me[q], frontier) /\ me'[q] = me[q] /\ frontier' = frontier
        BY <1>2, <2>2, <3>2
      <4>2. QED BY <4>1 DEF GapsArrived
    <3>3. QED BY <3>1, <3>2
  <2>6. QED BY <1>2, <2>2, <2>3, <2>5 DEF ArrivedInv
<1>8. QED BY <1>5, <1>6, <1>7, NextCases

(* If no query writes a range that ends after the last day that has         *)
(* arrived, no gap is filled with an empty file before its day arrives.     *)
THEOREM GapsSettledHolds ==
    ASSUME \A a \in Asks : a.mode \in {"CACHE", "REBUILD"} /\ a.query.kind \in {"finite", "below"}
                              => a.query.hi <= InitialFrontier
    PROVE  Spec => []GapsSettled
<1>1. Init => ArrivedInv
  <2> SUFFICES ASSUME Init PROVE ArrivedInv
    OBVIOUS
  <2>1. frontier = InitialFrontier /\ InitialFrontier \in Nat /\ files = NoRows
    BY ParquetCacheAssumption DEF Init
  <2>2. \A p \in Procs : me[p].pc = "idle"
    BY IdleFacts DEF Init
  <2>3. \A d \in Days : files[d] = NoFile
    BY <2>1 DEF NoRows
  <2>4. QED BY <2>1, <2>2, <2>3 DEF ArrivedInv, GapsArrived, Writing
<1>2. ArrivedInv => GapsSettled
  BY DEF ArrivedInv, GapsArrived, GapsSettled
<1>3. QED
  BY <1>1, <1>2, TypedInit, TypedStep, SharedInit, SharedStep, ArrivedStep, PTL DEF Spec
-----------------------------------------------------------------------------
(* How recent an answer is.  No file is incomplete, and no sink fails.      *)
WholeInv ==
    /\ \A d \in Days : files[d] # Torn
    /\ \A p \in Procs : me[p].pc # "cleanup"
FloorInv == \A p \in Procs : \A d \in Days : me[p].floor[d] <= source[d]

(* A sink has at most as many days as may be open at once: those of a       *)
(* finite range are counted before it starts, other ranges are short.      *)
Fits(q) == Finite(q) \/ Cardinality(Scope(q)) <= MaxOpenSinks
CapSound(m) ==
    /\ m.pc \in {"plan", "lock"} \cup Writing /\ m.mode \in {"CACHE", "REBUILD"} => Fits(m.query)
    /\ m.pc = "sink" => Cardinality(m.batches[1]) <= MaxOpenSinks
CapInv == \A p \in Procs : CapSound(me[p])

(* A day of the scope of a write, whose file has the content "file" of      *)
(* revision "of".  Those it keeps and those it has completed are there and  *)
(* recent; the others are what it found, and are replaced or gone at last.  *)
WriterDay(m, d, file, of) ==
    /\ d \notin m.fetch \/ d \in m.completed => file # NoFile /\ of >= m.floor[d]
    /\ m.pc \in Snapped => m.snap[d] >= m.floor[d]
    /\ file # NoFile /\ d \in m.fetch =>
          d \in m.listed \cup m.completed \/ (m.pc = "sink" /\ d \in m.written)
    /\ m.pc = "sink" /\ d \in m.written => file # NoFile /\ of >= m.floor[d]
    /\ m.pc = "stale" /\ d \in m.pending => file = NoFile
    /\ m.pc = "empties" /\ ~m.batched /\ file # NoFile /\ d \in m.fetch =>
          d \in m.completed \cup m.pending
    /\ m.pc = "relist" /\ file # NoFile /\ d \in m.fetch => d \in m.completed
WriterFreshInv ==
    \A p \in Procs : me[p].pc \in Writing =>
        \A d \in Scope(me[p].query) : WriterDay(me[p], d, files[d], asof[d])

(* A day that a query takes from the cache, when its source is at "last":   *)
(* without a file it had no rows at some moment since the plan.            *)
FromCache(m) ==
    IF m.mode = "CACHE_ONLY" THEN {}
    ELSE Scope(m.query) \ IF m.mode = "READ_ONLY" THEN m.fetch ELSE {}
Gone(m, d, last) == \E r \in m.floor[d]..last : Shown(r) = 0
ReaderDay(m, d, file, of, last) ==
    /\ IF file = NoFile THEN Gone(m, d, last) ELSE of >= m.floor[d]
    /\ ~m.glob /\ d \notin m.paths => Gone(m, d, last)
    /\ m.pc = "read" /\ d \notin m.paths => m.ans[d] = NoFile /\ Gone(m, d, last)
    /\ m.pc = "read" /\ d \in m.paths /\ m.ans[d] # NoFile =>
          m.ans[d] # Torn /\ m.ansof[d] >= m.floor[d]
ReaderFreshInv ==
    \A p \in Procs : me[p].pc \in Reading =>
        /\ me[p].mode = "READ_ONLY" /\ ~me[p].fetching => me[p].fetch = {}
        /\ \A d \in FromCache(me[p]) :
              /\ ReaderDay(me[p], d, files[d], asof[d], source[d])
              /\ \A q \in Procs : me[q].pc \in Snapped => me[q].snap[d] >= me[p].floor[d]

FreshInv ==
    CapInv /\ WholeInv /\ FloorInv /\ WriterFreshInv /\ ReaderFreshInv /\ AnswersFresh

(* A lock, and sinks, listings and deletions that work: a write of a range  *)
(* that is not finite may have all its days open at once.  Files may       *)
(* expire, processes be killed and visitors raise.                         *)
Smooth ==
    /\ UseLock /\ Faults \subseteq {"expiry", "kill", "visitor"}
    /\ \A a \in Asks : a.mode \in {"CACHE", "REBUILD"} => Fits(a.query)

(* With these faults listings and deletions succeed.                        *)
LEMMA NoFailure ==
    ASSUME Smooth, TypeOK
    PROVE  Listings = {Listed} /\ \A d \in Days : Delete(d) => files'[d] = NoFile
<1>1. "delete" \notin Faults /\ "listing" \notin Faults
  BY DEF Smooth
<1>2. \A d \in Days : Delete(d) => files'[d] = NoFile
  BY <1>1 DEF Delete, TypeOK
<1>3. QED BY <1>1, <1>2, ListingFacts

(* With these faults no sink fails.                                         *)
LEMMA SinksFit ==
    ASSUME Smooth, TypeOK, NEW p \in Procs, WriterSound(me[p]), CapSound(me[p])
    PROVE  ~SinkFails(p)
<1> SUFFICES ASSUME SinkFails(p) PROVE FALSE
  OBVIOUS
<1>1. me[p].pc = "sink" /\ Cardinality(SinkRows(p)) > MaxOpenSinks
  BY DEF Smooth, SinkFails
<1>2. Cardinality(me[p].batches[1]) <= MaxOpenSinks
  BY <1>1 DEF CapSound
<1>3. SinkRows(p) \subseteq me[p].batches[1] /\ me[p].batches[1] \in SUBSET Days
  BY ZenonT(40), <1>1, SinkRowsFacts DEF WriterSound, BatchSound, TypeOK, Local
<1>4. Cardinality(SinkRows(p)) \in Nat /\ Cardinality(me[p].batches[1]) \in Nat
      /\ Cardinality(SinkRows(p)) <= Cardinality(me[p].batches[1])
  BY <1>3, DayCount
<1>5. MaxOpenSinks \in Nat
  BY ParquetCacheAssumption
<1>6. QED BY <1>1, <1>2, <1>4, <1>5

(* Where the steps of a query lead.                                        *)
LEMMA StepPlaces ==
    ASSUME TypeOK, NEW p \in Procs, WriterSound(me[p]), Moves(p)
    PROVE  /\ me'[p].pc \in Reading => PlanRead(p) \/ Relist(p) \/ OpenScan(p) \/ ReadRetry(p)
           /\ me'[p].pc = "done" => ReadDone(p)
           /\ me'[p].pc = "cleanup" => SinkFails(p) \/ CleanUp(p)
           /\ me'[p].pc \in Writing =>
                 \/ PlanWrite(p) \/ SinkReads(p) \/ (\E d \in Days : SinkFile(p, d))
                 \/ SinkDone(p) \/ SinkFails(p) \/ CleanUp(p) \/ WriteEmpty(p)
                 \/ EmptiesDone(p) \/ DeleteStale(p) \/ StaleDone(p)
<1>1. \A r \in Local : Becomes(p, r) => me'[p] = r
  BY Others DEF TypeOK
<1>2. CASE RefuseBatch(p) \/ CleanedUp(p) \/ VisitorRaises(p) \/ ReadFails(p) \/ Kill(p)
           \/ \E a \in Asks : Start(p, a)
  <2>1. Raise(p) \/ Kill(p) \/ \E a \in Asks : Start(p, a)
    BY <1>2 DEF RefuseBatch, CleanedUp, VisitorRaises, ReadFails
  <2>2. me'[p].pc \in {"error", "idle", "plan"}
    BY <2>1, RaiseEffects
  <2>3. QED BY <2>2 DEF Writing, Reading
<1>3. CASE PlanLock(p) \/ AcquireLock(p)
  <2>1. \E r \in Local : Becomes(p, r) /\ r.pc \in {"lock", "plan"}
    BY <1>3, PlanLockBecomes, AcquireBecomes
  <2>2. QED BY <1>1, <2>1 DEF Writing, Reading
<1>4. CASE PlanRead(p) \/ Relist(p) \/ OpenScan(p) \/ ReadRetry(p)
  <2>1. \E r \in Local : Becomes(p, r) /\ r.pc \in Reading
    BY <1>4, PlanReadBecomes, RelistBecomes, OpenScanBecomes, ReadRetryBecomes DEF Reading
  <2>2. me'[p].pc \in Reading
    BY <1>1, <2>1
  <2>3. QED BY <1>4, <2>2 DEF Writing, Reading
<1>5. CASE ReadDone(p)
  <2>1. \E r \in Local : Becomes(p, r) /\ r.pc = "done"
    BY <1>5, ReadDoneBecomes
  <2>2. QED BY <1>1, <1>5, <2>1 DEF Writing, Reading
<1>6. CASE PlanWrite(p)
  <2>1. \E r \in Local : Becomes(p, r) /\ r.pc = "write"
    BY <1>6, PlanWriteSound
  <2>2. QED BY <1>1, <1>6, <2>1 DEF Reading
<1>7. CASE SinkFails(p) \/ CleanUp(p)
  <2>1. me'[p].pc \in Writing
    BY <1>7, BusyWrites
  <2>2. QED BY <1>7, <2>1 DEF Reading, Writing
<1>8. CASE \/ SinkReads(p) \/ (\E d \in Days : SinkFile(p, d)) \/ SinkDone(p)
           \/ WriteEmpty(p) \/ EmptiesDone(p) \/ DeleteStale(p) \/ StaleDone(p)
  <2>1. \E r \in Local : Becomes(p, r) /\ r.pc \in Writing \ {"cleanup"}
    <3>1. CASE SinkReads(p) \/ WriteEmpty(p) \/ DeleteStale(p) \/ StaleDone(p)
      BY <3>1, SinkReadsBecomes, WriteEmptyBecomes, DeleteStaleBecomes, StaleDoneBecomes
      DEF Writing
    <3>2. CASE \E d \in Days : SinkFile(p, d)
      BY <3>2, SinkFileBecomes DEF Writing
    <3>3. CASE SinkDone(p)
      BY <3>3, SinkDoneBecomes DEF Writing
    <3>4. CASE EmptiesDone(p)
      BY <3>4, EmptiesDoneBecomes DEF Writing
    <3>5. QED BY <1>8, <3>1, <3>2, <3>3, <3>4
  <2>2. QED BY <1>1, <1>8, <2>1 DEF Reading, Writing
<1>9. QED
  BY <1>2, <1>3, <1>4, <1>5, <1>6, <1>7, <1>8 DEF Moves, Step

(* A query that plans, waits or writes was just started, or is the one it   *)
(* was.                                                                    *)
LEMMA AskKept ==
    ASSUME TypeOK, NEW p \in Procs, WriterSound(me[p]), Moves(p),
           me'[p].pc \in {"plan", "lock"} \cup Writing
    PROVE  \/ \E a \in Asks : me'[p].pc = "plan" /\ me'[p].mode = a.mode /\ me'[p].query = a.query
           \/ /\ me[p].pc \in {"plan", "lock"} \cup Writing
              /\ me'[p].mode = me[p].mode /\ me'[p].query = me[p].query
<1>1. \A r \in Local : Becomes(p, r) => me'[p] = r
  BY Others DEF TypeOK
<1>2. CASE \E a \in Asks : Start(p, a)
  <2>1. PICK a \in Asks : Start(p, a)
    BY <1>2
  <2>2. PICK r \in Local :
           Becomes(p, r) /\ r.pc = "plan" /\ r.mode = a.mode /\ r.query = a.query
    BY <2>1, StartBecomes
  <2>3. QED BY <1>1, <2>2
<1>3. CASE PlanLock(p) \/ PlanWrite(p)
  <2>1. PICK seen \in Listings, m \in Local, r \in Local :
           m = Planned(p, seen) /\ Becomes(p, r) /\ SamePlan(r, m)
    BY <1>3, PlanLockBecomes, PlanWriteBecomes
  <2>2. m.mode = me[p].mode /\ m.query = me[p].query
    BY <2>1, ListingFacts, PlannedFacts
  <2>3. QED BY <1>1, <1>3, <2>1, <2>2 DEF SamePlan, PlanLock, PlanWrite
<1>4. CASE AcquireLock(p)
  <2>1. PICK r \in Local : Becomes(p, r) /\ SamePlan(r, me[p])
    BY <1>4, AcquireBecomes
  <2>2. QED BY <1>1, <1>4, <2>1 DEF SamePlan, AcquireLock
<1>5. CASE me'[p].pc \in Writing /\ ~PlanWrite(p)
  BY <1>5, WorkEffects DEF WorkEffect, SamePlan
<1>6. CASE me'[p].pc \in {"plan", "lock"} /\ ~(\E a \in Asks : Start(p, a))
           /\ ~PlanLock(p) /\ ~AcquireLock(p) /\ ~PlanWrite(p)
  <2>1. ~(Raise(p) \/ Kill(p))
    <3>1. Raise(p) \/ Kill(p) => \E r \in Local : Becomes(p, r) /\ r.pc \in {"error", "idle"}
      BY RaiseBecomes, KillBecomes
    <3>2. QED BY <1>1, <1>6, <3>1
  <2>2. ~(PlanRead(p) \/ Relist(p) \/ OpenScan(p) \/ ReadDone(p) \/ ReadRetry(p))
    <3>1. PlanRead(p) \/ Relist(p) \/ OpenScan(p) \/ ReadDone(p) \/ ReadRetry(p)
             => \E r \in Local : Becomes(p, r) /\ r.pc \in {"scan", "read", "done"}
      BY PlanReadBecomes, RelistBecomes, OpenScanBecomes, ReadDoneBecomes, ReadRetryBecomes
    <3>2. QED BY <1>1, <1>6, <3>1
  <2>3. \/ SinkReads(p) \/ (\E d \in Days : SinkFile(p, d)) \/ SinkDone(p) \/ SinkFails(p)
        \/ CleanUp(p) \/ WriteEmpty(p) \/ EmptiesDone(p) \/ DeleteStale(p) \/ StaleDone(p)
    BY <1>6, <2>1, <2>2
    DEF Moves, Step, RefuseBatch, CleanedUp, VisitorRaises, ReadFails
  <2>4. me'[p].pc \in Writing
    BY <2>3, BusyWrites
  <2>5. QED BY <1>6, <2>4 DEF Writing
<1>7. QED BY <1>2, <1>3, <1>4, <1>5, <1>6

(* A sink reads a batch, or writes one that it has read.                    *)
LEMMA SinkPlaces ==
    ASSUME TypeOK, NEW p \in Procs, WriterSound(me[p]), Moves(p), me'[p].pc = "sink"
    PROVE  SinkReads(p) \/ \E d \in Days : SinkFile(p, d)
<1>1. \A r \in Local : Becomes(p, r) => me'[p] = r
  BY Others DEF TypeOK
<1>2. \/ PlanWrite(p) \/ SinkReads(p) \/ (\E d \in Days : SinkFile(p, d))
      \/ SinkDone(p) \/ SinkFails(p) \/ CleanUp(p) \/ WriteEmpty(p)
      \/ EmptiesDone(p) \/ DeleteStale(p) \/ StaleDone(p)
  BY StepPlaces DEF Writing
<1>3. PlanWrite(p) => \E r \in Local : Becomes(p, r) /\ r.pc = "write"
  BY PlanWriteBecomes
<1>4. SinkDone(p) => \E r \in Local : Becomes(p, r) /\ r.pc \in {"empties", "stale"}
  BY SinkDoneBecomes
<1>5. SinkFails(p) \/ CleanUp(p) => \E r \in Local : Becomes(p, r) /\ r.pc = "cleanup"
  BY SinkFailsBecomes, CleanUpBecomes
<1>6. WriteEmpty(p) \/ StaleDone(p) => \E r \in Local : Becomes(p, r) /\ r.pc = "empties"
  BY WriteEmptyBecomes, StaleDoneBecomes
<1>7. EmptiesDone(p) => \E r \in Local : Becomes(p, r) /\ r.pc \in {"write", "stale", "relist"}
  BY EmptiesDoneBecomes
<1>8. DeleteStale(p) => \E r \in Local : Becomes(p, r) /\ r.pc = "stale"
  BY DeleteStaleBecomes
<1>9. QED BY <1>1, <1>2, <1>3, <1>4, <1>5, <1>6, <1>7, <1>8

(* A step starts no sink that has too many days.                            *)
LEMMA CapStep ==
    ASSUME Smooth PROVE TypedInv /\ CapInv /\ [Next]_vars => CapInv'
<1> SUFFICES ASSUME TypedInv, CapInv, [Next]_vars PROVE CapInv'
  OBVIOUS
<1>1. TypeOK /\ WriterInv
  BY DEF TypedInv
<1>2. CASE World \/ UNCHANGED vars
  <2>1. me' = me
    BY <1>1, <1>2, WorldEffects DEF vars
  <2>2. QED BY <2>1 DEF CapInv
<1>3. CASE \E p \in Procs : Moves(p)
  <2>1. PICK p \in Procs : Moves(p)
    BY <1>3
  <2>2. (\A x \in Procs : x # p => me'[x] = me[x]) /\ WriterSound(me[p]) /\ WriterSound(me'[p])
    BY <1>1, <2>1, MoveEffects DEF WriterInv
  <2>3. CapSound(me[p])
    BY DEF CapInv
  <2>4. me'[p].pc \in {"plan", "lock"} \cup Writing /\ me'[p].mode \in {"CACHE", "REBUILD"}
           => Fits(me'[p].query)
    BY <1>1, <2>1, <2>2, <2>3, AskKept DEF Smooth, CapSound
  <2>5. ASSUME me'[p].pc = "sink" PROVE Cardinality(me'[p].batches[1]) <= MaxOpenSinks
    <3>1. \A r \in Local : Becomes(p, r) => me'[p] = r
      BY <1>1, Others DEF TypeOK
    <3>2. CASE SinkReads(p)
      <4>1. /\ me[p].pc = "write" /\ me'[p].batches = me[p].batches
            /\ Finite(me[p].query) => Cardinality(Head(me[p].batches)) <= MaxOpenSinks
        BY <1>1, <3>1, <3>2, SinkReadsBecomes DEF SinkReads
      <4>2. 1 \in 1..Len(me[p].batches) /\ Head(me[p].batches) = me[p].batches[1]
            /\ me[p].mode \in {"CACHE", "REBUILD"}
        BY <1>1, <2>2, <4>1, SinkRowsFacts DEF WriterSound, PlanSound, Writing
      <4>3. CASE Finite(me[p].query)
        BY <4>1, <4>2, <4>3
      <4>4. CASE ~Finite(me[p].query)
        <5>1. Cardinality(Scope(me[p].query)) <= MaxOpenSinks
          BY <2>3, <4>1, <4>2, <4>4 DEF CapSound, Fits, Writing
        <5>2. me[p].batches[1] \in SUBSET Scope(me[p].query) /\ Scope(me[p].query) \in SUBSET Days
          BY <2>2, <4>1, <4>2 DEF WriterSound, PlanSound, BatchSound, Scope
        <5>3. /\ Cardinality(me[p].batches[1]) \in Nat /\ Cardinality(Scope(me[p].query)) \in Nat
              /\ Cardinality(me[p].batches[1]) <= Cardinality(Scope(me[p].query))
          BY <5>2, DayCount
        <5>4. QED BY <4>1, <5>1, <5>3, ParquetCacheAssumption
      <4>5. QED BY <4>3, <4>4
    <3>3. CASE \E d \in Days : SinkFile(p, d)
      <4>1. me[p].pc = "sink" /\ me'[p].batches = me[p].batches
        BY <1>1, <3>1, <3>3, SinkFileBecomes DEF SinkFile, SameBatches
      <4>2. QED BY <2>3, <4>1 DEF CapSound
    <3>4. QED BY <1>1, <2>1, <2>2, <2>5, <3>2, <3>3, SinkPlaces
  <2>6. CapSound(me'[p])
    BY <2>4, <2>5 DEF CapSound
  <2>7. QED BY <2>2, <2>6 DEF CapInv
<1>4. QED BY <1>2, <1>3, NextCases

(* A step leaves no file incomplete and no sink to clean up after.          *)
LEMMA WholeStep ==
    ASSUME Smooth PROVE TypedInv /\ CapInv /\ WholeInv /\ [Next]_vars => WholeInv'
<1> SUFFICES ASSUME TypedInv, CapInv, WholeInv, [Next]_vars PROVE WholeInv'
  OBVIOUS
<1>1. TypeOK /\ WriterInv
  BY DEF TypedInv
<1>2. CASE World \/ UNCHANGED vars
  <2>1. UNCHANGED <<files, me>>
    BY <1>1, <1>2, WorldEffects DEF vars
  <2>2. QED BY <2>1 DEF WholeInv
<1>3. CASE \E p \in Procs : Moves(p)
  <2>1. PICK p \in Procs : Moves(p)
    BY <1>3
  <2>2. /\ \A x \in Procs : x # p => me'[x] = me[x]
        /\ FileEffect(p) /\ WriterSound(me[p])
    BY <1>1, <2>1, MoveEffects DEF WriterInv
  <2>3. ~SinkFails(p) /\ ~CleanUp(p)
    BY <1>1, <2>2, SinksFit DEF CapInv, WholeInv, CleanUp
  <2>4. me'[p].pc # "cleanup"
    BY <1>1, <2>1, <2>2, <2>3, StepPlaces
  <2>5. ASSUME NEW d \in Days PROVE files'[d] # Torn
    <3>1. CASE files'[d] = files[d]
      BY <3>1 DEF WholeInv
    <3>2. CASE Writes(p, d) /\ files'[d] = Shown(me[p].snap[d])
      <4>1. me[p].snap[d] \in Rev
        BY <1>1 DEF TypeOK, Local
      <4>2. QED BY <3>2, <4>1, ConstantFacts
    <3>3. CASE files'[d] = NoFile
      BY <3>3 DEF NoFile, Torn
    <3>4. CASE \E torn \in SUBSET Days : Tears(p, torn) /\ d \in torn
      BY <2>4, <3>4 DEF Tears
    <3>5. QED BY <1>1, <2>2, <3>1, <3>2, <3>3, <3>4, FilesAfter
  <2>6. QED BY <2>2, <2>4, <2>5 DEF WholeInv
<1>4. QED BY <1>2, <1>3, NextCases

(* A plan allows nothing more recent than the source.                      *)
LEMMA FloorEffects ==
    ASSUME TypeOK, NEW p \in Procs, WriterSound(me[p]), Moves(p)
    PROVE  \/ me'[p].floor = me[p].floor
           \/ me'[p].floor = Zero
           \/ \A d \in Days : me'[p].floor[d] \in {asof[d], source[d]}
<1>1. \A r \in Local : Becomes(p, r) => me'[p] = r
  BY Others DEF TypeOK
<1>2. CASE RefuseBatch(p) \/ CleanedUp(p) \/ VisitorRaises(p) \/ ReadFails(p) \/ Kill(p)
           \/ \E a \in Asks : Start(p, a)
  <2>1. Raise(p) \/ Kill(p) \/ \E a \in Asks : Start(p, a)
    BY <1>2 DEF RefuseBatch, CleanedUp, VisitorRaises, ReadFails
  <2>2. PICK r \in Local : Becomes(p, r) /\ Reset(r)
    BY <2>1, RaisingSound
  <2>3. QED BY <1>1, <2>2 DEF Reset
<1>3. CASE PlanRead(p) \/ PlanLock(p) \/ PlanWrite(p)
  <2>1. PICK seen \in Listings, m \in Local, r \in Local :
           m = Planned(p, seen) /\ Becomes(p, r) /\ SamePlan(r, m)
    BY <1>3, PlanReadBecomes, PlanLockBecomes, PlanWriteBecomes
  <2>2. \A d \in Days : m.floor[d] = IF d \in Trusted(p) THEN asof[d] ELSE source[d]
    BY <2>1, ListingFacts, PlannedFacts
  <2>3. me'[p].floor = m.floor
    BY <1>1, <2>1 DEF SamePlan
  <2>4. QED BY <2>2, <2>3
<1>4. CASE AcquireLock(p) \/ Relist(p) \/ OpenScan(p) \/ ReadDone(p) \/ ReadRetry(p)
  <2>1. \E r \in Local : Becomes(p, r) /\ r.floor = me[p].floor
    <3>1. CASE AcquireLock(p)
      BY <3>1, AcquireBecomes DEF SamePlan
    <3>2. CASE Relist(p)
      BY <3>2, RelistBecomes
    <3>3. CASE OpenScan(p)
      BY <3>3, OpenScanBecomes DEF SamePlan
    <3>4. CASE ReadDone(p)
      BY <3>4, ReadDoneBecomes
    <3>5. CASE ReadRetry(p)
      BY <3>5, ReadRetryBecomes DEF SamePlan
    <3>6. QED BY <1>4, <3>1, <3>2, <3>3, <3>4, <3>5
  <2>2. QED BY <1>1, <2>1
<1>5. CASE \/ SinkReads(p) \/ (\E d \in Days : SinkFile(p, d)) \/ SinkDone(p) \/ SinkFails(p)
           \/ CleanUp(p) \/ WriteEmpty(p) \/ EmptiesDone(p) \/ DeleteStale(p) \/ StaleDone(p)
  <2>1. me'[p].pc \in Writing
    BY <1>5, BusyWrites
  <2>2. ~PlanWrite(p)
    BY <1>5 DEF PlanWrite, SinkReads, SinkFile, SinkDone, SinkFails, CleanUp, WriteEmpty,
                EmptiesDone, DeleteStale, StaleDone
  <2>3. QED BY <2>1, <2>2, WorkEffects DEF WorkEffect, SamePlan
<1>6. QED BY <1>2, <1>3, <1>4, <1>5 DEF Moves, Step

(* A step keeps the floors of the queries below the source.                 *)
LEMMA FloorStep == TypedInv /\ SharedInv /\ FloorInv /\ [Next]_vars => FloorInv'
<1> SUFFICES ASSUME TypedInv, SharedInv, FloorInv, [Next]_vars,
                    NEW q \in Procs, NEW d \in Days
             PROVE  me'[q].floor[d] <= source'[d]
  BY DEF FloorInv
<1>1. TypeOK /\ WriterInv
  BY DEF TypedInv
<1>2. me[q].floor[d] \in Rev /\ source[d] \in Rev /\ me[q].floor[d] <= source[d]
      /\ asof[d] <= source[d]
  BY <1>1 DEF TypeOK, Local, FloorInv, SharedInv
<1>3. CASE World
  <2>1. me' = me /\ source'[d] \in Rev /\ source[d] <= source'[d]
    BY <1>1, <1>3, WorldEffects DEF SharedInv
  <2>2. QED BY <1>2, <2>1, ConstantFacts
<1>4. CASE \E p \in Procs : Moves(p)
  <2>1. PICK p \in Procs : Moves(p)
    BY <1>4
  <2>2. /\ \A x \in Procs : x # p => me'[x] = me[x]
        /\ UNCHANGED source /\ WriterSound(me[p])
    BY <1>1, <2>1, MoveEffects DEF WriterInv
  <2>3. CASE q # p
    BY <1>2, <2>2, <2>3
  <2>4. CASE q = p
    <3>1. \/ me'[q].floor = me[q].floor \/ me'[q].floor = Zero
          \/ me'[q].floor[d] \in {asof[d], source[d]}
      BY <1>1, <2>1, <2>2, <2>4, FloorEffects
    <3>2. Zero[d] = 0 /\ source[d] <= source[d] /\ 0 <= source[d]
      BY <1>2, ConstantFacts DEF Zero
    <3>3. QED BY <1>2, <2>2, <3>1, <3>2
  <2>5. QED BY <2>3, <2>4
<1>5. CASE UNCHANGED vars
  BY <1>2, <1>5 DEF vars
<1>6. QED BY <1>3, <1>4, <1>5, NextCases

(* Revisions are ordered.                                                  *)
LEMMA Revisions ==
    /\ \A r \in Rev : r >= r /\ r <= r
    /\ \A r, t \in Rev : r <= t <=> t >= r
    /\ \A r, t, u \in Rev : r <= t /\ t <= u => r <= u /\ t \in r..u
<1>1. MaxRev \in Nat /\ Rev = 0..MaxRev
  BY ConstantFacts
<1>2. \A r \in Rev : r \in Nat
  BY <1>1
<1>3. \A r, t, u \in Nat : r <= t /\ t <= u => r <= u /\ t \in r..u
  OBVIOUS
<1>4. QED BY <1>2, <1>3

(* A day of the write just planned.                                        *)
LEMMA PlanWriteDay ==
    ASSUME Smooth, TypeOK, NEW p \in Procs, WriterSound(me[p]), PlanWrite(p),
           NEW d \in Scope(me'[p].query)
    PROVE  WriterDay(me'[p], d, files'[d], asof'[d])
<1>1. PICK seen \in Listings, m \in Local, r \in Local :
         /\ m = Planned(p, seen) /\ Becomes(p, r) /\ r.pc = "write"
         /\ SamePlan(r, m) /\ r.completed = m.completed
         /\ ~NoWrite(p) /\ FetchUpstream(p, me[p].query, seen)
  BY PlanWriteBecomes
<1>2. me'[p] = r /\ SameFiles
  BY <1>1, Others DEF TypeOK, PlanWrite, SameFiles
<1>3. seen = Listed /\ d \in Days
  BY NoFailure DEF Scope
<1>4. /\ m.mode \in {"CACHE", "REBUILD"} /\ m.fetch = Scope(m.query) \ KnownKeys(m)
      /\ m.listed = seen /\ m.refresh = RefreshKeys(p, me[p].query, seen)
      /\ m.mode = me[p].mode /\ m.query = me[p].query /\ m.completed = me[p].completed
      /\ m.floor[d] = IF d \in Trusted(p) THEN asof[d] ELSE source[d]
  BY <1>1, <1>3, FetchFacts, PlannedFacts, ListingFacts DEF SameWork
<1>5. r.completed = {}
  BY <1>1, <1>4 DEF PlanWrite, WriterSound, BatchSound
<1>6. d \in Scope(m.query)
  BY <1>1, <1>2 DEF SamePlan
<1>7. d \notin m.fetch => files[d] # NoFile /\ asof[d] >= m.floor[d]
  <2>1. SUFFICES ASSUME d \notin m.fetch PROVE files[d] # NoFile /\ asof[d] >= m.floor[d]
    OBVIOUS
  <2>2. d \in KnownKeys(m)
    BY <1>4, <1>6, <2>1
  <2>3. m.mode = "CACHE" /\ d \in Listed /\ d \notin m.refresh
    BY <1>3, <1>4, <2>2 DEF KnownKeys
  <2>4. d \notin expired
    BY <1>3, <1>4, <1>6, <2>3 DEF RefreshKeys
  <2>5. d \in Trusted(p)
    BY <1>4, <2>3, <2>4 DEF Trusted, Rebuilding
  <2>6. m.floor[d] = asof[d] /\ asof[d] \in Rev
    BY <1>3, <1>4, <2>5 DEF TypeOK
  <2>7. QED BY <2>3, <2>6, Revisions DEF Listed
<1>8. files[d] # NoFile => d \in m.listed
  BY <1>3, <1>4 DEF Listed
<1>9. r.fetch = m.fetch /\ r.floor = m.floor /\ r.listed = m.listed
  BY <1>1 DEF SamePlan
<1>10. files'[d] = files[d] /\ asof'[d] = asof[d]
  BY <1>2 DEF SameFiles
<1> HIDE <1>3, <1>4
<1>11. QED BY <1>1, <1>2, <1>5, <1>7, <1>8, <1>9, <1>10 DEF WriterDay, Snapped

(* A day of a write when its sink reads, closes files and is done.         *)
LEMMA SinkDay ==
    ASSUME TypeOK, FloorInv, NEW p \in Procs, WriterSound(me[p]),
           SinkReads(p) \/ (\E e \in Days : SinkFile(p, e)) \/ SinkDone(p),
           NEW d \in Days, WriterDay(me[p], d, files[d], asof[d])
    PROVE  WriterDay(me'[p], d, files'[d], asof'[d])
<1>1. \A r \in Local : Becomes(p, r) => me'[p] = r
  BY Others DEF TypeOK
<1>2. CASE SinkReads(p)
  <2>1. PICK r \in Local :
           /\ Becomes(p, r) /\ r.pc = "sink" /\ r.snap = source /\ r.written = {}
           /\ SamePlan(r, me[p]) /\ r.completed = me[p].completed
    BY <1>2, SinkReadsBecomes
  <2>2. me'[p] = r /\ me[p].pc = "write" /\ UNCHANGED <<files, asof>>
    BY <1>1, <1>2, <2>1 DEF SinkReads
  <2>3. source[d] >= me[p].floor[d]
    <3>1. source[d] \in Rev /\ me[p].floor[d] \in Rev /\ me[p].floor[d] <= source[d]
      BY DEF TypeOK, Local, FloorInv
    <3>2. QED BY <3>1, Revisions
  <2>4. QED BY <2>1, <2>2, <2>3 DEF WriterDay, SamePlan
<1>3. CASE \E e \in Days : SinkFile(p, e)
  <2>1. PICK e \in Days : SinkFile(p, e)
    BY <1>3
  <2>2. PICK r \in Local :
           /\ Becomes(p, r) /\ r.pc = "sink" /\ r.written = me[p].written \cup {e}
           /\ SamePlan(r, me[p]) /\ SameBatches(r, me[p]) /\ r.completed = me[p].completed
    BY <2>1, SinkFileBecomes
  <2>3. me'[p] = r /\ me[p].pc = "sink" /\ Write(e, Shown(me[p].snap[e]), me[p].snap[e])
    BY <1>1, <2>1, <2>2 DEF SinkFile
  <2>4. me[p].snap[d] \in Rev /\ Shown(me[p].snap[d]) # NoFile /\ me[p].snap[d] >= me[p].floor[d]
    <3>1. me[p].snap[d] \in Rev
      BY DEF TypeOK, Local
    <3>2. QED BY <2>3, <3>1, ConstantFacts DEF WriterDay, Snapped
  <2>5. CASE d = e
    <3>1. files'[d] = Shown(me[p].snap[d]) /\ asof'[d] = me[p].snap[d]
      BY <2>3, <2>5 DEF Write, TypeOK
    <3>2. QED BY <2>2, <2>3, <2>4, <2>5, <3>1 DEF WriterDay, SamePlan, SameBatches
  <2>6. CASE d # e
    <3>1. files'[d] = files[d] /\ asof'[d] = asof[d]
      BY <2>3, <2>6 DEF Write, TypeOK
    <3>2. QED BY <2>2, <2>3, <2>6, <3>1 DEF WriterDay, SamePlan, SameBatches
  <2>7. QED BY <2>5, <2>6
<1>4. CASE SinkDone(p)
  <2>1. PICK r \in Local :
           /\ Becomes(p, r) /\ r.pc = IF me[p].batched THEN "empties" ELSE "stale"
           /\ SamePlan(r, me[p]) /\ SameBatches(r, me[p])
           /\ r.completed = me[p].completed \cup SinkRows(p)
           /\ ~me[p].batched => r.pending = {}
    BY <1>4, SinkDoneBecomes
  <2>2. me'[p] = r /\ me[p].pc = "sink" /\ me[p].written = SinkRows(p)
        /\ UNCHANGED <<files, asof>>
    BY <1>1, <1>4, <2>1 DEF SinkDone
  <2>3. QED BY <2>1, <2>2 DEF WriterDay, SamePlan, SameBatches, Snapped
<1>5. QED BY <1>2, <1>3, <1>4

(* A day of a write when gaps are filled.                                  *)
LEMMA EmptiesDay ==
    ASSUME TypeOK, NEW p \in Procs, WriterSound(me[p]), WriteEmpty(p) \/ EmptiesDone(p),
           NEW d \in Days, WriterDay(me[p], d, files[d], asof[d])
    PROVE  WriterDay(me'[p], d, files'[d], asof'[d])
<1>1. \A r \in Local : Becomes(p, r) => me'[p] = r
  BY Others DEF TypeOK
<1>2. me[p].pc = "empties" /\ me[p].snap[d] >= me[p].floor[d]
  BY DEF WriteEmpty, EmptiesDone, WriterDay, Snapped
<1>3. CASE WriteEmpty(p)
  <2>1. PICK r \in Local, e \in me[p].pending :
           /\ Becomes(p, r) /\ r.pc = "empties" /\ r.pending = me[p].pending \ {e}
           /\ SamePlan(r, me[p]) /\ SameBatches(r, me[p])
           /\ r.completed = me[p].completed \cup {e}
           /\ e \in Days /\ Write(e, 0, me[p].snap[e])
    BY <1>3, WriteEmptyBecomes
  <2>2. me'[p] = r
    BY <1>1, <2>1
  <2>3. CASE d = e
    <3>1. files'[d] = 0 /\ asof'[d] = me[p].snap[d] /\ NoFile # 0
      BY <2>1, <2>3 DEF Write, TypeOK, NoFile
    <3>2. QED BY <1>2, <2>1, <2>2, <2>3, <3>1 DEF WriterDay, SamePlan, SameBatches
  <2>4. CASE d # e
    <3>1. files'[d] = files[d] /\ asof'[d] = asof[d]
      BY <2>1, <2>4 DEF Write, TypeOK
    <3>2. QED BY <1>2, <2>1, <2>2, <2>4, <3>1 DEF WriterDay, SamePlan, SameBatches
  <2>5. QED BY <2>3, <2>4
<1>4. CASE EmptiesDone(p)
  <2>1. PICK r \in Local, more \in BOOLEAN :
           /\ more <=> Len(me[p].batches) > 1
           /\ Becomes(p, r)
           /\ r.pc = IF more THEN "write" ELSE IF me[p].batched THEN "stale" ELSE "relist"
           /\ SamePlan(r, me[p]) /\ r.snap = me[p].snap
           /\ r.completed = me[p].completed /\ r.pending = me[p].pending
    BY <1>4, EmptiesDoneBecomes
  <2>2. me'[p] = r /\ me[p].pending = {} /\ UNCHANGED <<files, asof>>
    BY <1>1, <1>4, <2>1 DEF EmptiesDone
  <2>3. PICK m : m = me[p]
    OBVIOUS
  <2>4. r.pc \in {"write", "stale"} \/ (r.pc = "relist" /\ ~m.batched)
    BY <2>1, <2>3
  <2>5. /\ r.snap = m.snap /\ r.completed = m.completed /\ r.pending = {} /\ r.fetch = m.fetch
        /\ r.floor = m.floor /\ r.listed = m.listed
    BY <2>1, <2>2, <2>3 DEF SamePlan
  <2>6. m.pc = "empties" /\ m.pending = {} /\ WriterDay(m, d, files[d], asof[d])
    BY <1>2, <2>2, <2>3
  <2>7. WriterDay(r, d, files[d], asof[d])
    BY <2>4, <2>5, <2>6 DEF WriterDay, Snapped
  <2>8. QED BY <2>2, <2>7
<1>5. QED BY <1>3, <1>4

(* A day of a write when stale files are deleted.                          *)
LEMMA StaleDay ==
    ASSUME Smooth, TypeOK, NEW p \in Procs, WriterSound(me[p]), DeleteStale(p) \/ StaleDone(p),
           NEW d \in Scope(me[p].query), WriterDay(me[p], d, files[d], asof[d])
    PROVE  WriterDay(me'[p], d, files'[d], asof'[d])
<1>1. \A r \in Local : Becomes(p, r) => me'[p] = r
  BY Others DEF TypeOK
<1>2. PICK m : m = me[p]
  OBVIOUS
<1>3. m.pc = "stale" /\ WriterSound(m) /\ d \in Days /\ WriterDay(m, d, files[d], asof[d])
  BY <1>2 DEF DeleteStale, StaleDone, Scope
<1>4. /\ m.mode \in {"CACHE", "REBUILD"} /\ m.fetch = Scope(m.query) \ KnownKeys(m)
      /\ m.mode = "REBUILD" => m.completed \subseteq m.wrote
      /\ m.wrote \subseteq m.completed
  BY <1>3 DEF WriterSound, PlanSound, BatchSound, Writing
<1>5. CASE DeleteStale(p)
  <2>1. PICK r \in Local, e \in StaleKeys(p) \ me[p].pending :
           /\ Becomes(p, r) /\ r.pc = "stale" /\ r.pending = me[p].pending \cup {e}
           /\ SamePlan(r, me[p]) /\ SameWork(r, me[p])
           /\ e \in Days /\ Delete(e)
    BY <1>5, DeleteStaleBecomes
  <2>2. me'[p] = r /\ asof' = asof
    BY <1>1, <1>5, <2>1 DEF DeleteStale
  <2>3. files'[e] = NoFile /\ \A x \in Days : x # e => files'[x] = files[x]
    BY <2>1, NoFailure DEF Delete, TypeOK
  <2>4. m.mode = "REBUILD" /\ e \notin m.wrote /\ e \in Scope(m.query)
    BY <1>2, <2>1 DEF StaleKeys, Rebuilding
  <2>5. e \in m.fetch /\ e \notin m.completed
    BY <1>4, <2>4 DEF KnownKeys
  <2>6. /\ r.snap = m.snap /\ r.completed = m.completed /\ r.fetch = m.fetch
        /\ r.floor = m.floor /\ r.listed = m.listed /\ r.pending = m.pending \cup {e}
    BY <1>2, <2>1 DEF SamePlan, SameWork, SameBatches
  <2>7. CASE d = e
    BY <1>3, <2>1, <2>2, <2>3, <2>5, <2>6, <2>7 DEF WriterDay, Snapped
  <2>8. CASE d # e
    BY <1>3, <2>1, <2>2, <2>3, <2>6, <2>8 DEF WriterDay, Snapped
  <2>9. QED BY <2>7, <2>8
<1>6. CASE StaleDone(p)
  <2>1. PICK r \in Local :
           /\ Becomes(p, r) /\ r.pc = "empties"
           /\ r.pending = ((MissingEmptyKeys(p) \cup me[p].refresh) \ me[p].wrote)
                          \ me[p].completed
           /\ SamePlan(r, me[p]) /\ SameWork(r, me[p])
    BY <1>6, StaleDoneBecomes
  <2>2. me'[p] = r /\ UNCHANGED <<files, asof>> /\ StaleKeys(p) \subseteq me[p].pending
    BY <1>1, <1>6, <2>1 DEF StaleDone
  <2>3. Finite(m.query) => MissingEmptyKeys(p) = m.fetch \ m.wrote
    BY <1>2, <1>3, MissingFacts DEF WriterSound, Writing
  <2>4. ASSUME files[d] # NoFile, d \in m.fetch, d \notin m.completed
        PROVE  d \in r.pending
    <3>1. d \in m.listed /\ d \notin m.wrote
      BY <1>3, <1>4, <2>4 DEF WriterDay
    <3>2. CASE m.mode = "CACHE"
      <4>1. d \in m.refresh
        BY <1>4, <2>4, <3>1, <3>2 DEF KnownKeys
      <4>2. QED BY <1>2, <2>1, <2>4, <3>1, <4>1
    <3>3. CASE m.mode = "REBUILD" /\ Finite(m.query)
      BY <1>2, <2>1, <2>3, <2>4, <3>1, <3>3
    <3>4. CASE m.mode = "REBUILD" /\ ~Finite(m.query)
      <4>1. d \in StaleKeys(p)
        BY <1>2, <3>1, <3>4 DEF StaleKeys, Rebuilding
      <4>2. d \in m.pending
        BY <1>2, <2>2, <4>1
      <4>3. QED BY <1>3, <2>4, <4>2 DEF WriterDay
    <3>5. QED BY <1>4, <3>2, <3>3, <3>4
  <2>5. /\ r.snap = m.snap /\ r.completed = m.completed /\ r.fetch = m.fetch
        /\ r.floor = m.floor /\ r.listed = m.listed
    BY <1>2, <2>1 DEF SamePlan, SameWork, SameBatches
  <2>6. WriterDay(r, d, files[d], asof[d])
    BY <1>3, <2>1, <2>4, <2>5 DEF WriterDay, Snapped
  <2>7. QED BY <2>2, <2>6
<1>7. QED BY <1>5, <1>6

(* A step keeps what a write owes each day it fetches.                      *)
LEMMA WriterFreshStep ==
    ASSUME Smooth
    PROVE  TypedInv /\ LockInv /\ CapInv /\ WholeInv /\ FloorInv /\ WriterFreshInv
              /\ [Next]_vars => WriterFreshInv'
<1> SUFFICES ASSUME TypedInv, LockInv, CapInv, WholeInv, FloorInv, WriterFreshInv, [Next]_vars,
                    NEW q \in Procs, me'[q].pc \in Writing, NEW d \in Scope(me'[q].query)
             PROVE  WriterDay(me'[q], d, files'[d], asof'[d])
  BY DEF WriterFreshInv
<1>1. TypeOK /\ WriterInv /\ d \in Days
  BY DEF TypedInv, Scope
<1>2. CASE World \/ UNCHANGED vars
  <2>1. UNCHANGED <<files, asof, me>>
    BY <1>1, <1>2, WorldEffects DEF vars
  <2>2. QED BY <2>1 DEF WriterFreshInv
<1>3. CASE \E p \in Procs : Moves(p)
  <2>1. PICK p \in Procs : Moves(p)
    BY <1>3
  <2>2. /\ \A x \in Procs : x # p => me'[x] = me[x]
        /\ FileEffect(p) /\ WriterSound(me[p])
    BY <1>1, <2>1, MoveEffects DEF WriterInv
  <2>3. CASE q # p
    <3>1. me'[q] = me[q] /\ lock = q
      BY <2>2, <2>3 DEF LockInv
    <3>2. me[p].pc \notin Writing
      BY <2>3, <3>1 DEF LockInv
    <3>3. files'[d] = files[d] /\ asof'[d] = asof[d]
      BY <1>1, <2>2, <3>2, FilesAfter, FilesInScope
    <3>4. QED BY <3>1, <3>3 DEF WriterFreshInv
  <2>4. CASE q = p /\ PlanWrite(p)
    BY <1>1, <2>2, <2>4, PlanWriteDay
  <2>5. CASE q = p /\ ~PlanWrite(p)
    <3>1. me[p].pc \in Writing /\ SamePlan(me'[p], me[p])
      BY <1>1, <2>1, <2>2, <2>5, WorkEffects DEF WorkEffect
    <3>2. d \in Scope(me[p].query) /\ WriterDay(me[p], d, files[d], asof[d])
      BY <2>5, <3>1 DEF WriterFreshInv, SamePlan
    <3>3. ~SinkFails(p) /\ ~CleanUp(p)
      BY <1>1, <2>2, SinksFit DEF CapInv, WholeInv, CleanUp
    <3>4. \/ SinkReads(p) \/ (\E e \in Days : SinkFile(p, e)) \/ SinkDone(p)
          \/ WriteEmpty(p) \/ EmptiesDone(p) \/ DeleteStale(p) \/ StaleDone(p)
      BY <1>1, <2>1, <2>2, <2>5, <3>3, StepPlaces
    <3>5. QED BY <1>1, <2>2, <2>5, <3>2, <3>4, SinkDay, EmptiesDay, StaleDay
  <2>6. QED BY <2>3, <2>4, <2>5
<1>4. QED BY <1>2, <1>3, NextCases

(* A query that starts to read without writing takes from the cache only    *)
(* complete files that its plan trusts.                                    *)
LEMMA PlanReadDay ==
    ASSUME Smooth, TypeOK, NEW p \in Procs, WriterSound(me[p]), PlanRead(p),
           NEW d \in FromCache(me'[p])
    PROVE  /\ files[d] # NoFile /\ me'[p].floor[d] = asof[d] /\ d \in Days
           /\ ~me'[p].glob => d \in me'[p].paths
<1>1. PICK seen \in Listings, m \in Local, r \in Local, glob \in BOOLEAN, paths \in SUBSET Days :
         /\ m = Planned(p, seen) /\ Becomes(p, r) /\ r.pc = "scan" /\ SamePlan(r, m)
         /\ (r.glob <=> glob) /\ r.paths = paths
         /\ ReadPlanned(m.query, m.refresh, seen, me[p].mode, glob, paths)
         /\ NoWrite(p) \/ ~FetchUpstream(p, me[p].query, seen)
  BY PlanReadBecomes
<1>2. me'[p] = r
  BY <1>1, Others DEF TypeOK
<1>3. seen = Listed
  BY <1>1, NoFailure
<1>4. /\ m.mode = me[p].mode /\ m.query = me[p].query
      /\ m.refresh = RefreshKeys(p, me[p].query, seen)
      /\ m.fetch = IF FetchUpstream(p, me[p].query, seen)
                   THEN FetchSet(p, me[p].query, seen) ELSE {}
      /\ \A e \in Days : m.floor[e] = IF e \in Trusted(p) THEN asof[e] ELSE source[e]
  BY <1>1, ListingFacts, PlannedFacts
<1>5. r.mode = me[p].mode /\ r.query = me[p].query /\ r.fetch = m.fetch /\ r.floor = m.floor
  BY <1>1, <1>4 DEF SamePlan
<1>6. /\ me[p].mode # "CACHE_ONLY" /\ d \in Scope(me[p].query) /\ d \in Days
      /\ me[p].mode = "READ_ONLY" => d \notin m.fetch
  BY <1>2, <1>5 DEF FromCache, Scope
<1>7. me[p].mode \in Modes
  BY DEF TypeOK, Local
<1>8. d \notin FetchSet(p, me[p].query, seen)
  <2>1. CASE FetchUpstream(p, me[p].query, seen)
    BY <1>1, <1>4, <1>6, <2>1 DEF NoWrite
  <2>2. CASE ~FetchUpstream(p, me[p].query, seen)
    BY <1>6, <2>2 DEF FetchUpstream
  <2>3. QED BY <2>1, <2>2
<1>9. /\ me[p].mode \in {"CACHE", "READ_ONLY"} /\ d \in seen
      /\ d \notin RefreshKeys(p, me[p].query, seen)
  BY <1>6, <1>7, <1>8 DEF FetchSet, Rebuilding, Modes
<1>10. d \in Trusted(p)
  BY <1>3, <1>6, <1>9 DEF Trusted, RefreshKeys, Rebuilding
<1>11. ~glob => d \in paths
  BY <1>1, <1>4, <1>6, <1>9 DEF ReadPlanned
<1>12. files[d] # NoFile /\ m.floor[d] = asof[d]
  BY <1>4, <1>6, <1>10 DEF Trusted, Listed
<1>13. QED BY <1>1, <1>2, <1>5, <1>6, <1>11, <1>12

(* A write leaves a day of its scope with a recent file, or without one if  *)
(* it had no rows when the source was read.                                *)
LEMMA RelistDay ==
    ASSUME Smooth, TypeOK, SharedInv, WriterFreshInv, NEW p \in Procs, WriterSound(me[p]), Relist(p),
           NEW d \in FromCache(me'[p])
    PROVE  /\ IF files[d] = NoFile THEN Gone(me'[p], d, source[d])
              ELSE asof[d] >= me'[p].floor[d]
           /\ ~me'[p].glob /\ files[d] # NoFile => d \in me'[p].paths
<1>1. PICK seen \in Listings, r \in Local, glob \in BOOLEAN, paths \in SUBSET Days :
         /\ Becomes(p, r) /\ (r.glob <=> glob) /\ r.paths = paths
         /\ ReadPlanned(me[p].query, me[p].refresh, seen, me[p].mode, glob, paths)
         /\ r.mode = me[p].mode /\ r.query = me[p].query /\ r.fetch = me[p].fetch
         /\ r.floor = me[p].floor
  BY RelistBecomes
<1>2. me'[p] = r /\ seen = Listed /\ me[p].pc = "relist"
  <2>1. me'[p] = r
    BY <1>1, Others DEF TypeOK
  <2>2. seen = Listed
    BY <1>1, NoFailure
  <2>3. QED BY <2>1, <2>2 DEF Relist
<1>3. PICK m : m = me[p]
  OBVIOUS
<1>4. m.pc = "relist" /\ m.mode \in {"CACHE", "REBUILD"}
  BY <1>2, <1>3 DEF WriterSound, PlanSound, Writing
<1>5. d \in Scope(m.query) /\ d \in Days
  BY <1>1, <1>2, <1>3, <1>4 DEF FromCache, Scope
<1>6. WriterDay(m, d, files[d], asof[d])
  BY <1>3, <1>4, <1>5 DEF WriterFreshInv, Writing
<1>7. CASE files[d] = NoFile
  <2>1. d \in m.fetch \ m.completed
    BY <1>6, <1>7 DEF WriterDay
  <2>2. Shown(m.snap[d]) = 0
    BY <1>3, <1>4, <2>1 DEF WriterSound, GapSound, Finishing, Rowless
  <2>3. m.snap[d] \in Rev /\ m.floor[d] \in Rev /\ source[d] \in Rev
    BY <1>3, <1>5 DEF TypeOK, Local
  <2>4. m.floor[d] <= m.snap[d] /\ m.snap[d] <= source[d]
    <3>1. m.snap[d] >= m.floor[d] /\ m.snap[d] <= source[d]
      BY <1>3, <1>4, <1>5, <1>6 DEF WriterDay, Snapped, SharedInv
    <3>2. QED BY <2>3, <3>1, Revisions
  <2>5. m.snap[d] \in m.floor[d]..source[d]
    BY <2>3, <2>4, ConstantFacts
  <2>6. Gone(r, d, source[d])
    BY <1>1, <1>3, <2>2, <2>5 DEF Gone
  <2>7. QED BY <1>2, <1>7, <2>6
<1>8. CASE files[d] # NoFile
  <2>1. d \notin m.fetch \/ d \in m.completed
    BY <1>4, <1>6, <1>8 DEF WriterDay
  <2>2. asof[d] >= m.floor[d]
    BY <1>6, <2>1 DEF WriterDay
  <2>3. d \in Listed
    BY <1>5, <1>8 DEF Listed
  <2>4. ~glob => d \in paths
    BY <1>1, <1>2, <1>3, <1>4, <1>5, <2>3 DEF ReadPlanned
  <2>5. QED BY <1>1, <1>2, <1>3, <1>8, <2>2, <2>4
<1>9. QED BY <1>7, <1>8

(* Scanning and reading again keep what was said of a day.                 *)
LEMMA ScanDay ==
    ASSUME TypeOK, WholeInv, NEW p \in Procs, OpenScan(p) \/ ReadRetry(p),
           NEW d \in Days, ReaderDay(me[p], d, files[d], asof[d], source[d])
    PROVE  ReaderDay(me'[p], d, files[d], asof[d], source[d])
<1>1. \A r \in Local : Becomes(p, r) => me'[p] = r
  BY Others DEF TypeOK
<1>2. PICK m : m = me[p]
  OBVIOUS
<1>3. ReaderDay(m, d, files[d], asof[d], source[d])
  BY <1>2
<1>4. CASE OpenScan(p)
  <2>1. PICK r \in Local :
           /\ Becomes(p, r) /\ r.pc = "read" /\ r.ansof = asof
           /\ r.paths = IF me[p].glob THEN Listed ELSE me[p].paths
           /\ \A x \in Days : r.ans[x] = IF x \in r.paths THEN files[x] ELSE NoFile
           /\ SamePlan(r, me[p]) /\ (r.glob <=> me[p].glob)
    BY <1>4, OpenScanBecomes
  <2>2. me'[p] = r
    BY <1>1, <2>1
  <2>3. r.floor = m.floor /\ (r.glob <=> m.glob)
        /\ r.paths = (IF m.glob THEN Listed ELSE m.paths)
        /\ r.ans[d] = (IF d \in r.paths THEN files[d] ELSE NoFile)
    BY <1>2, <2>1 DEF SamePlan
  <2>4. d \notin Listed => files[d] = NoFile
    BY DEF Listed
  <2>5. files[d] # Torn
    BY DEF WholeInv
  <2>6. ReaderDay(r, d, files[d], asof[d], source[d])
    BY <1>3, <2>1, <2>3, <2>4, <2>5 DEF ReaderDay, Gone
  <2>7. QED BY <2>2, <2>6
<1>5. CASE ReadRetry(p)
  <2>1. PICK r \in Local :
           Becomes(p, r) /\ r.pc = "scan" /\ SamePlan(r, me[p]) /\ SameRead(r, me[p])
    BY <1>5, ReadRetryBecomes
  <2>2. me'[p] = r
    BY <1>1, <2>1
  <2>3. r.floor = m.floor /\ (r.glob <=> m.glob) /\ r.paths = m.paths
    BY <1>2, <2>1 DEF SamePlan, SameRead
  <2>4. ReaderDay(r, d, files[d], asof[d], source[d])
    BY <1>3, <2>1, <2>3 DEF ReaderDay, Gone
  <2>5. QED BY <2>2, <2>4
<1>6. QED BY <1>4, <1>5

(* A day without rows stays one that had none while the source goes on.    *)
LEMMA GoneStays ==
    ASSUME NEW m, NEW d, m.floor[d] \in Rev, NEW last \in Rev, NEW later \in Rev,
           last <= later, Gone(m, d, last)
    PROVE  Gone(m, d, later)
<1>1. PICK r \in m.floor[d]..last : Shown(r) = 0
  BY DEF Gone
<1>2. r \in m.floor[d]..later
  <2>1. PICK low : low = m.floor[d]
    OBVIOUS
  <2>2. low \in Nat /\ last \in Nat /\ later \in Nat /\ r \in low..last
    BY <1>1, <2>1, ConstantFacts
  <2>3. r \in low..later
    BY <2>2
  <2>4. QED BY <2>1, <2>3
<1>3. QED BY <1>1, <1>2 DEF Gone

(* A day that q reads, when another process p writes or deletes its file.  *)
LEMMA OtherDay ==
    ASSUME Smooth, TypeOK, SharedInv, WholeInv, WholeInv',
           NEW q \in Procs, NEW p \in Procs, WriterSound(me[p]), FileEffect(p),
           NEW d \in Days, ReaderDay(me[q], d, files[d], asof[d], source[d]),
           me[p].pc \in Snapped => me[p].snap[d] >= me[q].floor[d]
    PROVE  ReaderDay(me[q], d, files'[d], asof'[d], source[d])
<1>1. SUFFICES IF files'[d] = NoFile THEN Gone(me[q], d, source[d])
               ELSE asof'[d] >= me[q].floor[d]
  BY DEF ReaderDay
<1>2. CASE files'[d] = files[d] /\ asof'[d] = asof[d]
  BY <1>2 DEF ReaderDay
<1>3. CASE Writes(p, d) /\ files'[d] = Shown(me[p].snap[d]) /\ asof'[d] = me[p].snap[d]
  <2>1. me[p].pc \in Snapped /\ me[p].snap[d] \in Rev
    BY <1>3 DEF Writes, Snapped, TypeOK, Local
  <2>2. files'[d] # NoFile
    BY <1>3, <2>1, ConstantFacts
  <2>3. QED BY <1>3, <2>1, <2>2
<1>4. CASE Deletes(p, d) /\ files'[d] = NoFile
  <2>1. me[p].pc = "stale" /\ d \in StaleKeys(p)
    BY <1>4 DEF Deletes, WholeInv
  <2>2. me[p].mode = "REBUILD" /\ d \in Scope(me[p].query) \ me[p].wrote
    BY <2>1 DEF StaleKeys, Rebuilding
  <2>3. d \in me[p].fetch \ me[p].completed
    BY <2>1, <2>2 DEF WriterSound, PlanSound, BatchSound, KnownKeys, Writing
  <2>4. Shown(me[p].snap[d]) = 0
    BY <2>1, <2>3 DEF WriterSound, GapSound, Finishing, Rowless
  <2>5. me[p].snap[d] \in Rev /\ me[q].floor[d] \in Rev /\ source[d] \in Rev
    BY DEF TypeOK, Local
  <2>6. me[q].floor[d] <= me[p].snap[d] /\ me[p].snap[d] <= source[d]
    <3>1. me[p].snap[d] >= me[q].floor[d] /\ me[p].snap[d] <= source[d]
      BY <2>1 DEF SharedInv, Snapped
    <3>2. QED BY <2>5, <3>1, Revisions
  <2>7. me[p].snap[d] \in me[q].floor[d]..source[d]
    BY <2>5, <2>6, Revisions
  <2>8. QED BY <1>4, <2>4, <2>7 DEF Gone
<1>5. CASE files'[d] = Torn
  BY <1>5 DEF WholeInv
<1>6. QED BY <1>2, <1>3, <1>4, <1>5, FilesAfter

(* A step keeps what a read owes each day in scope.                         *)
LEMMA ReaderFreshStep ==
    ASSUME Smooth
    PROVE  TypedInv /\ SharedInv /\ LockInv /\ CapInv /\ WholeInv /\ FloorInv
              /\ WriterFreshInv /\ ReaderFreshInv /\ [Next]_vars => ReaderFreshInv'
<1> SUFFICES ASSUME TypedInv, SharedInv, LockInv, CapInv, WholeInv, FloorInv, WriterFreshInv,
                    ReaderFreshInv, [Next]_vars, NEW q \in Procs, me'[q].pc \in Reading
             PROVE  /\ me'[q].mode = "READ_ONLY" /\ ~me'[q].fetching => me'[q].fetch = {}
                    /\ \A d \in FromCache(me'[q]) :
                          /\ ReaderDay(me'[q], d, files'[d], asof'[d], source'[d])
                          /\ \A x \in Procs :
                                me'[x].pc \in Snapped => me'[x].snap[d] >= me'[q].floor[d]
  BY DEF ReaderFreshInv
<1>1. TypeOK /\ WriterInv
  BY DEF TypedInv
<1>2. WholeInv'
  BY WholeStep
<1>3. \A d \in FromCache(me'[q]) : d \in Days
  BY DEF FromCache, Scope
<1>4. CASE World
  <2>1. UNCHANGED <<files, asof, me>>
        /\ \A d \in Days : source'[d] \in Rev /\ source[d] <= source'[d]
    BY <1>1, <1>4, WorldEffects DEF SharedInv
  <2>2. ASSUME NEW d \in FromCache(me[q])
        PROVE  ReaderDay(me[q], d, files[d], asof[d], source'[d])
    <3>1. d \in Days /\ ReaderDay(me[q], d, files[d], asof[d], source[d])
      BY <1>3, <2>1, <2>2 DEF ReaderFreshInv
    <3>2. me[q].floor[d] \in Rev /\ source[d] \in Rev /\ source'[d] \in Rev
          /\ source[d] <= source'[d]
      BY <1>1, <2>1, <3>1 DEF TypeOK, Local
    <3>3. Gone(me[q], d, source[d]) => Gone(me[q], d, source'[d])
      BY <3>2, GoneStays
    <3>4. QED BY <3>1, <3>3 DEF ReaderDay
  <2>3. QED BY <2>1, <2>2 DEF ReaderFreshInv
<1>5. CASE UNCHANGED vars
  BY <1>5 DEF vars, ReaderFreshInv
<1>6. CASE \E p \in Procs : Moves(p)
  <2>1. PICK p \in Procs : Moves(p)
    BY <1>6
  <2>2. /\ \A x \in Procs : x # p => me'[x] = me[x]
        /\ SnapEffect(p) /\ FileEffect(p) /\ UNCHANGED source /\ WriterSound(me[p])
    BY <1>1, <2>1, MoveEffects DEF WriterInv
  <2>3. CASE q # p
    <3>1. me'[q] = me[q] /\ me[q].pc \in Reading
      BY <2>2, <2>3
    <3>2. me[q].mode = "READ_ONLY" /\ ~me[q].fetching => me[q].fetch = {}
      BY <3>1 DEF ReaderFreshInv
    <3>3. ASSUME NEW d \in FromCache(me[q])
          PROVE  /\ ReaderDay(me[q], d, files'[d], asof'[d], source[d])
                 /\ \A x \in Procs : me'[x].pc \in Snapped => me'[x].snap[d] >= me[q].floor[d]
      <4>1. /\ d \in Days /\ ReaderDay(me[q], d, files[d], asof[d], source[d])
            /\ \A x \in Procs : me[x].pc \in Snapped => me[x].snap[d] >= me[q].floor[d]
        BY <1>3, <3>1, <3>3 DEF ReaderFreshInv
      <4>2. ReaderDay(me[q], d, files'[d], asof'[d], source[d])
        BY <1>1, <1>2, <2>2, <4>1, OtherDay
      <4>3. source[d] >= me[q].floor[d]
        <5>1. source[d] \in Rev /\ me[q].floor[d] \in Rev /\ me[q].floor[d] <= source[d]
          BY <1>1, <4>1 DEF TypeOK, Local, FloorInv
        <5>2. QED BY <5>1, Revisions
      <4>4. me'[p].pc \in Snapped => me'[p].snap[d] >= me[q].floor[d]
        BY <2>2, <4>1, <4>3 DEF SnapEffect
      <4>5. QED BY <2>2, <4>1, <4>2, <4>4
    <3>4. QED BY <2>2, <3>1, <3>2, <3>3
  <2>4. CASE q = p /\ PlanRead(p)
    <3>1. PICK seen \in Listings, m \in Local, r \in Local :
             m = Planned(p, seen) /\ Becomes(p, r) /\ r.pc = "scan" /\ SamePlan(r, m)
      BY <1>1, <2>4, PlanReadBecomes
    <3>2. me'[p] = r
      BY <1>1, <3>1, Others DEF TypeOK
    <3>3. ~r.fetching => r.fetch = {}
      BY <1>1, <3>1, ListingFacts, PlannedFacts DEF SamePlan
    <3>4. ASSUME NEW d \in FromCache(r)
          PROVE  /\ ReaderDay(r, d, files[d], asof[d], source[d])
                 /\ \A x \in Procs : me'[x].pc \in Snapped => me'[x].snap[d] >= r.floor[d]
      <4>1. /\ files[d] # NoFile /\ r.floor[d] = asof[d] /\ d \in Days
            /\ ~r.glob => d \in r.paths
        BY <1>1, <2>2, <2>4, <3>2, <3>4, PlanReadDay
      <4>2. asof[d] \in Rev /\ asof[d] >= asof[d]
        BY <1>1, <4>1, Revisions DEF TypeOK
      <4>3. ReaderDay(r, d, files[d], asof[d], source[d])
        BY <3>1, <4>1, <4>2 DEF ReaderDay
      <4>4. ASSUME NEW x \in Procs, me'[x].pc \in Snapped PROVE me'[x].snap[d] >= r.floor[d]
        <5>1. x # p
          BY <3>1, <3>2, <4>4 DEF Snapped
        <5>2. me'[x] = me[x] /\ asof[d] <= me[x].snap[d] /\ me[x].snap[d] \in Rev
          BY SMTT(30), <1>1, <2>2, <4>1, <4>4, <5>1 DEF LockInv, TypeOK, Local
        <5>3. QED BY <4>1, <4>2, <5>2, Revisions
      <4>5. QED BY <4>3, <4>4
    <3>5. UNCHANGED <<files, asof>>
      BY <2>4 DEF PlanRead
    <3>6. QED BY <2>2, <2>4, <3>2, <3>3, <3>4, <3>5
  <2>5. CASE q = p /\ Relist(p)
    <3>1. PICK r \in Local :
             /\ Becomes(p, r) /\ r.pc = "scan" /\ r.mode = me[p].mode
      BY <1>1, <2>5, RelistBecomes
    <3>2. me'[p] = r /\ me[p].pc = "relist" /\ UNCHANGED <<files, asof>>
      BY <1>1, <2>5, <3>1, Others DEF TypeOK, Relist
    <3>3. r.mode # "READ_ONLY"
      BY <2>2, <3>1, <3>2 DEF WriterSound, PlanSound, Writing
    <3>4. ASSUME NEW d \in FromCache(r)
          PROVE  /\ ReaderDay(r, d, files[d], asof[d], source[d])
                 /\ \A x \in Procs : me'[x].pc \in Snapped => me'[x].snap[d] >= r.floor[d]
      <4>1. /\ IF files[d] = NoFile THEN Gone(r, d, source[d]) ELSE asof[d] >= r.floor[d]
            /\ ~r.glob /\ files[d] # NoFile => d \in r.paths
        BY <1>1, <2>2, <2>5, <3>2, <3>4, RelistDay
      <4>2. ReaderDay(r, d, files[d], asof[d], source[d])
        BY <3>1, <4>1 DEF ReaderDay
      <4>3. ASSUME NEW x \in Procs, me'[x].pc \in Snapped PROVE FALSE
        <5>1. x # p
          BY <3>1, <3>2, <4>3 DEF Snapped
        <5>2. lock = x /\ lock = p
          BY <2>2, <3>2, <4>3, <5>1 DEF LockInv, Writing, Snapped
        <5>3. QED BY <5>1, <5>2
      <4>4. QED BY <4>2, <4>3
    <3>5. QED BY <2>2, <2>5, <3>2, <3>3, <3>4
  <2>6. CASE q = p /\ (OpenScan(p) \/ ReadRetry(p))
    <3>1. PICK r \in Local : Becomes(p, r) /\ r.pc \in Reading /\ SamePlan(r, me[p])
      BY <1>1, <2>6, OpenScanBecomes, ReadRetryBecomes DEF Reading
    <3>2. me'[p] = r /\ me[p].pc \in Reading /\ UNCHANGED <<files, asof>>
      BY <1>1, <2>6, <3>1, Others DEF TypeOK, OpenScan, ReadRetry, Reading
    <3>3. r.mode = "READ_ONLY" /\ ~r.fetching => r.fetch = {}
      BY <3>1, <3>2 DEF ReaderFreshInv, SamePlan
    <3>4. FromCache(r) = FromCache(me[p])
      BY <3>1 DEF FromCache, SamePlan
    <3>5. ASSUME NEW d \in FromCache(r)
          PROVE  /\ ReaderDay(r, d, files[d], asof[d], source[d])
                 /\ \A x \in Procs : me'[x].pc \in Snapped => me'[x].snap[d] >= r.floor[d]
      <4>1. /\ d \in Days /\ ReaderDay(me[p], d, files[d], asof[d], source[d])
            /\ \A x \in Procs : me[x].pc \in Snapped => me[x].snap[d] >= me[p].floor[d]
        BY <1>3, <2>6, <3>2, <3>4, <3>5 DEF ReaderFreshInv
      <4>2. ReaderDay(r, d, files[d], asof[d], source[d])
        BY <1>1, <2>6, <3>2, <4>1, ScanDay
      <4>3. ASSUME NEW x \in Procs, me'[x].pc \in Snapped PROVE me'[x].snap[d] >= r.floor[d]
        <5>1. x # p
          BY <3>1, <3>2, <4>3 DEF Snapped, Reading
        <5>2. QED BY <2>2, <3>1, <4>1, <4>3, <5>1 DEF SamePlan
      <4>4. QED BY <4>2, <4>3
    <3>6. QED BY <2>2, <2>6, <3>2, <3>3, <3>5
  <2>7. QED BY <1>1, <2>1, <2>2, <2>3, <2>4, <2>5, <2>6, StepPlaces
<1>7. QED BY <1>4, <1>5, <1>6, NextCases

(* A step keeps the answers fresh.                                          *)
LEMMA AnswersStep ==
    TypedInv /\ SharedInv /\ ReaderFreshInv /\ AnswersFresh /\ [Next]_vars => AnswersFresh'
<1> SUFFICES ASSUME TypedInv, SharedInv, ReaderFreshInv, AnswersFresh, [Next]_vars,
                    NEW q \in Procs, NEW d \in Scope(me'[q].query),
                    me'[q].pc = "done", me'[q].mode # "CACHE_ONLY", me'[q].up[d] = NoFile
             PROVE  IF me'[q].ans[d] = NoFile
                    THEN Gone(me'[q], d, source'[d])
                    ELSE me'[q].ans[d] # Torn /\ me'[q].ansof[d] >= me'[q].floor[d]
  BY DEF AnswersFresh, Gone
<1>1. TypeOK /\ WriterInv /\ d \in Days
  BY DEF TypedInv, Scope
<1>2. ASSUME me'[q] = me[q], source[d] <= source'[d], source'[d] \in Rev
      PROVE  IF me[q].ans[d] = NoFile
             THEN Gone(me[q], d, source'[d])
             ELSE me[q].ans[d] # Torn /\ me[q].ansof[d] >= me[q].floor[d]
  <2>1. IF me[q].ans[d] = NoFile
        THEN Gone(me[q], d, source[d])
        ELSE me[q].ans[d] # Torn /\ me[q].ansof[d] >= me[q].floor[d]
    BY <1>2 DEF AnswersFresh, Gone
  <2>2. me[q].floor[d] \in Rev /\ source[d] \in Rev
    BY <1>1 DEF TypeOK, Local
  <2>3. QED BY <1>2, <2>1, <2>2, GoneStays
<1>3. source[d] \in Rev /\ source[d] <= source[d]
  BY <1>1, Revisions DEF TypeOK
<1>4. CASE World
  <2>1. me' = me /\ source'[d] \in Rev /\ source[d] <= source'[d]
    BY <1>1, <1>4, WorldEffects DEF SharedInv
  <2>2. QED BY <1>2, <2>1
<1>5. CASE UNCHANGED vars
  <2>1. me' = me /\ source' = source
    BY <1>5 DEF vars
  <2>2. QED BY <1>2, <1>3, <2>1
<1>6. CASE \E p \in Procs : Moves(p)
  <2>1. PICK p \in Procs : Moves(p)
    BY <1>6
  <2>2. /\ \A x \in Procs : x # p => me'[x] = me[x]
        /\ UNCHANGED source /\ WriterSound(me[p])
    BY <1>1, <2>1, MoveEffects DEF WriterInv
  <2>3. CASE q # p
    BY <1>2, <1>3, <2>2, <2>3
  <2>4. CASE q = p
    <3>1. ReadDone(p)
      BY <1>1, <2>1, <2>2, <2>4, StepPlaces
    <3>2. PICK r \in Local :
             /\ Becomes(p, r) /\ r.pc = "done"
             /\ r.mode = me[p].mode /\ r.query = me[p].query
             /\ r.floor = me[p].floor /\ r.ansof = me[p].ansof
             /\ \A x \in Days : r.ans[x] = IF x \in Scope(me[p].query) THEN me[p].ans[x] ELSE NoFile
             /\ \A x \in Days : r.up[x] = IF ReadsUpstream(p) /\ x \in me[p].fetch
                                          THEN Shown(source[x]) ELSE NoFile
      BY <1>1, <3>1, ReadDoneBecomes
    <3>3. PICK m : m = me[p]
      OBVIOUS
    <3>4. me'[q] = r /\ m.pc = "read" /\ ~Unresolved(p)
      BY <1>1, <2>4, <3>1, <3>2, <3>3, Others DEF TypeOK, ReadDone
    <3>5. d \in Scope(m.query) /\ m.mode # "CACHE_ONLY" /\ r.ans[d] = m.ans[d]
      BY <1>1, <3>2, <3>3, <3>4
    <3>6. ~(ReadsUpstream(p) /\ d \in m.fetch)
      BY <1>1, <1>3, <3>2, <3>3, <3>4, ConstantFacts
    <3>7. d \in FromCache(m)
      <4>1. CASE m.mode = "READ_ONLY" /\ m.fetching
        BY <3>3, <3>5, <3>6, <4>1 DEF ReadsUpstream, NoWrite, FromCache
      <4>2. CASE m.mode = "READ_ONLY" /\ ~m.fetching
        <5>1. m.fetch = {}
          BY <3>3, <3>4, <4>2 DEF ReaderFreshInv, Reading
        <5>2. QED BY <3>5, <5>1 DEF FromCache
      <4>3. CASE m.mode # "READ_ONLY"
        BY <3>5, <4>3 DEF FromCache
      <4>4. QED BY <4>1, <4>2, <4>3
    <3>8. ReaderDay(m, d, files[d], asof[d], source[d])
      BY <3>3, <3>4, <3>7 DEF ReaderFreshInv, Reading
    <3>9. d \in m.paths => m.ans[d] # NoFile
      BY <3>3, <3>4 DEF Unresolved
    <3>10. IF m.ans[d] = NoFile
           THEN Gone(m, d, source[d])
           ELSE m.ans[d] # Torn /\ m.ansof[d] >= m.floor[d]
      BY <3>4, <3>8, <3>9 DEF ReaderDay
    <3>11. QED BY <2>2, <3>2, <3>3, <3>4, <3>5, <3>10 DEF Gone
  <2>5. QED BY <2>3, <2>4
<1>7. QED BY <1>4, <1>5, <1>6, NextCases

(* No query has started initially.                                          *)
LEMMA FreshInit == Init => FreshInv
<1> SUFFICES ASSUME Init PROVE FreshInv
  OBVIOUS
<1>1. \A p \in Procs : me[p] = Idle
  BY DEF Init
<1>2. WholeInv
  BY <1>1, IdleFacts DEF Init, WholeInv, NoRows, NoFile, Torn
<1>3. FloorInv
  <2>1. \A d \in Days : source[d] \in Rev /\ Zero[d] = 0
    BY ConstantFacts DEF Init, Zero
  <2>2. QED BY <1>1, <2>1, IdleFacts, ConstantFacts DEF FloorInv
<1>4. WriterFreshInv /\ ReaderFreshInv /\ AnswersFresh /\ CapInv
  BY <1>1, IdleFacts
  DEF WriterFreshInv, ReaderFreshInv, AnswersFresh, CapInv, CapSound, Writing, Reading
<1>5. QED BY <1>2, <1>3, <1>4 DEF FreshInv

(* The parts of FreshInv are inductive together.                            *)
LEMMA FreshStep ==
    ASSUME Smooth
    PROVE  TypedInv /\ SharedInv /\ LockInv /\ FreshInv /\ [Next]_vars => FreshInv'
<1> SUFFICES ASSUME TypedInv, SharedInv, LockInv, FreshInv, [Next]_vars PROVE FreshInv'
  OBVIOUS
<1>1. CapInv /\ WholeInv /\ FloorInv /\ WriterFreshInv /\ ReaderFreshInv /\ AnswersFresh
  BY DEF FreshInv
<1>2. CapInv' /\ WholeInv' /\ FloorInv' /\ WriterFreshInv'
  BY <1>1, CapStep, WholeStep, FloorStep, WriterFreshStep
<1>3. ReaderFreshInv' /\ AnswersFresh'
  BY <1>1, ReaderFreshStep, AnswersStep
<1>4. QED BY <1>2, <1>3 DEF FreshInv

(* Every answer is at least as recent as the plan it came from, however     *)
(* queries interleave with each other and with the source, if no sink,      *)
(* listing or deletion fails and writers hold a lock.                      *)
THEOREM AnswersFreshHolds == ASSUME Smooth PROVE Spec => []AnswersFresh
<1>1. UseLock
  BY DEF Smooth
<1>2. FreshInv => AnswersFresh
  BY DEF FreshInv
<1>3. TypedInv /\ SharedInv /\ LockInv /\ [Next]_vars => LockInv'
  BY <1>1, LockStep
<1>4. QED
  BY <1>2, <1>3, TypedInit, TypedStep, SharedInit, SharedStep, LockInit, FreshInit, FreshStep, PTL
  DEF Spec

=============================================================================
