------------------------- MODULE ColumnCache_proofs -------------------------
(***************************************************************************)
(* Proofs about ColumnCache for every set of threads, partitions, columns  *)
(* and asks, with and without validation and eviction: type correctness,   *)
(* the inductive invariant ColumnInv, and the three safety properties.     *)
(***************************************************************************)
EXTENDS ColumnCache, TLAPS

(* Nothing is newer than the source: what is cached, and what a collect    *)
(* has read, collected or seen, was in the source.                         *)
SourceInv ==
    /\ \A e \in Entries : cache[e] <= latest[e[1]]
    /\ \A t \in Collectors : \A e \in Entries :
          locals[t].data[e] <= latest[e[1]] /\ locals[t].new[e] <= latest[e[1]]
    /\ \A t \in Collectors : \A p \in Parts : locals[t].floor[p] <= latest[p]

(* Of the entries asked for, a collect with locals L reads only those it   *)
(* found at first.                                                         *)
Reads(L) ==
    L.pc \in {"read", "publish"} =>
        \A e \in L.ask.scope \X L.ask.cols : e \in L.found \/ L.data[e] # 0 => e \in L.hit

(* Partition p is missing altogether, or has every column asked for.       *)
Complete(L, p) ==
    \/ L.floor[p] = 0 /\ \A c \in Cols : L.data[<<p, c>>] = 0 /\ L.new[<<p, c>>] = 0
    \/ \A c \in L.ask.cols : L.data[<<p, c>>] # 0 \/ L.new[<<p, c>>] # 0

(* What a collect is about to publish is, with what it has read, complete, *)
(* and as recent as its start where nothing was cached.                    *)
Collected(L) ==
    L.pc = "publish" =>
        /\ \A p \in L.ask.scope : Complete(L, p)
        /\ \A e \in (L.ask.scope \X L.ask.cols) \ L.hit : L.new[e] >= L.floor[e[1]]

(* An answer is complete, and as recent as the collect's start likewise.   *)
Answered(L) ==
    L.pc = "done" =>
        /\ \A p \in L.ask.scope : Complete(L, p) /\ \A c \in Cols : L.new[<<p, c>>] = 0
        /\ \A e \in (L.ask.scope \X L.ask.cols) \ L.hit : L.data[e] >= L.floor[e[1]]

(* The locals of every collect are sound.                                  *)
Sound(L) == Reads(L) /\ Collected(L) /\ Answered(L)

ColumnInv == SourceInv /\ \A t \in Collectors : Sound(locals[t])

-----------------------------------------------------------------------------
(* An entry is a partition and a column.                                   *)
LEMMA EntryFacts ==
    /\ \A e \in Entries : e[1] \in Parts /\ e[2] \in Cols /\ e = <<e[1], e[2]>>
    /\ \A p \in Parts, c \in Cols :
          <<p, c>> \in Entries /\ <<p, c>>[1] = p /\ <<p, c>>[2] = c
  BY DEF Entries

(* The collects write their own locals only.                               *)
LEMMA OthersKept ==
    ASSUME ColumnTypeOK, NEW t \in Collectors, NEW r, locals' = [locals EXCEPT ![t] = r]
    PROVE  locals'[t] = r /\ \A u \in Collectors : u # t => locals'[u] = locals[u]
  BY DEF ColumnTypeOK

(* The locals of a thread, by their types.                                 *)
Local == [pc : {"idle", "read", "publish", "done", "error"},
          ask : ColumnAsks \cup {NoAsk},
          found : SUBSET Entries,
          data : [Entries -> Revision],
          new : [Entries -> Revision],
          hit : SUBSET Entries,
          floor : [Parts -> Revision]]

(* A thread that starts afresh, or fails, has well-typed locals.           *)
LEMMA IdleTyped ==
    ASSUME NEW how \in {"idle", "error"}
    PROVE  /\ [AtRest EXCEPT !.pc = how] \in Local
           /\ [AtRest EXCEPT !.pc = how].found = {}
           /\ Empty \in [Entries -> Revision]
<1>1. 0 \in Revision
  BY ColumnCacheAssumption DEF Revision
<1>2. Empty \in [Entries -> Revision] /\ [p \in Parts |-> 0] \in [Parts -> Revision]
  BY <1>1 DEF Empty
<1>3. QED BY <1>2 DEF AtRest, Local, NoAsk

(* A step of thread t that gives it well-typed locals keeps the types.     *)
LEMMA LocalTyped ==
    ASSUME ColumnTypeOK, NEW t \in Collectors, NEW r \in Local, locals' = [locals EXCEPT ![t] = r],
           r.found \subseteq r.ask.scope \X Cols,
           latest' = latest, cache' \in [Entries -> Revision]
    PROVE  ColumnTypeOK'
<1>1. locals \in [Collectors -> Local]
  BY DEF ColumnTypeOK, Local
<1>2. locals' \in [Collectors -> Local]
  BY <1>1
<1>3. \A u \in Collectors : locals'[u].found \subseteq locals'[u].ask.scope \X Cols
  BY OthersKept DEF ColumnTypeOK
<1>4. QED BY <1>2, <1>3 DEF ColumnTypeOK, Local

(* What an ask may find is in its scope.                                   *)
LEMMA AskFacts ==
    ASSUME NEW ask \in ColumnAsks
    PROVE  /\ ask.scope \subseteq Parts /\ ask.cols \subseteq Cols
           /\ Select(ask) \subseteq Cols /\ ask.cols \subseteq Select(ask)
           /\ CachedEntries(ask) \subseteq ask.scope \X Cols
           /\ CachedEntries(ask) \subseteq Entries
           /\ ask.scope \X ask.cols \subseteq Entries
  BY ColumnCacheAssumption DEF ColumnAsk, Select, CachedEntries, Entries

(* A collect that has started asks one of the Asks.                        *)
LEMMA AskTyped ==
    ASSUME ColumnTypeOK, NEW t \in Collectors
    PROVE  /\ locals[t] \in Local /\ locals[t].ask.scope \subseteq Parts /\ locals[t].ask.cols \subseteq Cols
           /\ Select(locals[t].ask) \subseteq Cols /\ locals[t].ask.cols \subseteq Select(locals[t].ask)
           /\ locals[t].ask.scope \X locals[t].ask.cols \subseteq Entries
<1>1. locals[t] \in Local
  BY DEF ColumnTypeOK, Local
<1>2. CASE locals[t].ask \in ColumnAsks
  BY <1>1, <1>2, AskFacts
<1>3. CASE locals[t].ask = NoAsk
  BY <1>1, <1>3 DEF NoAsk, Select
<1>4. QED BY <1>1, <1>2, <1>3 DEF Local

(* The variables keep their types (type invariant of cache).               *)
THEOREM TypeCorrect == ColumnSpec => []ColumnTypeOK
<1>1. ColumnInit => ColumnTypeOK
  <2> SUFFICES ASSUME ColumnInit PROVE ColumnTypeOK
    OBVIOUS
  <2>1. latest \in [Parts -> Revision] /\ cache \in [Entries -> Revision]
    BY IdleTyped, ColumnCacheAssumption DEF ColumnInit, Revision
  <2>2. AtRest = [AtRest EXCEPT !.pc = "idle"]
    BY DEF AtRest
  <2>3. AtRest \in Local /\ AtRest.found = {}
    BY <2>2, IdleTyped
  <2>4. locals \in [Collectors -> Local] /\ \A t \in Collectors : locals[t].found = {}
    BY <2>3 DEF ColumnInit
  <2>5. QED BY <2>1, <2>4 DEF ColumnTypeOK, Local
<1>2. ColumnTypeOK /\ [ColumnNext]_columnVars => ColumnTypeOK'
  <2> SUFFICES ASSUME ColumnTypeOK, [ColumnNext]_columnVars PROVE ColumnTypeOK'
    OBVIOUS
  <2>1. ASSUME NEW p \in Parts, PartitionChanges(p) PROVE ColumnTypeOK'
    <3>1. latest' \in [Parts -> Revision]
      BY <2>1, ColumnCacheAssumption DEF ColumnTypeOK, PartitionChanges, Revision
    <3>2. QED BY <2>1, <3>1 DEF ColumnTypeOK, PartitionChanges
  <2>2. ASSUME NEW e \in Entries, Evict(e) PROVE ColumnTypeOK'
    <3>1. cache' \in [Entries -> Revision]
      BY <2>2, ColumnCacheAssumption DEF ColumnTypeOK, Evict, Revision
    <3>2. QED BY <2>2, <3>1 DEF ColumnTypeOK, Evict
  <2>3. ASSUME NEW t \in Collectors, NEW ask \in ColumnAsks, Discover(t, ask) PROVE ColumnTypeOK'
    <3> DEFINE floor == [p \in Parts |-> IF p \in ask.scope THEN latest[p] ELSE 0]
               hit == {e \in ask.scope \X ask.cols : ask.mode = "cache" /\ cache[e] # 0}
               r == [pc |-> "read", ask |-> ask, found |-> CachedEntries(ask), data |-> Empty,
                     new |-> Empty, hit |-> hit, floor |-> floor]
    <3>1. floor \in [Parts -> Revision] /\ hit \subseteq Entries
      BY AskFacts, ColumnCacheAssumption DEF ColumnTypeOK, Revision
    <3> HIDE DEF floor, hit
    <3>3. r \in Local /\ r.found \subseteq r.ask.scope \X Cols
      BY <3>1, AskFacts, IdleTyped DEF Local
    <3>4. locals' = [locals EXCEPT ![t] = r] /\ latest' = latest /\ cache' = cache
      BY <2>3 DEF Discover, floor, hit
    <3>5. QED BY <3>3, <3>4, LocalTyped DEF ColumnTypeOK
  <2>4. ASSUME NEW t \in Collectors, NEW e \in Entries, ReadEntry(t, e) PROVE ColumnTypeOK'
    <3> DEFINE r == [locals[t] EXCEPT !.data = [locals[t].data EXCEPT ![e] = cache[e]],
                                  !.found = locals[t].found \ {e}]
    <3>1. locals[t] \in Local /\ cache[e] \in Revision
      BY AskTyped DEF ColumnTypeOK
    <3>2. r \in Local /\ r.found \subseteq r.ask.scope \X Cols
      BY <3>1 DEF Local, ColumnTypeOK
    <3>3. locals' = [locals EXCEPT ![t] = r] /\ latest' = latest /\ cache' = cache
      BY <2>4, <3>1 DEF ReadEntry, ColumnTypeOK, Local
    <3>4. QED BY <3>2, <3>3, LocalTyped DEF ColumnTypeOK
  <2>5. ASSUME NEW t \in Collectors, EntryGone(t) \/ CollectFails(t) PROVE ColumnTypeOK'
    BY <2>5, IdleTyped, LocalTyped DEF ColumnTypeOK, EntryGone, CollectFails
  <2>6. ASSUME NEW t \in Collectors, CollectMissing(t) PROVE ColumnTypeOK'
    <3> DEFINE New(e) == IF e[1] \in locals[t].ask.scope /\ e[2] \in ColsToCollect(t, e[1])
                         THEN latest[e[1]] ELSE 0
               new == [e \in Entries |-> New(e)]
               r == [locals[t] EXCEPT !.pc = "publish", !.new = new]
    <3>1. new \in [Entries -> Revision]
      <4>1. 0 \in Revision
        BY ColumnCacheAssumption DEF Revision
      <4>2. \A e \in Entries : latest[e[1]] \in Revision
        BY EntryFacts DEF ColumnTypeOK
      <4>3. \A e \in Entries : New(e) \in Revision
        BY <4>1, <4>2
      <4> HIDE DEF New
      <4>4. QED BY <4>3
    <3> HIDE DEF new, New
    <3>2. r \in Local /\ r.found \subseteq r.ask.scope \X Cols
      <4>1. locals[t] \in Local /\ locals[t].found \subseteq locals[t].ask.scope \X Cols
        BY AskTyped DEF ColumnTypeOK
      <4>2. r \in Local
        BY <3>1, <4>1 DEF Local
      <4>3. r.found = locals[t].found /\ r.ask = locals[t].ask
        BY <4>1 DEF Local
      <4>4. QED BY <4>1, <4>2, <4>3
    <3>3. locals' = [locals EXCEPT ![t] = r] /\ latest' = latest /\ cache' = cache
      BY <2>6, AskTyped DEF CollectMissing, ColumnTypeOK, Local, new, New
    <3>4. QED BY <3>2, <3>3, LocalTyped DEF ColumnTypeOK
  <2>7. ASSUME NEW t \in Collectors, PublishBlocks(t) PROVE ColumnTypeOK'
    <3> DEFINE r == [locals[t] EXCEPT !.pc = "done", !.data = Overlaid(locals[t].new, locals[t].data),
                                  !.new = Empty]
    <3>1. /\ Overlaid(locals[t].new, locals[t].data) \in [Entries -> Revision]
          /\ Overlaid(locals[t].new, cache) \in [Entries -> Revision]
      BY AskTyped DEF Overlaid, ColumnTypeOK, Local
    <3>2. r \in Local /\ r.found \subseteq r.ask.scope \X Cols
      BY <3>1, AskTyped, IdleTyped DEF Local, ColumnTypeOK
    <3>3. /\ locals' = [locals EXCEPT ![t] = r] /\ latest' = latest
          /\ cache' = Overlaid(locals[t].new, cache)
      BY <2>7, AskTyped DEF PublishBlocks, ColumnTypeOK, Local
    <3>4. QED BY <3>1, <3>2, <3>3, LocalTyped
  <2>8. ASSUME NEW t \in Collectors, PublishFails(t) PROVE ColumnTypeOK'
    <3>1. PICK before \in SUBSET (Parts \ Invalid(t)) : cache' = Overlaid(Block(t, before), cache)
      BY <2>8 DEF PublishFails
    <3>2. Block(t, before) \in [Entries -> Revision]
      BY AskTyped, ColumnCacheAssumption DEF Block, Local, Revision
    <3>3. cache' \in [Entries -> Revision]
      BY <3>1, <3>2 DEF Overlaid, ColumnTypeOK
    <3>4. QED BY <2>8, <3>3, IdleTyped, LocalTyped DEF PublishFails
  <2>9. CASE UNCHANGED columnVars
    BY <2>9 DEF ColumnTypeOK, columnVars
  <2>10. QED
    BY <2>1, <2>2, <2>3, <2>4, <2>5, <2>6, <2>7, <2>8, <2>9 DEF ColumnNext
<1>3. QED BY <1>1, <1>2, PTL DEF ColumnSpec

-----------------------------------------------------------------------------
(* Revisions are integers, 0 the least.                                    *)
LEMMA RevFacts ==
    ColumnTypeOK =>
        /\ \A p \in Parts : latest[p] \in Nat
        /\ \A e \in Entries : cache[e] \in Nat /\ latest[e[1]] \in Nat
        /\ \A t \in Collectors :
              /\ \A e \in Entries : locals[t].data[e] \in Nat /\ locals[t].new[e] \in Nat
              /\ \A p \in Parts : locals[t].floor[p] \in Nat
<1> SUFFICES ASSUME ColumnTypeOK
             PROVE  /\ \A p \in Parts : latest[p] \in Nat
                    /\ \A e \in Entries : cache[e] \in Nat /\ latest[e[1]] \in Nat
                    /\ \A t \in Collectors :
                          /\ \A e \in Entries : locals[t].data[e] \in Nat /\ locals[t].new[e] \in Nat
                          /\ \A p \in Parts : locals[t].floor[p] \in Nat
  OBVIOUS
<1>1. \A r \in Revision : r \in Nat
  BY ColumnCacheAssumption DEF Revision
<1>2. \A t \in Collectors : locals[t] \in Local
  BY AskTyped
<1>3. QED BY <1>1, <1>2, EntryFacts DEF ColumnTypeOK, Local

(* A thread that is idle, or has failed, has read and collected nothing.   *)
LEMMA IdleFields ==
    ASSUME NEW how
    PROVE  /\ [AtRest EXCEPT !.pc = how].pc = how
           /\ \A e \in Entries : /\ [AtRest EXCEPT !.pc = how].data[e] = 0
                                 /\ [AtRest EXCEPT !.pc = how].new[e] = 0
           /\ \A p \in Parts : [AtRest EXCEPT !.pc = how].floor[p] = 0
  BY DEF AtRest, Empty

(* The invariant holds at first.                                           *)
LEMMA ColumnStarts == ColumnInit => ColumnInv
<1> SUFFICES ASSUME ColumnInit PROVE ColumnInv
  OBVIOUS
<1>1. \A t \in Collectors : locals[t] = AtRest
  BY DEF ColumnInit
<1>2. /\ AtRest.pc = "idle"
      /\ \A e \in Entries : AtRest.data[e] = 0 /\ AtRest.new[e] = 0
      /\ \A p \in Parts : AtRest.floor[p] = 0
  BY DEF AtRest, Empty
<1>3. \A p \in Parts : latest[p] \in Nat
  BY DEF ColumnInit
<1>4. SourceInv
  BY <1>1, <1>2, <1>3, EntryFacts DEF SourceInv, ColumnInit, Empty
<1>5. QED BY <1>1, <1>2, <1>4 DEF ColumnInv, Sound, Reads, Collected, Answered

(* A step of thread t that leaves the source alone keeps the invariant if  *)
(* it does so for the mapping and for the locals of t.                     *)
LEMMA ThreadStep ==
    ASSUME ColumnTypeOK, ColumnInv, NEW t \in Collectors, NEW r, locals' = [locals EXCEPT ![t] = r],
           latest' = latest,
           \A e \in Entries : cache'[e] <= latest[e[1]],
           \A e \in Entries : r.data[e] <= latest[e[1]] /\ r.new[e] <= latest[e[1]],
           \A p \in Parts : r.floor[p] <= latest[p],
           Sound(r)
    PROVE  ColumnInv'
<1>1. locals'[t] = r /\ \A u \in Collectors : u # t => locals'[u] = locals[u]
  BY OthersKept
<1>2. SourceInv'
  <2>1. \A e \in Entries : cache'[e] <= latest'[e[1]]
    OBVIOUS
  <2>2. ASSUME NEW u \in Collectors
        PROVE  /\ \A e \in Entries :
                     locals'[u].data[e] <= latest'[e[1]] /\ locals'[u].new[e] <= latest'[e[1]]
               /\ \A p \in Parts : locals'[u].floor[p] <= latest'[p]
    BY <1>1 DEF ColumnInv, SourceInv
  <2>3. QED BY <2>1, <2>2 DEF SourceInv
<1>3. ASSUME NEW u \in Collectors PROVE Sound(locals'[u])
  BY <1>1 DEF ColumnInv
<1>4. QED BY <1>2, <1>3 DEF ColumnInv

(* The collect of the missing columns makes what was read complete.        *)
LEMMA CollectComplete ==
    ASSUME ColumnTypeOK, ColumnInv, NEW t \in Collectors, CollectMissing(t),
           NEW new, new = [e \in Entries |->
                              IF e[1] \in locals[t].ask.scope /\ e[2] \in ColsToCollect(t, e[1])
                              THEN latest[e[1]] ELSE 0]
    PROVE  /\ \A e \in Entries : new[e] <= latest[e[1]]
           /\ \A p \in locals[t].ask.scope :
                 \/ /\ locals[t].floor[p] = 0
                    /\ \A c \in Cols : locals[t].data[<<p, c>>] = 0 /\ new[<<p, c>>] = 0
                 \/ \A c \in locals[t].ask.cols : locals[t].data[<<p, c>>] # 0 \/ new[<<p, c>>] # 0
           /\ \A e \in (locals[t].ask.scope \X locals[t].ask.cols) \ locals[t].hit :
                 new[e] >= locals[t].floor[e[1]]
<1> DEFINE asked == locals[t].ask.scope
<1>1. /\ asked \subseteq Parts /\ locals[t].ask.cols \subseteq Select(locals[t].ask)
      /\ Select(locals[t].ask) \subseteq Cols
      /\ asked \X locals[t].ask.cols \subseteq Entries
  BY AskTyped
<1>2. \A p \in asked, c \in Cols :
         new[<<p, c>>] = IF c \in ColsToCollect(t, p) THEN latest[p] ELSE 0
  BY <1>1, EntryFacts
<1>3. \A e \in Entries : new[e] <= latest[e[1]]
  <2>1. \A e \in Entries : latest[e[1]] \in Nat
    BY RevFacts
  <2>2. QED BY <2>1
<1>4. \A p \in asked, c \in Select(locals[t].ask) :
         locals[t].data[<<p, c>>] = 0 => c \in ColsToCollect(t, p)
  BY <1>1 DEF ColsToCollect, Have
<1>5. \A p \in Parts, c \in Cols : locals[t].data[<<p, c>>] <= latest[p] /\ locals[t].data[<<p, c>>] \in Nat
  BY ZenonT(40), EntryFacts, RevFacts DEF ColumnInv, SourceInv
<1>6. \A p \in Parts : latest[p] \in Nat /\ locals[t].floor[p] \in Nat /\ locals[t].floor[p] <= latest[p]
  BY RevFacts DEF ColumnInv, SourceInv
<1>7. ASSUME NEW p \in asked
      PROVE  \/ /\ locals[t].floor[p] = 0
                /\ \A c \in Cols : locals[t].data[<<p, c>>] = 0 /\ new[<<p, c>>] = 0
             \/ \A c \in locals[t].ask.cols : locals[t].data[<<p, c>>] # 0 \/ new[<<p, c>>] # 0
  <2>1. CASE latest[p] = 0
    <3>1. locals[t].floor[p] = 0 /\ \A c \in Cols : locals[t].data[<<p, c>>] = 0
      BY <1>1, <1>5, <1>6, <1>7, <2>1
    <3>2. \A c \in Cols : new[<<p, c>>] = 0
      BY <1>2, <1>7, <2>1
    <3>3. QED BY <3>1, <3>2
  <2>2. CASE latest[p] # 0
    <3>1. ASSUME NEW c \in locals[t].ask.cols, locals[t].data[<<p, c>>] = 0
          PROVE  new[<<p, c>>] # 0
      <4>1. c \in ColsToCollect(t, p) /\ c \in Cols
        BY <1>1, <1>4, <1>7, <3>1
      <4>2. QED BY <1>2, <1>7, <2>2, <4>1
    <3>2. QED BY <3>1
  <2>3. QED BY <2>1, <2>2
<1>8. ASSUME NEW e \in (asked \X locals[t].ask.cols) \ locals[t].hit
      PROVE  new[e] >= locals[t].floor[e[1]]
  <2>1. e \in Entries /\ e[1] \in asked /\ e[2] \in locals[t].ask.cols /\ e = <<e[1], e[2]>>
    BY <1>1
  <2>2. locals[t].data[e] = 0
    BY <1>8 DEF ColumnInv, Sound, Reads, CollectMissing
  <2>3. e[2] \in ColsToCollect(t, e[1])
    BY <1>1, <1>4, <2>1, <2>2
  <2>4. new[e] = latest[e[1]]
    BY <2>1, <2>3
  <2>5. QED BY <1>1, <1>6, <2>1, <2>4
<1>9. QED BY <1>3, <1>7, <1>8

(* A thread that starts afresh, or fails, has sound locals.                *)
LEMMA FailStep ==
    ASSUME ColumnTypeOK, ColumnInv, NEW t \in Collectors, locals' = [locals EXCEPT ![t] = [AtRest EXCEPT !.pc = "error"]],
           latest' = latest, \A e \in Entries : cache'[e] <= latest[e[1]]
    PROVE  ColumnInv'
<1> DEFINE r == [AtRest EXCEPT !.pc = "error"]
<1>1. /\ r.pc = "error"
      /\ \A e \in Entries : r.data[e] = 0 /\ r.new[e] = 0
      /\ \A p \in Parts : r.floor[p] = 0
  BY IdleFields
<1> HIDE DEF r
<1>2. Sound(r)
  BY <1>1 DEF Sound, Reads, Collected, Answered
<1>3. /\ \A e \in Entries : r.data[e] <= latest[e[1]] /\ r.new[e] <= latest[e[1]]
      /\ \A p \in Parts : r.floor[p] <= latest[p]
  BY <1>1, RevFacts
<1>4. locals' = [locals EXCEPT ![t] = r]
  BY DEF r
<1>5. QED BY <1>2, <1>3, <1>4, ThreadStep

(* Every step keeps the invariant.                                         *)
LEMMA ColumnStep == ColumnTypeOK /\ ColumnInv /\ [ColumnNext]_columnVars => ColumnInv'
<1> SUFFICES ASSUME ColumnTypeOK, ColumnInv, [ColumnNext]_columnVars PROVE ColumnInv'
  OBVIOUS
<1>1. ASSUME NEW p \in Parts, PartitionChanges(p) PROVE ColumnInv'
  <2>1. \A q \in Parts : latest[q] <= latest'[q] /\ latest[q] \in Nat /\ latest'[q] \in Nat
    BY <1>1, RevFacts DEF PartitionChanges, ColumnTypeOK
  <2>2. cache' = cache /\ locals' = locals
    BY <1>1 DEF PartitionChanges
  <2>3. \A e \in Entries : /\ latest[e[1]] <= latest'[e[1]]
                          /\ latest[e[1]] \in Nat /\ latest'[e[1]] \in Nat
    BY <2>1, EntryFacts
  <2>4. \A e \in Entries : cache'[e] <= latest'[e[1]]
    BY <2>2, <2>3, RevFacts DEF ColumnInv, SourceInv
  <2>5. ASSUME NEW u \in Collectors
        PROVE  /\ \A e \in Entries :
                     locals'[u].data[e] <= latest'[e[1]] /\ locals'[u].new[e] <= latest'[e[1]]
               /\ \A q \in Parts : locals'[u].floor[q] <= latest'[q]
    BY <2>1, <2>2, <2>3, RevFacts DEF ColumnInv, SourceInv
  <2>6. SourceInv'
    BY <2>4, <2>5 DEF SourceInv
  <2>7. \A u \in Collectors : Sound(locals'[u])
    BY <2>2 DEF ColumnInv
  <2>8. QED BY <2>6, <2>7 DEF ColumnInv
<1>2. ASSUME NEW e \in Entries, Evict(e) PROVE ColumnInv'
  <2>1. latest' = latest /\ locals' = locals
    BY <1>2 DEF Evict
  <2>2. \A f \in Entries : cache'[f] <= latest'[f[1]]
    BY <1>2, RevFacts DEF Evict, ColumnTypeOK, ColumnInv, SourceInv
  <2>3. SourceInv'
    BY <2>1, <2>2 DEF ColumnInv, SourceInv
  <2>4. \A u \in Collectors : Sound(locals'[u])
    BY <2>1 DEF ColumnInv
  <2>5. QED BY <2>3, <2>4 DEF ColumnInv
<1>3. ASSUME NEW t \in Collectors, NEW ask \in ColumnAsks, Discover(t, ask) PROVE ColumnInv'
  <2> DEFINE floor == [p \in Parts |-> IF p \in ask.scope THEN latest[p] ELSE 0]
             hit == {e \in ask.scope \X ask.cols : ask.mode = "cache" /\ cache[e] # 0}
             r == [pc |-> "read", ask |-> ask, found |-> CachedEntries(ask), data |-> Empty,
                   new |-> Empty, hit |-> hit, floor |-> floor]
  <2>1. locals' = [locals EXCEPT ![t] = r] /\ latest' = latest /\ cache' = cache
    BY <1>3 DEF Discover
  <2>2. \A e \in Entries : r.data[e] <= latest[e[1]] /\ r.new[e] <= latest[e[1]]
    BY RevFacts DEF Empty
  <2>3. \A p \in Parts : r.floor[p] <= latest[p]
    BY RevFacts
  <2>4. \A e \in ask.scope \X ask.cols : e \in CachedEntries(ask) => e \in hit
    BY DEF CachedEntries
  <2>5. \A e \in ask.scope \X ask.cols : Empty[e] = 0
    BY AskFacts DEF Empty
  <2> HIDE DEF hit, floor
  <2>6. Sound(r)
    BY <2>4, <2>5 DEF Sound, Reads, Collected, Answered
  <2>7. \A e \in Entries : cache'[e] <= latest[e[1]]
    BY <2>1 DEF ColumnInv, SourceInv
  <2> HIDE DEF r
  <2>8. QED BY <2>1, <2>2, <2>3, <2>6, <2>7, ThreadStep
<1>4. ASSUME NEW t \in Collectors, NEW e \in Entries, ReadEntry(t, e) PROVE ColumnInv'
  <2> DEFINE r == [locals[t] EXCEPT !.data = [locals[t].data EXCEPT ![e] = cache[e]],
                                !.found = locals[t].found \ {e}]
  <2>1. locals[t] \in Local
    BY AskTyped
  <2>2. /\ r.pc = "read" /\ r.ask = locals[t].ask /\ r.found = locals[t].found \ {e}
        /\ r.data = [locals[t].data EXCEPT ![e] = cache[e]] /\ r.new = locals[t].new
        /\ r.hit = locals[t].hit /\ r.floor = locals[t].floor
    BY <1>4, <2>1 DEF Local, ReadEntry
  <2>3. locals' = [locals EXCEPT ![t] = r] /\ latest' = latest /\ cache' = cache
    BY <1>4, <2>1 DEF ReadEntry, ColumnTypeOK, Local
  <2> HIDE DEF r
  <2>4. \A f \in Entries : r.data[f] = IF f = e THEN cache[e] ELSE locals[t].data[f]
    BY <2>1, <2>2 DEF Local
  <2>5. \A f \in Entries : r.data[f] <= latest[f[1]] /\ r.new[f] <= latest[f[1]]
    BY <2>2, <2>4 DEF ColumnInv, SourceInv
  <2>6. \A p \in Parts : r.floor[p] <= latest[p]
    BY <2>2 DEF ColumnInv, SourceInv
  <2>7. ASSUME NEW f \in r.ask.scope \X r.ask.cols, f \in r.found \/ r.data[f] # 0
        PROVE  f \in r.hit
    <3>1. f \in Entries
      BY <2>2, <2>7, AskTyped
    <3>2. f \in locals[t].found \/ locals[t].data[f] # 0
      BY <1>4, <2>2, <2>4, <2>7, <3>1 DEF ReadEntry
    <3>3. QED BY <1>4, <2>2, <2>7, <3>2 DEF ColumnInv, Sound, Reads, ReadEntry
  <2>8. Sound(r)
    BY <2>2, <2>7 DEF Sound, Reads, Collected, Answered
  <2>9. \A f \in Entries : cache'[f] <= latest[f[1]]
    BY <2>3 DEF ColumnInv, SourceInv
  <2>10. QED BY <2>3, <2>5, <2>6, <2>8, <2>9, ThreadStep
<1>5. ASSUME NEW t \in Collectors, EntryGone(t) \/ CollectFails(t) PROVE ColumnInv'
  <2>1. \A e \in Entries : cache'[e] <= latest[e[1]]
    BY <1>5 DEF EntryGone, CollectFails, ColumnInv, SourceInv
  <2>2. QED BY <1>5, <2>1, FailStep DEF EntryGone, CollectFails
<1>6. ASSUME NEW t \in Collectors, CollectMissing(t) PROVE ColumnInv'
  <2> DEFINE new == [e \in Entries |->
                        IF e[1] \in locals[t].ask.scope /\ e[2] \in ColsToCollect(t, e[1])
                        THEN latest[e[1]] ELSE 0]
             r == [locals[t] EXCEPT !.pc = "publish", !.new = new]
  <2>1. locals[t] \in Local
    BY AskTyped
  <2>2. locals' = [locals EXCEPT ![t] = r] /\ latest' = latest /\ cache' = cache
    BY <1>6, <2>1 DEF CollectMissing, ColumnTypeOK, Local
  <2>3. /\ \A e \in Entries : new[e] <= latest[e[1]]
        /\ \A p \in locals[t].ask.scope :
              \/ /\ locals[t].floor[p] = 0
                 /\ \A c \in Cols : locals[t].data[<<p, c>>] = 0 /\ new[<<p, c>>] = 0
              \/ \A c \in locals[t].ask.cols : locals[t].data[<<p, c>>] # 0 \/ new[<<p, c>>] # 0
        /\ \A e \in (locals[t].ask.scope \X locals[t].ask.cols) \ locals[t].hit :
              new[e] >= locals[t].floor[e[1]]
    BY <1>6, CollectComplete
  <2> HIDE DEF new
  <2>4. /\ r.pc = "publish" /\ r.ask = locals[t].ask /\ r.found = locals[t].found
        /\ r.data = locals[t].data /\ r.new = new /\ r.hit = locals[t].hit /\ r.floor = locals[t].floor
    BY <2>1 DEF Local
  <2> HIDE DEF r
  <2>5. \A e \in Entries : r.data[e] <= latest[e[1]] /\ r.new[e] <= latest[e[1]]
    BY <2>3, <2>4 DEF ColumnInv, SourceInv
  <2>6. \A p \in Parts : r.floor[p] <= latest[p]
    BY <2>4 DEF ColumnInv, SourceInv
  <2>7. Reads(r)
    BY <1>6, <2>4 DEF ColumnInv, Sound, Reads, CollectMissing
  <2>8. Collected(r)
    BY <2>3, <2>4 DEF Collected, Complete
  <2>9. Sound(r)
    BY <2>4, <2>7, <2>8 DEF Sound, Answered
  <2>10. \A e \in Entries : cache'[e] <= latest[e[1]]
    BY <2>2 DEF ColumnInv, SourceInv
  <2>11. QED BY <2>2, <2>5, <2>6, <2>9, <2>10, ThreadStep
<1>7. ASSUME NEW t \in Collectors, PublishBlocks(t) PROVE ColumnInv'
  <2> DEFINE data == Overlaid(locals[t].new, locals[t].data)
             r == [locals[t] EXCEPT !.pc = "done", !.data = data, !.new = Empty]
  <2>1. locals[t] \in Local
    BY AskTyped
  <2>2. /\ locals' = [locals EXCEPT ![t] = r] /\ latest' = latest
        /\ cache' = Overlaid(locals[t].new, cache)
    BY <1>7, <2>1 DEF PublishBlocks, ColumnTypeOK, Local
  <2>3. \A e \in Entries : data[e] = IF locals[t].new[e] # 0 THEN locals[t].new[e] ELSE locals[t].data[e]
    BY DEF Overlaid
  <2> HIDE DEF data
  <2>4. /\ r.pc = "done" /\ r.ask = locals[t].ask /\ r.data = data /\ r.new = Empty
        /\ r.hit = locals[t].hit /\ r.floor = locals[t].floor
    BY <2>1 DEF Local
  <2> HIDE DEF r
  <2>5. \A e \in Entries : r.data[e] <= latest[e[1]] /\ r.new[e] <= latest[e[1]]
    BY <2>3, <2>4, RevFacts DEF ColumnInv, SourceInv, Empty
  <2>6. \A p \in Parts : r.floor[p] <= latest[p]
    BY <2>4 DEF ColumnInv, SourceInv
  <2>7. \A e \in Entries : cache'[e] <= latest[e[1]]
    BY <2>2 DEF ColumnInv, SourceInv, Overlaid
  <2>8. Collected(locals[t]) /\ locals[t].pc = "publish"
    BY <1>7 DEF ColumnInv, Sound, PublishBlocks
  <2>9. ASSUME NEW p \in r.ask.scope
        PROVE  Complete(r, p) /\ \A c \in Cols : r.new[<<p, c>>] = 0
    <3>1. p \in Parts /\ Complete(locals[t], p) /\ r.ask.cols \subseteq Cols
      BY <2>4, <2>8, AskTyped DEF Collected
    <3>2. \A c \in Cols : r.new[<<p, c>>] = 0
      BY <2>4, <3>1, EntryFacts DEF Empty
    <3>3. \A c \in Cols : /\ locals[t].data[<<p, c>>] # 0 => r.data[<<p, c>>] # 0
                          /\ locals[t].new[<<p, c>>] # 0 => r.data[<<p, c>>] # 0
                          /\ (locals[t].data[<<p, c>>] = 0 /\ locals[t].new[<<p, c>>] = 0)
                                => r.data[<<p, c>>] = 0
      BY <2>3, <2>4, <3>1, EntryFacts
    <3>4. QED BY <2>4, <3>1, <3>2, <3>3 DEF Complete
  <2>10. ASSUME NEW e \in (r.ask.scope \X r.ask.cols) \ r.hit
         PROVE  r.data[e] >= r.floor[e[1]]
    <3>1. e \in Entries /\ e[1] \in Parts
      BY <2>4, AskTyped, EntryFacts
    <3>2. locals[t].new[e] >= locals[t].floor[e[1]]
      BY <2>4, <2>8 DEF Collected
    <3>3. CASE locals[t].new[e] # 0
      BY <2>3, <2>4, <3>1, <3>2, <3>3
    <3>4. CASE locals[t].new[e] = 0
      BY <2>3, <2>4, <3>1, <3>2, <3>4, RevFacts
    <3>5. QED BY <3>3, <3>4
  <2>11. Sound(r)
    BY <2>4, <2>9, <2>10 DEF Sound, Reads, Collected, Answered
  <2>12. QED BY <2>2, <2>5, <2>6, <2>7, <2>11, ThreadStep
<1>8. ASSUME NEW t \in Collectors, PublishFails(t) PROVE ColumnInv'
  <2>1. PICK before \in SUBSET (Parts \ Invalid(t)) : cache' = Overlaid(Block(t, before), cache)
    BY <1>8 DEF PublishFails
  <2>2. \A e \in Entries : cache'[e] <= latest[e[1]]
    BY <2>1 DEF ColumnInv, SourceInv, Overlaid, Block
  <2>3. QED BY <1>8, <2>2, FailStep DEF PublishFails
<1>9. CASE UNCHANGED columnVars
  BY <1>9 DEF ColumnInv, SourceInv, columnVars
<1>10. QED
  BY <1>1, <1>2, <1>3, <1>4, <1>5, <1>6, <1>7, <1>8, <1>9 DEF ColumnNext

(* What is cached, read and collected stays sound in every run of cache.   *)
THEOREM ColumnInvariant == ColumnSpec => []ColumnInv
<1>1. ColumnInit => ColumnInv
  BY ColumnStarts
<1>2. ColumnTypeOK /\ ColumnInv /\ [ColumnNext]_columnVars => ColumnInv'
  BY ColumnStep
<1>3. QED BY <1>1, <1>2, TypeCorrect, PTL DEF ColumnSpec

(* A collect that succeeds has every column asked for, or none, of each    *)
(* partition selected, and none only if the source did not have the        *)
(* partition when it started.                                              *)
THEOREM ColumnsCompleteHolds == ColumnSpec => []ColumnsComplete
<1>1. ColumnTypeOK /\ ColumnInv => ColumnsComplete
  <2> SUFFICES ASSUME ColumnTypeOK, ColumnInv, NEW t \in Collectors, locals[t].pc = "done",
                      NEW p \in locals[t].ask.scope,
                      locals[t].floor[p] # 0 \/ Have(t, p) # {},
                      NEW c \in locals[t].ask.cols
               PROVE  c \in Have(t, p)
    BY DEF ColumnsComplete
  <2>1. Complete(locals[t], p) /\ \A d \in Cols : locals[t].new[<<p, d>>] = 0
    BY DEF ColumnInv, Sound, Answered
  <2>2. c \in Cols
    BY AskTyped
  <2>3. QED BY <2>1, <2>2 DEF Complete, Have
<1>2. QED BY <1>1, TypeCorrect, ColumnInvariant, PTL

(* What a collect did not find cached when it started is as recent as its  *)
(* start.                                                                  *)
THEOREM MissesFreshHolds == ColumnSpec => []MissesFresh
<1>1. ColumnInv => MissesFresh
  BY DEF ColumnInv, Sound, Answered, MissesFresh
<1>2. QED BY <1>1, ColumnInvariant, PTL

(* With validate, no block with duplicate keys is ever published.          *)
THEOREM ValidatedOnlyHolds == ColumnSpec => []ValidatedOnly
<1>1. \A p : <<p, 0>> \notin DupRevs
  BY ColumnCacheAssumption
<1>2. ColumnInit => ValidatedOnly
  BY <1>1 DEF ColumnInit, ValidatedOnly, Empty
<1>3. ColumnTypeOK /\ ValidatedOnly /\ [ColumnNext]_columnVars => ValidatedOnly'
  <2> SUFFICES ASSUME ColumnTypeOK, ValidatedOnly, [ColumnNext]_columnVars, Validate, NEW f \in Entries
               PROVE  <<f[1], cache'[f]>> \notin DupRevs
    BY DEF ValidatedOnly
  <2>1. <<f[1], cache[f]>> \notin DupRevs
    BY DEF ValidatedOnly
  <2>2. ASSUME NEW e \in Entries, Evict(e) PROVE <<f[1], cache'[f]>> \notin DupRevs
    BY <1>1, <2>1, <2>2 DEF Evict, ColumnTypeOK
  <2>3. ASSUME NEW t \in Collectors, PublishBlocks(t) PROVE <<f[1], cache'[f]>> \notin DupRevs
    <3>1. f[1] \in Parts /\ f[2] \in Cols /\ f = <<f[1], f[2]>>
      BY EntryFacts
    <3>2. <<f[1], locals[t].new[f]>> \notin DupRevs
      BY <2>3, <3>1 DEF PublishBlocks, Invalid
    <3>3. QED BY <2>1, <2>3, <3>2 DEF PublishBlocks, Overlaid
  <2>4. ASSUME NEW t \in Collectors, PublishFails(t) PROVE <<f[1], cache'[f]>> \notin DupRevs
    <3>1. PICK before \in SUBSET (Parts \ Invalid(t)) : cache' = Overlaid(Block(t, before), cache)
      BY <2>4 DEF PublishFails
    <3>2. f[1] \in Parts /\ f[2] \in Cols /\ f = <<f[1], f[2]>>
      BY EntryFacts
    <3>3. f[1] \in before => <<f[1], locals[t].new[f]>> \notin DupRevs
      BY <3>2 DEF Invalid
    <3>4. QED BY <2>1, <3>1, <3>3 DEF Overlaid, Block
  <2>5. CASE cache' = cache
    BY <2>1, <2>5
  <2>6. cache' = cache \/ (\E e \in Entries : Evict(e))
          \/ (\E t \in Collectors : PublishBlocks(t) \/ PublishFails(t))
    BY DEF ColumnNext, columnVars, PartitionChanges, Discover, ReadEntry, EntryGone, CollectMissing, CollectFails
  <2>7. QED BY <2>2, <2>3, <2>4, <2>5, <2>6
<1>4. QED BY <1>2, <1>3, TypeCorrect, PTL DEF ColumnSpec
=============================================================================
