------------------------- MODULE MemoryCache_proofs -------------------------
(***************************************************************************)
(* Proofs about MemoryCache for every number of threads, every set of      *)
(* partitions and predicates, partitioned or not, with and without         *)
(* interrupts: type correctness, the inductive invariant CacheInv, the     *)
(* safety properties that follow from it, and the refinement of            *)
(* ReplayStore.                                                            *)
(***************************************************************************)
EXTENDS MemoryCache, FiniteSetTheorems, TLAPS

(* Every partition a demand can want is a partition.                       *)
LEMMA WantedType == \A p \in Demands : Wanted(p) \in SUBSET Keys
  BY MemoryCacheAssumption DEF Demands, Wanted

(* The plan of a build that is not covered has the shape of a todo.        *)
LEMMA PlanType ==
    MemoryTypeOK => \A p \in Demands : PlanBuild(p) \in [full : BOOLEAN, keys : SUBSET Keys]
  BY MemoryCacheAssumption DEF MemoryTypeOK, Demands, PlanBuild, BuiltKeys

(* The variables keep their types (type invariant of cache_memory).        *)
THEOREM TypeCorrect == MemorySpec => []MemoryTypeOK
<1>1. MemoryInit => MemoryTypeOK
  <2> SUFFICES ASSUME MemoryInit PROVE MemoryTypeOK
    OBVIOUS
  <2>1. current \in [Keys -> Contents] /\ Blank \in Table
    BY MemoryCacheAssumption DEF MemoryInit, Contents, Table, Blank
  <2>2. NoPred \in Demands
    BY DEF Demands
  <2>3. QED BY <2>1, <2>2 DEF MemoryInit, MemoryTypeOK, NoTodo
<1>2. MemoryTypeOK /\ [MemoryNext]_memoryVars => MemoryTypeOK'
  <2> SUFFICES ASSUME MemoryTypeOK, [MemoryNext]_memoryVars PROVE MemoryTypeOK'
    OBVIOUS
  <2>1. CASE \E k \in Keys : SourceChanges(k)
    BY <2>1, MemoryCacheAssumption
    DEF MemoryTypeOK, SourceChanges, Contents, cacheVars, ghostVars
  <2>2. ASSUME NEW t \in Threads, NEW p \in Demands, Demand(t, p) PROVE MemoryTypeOK'
    BY <2>2 DEF MemoryTypeOK, Demand, Table, Blank, cacheVars, ghostVars
  <2>3. ASSUME NEW t \in Threads, RaiseRecorded(t) PROVE MemoryTypeOK'
    BY <2>3 DEF MemoryTypeOK, RaiseRecorded, cacheVars, ghostVars
  <2>4. ASSUME NEW t \in Threads, Serve(t) PROVE MemoryTypeOK'
    BY <2>4 DEF MemoryTypeOK, Serve, Cut, Table, cacheVars, ghostVars
  <2>5. ASSUME NEW t \in Threads, Wait(t) PROVE MemoryTypeOK'
    BY <2>5 DEF MemoryTypeOK, Wait, cacheVars, ghostVars
  <2>6. ASSUME NEW t \in Threads, Claim(t) PROVE MemoryTypeOK'
    <3>1. PlanBuild(demand[t]) \in [full : BOOLEAN, keys : SUBSET Keys]
      BY PlanType DEF MemoryTypeOK
    <3>2. QED BY <2>6, <3>1 DEF MemoryTypeOK, Claim
  <2>7. ASSUME NEW t \in Threads, Collect(t) PROVE MemoryTypeOK'
    <3>1. Collected(t) \in Table
      BY DEF MemoryTypeOK, Collected, Table
    <3>2. QED BY <2>7, <3>1 DEF MemoryTypeOK, Collect, cacheVars
  <2>8. ASSUME NEW t \in Threads, BuildRaises(t) PROVE MemoryTypeOK'
    BY <2>8 DEF MemoryTypeOK, BuildRaises, cacheVars, ghostVars
  <2>9. ASSUME NEW t \in Threads, RecordFailure(t) PROVE MemoryTypeOK'
    BY <2>9 DEF MemoryTypeOK, RecordFailure, WakeAll, NoTodo, ghostVars
  <2>10. ASSUME NEW t \in Threads, Publish(t) PROVE MemoryTypeOK'
    <3>1. Merged(t) \in Table /\ Blank \in Table
      BY DEF MemoryTypeOK, Merged, Table, Blank
    <3>2. Cut(Merged(t), Wanted(demand[t])) \in Table
      BY <3>1 DEF Cut, Table
    <3>3. built_predicates' \in SUBSET Preds
      BY <2>10 DEF MemoryTypeOK, Publish, Demands
    <3>4. pc' \in [Threads -> {"idle", "looping", "waiting", "claimed", "collected",
                               "failing", "ok", "error", "interrupted"}]
      BY <2>10 DEF MemoryTypeOK, Publish, WakeAll
    <3>5. physical_keys' \in BOOLEAN
      BY <2>10, MemoryCacheAssumption DEF MemoryTypeOK, Publish, PhysicalKeys
    <3>6. full_built' \in BOOLEAN
      BY <2>10 DEF MemoryTypeOK, Publish
    <3>7. QED
      BY <2>10, <3>1, <3>2, <3>3, <3>4, <3>5, <3>6, MemoryCacheAssumption
      DEF MemoryTypeOK, Publish, NoTodo, ghostVars
  <2>11. ASSUME NEW t \in Threads, Interrupt(t) PROVE MemoryTypeOK'
    BY <2>11 DEF MemoryTypeOK, Interrupt, NoTodo, Blank, Table, cacheVars, ghostVars
  <2>12. CASE UNCHANGED memoryVars
    BY <2>12 DEF MemoryTypeOK, memoryVars, cacheVars, ghostVars
  <2>13. QED
    BY <2>1, <2>2, <2>3, <2>4, <2>5, <2>6, <2>7, <2>8, <2>9, <2>10, <2>11, <2>12
    DEF MemoryNext, ThreadStep
<1>3. QED BY <1>1, <1>2, PTL DEF MemorySpec

-----------------------------------------------------------------------------
(* Covered(p) in a state of the invariant: the buffers hold every initial  *)
(* partition p can want.                                                   *)
LEMMA CoveredHas ==
    MemoryTypeOK /\ CoverInv => \A p \in Demands : Covered(p) => Has(buffers, Wanted(p))
<1> SUFFICES ASSUME MemoryTypeOK, CoverInv, NEW p \in Demands, Covered(p)
             PROVE Has(buffers, Wanted(p))
  OBVIOUS
<1>1. CASE full_built
  BY <1>1, WantedType DEF CoverInv, Has
<1>2. CASE ~Partitioned /\ BuiltKeys # {}
  BY <1>2, WantedType, MemoryCacheAssumption DEF BuiltKeys, Has
<1>3. CASE Partitioned /\ p \in built_predicates
  BY <1>3, MemoryCacheAssumption DEF CoverInv, MemoryTypeOK, Wanted, Has
<1>4. QED BY <1>1, <1>2, <1>3 DEF Covered

(* A step that only adds to the buffers and moves no thread into a build   *)
(* or an answer preserves what the buffers cover.                          *)
LEMMA BuffersGrow ==
    ASSUME NEW b1, NEW b2, NEW S,
           \A k \in Keys : b1[k] # Missing => b2[k] = b1[k],
           Has(b1, S)
    PROVE  Has(b2, S)
  BY MemoryCacheAssumption DEF Has

(* The inductive invariant of cache_memory.                                *)
THEOREM CacheInvariant == MemorySpec => []CacheInv
<1>1. MemoryInit => CacheInv
  BY MemoryCacheAssumption
  DEF MemoryInit, CacheInv, FlightInv, TodoInv, CoverInv, AnswerInv, Building, Has
<1>2. MemoryTypeOK /\ CacheInv /\ [MemoryNext]_memoryVars => CacheInv'
  <2> SUFFICES ASSUME MemoryTypeOK, CacheInv, [MemoryNext]_memoryVars PROVE CacheInv'
    OBVIOUS
  <2> USE DEF CacheInv
  <2>1. CASE \E k \in Keys : SourceChanges(k)
    <3>1. PICK k \in Keys : SourceChanges(k)
      BY <2>1
    <3>2. CoverInv'
      BY <3>1, MemoryCacheAssumption
      DEF CoverInv, SourceChanges, MemoryTypeOK, Contents, Has, cacheVars
    <3>3. QED
      BY <3>1, <3>2 DEF SourceChanges, FlightInv, TodoInv, AnswerInv, Building,
                        BuiltKeys, Has, cacheVars
  <2>2. ASSUME NEW t \in Threads, NEW p \in Demands, Demand(t, p) PROVE CacheInv'
    BY <2>2 DEF MemoryTypeOK, Demand, FlightInv, TodoInv, CoverInv, AnswerInv, Building,
                BuiltKeys, Has, cacheVars
  <2>3. ASSUME NEW t \in Threads, RaiseRecorded(t) PROVE CacheInv'
    BY <2>3 DEF MemoryTypeOK, RaiseRecorded, FlightInv, TodoInv, CoverInv, AnswerInv,
                Building, BuiltKeys, Has, cacheVars
  <2>4. ASSUME NEW t \in Threads, Serve(t) PROVE CacheInv'
    <3>1. Has(buffers, Wanted(demand[t])) /\ demand[t] \in Demands
      BY <2>4, CoveredHas DEF Serve, MemoryTypeOK
    <3>2. AnswerInv'
      <4>1. rows' = [rows EXCEPT ![t] = Cut(buffers, Wanted(demand[t]))]
        BY <2>4 DEF Serve
      <4>2. /\ \A k \in Keys : rows'[t][k] # Missing => rows'[t][k] = buffers[k]
            /\ Has(rows'[t], Wanted(demand[t]))
        BY <3>1, <4>1, WantedType DEF MemoryTypeOK, Cut, Has
      <4>3. QED
        BY <2>4, <4>1, <4>2 DEF Serve, AnswerInv, MemoryTypeOK, cacheVars
    <3>3. QED
      BY <2>4, <3>2 DEF MemoryTypeOK, Serve, FlightInv, TodoInv, CoverInv, Building,
                        BuiltKeys, Has, cacheVars
  <2>5. ASSUME NEW t \in Threads, Wait(t) PROVE CacheInv'
    BY <2>5 DEF MemoryTypeOK, Wait, FlightInv, TodoInv, CoverInv, AnswerInv, Building,
                BuiltKeys, Has, cacheVars
  <2>6. ASSUME NEW t \in Threads, Claim(t) PROVE CacheInv'
    <3>1. FlightInv'
      BY <2>6 DEF MemoryTypeOK, Claim, FlightInv, Building
    <3>2. TodoInv'
      <4>1. todo' = [todo EXCEPT ![t] = PlanBuild(demand[t])]
        BY <2>6 DEF Claim
      <4>2. /\ todo'[t].full => todo'[t].keys = Keys
            /\ Wanted(demand[t]) \subseteq todo'[t].keys \cup BuiltKeys
        BY <4>1, WantedType, MemoryCacheAssumption
        DEF MemoryTypeOK, PlanBuild, Demands, Wanted
      <4>3. QED
        BY <2>6, <4>1, <4>2 DEF MemoryTypeOK, Claim, TodoInv, BuiltKeys
    <3>3. CoverInv' /\ AnswerInv'
      BY <2>6 DEF MemoryTypeOK, Claim, CoverInv, AnswerInv, Has
    <3>4. QED BY <3>1, <3>2, <3>3
  <2>7. ASSUME NEW t \in Threads, Collect(t) PROVE CacheInv'
    <3>1. TodoInv'
      <4>1. new_buffers' = [new_buffers EXCEPT ![t] = Collected(t)]
        BY <2>7 DEF Collect
      <4>2. \A k \in Keys : current[k] # Missing
        BY MemoryCacheAssumption DEF MemoryTypeOK, Contents
      <4>3. Has(Collected(t), todo[t].keys)
        BY <4>2, MemoryCacheAssumption DEF Has, Collected, CoverInv
      <4>4. QED
        BY <2>7, <4>1, <4>3 DEF MemoryTypeOK, Collect, TodoInv, BuiltKeys, Has, cacheVars
    <3>2. QED
      BY <2>7, <3>1 DEF MemoryTypeOK, Collect, FlightInv, CoverInv, AnswerInv, Building,
                        Has, cacheVars
  <2>8. ASSUME NEW t \in Threads, BuildRaises(t) PROVE CacheInv'
    BY <2>8 DEF MemoryTypeOK, BuildRaises, FlightInv, TodoInv, CoverInv, AnswerInv,
                Building, BuiltKeys, Has, cacheVars
  <2>9. ASSUME NEW t \in Threads, RecordFailure(t) PROVE CacheInv'
    <3>1. \A u \in Threads : u # t => ~Building(u)
      BY <2>9 DEF RecordFailure, FlightInv, Building
    <3>2. \A u \in Threads : ~Building(u)'
      BY <2>9, <3>1 DEF MemoryTypeOK, RecordFailure, WakeAll, Building
    <3>3. FlightInv' /\ TodoInv'
      BY <3>2 DEF FlightInv, TodoInv, Building
    <3>4. CoverInv' /\ AnswerInv'
      BY <2>9 DEF MemoryTypeOK, RecordFailure, WakeAll, CoverInv, AnswerInv, Has
    <3>5. QED BY <3>3, <3>4
  <2>10. ASSUME NEW t \in Threads, Publish(t) PROVE CacheInv'
    <3>1. \A u \in Threads : u # t => ~Building(u)
      BY <2>10 DEF Publish, FlightInv, Building
    <3>2. \A u \in Threads : ~Building(u)'
      BY <2>10, <3>1 DEF MemoryTypeOK, Publish, WakeAll, Building
    <3>3. FlightInv' /\ TodoInv'
      BY <3>2 DEF FlightInv, TodoInv, Building
    <3>4. \A k \in Keys : buffers[k] # Missing => buffers'[k] = buffers[k]
      BY <2>10 DEF Publish, Merged
    <3>5. Has(buffers', Wanted(demand[t]))
      <4>1. /\ Wanted(demand[t]) \subseteq todo[t].keys \cup BuiltKeys
            /\ Has(new_buffers[t], todo[t].keys)
        BY <2>10 DEF Publish, TodoInv
      <4>2. QED
        BY <2>10, <4>1, MemoryCacheAssumption DEF Publish, Merged, Has, BuiltKeys
    <3>6. todo[t].full => Has(buffers', Keys)
      <4>1. todo[t].full => Has(new_buffers[t], Keys)
        BY <2>10 DEF Publish, TodoInv
      <4>2. QED
        BY <2>10, <4>1, MemoryCacheAssumption DEF Publish, Merged, Has
    <3>7. CoverInv'
      <4>1. \A k \in InitialKeys : current'[k] # 0
        BY <2>10 DEF Publish, CoverInv
      <4>2. full_built' => Has(buffers', Keys)
        BY <2>10, <3>4, <3>6, BuffersGrow DEF Publish, CoverInv
      <4>3. ASSUME NEW p \in built_predicates' PROVE Has(buffers', Sel[p])
        <5>1. CASE p \in built_predicates
          BY <5>1, <3>4, BuffersGrow DEF CoverInv
        <5>2. CASE p \notin built_predicates
          BY <5>2, <4>3, <2>10, <3>5 DEF Publish, Wanted
        <5>3. QED BY <5>1, <5>2
      <4>4. QED BY <4>1, <4>2, <4>3 DEF CoverInv, Has
    <3>8. AnswerInv'
      <4>1. rows' = [rows EXCEPT ![t] = Cut(buffers', Wanted(demand[t]))]
        BY <2>10 DEF Publish
      <4>2. ASSUME NEW u \in Threads, pc'[u] = "ok", u # t
            PROVE /\ \A k \in Keys : rows'[u][k] # Missing => rows'[u][k] = buffers'[k]
                  /\ Has(rows'[u], Wanted(demand'[u]))
        <5>1. pc[u] = "ok" /\ rows'[u] = rows[u] /\ demand'[u] = demand[u]
          BY <2>10, <4>1, <4>2 DEF MemoryTypeOK, Publish, WakeAll
        <5>2. QED BY <5>1, <3>4 DEF AnswerInv, Has
      <4>3. /\ \A k \in Keys : rows'[t][k] # Missing => rows'[t][k] = buffers'[k]
            /\ Has(rows'[t], Wanted(demand'[t]))
        <5>1. rows'[t] = Cut(buffers', Wanted(demand[t])) /\ demand' = demand
          BY <4>1, <2>10 DEF MemoryTypeOK, Publish
        <5>2. Wanted(demand[t]) \in SUBSET Keys
          BY WantedType DEF MemoryTypeOK
        <5>3. QED BY <5>1, <5>2, <3>5, MemoryCacheAssumption DEF Cut, Has
      <4>4. QED BY <4>2, <4>3 DEF AnswerInv
    <3>9. QED BY <3>3, <3>7, <3>8
  <2>11. ASSUME NEW t \in Threads, Interrupt(t) PROVE CacheInv'
    BY <2>11 DEF MemoryTypeOK, Interrupt, FlightInv, TodoInv, CoverInv, AnswerInv,
                 Building, BuiltKeys, Has, cacheVars
  <2>12. CASE UNCHANGED memoryVars
    BY <2>12 DEF memoryVars, FlightInv, TodoInv, CoverInv, AnswerInv, Building,
                 BuiltKeys, Has, cacheVars
  <2>13. QED
    BY <2>1, <2>2, <2>3, <2>4, <2>5, <2>6, <2>7, <2>8, <2>9, <2>10, <2>11, <2>12
    DEF MemoryNext, ThreadStep
<1>3. QED BY <1>1, <1>2, TypeCorrect, PTL DEF MemorySpec

-----------------------------------------------------------------------------
(* At most one thread runs the builder and, without interrupts, the flag   *)
(* building is never left set without a thread that will clear it          *)
(* (l.193, l.260, l.310, l.325).                                           *)
THEOREM SoleBuilderHolds == MemorySpec => []SoleBuilder
<1>1. MemoryInit => SoleBuilder
  BY DEF MemoryInit, SoleBuilder, Building
<1>2. MemoryTypeOK /\ CacheInv /\ SoleBuilder /\ [MemoryNext]_memoryVars => SoleBuilder'
  <2> SUFFICES ASSUME MemoryTypeOK, CacheInv, SoleBuilder, [MemoryNext]_memoryVars PROVE SoleBuilder'
    OBVIOUS
  <2> USE DEF SoleBuilder, Building, MemoryTypeOK
  <2>1. CASE \E k \in Keys : SourceChanges(k)
    BY <2>1 DEF SourceChanges, cacheVars
  <2>2. ASSUME NEW t \in Threads, NEW p \in Demands, Demand(t, p) PROVE SoleBuilder'
    BY <2>2 DEF Demand, cacheVars
  <2>3. ASSUME NEW t \in Threads, RaiseRecorded(t) PROVE SoleBuilder'
    BY <2>3 DEF RaiseRecorded, cacheVars
  <2>4. ASSUME NEW t \in Threads, Serve(t) PROVE SoleBuilder'
    BY <2>4 DEF Serve, cacheVars
  <2>5. ASSUME NEW t \in Threads, Wait(t) PROVE SoleBuilder'
    BY <2>5 DEF Wait, cacheVars
  <2>6. ASSUME NEW t \in Threads, Claim(t) PROVE SoleBuilder'
    BY <2>6 DEF Claim, CacheInv, FlightInv
  <2>7. ASSUME NEW t \in Threads, Collect(t) PROVE SoleBuilder'
    BY <2>7 DEF Collect, cacheVars
  <2>8. ASSUME NEW t \in Threads, BuildRaises(t) PROVE SoleBuilder'
    BY <2>8 DEF BuildRaises, cacheVars
  <2>9. ASSUME NEW t \in Threads, RecordFailure(t) PROVE SoleBuilder'
    BY <2>9 DEF RecordFailure, WakeAll
  <2>10. ASSUME NEW t \in Threads, Publish(t) PROVE SoleBuilder'
    BY <2>10 DEF Publish, WakeAll
  <2>11. ASSUME NEW t \in Threads, Interrupt(t) PROVE SoleBuilder'
    BY <2>11 DEF Interrupt, cacheVars
  <2>12. CASE UNCHANGED memoryVars
    BY <2>12 DEF memoryVars, cacheVars
  <2>13. QED
    BY <2>1, <2>2, <2>3, <2>4, <2>5, <2>6, <2>7, <2>8, <2>9, <2>10, <2>11, <2>12
    DEF MemoryNext, ThreadStep
<1>3. QED BY <1>1, <1>2, TypeCorrect, CacheInvariant, PTL DEF MemorySpec

(* No two collects see different contents of a partition, although the     *)
(* source changes between the builds that read it (setdefault, l.317).     *)
THEOREM AnswersAgreeHolds == MemorySpec => []AnswersAgree
<1>1. CacheInv => AnswersAgree
  BY DEF CacheInv, AnswerInv, AnswersAgree
<1>2. QED BY <1>1, CacheInvariant, PTL

(* No demanded partition of the source is missing from an answer, whatever *)
(* the order of restricted and full builds (l.206-229, l.314-324).         *)
THEOREM AnswersCompleteHolds == MemorySpec => []AnswersComplete
<1>1. CacheInv => AnswersComplete
  BY DEF CacheInv, AnswerInv, AnswersComplete, Has
<1>2. QED BY <1>1, CacheInvariant, PTL

(* A failed build is final: nobody builds and nobody is served after it    *)
(* (l.241-247, l.308-312).                                                 *)
THEOREM FailureIsFinalHolds == MemorySpec => FailureIsFinal
<1>1. MemoryTypeOK /\ CacheInv /\ [MemoryNext]_memoryVars =>
        [build_error => /\ build_error'
                        /\ builds' = builds
                        /\ \A t \in Threads : pc'[t] = "ok" => pc[t] = "ok"]_memoryVars
  <2> SUFFICES ASSUME MemoryTypeOK, CacheInv, [MemoryNext]_memoryVars, build_error
               PROVE  \/ /\ build_error'
                         /\ builds' = builds
                         /\ \A t \in Threads : pc'[t] = "ok" => pc[t] = "ok"
                      \/ UNCHANGED memoryVars
    OBVIOUS
  <2>1. \A t \in Threads : ~Building(t)
    BY DEF CacheInv, FlightInv
  <2>2. CASE \E k \in Keys : SourceChanges(k)
    BY <2>2 DEF SourceChanges, cacheVars, ghostVars
  <2>3. ASSUME NEW t \in Threads, NEW p \in Demands, Demand(t, p)
        PROVE  /\ build_error' /\ builds' = builds
               /\ \A u \in Threads : pc'[u] = "ok" => pc[u] = "ok"
    BY <2>3 DEF Demand, MemoryTypeOK, cacheVars, ghostVars
  <2>4. ASSUME NEW t \in Threads, RaiseRecorded(t) \/ Interrupt(t)
        PROVE  /\ build_error' /\ builds' = builds
               /\ \A u \in Threads : pc'[u] = "ok" => pc[u] = "ok"
    BY <2>4 DEF RaiseRecorded, Interrupt, MemoryTypeOK, cacheVars, ghostVars
  <2>5. ASSUME NEW t \in Threads,
               \/ Serve(t) \/ Wait(t) \/ Claim(t) \/ Collect(t)
               \/ BuildRaises(t) \/ RecordFailure(t) \/ Publish(t)
        PROVE FALSE
    BY <2>1, <2>5 DEF Serve, Wait, Claim, Collect, BuildRaises, RecordFailure,
                      Publish, Building
  <2>6. QED BY <2>2, <2>3, <2>4, <2>5 DEF MemoryNext, ThreadStep
<1>2. QED
  BY <1>1, TypeCorrect, CacheInvariant, PTL DEF MemorySpec, FailureIsFinal

-----------------------------------------------------------------------------
(* What bounds the builds.  Before the first unrestricted build every      *)
(* build recorded one more predicate, and a build that fails or is         *)
(* abandoned is the last one.  A partition is read at most once before     *)
(* that build, because a restricted build leaves out what is in the        *)
(* buffers.                                                                *)
Once(k) == IF buffers[k] # Missing THEN 1 ELSE 0

RequestInv ==
    \A t \in Threads : pc[t] \in {"claimed", "collected"} =>
        \/ todo[t].full
        \/ ~physical_keys /\ Partitioned /\ demand[t] \in Preds \ built_predicates
CountInv ==
    /\ builds = Cardinality(built_predicates)
                + (IF full_built \/ building \/ build_error THEN 1 ELSE 0)
    /\ building \/ build_error => ~full_built
    /\ ~Partitioned => built_predicates = {}
    /\ physical_keys => \A p, q \in built_predicates : p = q
ReadInv ==
    /\ ~full_built /\ ~building /\ ~build_error
          => \A k \in Keys : collects[k] <= Once(k)
    /\ \A t \in Threads, k \in Keys :
          /\ pc[t] = "claimed" =>
                /\ collects[k] <= Once(k)
                /\ ~todo[t].full /\ k \in todo[t].keys => buffers[k] = Missing
          /\ pc[t] = "collected" =>
                /\ collects[k] <= Once(k) + IF new_buffers[t][k] # Missing THEN 1 ELSE 0
                /\ ~todo[t].full /\ new_buffers[t][k] # Missing => buffers[k] = Missing
    /\ \A k \in Keys : collects[k] <= 2

BuildInv == RequestInv /\ CountInv /\ ReadInv

(* A thread without a build in flight.                                     *)
Idle(t) == pc[t] \notin {"claimed", "collected"}

(* A step that changes nothing of the counters and no build in flight      *)
(* preserves what bounds the builds.                                       *)
LEMMA BuildFrame ==
    ASSUME BuildInv,
           UNCHANGED <<cacheVars, builds, collects>>,
           \A t \in Threads :
              \/ Idle(t)'
              \/ /\ pc'[t] = pc[t] /\ demand'[t] = demand[t]
                 /\ todo'[t] = todo[t] /\ new_buffers'[t] = new_buffers[t]
    PROVE  BuildInv'
<1>1. RequestInv'
  BY DEF BuildInv, RequestInv, Idle, cacheVars
<1>2. CountInv'
  BY DEF BuildInv, CountInv, cacheVars
<1>3. ReadInv'
  BY DEF BuildInv, ReadInv, Idle, Once, cacheVars
<1>4. QED BY <1>1, <1>2, <1>3 DEF BuildInv

(* The number of recorded predicates is a number.                          *)
LEMMA CountType ==
    MemoryTypeOK => IsFiniteSet(built_predicates) /\ Cardinality(built_predicates) \in Nat
  BY FS_Subset, FS_CardinalityType, MemoryCacheAssumption DEF MemoryTypeOK

(* The inductive invariant behind BuildsBounded.                           *)
THEOREM BuildInvariant == MemorySpec => []BuildInv
<1>1. MemoryInit => BuildInv
  BY MemoryCacheAssumption, FS_EmptySet
  DEF MemoryInit, BuildInv, RequestInv, CountInv, ReadInv, Once, Blank
<1>2. MemoryTypeOK /\ CacheInv /\ BuildInv /\ [MemoryNext]_memoryVars => BuildInv'
  <2> SUFFICES ASSUME MemoryTypeOK, CacheInv, BuildInv, [MemoryNext]_memoryVars PROVE BuildInv'
    OBVIOUS
  <2>1. CASE \E k \in Keys : SourceChanges(k)
    BY <2>1, BuildFrame DEF SourceChanges, ghostVars
  <2>2. ASSUME NEW t \in Threads, NEW p \in Demands, Demand(t, p) PROVE BuildInv'
    BY <2>2, BuildFrame DEF MemoryTypeOK, Demand, Idle, ghostVars
  <2>3. ASSUME NEW t \in Threads, RaiseRecorded(t) PROVE BuildInv'
    BY <2>3, BuildFrame DEF MemoryTypeOK, RaiseRecorded, Idle, ghostVars
  <2>4. ASSUME NEW t \in Threads, Serve(t) PROVE BuildInv'
    BY <2>4, BuildFrame DEF MemoryTypeOK, Serve, Idle, ghostVars
  <2>5. ASSUME NEW t \in Threads, Wait(t) PROVE BuildInv'
    BY <2>5, BuildFrame DEF MemoryTypeOK, Wait, Idle, ghostVars
  <2>6. ASSUME NEW t \in Threads, Claim(t) PROVE BuildInv'
    <3>1. /\ ~full_built /\ ~building /\ ~build_error
          /\ demand[t] \in Demands
          /\ Partitioned => demand[t] \notin built_predicates
      BY <2>6 DEF MemoryTypeOK, Claim, Covered
    <3>2. /\ building' /\ builds' = builds + 1
          /\ UNCHANGED <<full_built, build_error, built_predicates, physical_keys,
                         buffers, collects, demand, new_buffers>>
      BY <2>6 DEF Claim
    <3>3. CountInv'
      <4>1. builds = Cardinality(built_predicates)
        BY <3>1, CountType DEF BuildInv, CountInv
      <4>2. builds' = Cardinality(built_predicates') + 1
        BY <3>2, <4>1
      <4>3. QED BY <3>1, <3>2, <4>2 DEF BuildInv, CountInv
    <3>4. \A u \in Threads : u # t => Idle(u) /\ Idle(u)'
      BY <2>6, <3>1 DEF MemoryTypeOK, Claim, CacheInv, FlightInv, Building, Idle
    <3>5. pc'[t] = "claimed" /\ todo'[t] = PlanBuild(demand[t])
      BY <2>6 DEF MemoryTypeOK, Claim
    <3>6. \/ todo'[t].full
          \/ /\ ~physical_keys /\ Partitioned
             /\ demand[t] \in Preds \ built_predicates
             /\ todo'[t].keys \cap BuiltKeys = {}
      BY <3>1, <3>5 DEF PlanBuild, Demands
    <3>7. RequestInv'
      BY <3>2, <3>4, <3>6 DEF RequestInv, Idle
    <3>8. ReadInv'
      <4>1. \A k \in Keys : collects[k] <= Once(k) /\ collects[k] <= 2
        BY <3>1 DEF BuildInv, ReadInv
      <4>2. \A k \in Keys : Once(k)' = Once(k)
        BY <3>2 DEF Once
      <4>3. QED
        BY <3>2, <3>4, <3>5, <3>6, <4>1, <4>2 DEF ReadInv, Idle, BuiltKeys
    <3>9. QED BY <3>3, <3>7, <3>8 DEF BuildInv
  <2>7. ASSUME NEW t \in Threads, Collect(t) PROVE BuildInv'
    <3>1. /\ pc[t] = "claimed" /\ pc'[t] = "collected" /\ building /\ ~build_error
          /\ UNCHANGED <<cacheVars, demand, todo, builds>>
          /\ new_buffers'[t] = Collected(t)
          /\ \A u \in Threads : u # t => Idle(u) /\ Idle(u)'
      BY <2>7 DEF MemoryTypeOK, Collect, CacheInv, FlightInv, Building, Idle
    <3>2. RequestInv'
      BY <3>1 DEF BuildInv, RequestInv, Idle, cacheVars
    <3>3. CountInv'
      BY <3>1 DEF BuildInv, CountInv, cacheVars
    <3>4. ReadInv'
      <4>1. \A k \in Keys :
               /\ collects[k] \in Nat
               /\ collects'[k] = collects[k]
                                 + IF Collected(t)[k] # Missing THEN 1 ELSE 0
        BY <2>7 DEF MemoryTypeOK, Collect
      <4>2. \A k \in Keys : Once(k)' = Once(k) /\ Once(k) \in {0, 1}
        BY <3>1 DEF Once, cacheVars
      <4>3. \A k \in Keys :
               /\ collects[k] <= Once(k)
               /\ ~todo[t].full /\ k \in todo[t].keys => buffers[k] = Missing
        BY <3>1 DEF BuildInv, ReadInv
      <4>4. \A k \in Keys : Collected(t)[k] # Missing => k \in todo[t].keys
        BY DEF Collected
      <4>5. \A k \in Keys :
               /\ collects'[k] <= Once(k)' + IF new_buffers'[t][k] # Missing THEN 1 ELSE 0
               /\ collects'[k] <= 2
               /\ ~todo'[t].full /\ new_buffers'[t][k] # Missing => buffers'[k] = Missing
        BY <3>1, <4>1, <4>2, <4>3, <4>4 DEF cacheVars
      <4>6. QED BY <3>1, <4>5 DEF ReadInv, Idle, cacheVars
    <3>5. QED BY <3>2, <3>3, <3>4 DEF BuildInv
  <2>8. ASSUME NEW t \in Threads, BuildRaises(t) PROVE BuildInv'
    BY <2>8, BuildFrame DEF MemoryTypeOK, BuildRaises, Idle, ghostVars
  <2>9. ASSUME NEW t \in Threads, RecordFailure(t) PROVE BuildInv'
    <3>1. /\ building /\ build_error' /\ ~building'
          /\ \A u \in Threads : Idle(u)'
          /\ UNCHANGED <<full_built, built_predicates, physical_keys, builds, collects>>
      BY <2>9 DEF MemoryTypeOK, RecordFailure, WakeAll, CacheInv, FlightInv, Building, Idle,
                  ghostVars
    <3>2. RequestInv'
      BY <3>1 DEF RequestInv, Idle
    <3>3. CountInv'
      BY <3>1 DEF BuildInv, CountInv
    <3>4. ReadInv'
      BY <3>1 DEF BuildInv, ReadInv, Idle
    <3>5. QED BY <3>2, <3>3, <3>4 DEF BuildInv
  <2>10. ASSUME NEW t \in Threads, Publish(t) PROVE BuildInv'
    <3>1. /\ pc[t] = "collected" /\ building /\ ~build_error /\ ~full_built
          /\ ~building' /\ build_error' = build_error
          /\ builds' = builds /\ collects' = collects
          /\ full_built' = (full_built \/ todo[t].full)
          /\ physical_keys' \in PhysicalKeys
          /\ buffers' = Merged(t)
          /\ \A u \in Threads : Idle(u)'
      BY <2>10 DEF MemoryTypeOK, Publish, WakeAll, CacheInv, FlightInv, Building, Idle,
                   ghostVars, BuildInv, CountInv
    <3>2. RequestInv'
      BY <3>1 DEF RequestInv, Idle
    <3>3. CASE todo[t].full
      <4>1. built_predicates' = built_predicates /\ full_built'
        BY <2>10, <3>1, <3>3 DEF Publish
      <4>2. physical_keys' => \A p, q \in built_predicates' : p = q
        BY <3>1, <4>1 DEF BuildInv, CountInv, PhysicalKeys
      <4>3. CountInv'
        BY <3>1, <4>1, <4>2 DEF BuildInv, CountInv
      <4>4. ReadInv'
        BY <3>1, <4>1 DEF BuildInv, ReadInv, Idle
      <4>5. QED BY <3>2, <4>3, <4>4 DEF BuildInv
    <3>4. CASE ~todo[t].full
      <4>1. ~physical_keys /\ Partitioned /\ demand[t] \in Preds \ built_predicates
        BY <3>1, <3>4 DEF BuildInv, RequestInv
      <4>2. /\ built_predicates' = built_predicates \cup {demand[t]}
            /\ ~full_built'
        BY <2>10, <3>1, <3>4, <4>1, MemoryCacheAssumption DEF Publish
      <4>3. Cardinality(built_predicates') = Cardinality(built_predicates) + 1
        <5>1. IsFiniteSet(built_predicates)
          BY CountType
        <5>2. QED BY <4>1, <4>2, <5>1, FS_AddElement
      <4>4. physical_keys' => \A p, q \in built_predicates' : p = q
        BY <3>1, <4>1, <4>2 DEF PhysicalKeys
      <4>5. CountInv'
        <5>1. builds = Cardinality(built_predicates) + 1
          BY <3>1 DEF BuildInv, CountInv
        <5>2. builds' = Cardinality(built_predicates') + 0
          BY <3>1, <4>3, <5>1, CountType
        <5>3. QED BY <3>1, <4>1, <4>2, <4>4, <5>2 DEF CountInv
      <4>6. ReadInv'
        <5>1. \A k \in Keys :
                 /\ collects[k] <= Once(k) + IF new_buffers[t][k] # Missing THEN 1 ELSE 0
                 /\ new_buffers[t][k] # Missing => buffers[k] = Missing
                 /\ collects[k] <= 2
          BY <3>1, <3>4 DEF BuildInv, ReadInv
        <5>2. \A k \in Keys : collects'[k] <= Once(k)' /\ collects'[k] <= 2
          BY <3>1, <5>1 DEF MemoryTypeOK, Once, Merged
        <5>3. QED BY <3>1, <5>2 DEF ReadInv, Idle
      <4>7. QED BY <3>2, <4>5, <4>6 DEF BuildInv
    <3>5. QED BY <3>3, <3>4
  <2>11. ASSUME NEW t \in Threads, Interrupt(t) PROVE BuildInv'
    BY <2>11, BuildFrame DEF MemoryTypeOK, Interrupt, Idle, ghostVars
  <2>12. CASE UNCHANGED memoryVars
    BY <2>12, BuildFrame DEF memoryVars, ghostVars
  <2>13. QED
    BY <2>1, <2>2, <2>3, <2>4, <2>5, <2>6, <2>7, <2>8, <2>9, <2>10, <2>11, <2>12
    DEF MemoryNext, ThreadStep
<1>3. QED BY <1>1, <1>2, TypeCorrect, CacheInvariant, PTL DEF MemorySpec

(* The builder runs at most once without partition columns, twice when the *)
(* keys of a column are physical, and else once per distinct predicate and *)
(* once unrestricted; a partition is read at most twice (l.39, 137, 224).  *)
THEOREM BuildsBoundedHolds == MemorySpec => []BuildsBounded
<1>1. MemoryTypeOK /\ BuildInv => BuildsBounded
  <2> SUFFICES ASSUME MemoryTypeOK, BuildInv PROVE BuildsBounded
    OBVIOUS
  <2>1. \A k \in Keys : collects[k] <= 2
    BY DEF BuildInv, ReadInv
  <2>2. /\ IsFiniteSet(built_predicates)
        /\ Cardinality(built_predicates) \in Nat
        /\ Cardinality(built_predicates) <= Cardinality(Preds)
        /\ Cardinality(Preds) \in Nat
    BY FS_Subset, FS_CardinalityType, MemoryCacheAssumption DEF MemoryTypeOK
  <2>3. builds <= Cardinality(built_predicates) + 1
    BY <2>2 DEF BuildInv, CountInv
  <2>4. ~Partitioned => Cardinality(built_predicates) = 0
    BY FS_EmptySet DEF BuildInv, CountInv
  <2>5. physical_keys => Cardinality(built_predicates) <= 1
    <3>1. CASE built_predicates = {}
      BY <3>1, FS_EmptySet
    <3>2. ASSUME physical_keys, NEW p \in built_predicates
          PROVE  Cardinality(built_predicates) = 1
      <4>1. built_predicates = {p}
        BY <3>2 DEF BuildInv, CountInv
      <4>2. QED BY <4>1, FS_Singleton
    <3>3. QED BY <2>2, <3>1, <3>2
  <2>6. builds <= IF ~Partitioned THEN 1
                  ELSE IF physical_keys THEN 2 ELSE Cardinality(Preds) + 1
    BY <2>2, <2>3, <2>4, <2>5 DEF MemoryTypeOK
  <2>7. QED BY <2>1, <2>6 DEF BuildsBounded
<1>2. QED BY <1>1, TypeCorrect, BuildInvariant, PTL

-----------------------------------------------------------------------------
(* cache_memory implements the write-once store ReplayStore: Publish and   *)
(* Serve are its Answer, RecordFailure and RaiseRecorded its Refuse, and   *)
(* everything between a demand and its outcome is invisible.               *)
THEOREM Refinement == MemorySpec => ImplementsReplay
<1> USE DEF Status
<1>1. MemoryInit => Replay!ReplayInit
  BY DEF MemoryInit, Replay!ReplayInit, Replay!Blank, Blank
<1>2. MemoryTypeOK /\ MemoryTypeOK' /\ CacheInv /\ CacheInv' /\ [MemoryNext]_memoryVars
        => [Replay!ReplayNext]_(Replay!replayVars)
  <2> SUFFICES ASSUME MemoryTypeOK, MemoryTypeOK', CacheInv, CacheInv', [MemoryNext]_memoryVars
               PROVE  Replay!ReplayNext \/ UNCHANGED Replay!replayVars
    OBVIOUS
  <2> DEFINE st == [t \in Threads |-> Status(t)]
             wt == [t \in Threads |-> IF pc[t] = "idle" THEN {} ELSE Wanted(demand[t])]
  <2>1. CASE \E k \in Keys : SourceChanges(k)
    BY <2>1 DEF SourceChanges, Replay!replayVars, cacheVars
  <2>2. ASSUME NEW t \in Threads, NEW p \in Demands, Demand(t, p)
        PROVE Replay!ReplayNext
    <3>1. Wanted(p) \in SUBSET Keys
      BY WantedType
    <3>2. st' = [st EXCEPT ![t] = "pending"] /\ wt' = [wt EXCEPT ![t] = Wanted(p)]
      BY <2>2 DEF Demand, MemoryTypeOK
    <3>3. Replay!Ask(t, Wanted(p))
      BY <2>2, <3>2 DEF Demand, Replay!Ask, Replay!Blank, Blank, MemoryTypeOK, cacheVars
    <3>4. QED BY <3>1, <3>3 DEF Replay!ReplayNext
  <2>3. ASSUME NEW t \in Threads, RaiseRecorded(t) PROVE Replay!ReplayNext
    <3>1. st' = [st EXCEPT ![t] = "error"] /\ wt' = wt
      BY <2>3 DEF RaiseRecorded, MemoryTypeOK
    <3>2. Replay!Refuse(t)
      BY <2>3, <3>1 DEF RaiseRecorded, Replay!Refuse, cacheVars
    <3>3. QED BY <3>2 DEF Replay!ReplayNext
  <2>4. ASSUME NEW t \in Threads, Serve(t) PROVE Replay!ReplayNext
    <3>1. st' = [st EXCEPT ![t] = "ok"] /\ wt' = wt /\ wt[t] = Wanted(demand[t])
      BY <2>4 DEF Serve, MemoryTypeOK
    <3>2. Has(buffers, Wanted(demand[t]))
      BY <2>4, CoveredHas DEF Serve, MemoryTypeOK, CacheInv
    <3>3. Replay!Answer(t)
      BY <2>4, <3>1, <3>2
      DEF Serve, Replay!Answer, Replay!Cut, Cut, MemoryTypeOK, Has, cacheVars,
          Replay!Table, Replay!Content, Table, Contents
    <3>4. QED BY <3>3 DEF Replay!ReplayNext
  <2>5. ASSUME NEW t \in Threads, Wait(t) \/ Claim(t) \/ Collect(t) \/ BuildRaises(t)
        PROVE UNCHANGED Replay!replayVars
    <3>1. st' = st /\ wt' = wt
      BY <2>5 DEF Wait, Claim, Collect, BuildRaises, MemoryTypeOK
    <3>2. QED
      BY <2>5, <3>1 DEF Wait, Claim, Collect, BuildRaises, Replay!replayVars, cacheVars
  <2>6. ASSUME NEW t \in Threads, RecordFailure(t) PROVE Replay!ReplayNext
    <3>1. st' = [st EXCEPT ![t] = "error"] /\ wt' = wt
      BY <2>6 DEF RecordFailure, WakeAll, MemoryTypeOK
    <3>2. Replay!Refuse(t)
      BY <2>6, <3>1 DEF RecordFailure, Replay!Refuse
    <3>3. QED BY <3>2 DEF Replay!ReplayNext
  <2>7. ASSUME NEW t \in Threads, Publish(t) PROVE Replay!ReplayNext
    <3>1. st' = [st EXCEPT ![t] = "ok"] /\ wt' = wt /\ wt[t] = Wanted(demand[t])
      BY <2>7 DEF Publish, WakeAll, MemoryTypeOK
    <3>2. \A k \in Keys : buffers[k] # Missing => buffers'[k] = buffers[k]
      BY <2>7 DEF Publish, Merged
    <3>3. pc'[t] = "ok" /\ demand'[t] = demand[t]
      BY <2>7 DEF Publish, WakeAll, MemoryTypeOK
    <3>4. Has(rows'[t], Wanted(demand[t])) /\ rows'[t] = Cut(buffers', Wanted(demand[t]))
      BY <2>7, <3>3 DEF CacheInv, AnswerInv, Publish, Has, MemoryTypeOK
    <3>5. \A k \in Wanted(demand[t]) \cap InitialKeys : buffers'[k] # Missing
      BY <3>4, MemoryCacheAssumption DEF Has, Cut
    <3>6. ~build_error
      BY <2>7 DEF CacheInv, FlightInv, Building, Publish
    <3>7. rows' = [rows EXCEPT ![t] = Cut(buffers', Wanted(demand[t]))]
      BY <2>7 DEF Publish
    <3>8. Replay!Answer(t)
      BY <2>7, <3>1, <3>2, <3>5, <3>6, <3>7
      DEF Publish, Replay!Answer, Replay!Cut, Cut, MemoryTypeOK,
          Replay!Table, Replay!Content, Table, Contents
    <3>9. QED BY <3>8 DEF Replay!ReplayNext
  <2>8. ASSUME NEW t \in Threads, Interrupt(t) PROVE Replay!ReplayNext
    <3>1. st' = [st EXCEPT ![t] = "interrupted"] /\ wt' = wt
      BY <2>8 DEF Interrupt, MemoryTypeOK
    <3>2. Replay!Abandon(t)
      BY <2>8, <3>1 DEF Interrupt, Replay!Abandon, cacheVars
    <3>3. QED BY <3>2 DEF Replay!ReplayNext
  <2>9. CASE UNCHANGED memoryVars
    BY <2>9 DEF memoryVars, cacheVars, Replay!replayVars
  <2>10. QED
    BY <2>1, <2>2, <2>3, <2>4, <2>5, <2>6, <2>7, <2>8, <2>9 DEF MemoryNext, ThreadStep
<1>3. QED
  BY <1>1, <1>2, TypeCorrect, CacheInvariant, PTL
  DEF MemorySpec, ImplementsReplay, Replay!ReplaySpec
=============================================================================
