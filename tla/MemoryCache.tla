---------------------------- MODULE MemoryCache ----------------------------
(***************************************************************************)
(* cache_memory (io_sources/lazy_cache_memory.py): one instance of the     *)
(* in-memory cache, collected by concurrent threads.  A thread demands     *)
(* rows, and under the condition build_cond either is refused (a build     *)
(* failed before), is served from the buffers, parks until the build in    *)
(* flight ends, or becomes the sole builder.  The build itself runs        *)
(* outside the lock, over a source that may change between two builds.     *)
(*                                                                         *)
(* A region under build_cond is one action: nothing in it releases the     *)
(* lock except wait.                                                       *)
(***************************************************************************)
EXTENDS Integers, FiniteSets

CONSTANTS
    Threads,         (* threads collecting the returned frame               *)
    Keys,            (* partition keys; the one key () when not partitioned *)
    Preds,           (* predicates restricted to the partition columns,     *)
                     (* up to structural equality                           *)
    NoPred,          (* no usable predicate on the partition columns        *)
    Sel,             (* predicate -> the partitions it may have rows in     *)
    Partitioned,     (* partition_cols is not empty                         *)
    PhysicalCols,    (* what the first build may find out: is a partition   *)
                     (* column keyed by physical value?                     *)
    InitialKeys,     (* partitions the source has rows for from the start   *)
    MaxVersion,      (* bound on the changes of one partition's rows        *)
    AsyncInterrupts, (* an interrupt may hit a thread between two steps     *)
    Missing          (* no entry in a dictionary                            *)

ASSUME MemoryCacheAssumption ==
    /\ NoPred \notin Preds
    /\ Sel \in [Preds -> SUBSET Keys]
    /\ IsFiniteSet(Preds)
    /\ Partitioned \in BOOLEAN
    /\ PhysicalCols \subseteq BOOLEAN
    /\ AsyncInterrupts \in BOOLEAN
    /\ TRUE \in PhysicalCols => Partitioned
    /\ ~Partitioned => \E k \in Keys : Keys = {k}
    /\ InitialKeys \subseteq Keys
    /\ MaxVersion \in Nat \ {0}
    /\ Missing \notin Int

VARIABLES
    current,           (* partition -> version of its rows, 0 when it has none *)
    buffers,          (* partition -> materialised contents                   *)
    built_predicates, (* restricted predicates already built                  *)
    full_built,       (* an unrestricted build has run                        *)
    physical_keys,    (* a build keyed a partition column by physical value   *)
    build_error,      (* a build failed                                       *)
    building,         (* a build is in flight                                 *)
    pc,               (* thread -> where it is                                *)
    demand,           (* thread -> its restricted predicate                   *)
    todo,             (* thread -> the build it claimed                       *)
    new_buffers,      (* thread -> what its build collected                   *)
    rows,             (* thread -> what its collect returned                  *)
    builds,           (* ghost: number of builds started                      *)
    collects          (* ghost: partition -> number of builds that read it    *)

cacheVars == <<buffers, built_predicates, full_built, physical_keys,
               build_error, building>>
ghostVars == <<builds, collects>>
memoryVars == <<current, cacheVars, pc, demand, todo, new_buffers, rows, ghostVars>>

Contents == 0..MaxVersion
Table == [Keys -> Contents \cup {Missing}]
Blank == [k \in Keys |-> Missing]
NoTodo == [full |-> FALSE, keys |-> {}]
Demands == IF Partitioned THEN Preds \cup {NoPred} ELSE {NoPred}
Wanted(p) == IF p = NoPred THEN Keys ELSE Sel[p]
Cut(table, S) == [k \in Keys |-> IF k \in S THEN table[k] ELSE Missing]

(* built_keys, the partitions in buffers.                                  *)
BuiltKeys == {k \in Keys : buffers[k] # Missing}

MemoryTypeOK ==
    /\ current \in [Keys -> Contents]
    /\ buffers \in Table
    /\ built_predicates \in SUBSET Preds
    /\ full_built \in BOOLEAN
    /\ physical_keys \in BOOLEAN
    /\ build_error \in BOOLEAN
    /\ building \in BOOLEAN
    /\ pc \in [Threads -> {"idle", "looping", "waiting", "claimed", "collected",
                           "failing", "ok", "error", "interrupted"}]
    /\ demand \in [Threads -> Demands]
    /\ todo \in [Threads -> [full : BOOLEAN, keys : SUBSET Keys]]
    /\ new_buffers \in [Threads -> Table]
    /\ rows \in [Threads -> Table]
    /\ builds \in Nat
    /\ collects \in [Keys -> Nat]

MemoryInit ==
    /\ current = [k \in Keys |-> IF k \in InitialKeys THEN 1 ELSE 0]
    /\ buffers = Blank
    /\ built_predicates = {}
    /\ full_built = FALSE
    /\ physical_keys = FALSE
    /\ build_error = FALSE
    /\ building = FALSE
    /\ pc = [t \in Threads |-> "idle"]
    /\ demand = [t \in Threads |-> NoPred]
    /\ todo = [t \in Threads |-> NoTodo]
    /\ new_buffers = [t \in Threads |-> Blank]
    /\ rows = [t \in Threads |-> Blank]
    /\ builds = 0
    /\ collects = [k \in Keys |-> 0]

(* Bug: any buffer counts as everything, with partitions too.              *)
CoveredByAny(p) == full_built \/ BuiltKeys # {} \/ p \in built_predicates

(* Bug: a predicate seen before is not recognised.                         *)
CoveredForgets(p) == full_built \/ (~Partitioned /\ BuiltKeys # {})

(* Bug: without partition columns nothing ever counts as built.            *)
CoveredNever(p) == Partitioned /\ (full_built \/ p \in built_predicates)

(* _plan_build returns _NOTHING: everything p demands is in the buffers.   *)
Covered(p) ==
    \/ full_built
    \/ ~Partitioned /\ BuiltKeys # {}
    \/ Partitioned /\ p \in built_predicates

(* _plan_build: the build that a demand p not covered asks for.            *)
PlanBuild(p) ==
    IF ~Partitioned \/ p = NoPred \/ physical_keys
    THEN [full |-> TRUE, keys |-> Keys]
    ELSE [full |-> FALSE, keys |-> Sel[p] \ BuiltKeys]

(* The partitions that the build of t would put in new_buffers now.        *)
(* partition_by makes no frame for a partition without rows.               *)
Collected(t) ==
    [k \in Keys |-> IF k \in todo[t].keys /\ (Partitioned => current[k] # 0)
                    THEN current[k] ELSE Missing]

(* Bug: nobody is notified.                                                *)
WakeNone(t, l) == pc' = [pc EXCEPT ![t] = l]

(* build_cond.notify_all, with thread t moving on to label l.              *)
WakeAll(t, l) ==
    pc' = [u \in Threads |-> IF u = t THEN l
                             ELSE IF pc[u] = "waiting" THEN "looping"
                             ELSE pc[u]]

(* The rows of a partition change in the source (external).                *)
SourceChanges(k) ==
    /\ current[k] < MaxVersion
    /\ current' = [current EXCEPT ![k] = @ + 1]
    /\ UNCHANGED <<cacheVars, pc, demand, todo, new_buffers, rows, ghostVars>>

(* source_generator starts with predicate p restricted to partition_cols.  *)
Demand(t, p) ==
    /\ pc[t] \in {"idle", "ok", "error", "interrupted"}
    /\ pc' = [pc EXCEPT ![t] = "looping"]
    /\ demand' = [demand EXCEPT ![t] = p]
    /\ rows' = [rows EXCEPT ![t] = Blank]
    /\ UNCHANGED <<current, cacheVars, todo, new_buffers, ghostVars>>

(* get_partitions finds the recorded failure of an earlier build.          *)
RaiseRecorded(t) ==
    /\ pc[t] = "looping"
    /\ build_error
    /\ pc' = [pc EXCEPT ![t] = "error"]
    /\ UNCHANGED <<current, cacheVars, demand, todo, new_buffers, rows, ghostVars>>

(* Everything demanded is materialised: snapshot the buffers and filter.   *)
Serve(t) ==
    /\ pc[t] = "looping"
    /\ ~build_error
    /\ Covered(demand[t])
    /\ pc' = [pc EXCEPT ![t] = "ok"]
    /\ rows' = [rows EXCEPT ![t] = Cut(buffers, Wanted(demand[t]))]
    /\ UNCHANGED <<current, cacheVars, demand, todo, new_buffers, ghostVars>>

(* Another thread is building: park on the condition.                      *)
Wait(t) ==
    /\ pc[t] = "looping"
    /\ ~build_error
    /\ ~Covered(demand[t])
    /\ building
    /\ pc' = [pc EXCEPT ![t] = "waiting"]
    /\ UNCHANGED <<current, cacheVars, demand, todo, new_buffers, rows, ghostVars>>

(* No outcome yet and nobody building: become the sole builder.            *)
Claim(t) ==
    /\ pc[t] = "looping"
    /\ ~build_error
    /\ ~Covered(demand[t])
    /\ ~building
    /\ building' = TRUE
    /\ todo' = [todo EXCEPT ![t] = PlanBuild(demand[t])]
    /\ pc' = [pc EXCEPT ![t] = "claimed"]
    /\ builds' = builds + 1
    /\ UNCHANGED <<current, buffers, built_predicates, full_built, physical_keys,
                   build_error, demand, new_buffers, rows, collects>>

(* The builder collects its (filtered) frame, outside the lock.            *)
Collect(t) ==
    /\ pc[t] = "claimed"
    /\ new_buffers' = [new_buffers EXCEPT ![t] = Collected(t)]
    /\ collects' = [k \in Keys |->
                       IF Collected(t)[k] # Missing THEN collects[k] + 1
                                                    ELSE collects[k]]
    /\ pc' = [pc EXCEPT ![t] = "collected"]
    /\ UNCHANGED <<current, cacheVars, demand, todo, rows, builds>>

(* The builder, its collect or the schema reconciliation raises.           *)
BuildRaises(t) ==
    /\ pc[t] = "claimed"
    /\ pc' = [pc EXCEPT ![t] = "failing"]
    /\ UNCHANGED <<current, cacheVars, demand, todo, new_buffers, rows, ghostVars>>

(* Bug: the failure is not recorded, so that the next collect retries.     *)
RecordFailureForgets(t) ==
    /\ pc[t] = "failing"
    /\ building' = FALSE
    /\ WakeAll(t, "error")
    /\ todo' = [todo EXCEPT ![t] = NoTodo]
    /\ UNCHANGED <<current, buffers, built_predicates, full_built, physical_keys,
                   build_error, demand, new_buffers, rows, ghostVars>>

(* The handler records the failure for good, wakes the waiters, re-raises. *)
RecordFailure(t) ==
    /\ pc[t] = "failing"
    /\ build_error' = TRUE
    /\ building' = FALSE
    /\ WakeAll(t, "error")
    /\ todo' = [todo EXCEPT ![t] = NoTodo]
    /\ UNCHANGED <<current, buffers, built_predicates, full_built, physical_keys,
                   demand, new_buffers, rows, ghostVars>>

(* Bug: a partition collected again replaces the one published.            *)
MergedOver(t) ==
    [k \in Keys |-> IF new_buffers[t][k] # Missing THEN new_buffers[t][k] ELSE buffers[k]]

(* buffers after setdefault of every partition of new_buffers.             *)
Merged(t) ==
    [k \in Keys |-> IF buffers[k] = Missing THEN new_buffers[t][k] ELSE buffers[k]]

(* physical_cols: the first build finds out from the types of its frame.   *)
PhysicalKeys ==
    IF full_built \/ built_predicates # {} THEN {physical_keys} ELSE PhysicalCols

(* The builder publishes, remembers what is covered, wakes the waiters and *)
(* takes its own snapshot.                                                 *)
Publish(t) ==
    /\ pc[t] = "collected"
    /\ buffers' = Merged(t)
    /\ physical_keys' \in PhysicalKeys
    /\ full_built' = (full_built \/ todo[t].full)
    /\ built_predicates' = IF todo[t].full \/ demand[t] = NoPred THEN built_predicates
                           ELSE built_predicates \cup {demand[t]}
    /\ building' = FALSE
    /\ WakeAll(t, "ok")
    /\ rows' = [rows EXCEPT ![t] = Cut(Merged(t), Wanted(demand[t]))]
    /\ todo' = [todo EXCEPT ![t] = NoTodo]
    /\ new_buffers' = [new_buffers EXCEPT ![t] = Blank]
    /\ UNCHANGED <<current, build_error, demand, ghostVars>>

(* A KeyboardInterrupt reaches a thread while it is outside the try of the *)
(* build: in wait, between claiming the build and entering the try, or     *)
(* between leaving the try and taking the lock.  Nothing catches it.       *)
Interrupt(t) ==
    /\ AsyncInterrupts
    /\ pc[t] \in {"looping", "waiting", "claimed", "collected", "failing"}
    /\ pc' = [pc EXCEPT ![t] = "interrupted"]
    /\ todo' = [todo EXCEPT ![t] = NoTodo]
    /\ new_buffers' = [new_buffers EXCEPT ![t] = Blank]
    /\ UNCHANGED <<current, cacheVars, demand, rows, ghostVars>>

ThreadStep(t) ==
    \/ RaiseRecorded(t)
    \/ Serve(t)
    \/ Wait(t)
    \/ Claim(t)
    \/ Collect(t)
    \/ BuildRaises(t)
    \/ RecordFailure(t)
    \/ Publish(t)

MemoryNext ==
    \/ \E k \in Keys : SourceChanges(k)
    \/ \E t \in Threads :
          \/ \E p \in Demands : Demand(t, p)
          \/ ThreadStep(t)
          \/ Interrupt(t)

(* A thread inside source_generator keeps running; consumers need not      *)
(* collect again, sources need not change, interrupts need not happen.     *)
ThreadFairness == \A t \in Threads : WF_memoryVars(ThreadStep(t))

MemorySpec == MemoryInit /\ [][MemoryNext]_memoryVars
FairMemorySpec == MemorySpec /\ ThreadFairness

-----------------------------------------------------------------------------
Building(t) == pc[t] \in {"claimed", "collected", "failing"}

(* The builder is run by one thread at a time, whatever the interleaving   *)
(* of claims, failures and wake-ups, and the flag says so (l.193, l.260).  *)
SoleBuilder ==
    /\ \A t, u \in Threads : Building(t) /\ Building(u) => t = u
    /\ building => AsyncInterrupts \/ \E t \in Threads : Building(t)

(* Two collects never see different contents of the same partition, though *)
(* the source changes between the builds that read it: what was returned   *)
(* first is what every later collect returns (setdefault, l.317).          *)
AnswersAgree ==
    \A t, u \in Threads : pc[t] = "ok" /\ pc[u] = "ok" =>
        \A k \in Keys : rows[t][k] # Missing /\ rows[u][k] # Missing
                           => rows[t][k] = rows[u][k]

(* A collect that succeeds returns every demanded partition the source had *)
(* all along: the restriction, the exclusion of built partitions and the   *)
(* repeat-recognition never drop one (l.206-229).                          *)
AnswersComplete ==
    \A t \in Threads : pc[t] = "ok" =>
        \A k \in Wanted(demand[t]) \cap InitialKeys : rows[t][k] # Missing

(* The builder runs at most once without partition columns, at most twice  *)
(* when a column's keys are physical, since only the first build is then   *)
(* restricted, and else at most once per distinct predicate plus once      *)
(* unrestricted; no partition is read by more than one restricted build    *)
(* and one full one (l.39, 137, 224).                                      *)
BuildsBounded ==
    /\ builds <= IF ~Partitioned THEN 1
                 ELSE IF physical_keys THEN 2 ELSE Cardinality(Preds) + 1
    /\ \A k \in Keys : collects[k] <= 2

(* After a failed build nobody builds again and nobody is served: every    *)
(* later collect fails too (l.39-47).                                      *)
FailureIsFinal ==
    [][build_error => /\ build_error'
                      /\ builds' = builds
                      /\ \A t \in Threads : pc'[t] = "ok" => pc[t] = "ok"]_memoryVars

(* What each later operation relies on, and the argument for AnswersAgree, *)
(* AnswersComplete and FailureIsFinal: a build in flight is flagged and    *)
(* excludes a recorded failure; what it set out to collect, with what is   *)
(* in the buffers, covers its demand; full_built and built_predicates mark *)
(* only demands the buffers cover; what was returned is in the buffers.    *)
Has(table, S) == \A k \in S \cap InitialKeys : table[k] # Missing

FlightInv ==
    \A t \in Threads : Building(t) =>
        /\ building
        /\ ~build_error
        /\ \A u \in Threads : Building(u) => u = t
TodoInv ==
    \A t \in Threads :
        /\ pc[t] \in {"claimed", "collected"} =>
              /\ todo[t].full => todo[t].keys = Keys
              /\ Wanted(demand[t]) \subseteq todo[t].keys \cup BuiltKeys
        /\ pc[t] = "collected" => Has(new_buffers[t], todo[t].keys)
CoverInv ==
    /\ \A k \in InitialKeys : current[k] # 0
    /\ full_built => Has(buffers, Keys)
    /\ \A p \in built_predicates : Has(buffers, Sel[p])
AnswerInv ==
    \A t \in Threads : pc[t] = "ok" =>
        /\ \A k \in Keys : rows[t][k] # Missing => rows[t][k] = buffers[k]
        /\ Has(rows[t], Wanted(demand[t]))

CacheInv == FlightInv /\ TodoInv /\ CoverInv /\ AnswerInv

(* The flag of a build whose thread was interrupted: nobody resets it.      *)
Abandoned == building /\ \A t \in Threads : ~Building(t)

(* Every collect ends, with rows or with an error: no waiter is left       *)
(* parked after the build it waits for has ended (l.251-254, l.311, l.326),*)
(* unless a build was abandoned by an interrupt.                           *)
EveryCollectReturns ==
    \A t \in Threads :
        pc[t] = "looping" ~> pc[t] \in {"ok", "error", "interrupted"} \/ Abandoned

Status(t) ==
    IF pc[t] \in {"idle", "ok", "error", "interrupted"} THEN pc[t] ELSE "pending"

(* The store a consumer sees, of which this module is the implementation.  *)
Replay == INSTANCE ReplayStore WITH
    store <- buffers,
    broken <- build_error,
    status <- [t \in Threads |-> Status(t)],
    want <- [t \in Threads |-> IF pc[t] = "idle" THEN {} ELSE Wanted(demand[t])],
    rows <- rows

(* cache_memory behaves like a write-once store with a final failure.      *)
ImplementsReplay == Replay!ReplaySpec
=============================================================================
