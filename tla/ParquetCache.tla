---------------------------- MODULE ParquetCache ----------------------------
(***************************************************************************)
(* cache_parquet (io_sources/lazy_cache_parquet.py): processes that query  *)
(* one cache directory partitioned by date, while the source behind it     *)
(* grows and is corrected.  A query lists the directory, plans what to     *)
(* fetch, takes the lock and plans again, sinks the missing partitions     *)
(* batch by batch, fills gaps with empty files, releases the lock and      *)
(* reads.  Sinks, deletions and visitors may fail, processes may be        *)
(* killed, and files expire.                                               *)
(*                                                                         *)
(* A partition is a day and its rows are a revision of the source.         *)
(***************************************************************************)
EXTENDS Integers, Sequences, FiniteSets, FiniteSetsExt

CONSTANTS
    Procs,           (* processes querying the cache                         *)
    Nobody,          (* holder of a free lock                                *)
    Asks,            (* the cache modes and date predicates that are asked   *)
    MaxDay,          (* bound on the days                                    *)
    InitialFrontier, (* last day the source is complete for at the start     *)
    MaxRev,          (* bound on the revisions of a day                      *)
    RowRevs,         (* the revisions in which a day has rows                *)
    UseLock,         (* lock is given                                        *)
    WriteBatchSize,  (* write_batch_size, 0 for None                         *)
    ReadRetries,     (* POLARS_IO_TOOLS_CACHE_READ_RETRIES                   *)
    MaxOpenSinks,    (* POLARS_MAX_OPEN_SINKS                                *)
    MaxScanPaths,    (* _MAX_ENUMERATED_SCAN_PATHS                           *)
    Faults,          (* what may go wrong: "sink", "delete", "kill",         *)
                     (* "visitor", "expiry", "listing"                       *)
    MaxQueries       (* bound on the queries of one process                  *)

Days == 1..MaxDay
Rev == 0..MaxRev
Modes == {"CACHE", "REBUILD", "READ_ONLY", "CACHE_ONLY"}
Kinds == {"finite", "above", "below", "all"}
Query == [kind : Kinds, lo : Days, hi : Days]

ASSUME ParquetCacheAssumption ==
    /\ Nobody \notin Procs
    /\ MaxDay \in Nat \ {0} /\ InitialFrontier \in 0..MaxDay
    /\ Asks \subseteq [mode : Modes, query : Query]
    /\ \A a \in Asks : a.query.lo <= a.query.hi
    /\ MaxRev \in Nat /\ RowRevs \subseteq 1..MaxRev
    /\ UseLock \in BOOLEAN
    /\ WriteBatchSize \in Nat /\ ReadRetries \in Nat
    /\ MaxOpenSinks \in Nat \ {0} /\ MaxScanPaths \in Nat /\ MaxQueries \in Nat
    /\ Faults \subseteq {"sink", "delete", "kill", "visitor", "expiry", "listing"}

VARIABLES
    source,    (* day -> current revision of its rows (external)              *)
    frontier,  (* the source is complete up to this day (external)            *)
    files,     (* day -> the rows in its cache file                           *)
    expired,   (* days whose file the expiry policy reports as expired        *)
    lock,      (* the process holding the write lock                          *)
    me,        (* process -> its local variables                              *)
    asof       (* ghost: day -> the revision its cache file was read from     *)

vars == <<source, frontier, files, expired, lock, me, asof>>

NoFile == -2       (* no cache file, no rows read                            *)
Torn == -1         (* an incomplete cache file                               *)
Content == NoFile..MaxRev

(* The rows of revision r; 0 is the frame without rows.                    *)
Shown(r) == IF r \in RowRevs THEN r ELSE 0
NoRows == [d \in Days |-> NoFile]
Zero == [d \in Days |-> 0]
NoQuery == [kind |-> "all", lo |-> 1, hi |-> MaxDay]

Local ==
    [pc : {"idle", "plan", "lock", "write", "sink", "cleanup", "empties", "stale",
           "relist", "scan", "read", "done", "error"},
     mode : Modes,                 (* cache_mode                              *)
     query : Query,                (* the predicate on the date column        *)
     listed : SUBSET Days,         (* existing_parts of the latest listing    *)
     refresh : SUBSET Days,        (* refresh_keys                            *)
     fetching : BOOLEAN,           (* fetch_upstream                          *)
     fetch : SUBSET Days,          (* days the upstream filter selects        *)
     batches : Seq(SUBSET Days),   (* batches not yet finished, current first *)
     batched : BOOLEAN,
     snap : [Days -> Rev],         (* source as the current batch read it     *)
     written : SUBSET Days,        (* files the current sink has closed       *)
     wrote : SUBSET Days,          (* written_logical_parts                   *)
     completed : SUBSET Days,      (* completed_keys                          *)
     pending : SUBSET Days,        (* files still to be emptied or deleted    *)
     glob : BOOLEAN,               (* read_plan.use_paths is None             *)
     paths : SUBSET Days,          (* use_paths, or the glob once expanded    *)
     attempt : 0..ReadRetries,
     ans : [Days -> Content],      (* rows read from the cache                *)
     up : [Days -> Content],       (* rows read from upstream                 *)
     floor : [Days -> Rev],        (* ghost: oldest revision the plan allows  *)
     ansof : [Days -> Rev],        (* ghost: revision of ans                  *)
     runs : 0..MaxQueries]

TypeOK ==
    /\ source \in [Days -> Rev]
    /\ frontier \in 0..MaxDay
    /\ files \in [Days -> Content]
    /\ expired \in SUBSET Days
    /\ lock \in Procs \cup {Nobody}
    /\ asof \in [Days -> Rev]
    /\ me \in [Procs -> Local]

Idle == [pc |-> "idle", mode |-> "CACHE", query |-> NoQuery, listed |-> {}, refresh |-> {},
         fetching |-> FALSE, fetch |-> {}, batches |-> <<>>, batched |-> FALSE,
         snap |-> Zero, written |-> {}, wrote |-> {}, completed |-> {},
         pending |-> {}, glob |-> FALSE, paths |-> {}, attempt |-> 0,
         ans |-> NoRows, up |-> NoRows, floor |-> Zero, ansof |-> Zero, runs |-> 0]

Init ==
    /\ frontier = InitialFrontier
    /\ source \in {rev \in [Days -> {0, 1} \cap Rev] : \A d \in Days : d > frontier => rev[d] = 0}
    /\ files = NoRows
    /\ expired = {}
    /\ lock = Nobody
    /\ me = [p \in Procs |-> Idle]
    /\ asof = Zero

-----------------------------------------------------------------------------
(* The source (external).                                                  *)

(* The next day arrives, with rows or without: days arrive in order.       *)
Arrive(r) ==
    /\ frontier < MaxDay
    /\ frontier' = frontier + 1
    /\ source' = [source EXCEPT ![frontier + 1] = r]
    /\ UNCHANGED <<files, expired, lock, me, asof>>

(* A day that has arrived with rows is corrected.                          *)
Correct(d) ==
    /\ source[d] \in 1..(MaxRev - 1)
    /\ source' = [source EXCEPT ![d] = @ + 1]
    /\ UNCHANGED <<frontier, files, expired, lock, me, asof>>

(* The expiry policy starts to report a cached file.                       *)
Expire(d) ==
    /\ "expiry" \in Faults
    /\ files[d] # NoFile
    /\ d \notin expired
    /\ expired' = expired \cup {d}
    /\ UNCHANGED <<source, frontier, files, lock, me, asof>>

-----------------------------------------------------------------------------
(* Planning.                                                               *)

Finite(q) == q.kind = "finite"
Scope(q) == {d \in Days : /\ q.kind \in {"finite", "above"} => q.lo <= d
                          /\ q.kind \in {"finite", "below"} => d <= q.hi}

Listed == {d \in Days : files[d] # NoFile}

(* What list_cache may return: on S3, an error while listing is taken for  *)
(* a directory that does not exist yet.                                    *)
Listings == {Listed} \cup IF "listing" \in Faults THEN {{}} ELSE {}

NoWrite(p) == me[p].mode \in {"READ_ONLY", "CACHE_ONLY"}
Rebuilding(p) == me[p].mode = "REBUILD"

(* Expired files in the partition scope of q, planned as missing.          *)
RefreshKeys(p, q, seen) ==
    IF me[p].mode \in {"CACHE", "READ_ONLY"} THEN expired \cap Scope(q) \cap seen ELSE {}

(* Bug: expired days are not fetched.                                      *)
FetchSetTrusting(p, q, seen) == IF Rebuilding(p) THEN Scope(q) ELSE Scope(q) \ seen

(* Bug: the upstream filter leaves out the first day of the range.         *)
FetchSetOpen(p, q, seen) ==
    (IF Rebuilding(p) THEN Scope(q) ELSE Scope(q) \ (seen \ RefreshKeys(p, q, seen))) \ {q.lo}

(* Days whose rows the upstream filter of the write plan selects.          *)
FetchSet(p, q, seen) ==
    IF Rebuilding(p) THEN Scope(q) ELSE Scope(q) \ (seen \ RefreshKeys(p, q, seen))

(* fetch_upstream.                                                         *)
FetchUpstream(p, q, seen) ==
    /\ me[p].mode # "CACHE_ONLY"
    /\ Finite(q) => FetchSet(p, q, seen) # {}

(* Bug: a range without upper bound is not clipped.                        *)
ClippedNot(q, listed) ==
    IF q.kind = "above" /\ listed # {} THEN q.lo..MaxDay ELSE {}

(* Gaps of a one-sided query, clipped to the dates cached when it planned. *)
Clipped(q, listed) ==
    IF listed = {} THEN {}
    ELSE CASE q.kind = "above" -> q.lo..Max(listed)
           [] q.kind = "below" -> Min(listed)..q.hi
           [] OTHER -> {}

(* _missing_empty_keys: days to fill with an empty file.                   *)
MissingEmptyKeys(p) ==
    LET m == me[p]
        expected == IF Finite(m.query) THEN Scope(m.query) ELSE Clipped(m.query, m.listed)
        known == IF Rebuilding(p) THEN {} ELSE m.listed \ m.refresh
    IN expected \ (m.wrote \cup known)

(* _split_write_batches, with can_batch.                                   *)
Rank(d, S) == Cardinality({e \in S : e <= d})
(* Bug: a batch starts with the last day of the batch before it.           *)
SplitWriteBatchesOverlap(p, q, S) ==
    LET n == Cardinality(S)
        k == WriteBatchSize
    IN IF me[p].mode # "CACHE" \/ ~Finite(q) \/ k = 0 \/ n <= k
       THEN <<S>>
       ELSE [i \in 1..((n + k - 1) \div k) |-> {d \in S : Rank(d, S) \in (i - 1) * k .. i * k}]

SplitWriteBatches(p, q, S) ==
    LET n == Cardinality(S)
        k == WriteBatchSize
    IN IF me[p].mode # "CACHE" \/ ~Finite(q) \/ k = 0 \/ n <= k
       THEN <<S>>
       ELSE [i \in 1..((n + k - 1) \div k) |-> {d \in S : (Rank(d, S) + k - 1) \div k = i}]

(* Bug: READ_ONLY also reads the expired files.                            *)
ReadPlanExpired(p, q, refresh, existing, hasFiles) ==
    LET hits == Scope(q) \cap existing
        glob == hasFiles /\ (Finite(q) => Cardinality(hits) > MaxScanPaths)
    IN [glob |-> glob, paths |-> IF hasFiles /\ ~glob THEN hits ELSE {}]

(* _build_read_plan: explicit paths, or the glob.  existing is what the    *)
(* plan knows of the directory and hasFiles whether it has any file.       *)
ReadPlan(p, q, refresh, existing, hasFiles) ==
    LET kept == existing \ refresh
        known == IF me[p].mode = "READ_ONLY" THEN kept ELSE existing
        hits == Scope(q) \cap known
        glob == hasFiles /\ (Finite(q) => Cardinality(hits) > MaxScanPaths)
    IN CASE glob /\ refresh # {} /\ NoWrite(p) -> [glob |-> FALSE, paths |-> kept]
         [] glob /\ ~(refresh # {} /\ NoWrite(p)) -> [glob |-> TRUE, paths |-> {}]
         [] OTHER -> [glob |-> FALSE, paths |-> IF hasFiles THEN hits ELSE {}]

(* Ghost: the days a query may answer from the files there are.            *)
Trusted(p) == IF Rebuilding(p) THEN {} ELSE Listed \ expired

(* A listing of the directory and the plan made from it.                   *)
Planned(p, seen) ==
    LET q == me[p].query
        fetch == FetchUpstream(p, q, seen)
    IN [me[p] EXCEPT
           !.listed = seen,
           !.refresh = RefreshKeys(p, q, seen),
           !.fetching = fetch,
           !.fetch = IF fetch THEN FetchSet(p, q, seen) ELSE {},
           !.floor = [d \in Days |-> IF d \in Trusted(p) THEN asof[d] ELSE source[d]]]

-----------------------------------------------------------------------------
(* The steps of a query.                                                   *)

Start(p, a) ==
    /\ me[p].pc \in {"idle", "done", "error"}
    /\ me[p].runs < MaxQueries
    /\ me' = [me EXCEPT ![p] = [Idle EXCEPT !.pc = "plan", !.mode = a.mode,
                                            !.query = a.query, !.runs = me[p].runs + 1]]
    /\ UNCHANGED <<source, frontier, files, expired, lock, asof>>

(* Nothing to fetch, or nothing may be written: go on to read.             *)
PlanRead(p) ==
    /\ me[p].pc = "plan"
    /\ \E seen \in Listings :
          /\ NoWrite(p) \/ ~FetchUpstream(p, me[p].query, seen)
          /\ LET m == Planned(p, seen)
                 r == ReadPlan(p, m.query, m.refresh, seen, seen # {})
             IN me' = [me EXCEPT ![p] = [m EXCEPT !.pc = "scan", !.glob = r.glob, !.paths = r.paths]]
    /\ lock' = IF lock = p THEN Nobody ELSE lock
    /\ UNCHANGED <<source, frontier, files, expired, asof>>

(* Something to write, but the lock is not held yet.                       *)
PlanLock(p) ==
    /\ me[p].pc = "plan"
    /\ UseLock /\ lock # p
    /\ \E seen \in Listings :
          /\ ~NoWrite(p) /\ FetchUpstream(p, me[p].query, seen)
          /\ me' = [me EXCEPT ![p] = [Planned(p, seen) EXCEPT !.pc = "lock"]]
    /\ UNCHANGED <<source, frontier, files, expired, lock, asof>>

(* Bug: the plan made before waiting for the lock is carried out.          *)
AcquireLockStale(p) ==
    /\ me[p].pc = "lock"
    /\ lock = Nobody
    /\ lock' = p
    /\ LET batches == SplitWriteBatches(p, me[p].query, me[p].fetch)
       IN me' = [me EXCEPT ![p].pc = "write", ![p].batches = batches,
                           ![p].batched = Len(batches) > 1]
    /\ UNCHANGED <<source, frontier, files, expired, asof>>

(* The lock is acquired: plan again.                                       *)
AcquireLock(p) ==
    /\ me[p].pc = "lock"
    /\ lock = Nobody
    /\ lock' = p
    /\ me' = [me EXCEPT ![p].pc = "plan"]
    /\ UNCHANGED <<source, frontier, files, expired, asof>>

(* Bug: a process writes without the lock.                                 *)
PlanWriteUnlocked(p) ==
    /\ me[p].pc = "plan"
    /\ \E seen \in Listings :
          /\ ~NoWrite(p) /\ FetchUpstream(p, me[p].query, seen)
          /\ LET m == Planned(p, seen)
             IN me' = [me EXCEPT ![p] = [m EXCEPT !.pc = "write", !.batches = <<m.fetch>>]]
    /\ UNCHANGED <<source, frontier, files, expired, lock, asof>>

(* Something to write, under the lock if there is one.                     *)
PlanWrite(p) ==
    /\ me[p].pc = "plan"
    /\ ~UseLock \/ lock = p
    /\ \E seen \in Listings :
          /\ ~NoWrite(p) /\ FetchUpstream(p, me[p].query, seen)
          /\ LET m == Planned(p, seen)
                 batches == SplitWriteBatches(p, m.query, m.fetch)
             IN me' = [me EXCEPT ![p] = [m EXCEPT !.pc = "write", !.batches = batches,
                                                  !.batched = Len(batches) > 1]]
    /\ UNCHANGED <<source, frontier, files, expired, lock, asof>>

(* The query fails: the exception leaves the ExitStack, freeing the lock.  *)
Raise(p) ==
    /\ me' = [me EXCEPT ![p] = [Idle EXCEPT !.pc = "error", !.runs = me[p].runs]]
    /\ lock' = IF lock = p THEN Nobody ELSE lock

(* Too many partitions for one sink: refused before anything is opened.    *)
RefuseBatch(p) ==
    /\ me[p].pc = "write"
    /\ Finite(me[p].query)
    /\ Cardinality(Head(me[p].batches)) > MaxOpenSinks
    /\ Raise(p)
    /\ UNCHANGED <<source, frontier, files, expired, asof>>

(* The sink of the current batch reads the source.                         *)
SinkReads(p) ==
    /\ me[p].pc = "write"
    /\ Finite(me[p].query) => Cardinality(Head(me[p].batches)) <= MaxOpenSinks
    /\ me' = [me EXCEPT ![p].pc = "sink", ![p].snap = source, ![p].written = {}]
    /\ UNCHANGED <<source, frontier, files, expired, lock, asof>>

(* Days of the current batch for which the sink has rows.                  *)
SinkRows(p) == {d \in Head(me[p].batches) : Shown(me[p].snap[d]) # 0}

Write(d, content, r) ==
    /\ files' = [files EXCEPT ![d] = content]
    /\ asof' = [asof EXCEPT ![d] = r]
    /\ expired' = expired \ {d}

(* The sink closes the file of one partition, replacing it atomically.     *)
SinkFile(p, d) ==
    /\ me[p].pc = "sink"
    /\ d \in SinkRows(p) \ me[p].written
    /\ Cardinality(SinkRows(p)) <= MaxOpenSinks
    /\ Write(d, Shown(me[p].snap[d]), me[p].snap[d])
    /\ me' = [me EXCEPT ![p].written = @ \cup {d}]
    /\ UNCHANGED <<source, frontier, lock>>

(* The sink is done.  A batch among several empties its own gaps now.      *)
SinkDone(p) ==
    /\ me[p].pc = "sink"
    /\ me[p].written = SinkRows(p)
    /\ LET batch == Head(me[p].batches)
           m == [me[p] EXCEPT !.wrote = @ \cup me[p].written,
                              !.completed = @ \cup me[p].written]
           gaps == ((MissingEmptyKeys(p) \cup m.refresh) \cap batch) \ m.written
       IN me' = [me EXCEPT ![p] = [m EXCEPT !.pc = IF m.batched THEN "empties" ELSE "stale",
                                            !.pending = IF m.batched THEN gaps ELSE {}]]
    /\ UNCHANGED <<source, frontier, files, expired, lock, asof>>

(* Bug: only the files the failed sink has closed are deleted.             *)
SinkFailsClosedOnly(p) ==
    /\ me[p].pc = "sink"
    /\ "sink" \in Faults \/ Cardinality(SinkRows(p)) > MaxOpenSinks
    /\ \E torn \in SUBSET (SinkRows(p) \ me[p].written) :
          files' = [d \in Days |-> IF d \in torn THEN Torn ELSE files[d]]
    /\ me' = [me EXCEPT ![p].pc = "cleanup", ![p].pending = me[p].written]
    /\ UNCHANGED <<source, frontier, expired, lock, asof>>

(* The sink fails, or polars reopens a partition because too many are      *)
(* open.  Some of the files it opened are left incomplete.                 *)
SinkFails(p) ==
    /\ me[p].pc = "sink"
    /\ "sink" \in Faults \/ Cardinality(SinkRows(p)) > MaxOpenSinks
    /\ \E opened \in SUBSET SinkRows(p) :
          /\ me[p].written \subseteq opened
          /\ \E torn \in SUBSET (opened \ me[p].written) :
                files' = [d \in Days |-> IF d \in torn THEN Torn ELSE files[d]]
          /\ me' = [me EXCEPT ![p].pc = "cleanup", ![p].pending = opened]
    /\ UNCHANGED <<source, frontier, expired, lock, asof>>

Delete(d) ==
    \/ files' = [files EXCEPT ![d] = NoFile] /\ expired' = expired \ {d}
    \/ "delete" \in Faults /\ UNCHANGED <<files, expired>>

(* A file the failed sink opened is deleted, best effort.                  *)
CleanUp(p) ==
    /\ me[p].pc = "cleanup"
    /\ me[p].pending # {}
    /\ Delete(Min(me[p].pending))
    /\ me' = [me EXCEPT ![p].pending = @ \ {Min(@)}]
    /\ UNCHANGED <<source, frontier, lock, asof>>

CleanedUp(p) ==
    /\ me[p].pc = "cleanup"
    /\ me[p].pending = {}
    /\ Raise(p)
    /\ UNCHANGED <<source, frontier, files, expired, asof>>

(* write_empty writes one empty file.                                      *)
WriteEmpty(p) ==
    /\ me[p].pc = "empties"
    /\ me[p].pending # {}
    /\ LET d == Min(me[p].pending)
       IN /\ Write(d, 0, me[p].snap[d])
          /\ me' = [me EXCEPT ![p].pending = @ \ {d}, ![p].completed = @ \cup {d}]
    /\ UNCHANGED <<source, frontier, lock>>

(* The empty files are written: next batch, stale files, or last listing.  *)
EmptiesDone(p) ==
    /\ me[p].pc = "empties"
    /\ me[p].pending = {}
    /\ LET more == Len(me[p].batches) > 1
       IN me' = [me EXCEPT ![p].batches = IF more THEN Tail(@) ELSE @,
                           ![p].batched = @ /\ more,
                           ![p].pc = IF more THEN "write"
                                     ELSE IF me[p].batched THEN "stale" ELSE "relist"]
    /\ UNCHANGED <<source, frontier, files, expired, lock, asof>>

(* Bug: stale files of the whole directory are deleted.                    *)
StaleKeysAll(p) ==
    IF Rebuilding(p) /\ ~Finite(me[p].query) THEN me[p].listed \ me[p].wrote ELSE {}

(* REBUILD of a range that cannot be enumerated: cached files in scope     *)
(* that upstream no longer fills.                                          *)
StaleKeys(p) ==
    IF Rebuilding(p) /\ ~Finite(me[p].query)
    THEN (me[p].listed \cap Scope(me[p].query)) \ me[p].wrote ELSE {}

(* Stale files are deleted, best effort, before the last gaps are filled.  *)
DeleteStale(p) ==
    /\ me[p].pc = "stale"
    /\ StaleKeys(p) \ me[p].pending # {}
    /\ LET d == Min(StaleKeys(p) \ me[p].pending)
       IN /\ Delete(d)
          /\ me' = [me EXCEPT ![p].pending = @ \cup {d}]
    /\ UNCHANGED <<source, frontier, lock, asof>>

StaleDone(p) ==
    /\ me[p].pc = "stale"
    /\ StaleKeys(p) \subseteq me[p].pending
    /\ me' = [me EXCEPT
                 ![p].pc = "empties",
                 ![p].pending = ((MissingEmptyKeys(p) \cup me[p].refresh) \ me[p].wrote)
                                \ me[p].completed]
    /\ UNCHANGED <<source, frontier, files, expired, lock, asof>>

(* file_visitor raises for a file just written, by the sink or as a gap.   *)
VisitorRaises(p) ==
    /\ "visitor" \in Faults
    /\ \/ /\ me[p].pc = "sink"
          /\ me[p].written = SinkRows(p) /\ me[p].written # {}
          /\ UNCHANGED <<files, expired, asof>>
       \/ /\ me[p].pc = "empties"
          /\ me[p].pending # {}
          /\ LET d == Min(me[p].pending) IN Write(d, 0, me[p].snap[d])
    /\ Raise(p)
    /\ UNCHANGED <<source, frontier>>

(* Bug: the lock is not released.                                          *)
RelistKeepsLock(p) ==
    /\ me[p].pc = "relist"
    /\ \E seen \in Listings :
          LET r == ReadPlan(p, me[p].query, me[p].refresh, seen, seen # {})
          IN me' = [me EXCEPT ![p].pc = "scan", ![p].listed = seen,
                              ![p].glob = r.glob, ![p].paths = r.paths]
    /\ UNCHANGED <<source, frontier, files, expired, lock, asof>>

(* The directory is listed again, the lock released and the read planned.  *)
Relist(p) ==
    /\ me[p].pc = "relist"
    /\ \E seen \in Listings :
          LET r == ReadPlan(p, me[p].query, me[p].refresh, seen, seen # {})
          IN me' = [me EXCEPT ![p].pc = "scan", ![p].listed = seen,
                              ![p].glob = r.glob, ![p].paths = r.paths]
    /\ lock' = IF lock = p THEN Nobody ELSE lock
    /\ UNCHANGED <<source, frontier, files, expired, asof>>

(* The scan resolves its paths and reads the metadata of the files.        *)
OpenScan(p) ==
    /\ me[p].pc = "scan"
    /\ LET paths == IF me[p].glob THEN Listed ELSE me[p].paths
       IN me' = [me EXCEPT ![p].pc = "read", ![p].paths = paths, ![p].ansof = asof,
                           ![p].ans = [d \in Days |-> IF d \in paths THEN files[d] ELSE NoFile]]
    /\ UNCHANGED <<source, frontier, files, expired, lock, asof>>

ReadsUpstream(p) == NoWrite(p) /\ me[p].fetching

(* A path of the scan does not exist, or the glob matched nothing.         *)
Unresolved(p) ==
    \/ me[p].glob /\ me[p].paths = {}
    \/ \E d \in me[p].paths : me[p].ans[d] = NoFile

(* The rows are returned, filtered by the predicate; without writing, the  *)
(* missing partitions come from upstream.                                  *)
ReadDone(p) ==
    /\ me[p].pc = "read"
    /\ ~Unresolved(p)
    /\ LET m == me[p]
           ans == [d \in Days |-> IF d \in Scope(m.query) THEN m.ans[d] ELSE NoFile]
           up == [d \in Days |-> IF ReadsUpstream(p) /\ d \in m.fetch
                                 THEN Shown(source[d]) ELSE NoFile]
       IN me' = [me EXCEPT ![p] = [Idle EXCEPT !.pc = "done", !.mode = m.mode, !.query = m.query,
                    !.fetch = m.fetch, !.ans = ans, !.up = up,
                    !.floor = m.floor, !.ansof = m.ansof, !.runs = m.runs]]
    /\ UNCHANGED <<source, frontier, files, expired, lock, asof>>

(* A file was replaced or deleted since the scan resolved it.              *)
Disturbed(p) ==
    \/ Unresolved(p)
    \/ \E d \in me[p].paths : files[d] # me[p].ans[d] \/ asof[d] # me[p].ansof[d]

(* The read fails before it yields, and is retried with a new scan of the  *)
(* same plan, unless it also queries upstream.                             *)
ReadRetry(p) ==
    /\ me[p].pc = "read"
    /\ Disturbed(p)
    /\ ~ReadsUpstream(p)
    /\ me[p].attempt < ReadRetries
    /\ me' = [me EXCEPT ![p].pc = "scan", ![p].attempt = @ + 1]
    /\ UNCHANGED <<source, frontier, files, expired, lock, asof>>

(* The read fails for good: after yielding rows, or out of attempts.       *)
ReadFails(p) ==
    /\ me[p].pc = "read"
    /\ Disturbed(p)
    /\ Raise(p)
    /\ UNCHANGED <<source, frontier, files, expired, asof>>

(* The process is killed and deletes nothing; its lock is released.        *)
Kill(p) ==
    /\ "kill" \in Faults
    /\ me[p].pc \notin {"idle", "done", "error"}
    /\ me' = [me EXCEPT ![p] = [Idle EXCEPT !.runs = me[p].runs]]
    /\ lock' = IF lock = p THEN Nobody ELSE lock
    /\ UNCHANGED <<source, frontier, files, expired, asof>>

Step(p) ==
    \/ PlanRead(p) \/ PlanLock(p) \/ AcquireLock(p) \/ PlanWrite(p)
    \/ RefuseBatch(p) \/ SinkReads(p) \/ (\E d \in Days : SinkFile(p, d))
    \/ SinkDone(p) \/ SinkFails(p) \/ CleanUp(p) \/ CleanedUp(p)
    \/ WriteEmpty(p) \/ EmptiesDone(p) \/ DeleteStale(p) \/ StaleDone(p)
    \/ VisitorRaises(p) \/ Relist(p)
    \/ OpenScan(p) \/ ReadDone(p) \/ ReadRetry(p) \/ ReadFails(p)

Next ==
    \/ \E r \in {0, 1} \cap Rev : Arrive(r)
    \/ \E d \in Days : Correct(d) \/ Expire(d)
    \/ \E p \in Procs : (\E a \in Asks : Start(p, a)) \/ Step(p) \/ Kill(p)

(* A query in progress keeps running: polars drives the source to its end. *)
Fairness == \A p \in Procs : WF_vars(Step(p))

Spec == Init /\ [][Next]_vars
FairSpec == Spec /\ Fairness

-----------------------------------------------------------------------------
(* Properties.                                                             *)

Cached(d) == files[d] \notin {NoFile, Torn}

(* A complete cache file holds all the rows of its day at some revision:   *)
(* no gap is filled over rows the sink's own snapshot of the source had.   *)
FilesTrue ==
    \A d \in Days : Cached(d) => /\ files[d] = Shown(asof[d])
                                 /\ asof[d] <= source[d]

(* An answer is at least as recent as the plan it came from: a day planned *)
(* as cached is not older than the file listed, a day planned as missing   *)
(* not older than the source at that time, and a day without a file had no *)
(* rows at some moment since.                                              *)
AnswersFresh ==
    \A p \in Procs : \A d \in Scope(me[p].query) :
        me[p].pc = "done" /\ me[p].mode # "CACHE_ONLY" /\ me[p].up[d] = NoFile =>
            IF me[p].ans[d] = NoFile
            THEN \E r \in me[p].floor[d]..source[d] : Shown(r) = 0
            ELSE me[p].ans[d] # Torn /\ me[p].ansof[d] >= me[p].floor[d]

(* A day is answered once: from the cache or from upstream (READ_ONLY).    *)
NoRowTwice ==
    \A p \in Procs : \A d \in Days : me[p].ans[d] <= 0 \/ me[p].up[d] <= 0

(* Empty files are written only for days the source is complete for, those *)
(* up to the frontier, when the query's range is not a finite one.         *)
GapsSettled ==
    \A p \in Procs : me[p].pc = "empties" /\ ~Finite(me[p].query) =>
        me[p].pending \subseteq 1..frontier

(* An incomplete file only exists while the failed sink that left it is    *)
(* still deleting its files (unless a deletion fails).                     *)
TornCleaned ==
    \A d \in Days : files[d] = Torn =>
        \E p \in Procs : me[p].pc = "cleanup" /\ d \in me[p].pending

(* A write never comes to overwrite a partition it has already completed,  *)
(* which would raise "refusing to overwrite completed partition".          *)
NoOverwriteRefused ==
    \A p \in Procs :
        /\ me[p].pc = "sink" => SinkRows(p) \cap me[p].completed = {}
        /\ me[p].pc = "empties" => me[p].pending \cap me[p].completed = {}

(* A cached file is never replaced by an older revision of its day.        *)
VersionsAdvance == [][\A d \in Days : asof'[d] >= asof[d]]_vars

(* A complete file is kept: it is replaced only if expired or rebuilt, and *)
(* removed only by the failed sink that wrote it.  So a process that       *)
(* waited for the lock refetches nothing, and batches survive what follows.*)
FilesKept ==
    [][\A d \in Days : Cached(d) /\ <<files, asof>>' # <<files, asof>> =>
          \/ files'[d] = files[d] /\ asof'[d] = asof[d]
          \/ d \in expired
          \/ \E p \in Procs : Rebuilding(p) /\ me'[p] # me[p]
          \/ \E p \in Procs : me[p].pc = "cleanup" /\ d \in me[p].written]_vars

(* A query only writes or deletes files of its own partition scope.        *)
WritesStayInScope ==
    [][\A d \in Days : files'[d] # files[d] =>
          \E p \in Procs : d \in Scope(me[p].query) /\ me'[p] # me[p]]_vars

(* Every query ends, in an answer or in an error.                          *)
EveryQueryEnds ==
    \A p \in Procs : me[p].pc \notin {"idle", "done", "error"} ~>
                     me[p].pc \in {"idle", "done", "error"}
=============================================================================
