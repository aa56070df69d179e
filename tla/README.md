# polars-io-tools: a verification project

TLA+ specifications of the stateful parts of polars-io-tools, TLC
configurations that model-check them on small instances, and proofs checked by
TLAPS. Paths are relative to the repository, and unless said otherwise to
`polars_io_tools/io_sources/`; line numbers are those of the modelled commit.

## The system

polars-io-tools makes data sources that look like a polars `LazyFrame`. A source
is a Python generator that the polars engine calls with the columns, the
predicate, the number of rows and the batch size it wants, and that yields data
frames. Sources wrap databases, caches, clusters, files and other frames; a
source collects the frames it wraps, so a collect can run several generators,
on threads of the engine, of the caller, and of the library itself.

### Inventory

| Component | State it keeps | Operations | What is hard | What makes it correct |
|---|---|---|---|---|
| `cache_memory` (`lazy_cache_memory.py`) | buffers by partition, what was built, a terminal error, a `building` flag under a condition variable | a collect: serve, wait, claim the build, build, publish or record the failure | threads that collect at once; a source that changes between builds; failures and interrupts | one builder at a time; two collects never disagree about a partition; an answer lacks nothing it asked for; a failure is final; nobody waits for ever |
| `cache_parquet` (`lazy_cache_parquet.py`) | files by partition in a directory several processes share, a lock file | a query: list, plan, lock, plan again, fetch and sink in batches, delete what is stale, fill gaps with empty files, plan the read, scan, retry | processes that race between plan, lock and scan; sinks that fail half way; kills; expiry; days that are not complete yet | files say what the source said; answers are as fresh as the plan allows and contain a row once; complete files survive the failures of others; the lock is freed |
| `cache` (`lazy_cache.py`) | a mapping from (frame, column, partition) to a series, shared by all collects; it may be an external store | a collect: discover, read, collect what is missing, validate, publish | entries read outside the lock; partitions with some of their columns; failures in the middle of publishing | answers are complete; misses and rebuilds are fresh; nothing invalid is published |
| `scan_db` (`lazy_sql_reader.py`) | per scan: futures, a bounded queue, a stop event; per process: an executor | split into slices, submit, stream, emit, stop, wait | worker threads against a generator that can stop at any yield; a pool that scans share | each row once, at most `n_rows`; caps on connections; no worker outlives its scan; every scan ends |
| `execute_on_ray` (`lazy_ray.py`) | a window of tasks in flight | submit, fetch in order or as completed, cut to `n_rows`, cancel | tasks that end in any order or fail; early stop and close | each row once; order where asked for; cap on tasks; everything in flight is cancelled |
| predicate algebra (`restrict_visitor.py`, `dnf_visitor.py`, `set_visitor.py`, `range_visitor.py`, `partitions.py`) | none | restrict a predicate to columns, disjunctive normal form, value sets and intervals of a column, splits | three-valued logic, negation, open and infinite bounds | never excludes a row that the predicate keeps |
| translations of predicates (`sql_utils.py`, `lazy_narwhals_reader.py`, `translated_source.py`) | none | SQL, a Narwhals expression, or an expression on stored columns for a predicate, or for the part that can be handed over | nulls and NaN elsewhere, dialects without booleans, what a negation makes of a part | what is handed over keeps every row the predicate keeps |
| exclusion (`util.py`) | none | a predicate for "not one of the known partitions" | null partition values, products | keeps exactly the rows of the others |
| Delta tables (`delta_io.py`, `translated_source.py`) | commits of a Delta log (external) | write in chunks, prune files by partition, read with logical types | a frame written in several commits that fail or interleave; mapping and version read at different times | pruning loses no row; what is visible is a prefix; every chunk is decoded as it was encoded |
| layers of a source (`util.py`, `profiling.py`) | a process-global span parent; per execution a generator around a generator | profile, report errors, limit before the filter, close | failure in a cleanup, close before the first pull, several executions | exactly one true span; no failure masked; `n_rows` counts rows read |
| reshapes (`pushdown_pivot.py`, `pushdown_unpivot.py`, `concat_named.py`) | none | read what columns and predicate need, reshape, filter again | index rows lost with the values left out; a second reading | same rows as without pushdown |
| combine (`pushdown_combine.py`, `ts.py`) | none | translate filters of a computed frame into filters of its sources | windows, mappings, validity intervals, dates beside datetimes, columns that share a source column | same rows as without pushdown |
| joins (`join.py`) | none | collect one side, filter the other by what it has; windows of an asof join; validity ranges | null keys, tolerances, dates, frames that change | same rows as the plain join of what was there when it was read |
| `base.py`, `enum.py`, `sql_dialects.py` | none | polars expressions to nodes; enum columns; SQL text | foreign syntax | conversions |
| ClickHouse sink (`lazy_clickhouse_writer.py`) | none | post batches | failure after some batches | what the docstring says: a prefix |
| other readers (`lazy_data_generator.py`, `lazy_datadog_reader.py`, `lazy_clickhouse_reader.py`, `lazy_iter_rows.py`, `lazy_probe.py`, `lazy_debug.py`) | none | translate a query into requests, one after the other | bounds and slices of time ranges; failed requests | sequential; the services are external |
| `testing/predicate_tracker.py`, `rust/` | | test helper; stub | | |

### How the parts interact

The five stateful components have no calls between each other in the code; they
meet through the frames they wrap. Each is called by the engine through the same
generator protocol (open, pull, close, `n_rows`, `batch_size`), which is why two
of them, `scan_db` and `execute_on_ray`, are shown to implement one abstract
specification of that protocol, `RowStream`. The caches wrap any source: the
source appears in their modules as an external action that changes its rows, so
that what a cache says is compared with what the source said and when. The
predicate algebra is what the caches, the Delta scan and the partitioners use to
find out what they may leave unread; in the modules of the caches its result is
the set of partitions in scope, in `PredicateUses` its results are used as
the Delta scan and the partitioners use them, and in `Joins`, `Reshapes` and
`Combine` what it leaves of a conjunct is given with the conjunct. `Exclusion`
models the predicate the caches restrict a query with, and lets the known
partitions grow as a cache that uses it makes them grow.

## The modules

| Module | Models | Composed of |
|---|---|---|
| `ReplayStore` | abstract: a store written once per partition, whose first failure is final | |
| `MemoryCache` | `cache_memory` | implements `ReplayStore` |
| `MemoryCache_proofs` | theorems about `MemoryCache` | |
| `ParquetCache` | `cache_parquet` | |
| `ParquetCache_proofs` | theorems about `ParquetCache` | |
| `RowStream` | abstract: what a partitioned scan promises its consumer | |
| `SqlStream` | `scan_db` | implements `RowStream`, once per scan |
| `SqlStream_proofs` | theorems about `SqlStream` | |
| `RayFanout` | `execute_on_ray` | implements `RowStream` |
| `RayFanout_proofs` | theorems about `RayFanout` | |
| `ColumnCache` | `cache` | |
| `ColumnCache_proofs` | theorems about `ColumnCache` | |
| `Predicates` | rows, three-valued logic and predicates of polars (external) | |
| `PredicateVisitors` | the four visitors that read a predicate | extends `Predicates` |
| `PredicateUses` | skipped scans, Delta file pruning, partitioners | extends `PredicateVisitors` |
| `PushedPredicates` | what a database, a Narwhals backend and a Delta table are handed of a predicate, and the limit beside it | extends `PredicateVisitors` |
| `PredicateVisitors_proofs` | theorems about restrictions and about `PushedPredicates` | |
| `NormalForm_proofs` | theorems about the other visitors and about `PredicateUses` | |
| `Exclusion` | `partition_exclusion_predicate` | uses `Predicates` |
| `DeltaTable` | `sink_delta` and `scan_delta` | |
| `SourceStack` | the layers `register_io_source_with_is_pure` puts around a source | |
| `Sources_proofs` | theorems about `DeltaTable`, `SourceStack`, `Joins`, `Reshapes`, `Combine` and `Exclusion` | extends the six |
| `Frames`, `Intervals` | heads of frames; intervals of instants and the windows put around them | shared by the next three |
| `Joins` | `filtered_join`, `filtered_join_asof`, `join_between` | extends `Intervals` |
| `Reshapes` | `pushdown_pivot`, `pushdown_unpivot`, `concat_named` | extends `Frames` |
| `Combine` | `pushdown_combine`, `ts_with_columns` | extends `Intervals` |
| `MC*` | instances for TLC | |

### `MemoryCache`

A thread is at one of the points where another thread can come in: outside
(`idle`, or with the outcome of its last collect), about to enter the critical
section (`enter`), parked on `build_cond` (`waiting`), building outside the lock
(`building`, and `built` or `failed` when the frame or the exception is in
hand). `buffers`, `built_keys`, `built_predicates`, `full_built`, `build_error`,
`building` and `physical_keys` are the nonlocals of the code. A demand is the set
of partitions its predicate selects together with how the predicate is written,
because a repeat is recognised by structure (l.206-229). The rows of a partition
are a version number that the external action `SourceChanges` advances, so that
two builds can see different rows. `PlanBuild` is the planner under the lock,
`Collect` the build outside it, `Publish` and `RecordFailure` its two ends.
`AsyncInterrupts` lets a `KeyboardInterrupt` arrive at any point between
claiming the build and publishing it.

### `ParquetCache`

One partition is one day, and a process is at one of the points between two
file system operations: planned, waiting for the lock, holding it, sinking,
between batches, after the batches, reading. A file has the revision of the day
it was written from and whether it is complete. A query has a mode (`CACHE`,
`READ_ONLY`, `REBUILD`, `CACHE_ONLY`), an interval of days whose ends may be
open, and is planned twice as in the code: before waiting for the lock, and
under it. The write step follows l.2048-2138 in order: list, plan, fetch,
refuse a batch with too many partitions, sink a batch day by day, clean up after
a failed sink, visit, delete what a rebuild made stale, fill the gaps; the read
step follows l.1164-1257 and l.2140-2224. External actions are the source
(days arrive, are corrected, lose rows), the clock (expiry), failures of
listing, writing and deleting, and kills. The lock file is released by a kill,
which is how `SoftFileLock` users see a removed lock; the file itself is
external.

### `SqlStream`

The generator and the workers of each scan are separate processes; the steps of
the generator are its suspension points (`yielded`), the two halves of a
`queue.get` that times out (`get`, `polled`), the wait for the future of a
marked slice (`reconcile`) and the final wait (`closing`). A worker is queued,
fetching, putting, or returning, so that a marker can be taken before its worker
has returned, and a put can come after `stop` is set, as l.512-518 allow. A batch
is the number of rows up to its end. The pool is the work queue of
`ThreadPoolExecutor`, where a cancelled item stays until a thread takes it.

### `RayFanout`

Both branches of `_run_on_ray` over one window; `ordered` selects the branch for
a run of the scan. A task ends on the cluster at any time, well or badly, also
after `ray.cancel`, which is asked for without force. `prepare` is modelled by
what it does to row counts. An interrupt may end the generator while it waits for
Ray; the task it was fetching has then left the window, so that
`NothingLeftRunning` allows that one, and no other, to go on.

### `ColumnCache`

An entry is a partition and a column, its value the revision of the partition it
was read from. A collect discovers under the lock, reads entry by entry outside
it, collects, and publishes under the lock. The mapping may drop entries on its
own (`Evict`), since any `MutableMapping` can be given. Validation of `order_by`
fails for the revisions listed in `DupRevs`; which blocks were published before
the one that fails depends on the order of the frames, so it is any subset of
the valid ones.

### `Predicates`, `PredicateVisitors`, `PredicateUses`

The visitors have no state; what is modelled is how their results compose. A
predicate is the truth it has on every row (a function, so two expressions that
polars cannot tell apart are one). The state is the set of nodes visited so far,
each with what polars evaluates it to and with what the four visitors returned
for it, and an action visits one more node over operands visited before, as the
visitors do bottom up. So a behaviour builds an expression out of parts, and an
invariant over the visited nodes speaks of every expression.

`restrict_visitor.py` returns the predicate or its negation restricted to some
columns (`pos`, `neg`: the code carries a flag and asks for one of them).
`dnf_visitor.py` returns a set of clauses, each a set of atoms, and whether it may
be negated; `Contradictory` is the column analyser with the order of its checks
(l.205-352). `set_visitor.py` returns inclusions, exclusions and whether they are
exact. `range_visitor.py` returns a set of positions on a line where value `v`
lies at `2v` and the odd positions are the gaps, which tells open bounds from
closed ones. Polars itself (`Compare`, `IsIn`, `AllOf`, ...) is external and is
what the answers are compared with.

`PredicateUses` has the three uses: a scan that is skipped because its predicate
contradicts itself, the partition filters of a Delta table with what `file_uris`
of delta-rs makes of them (external: nulls and negations as its results show),
and the splits of `by_value`, `by_range` and `by_time`.

### `PushedPredicates`

One action builds one more expression and translates it for each of the three
receivers: SQL per dialect, in the two forms of `SQLExpressionVisitor` (`mono`
where the result only feeds conjunctions and disjunctions up to the root, `exact`
elsewhere), Narwhals, and the stored columns of a Delta table. What a receiver
cannot be told is `None`. The receivers are external and assumed to compare as
polars does except where the constants say otherwise: dialects without booleans
or with a `LIKE` that ignores case, columns a backend compares unlike polars, NaN,
columns stored in another type. What a reader has in hand is a set of places of the
source, as every reader keeps the order of its rows. `DatabaseAnswer`, `NarwhalsAnswer` and
`DeltaAnswer` put the predicate and `n_rows` together as the readers and
`_limit_before_filter` do.

### `DeltaTable` and `SourceStack`

A version of a Delta table is the chunks it shows and the description it carries.
A sink is between two commits or over; a commit is one step of delta-rs, which
refuses, creates, appends, replaces or ignores by the mode of that commit, and
keeps the description of the first version. The scan takes its mapping when it is
made and the version when it is collected. Frames have any units: delta-rs sees
integers in each and refuses only a frame stored in another column type (`asIs`). A sink
is `Foreign` when the table was created with another unit than its own; its chunks come
back in the unit of the table, and `TypesRestored`, which says that they do not, is
the property of a run that finds it violated. A version is asked for by number, by time
(`timed`) or not at all. A time becomes `None` for the mapping (`int_version`, l.702), and
for what is read as well (l.732) unless `pushdown_predicate_deltalake` is off and the
version is left to `pl.scan_delta` (`opens`). `ScansDecode` says which version is
read and which unit it is decoded with, in either case.

An execution of a source is the phase of the outermost generator (made, primed,
pulling, between batches, over) with what its source did and what the consumer
saw. Close at any suspension point, failures of the source and failures of its
cleanup are actions; `SetParent` is the consumer that publishes a parent span.

### `Joins`, `Reshapes`, `Combine`

Each reads its sources in one or two steps under filters of its own and must
answer as if it had read them whole. A query is drawn from a constant set of
asks; a predicate is a set of conjuncts, and a conjunct is the columns it reads,
the output rows it keeps, and what the visitors leave of it to a column (the
modules assume, and TLC checks of the constants, that this loses no row; that
the visitors do so is what the predicate modules prove). A frame may change
between two readings, and then the answer is compared with the join or reshape of
the rows each side had when it was read. What polars computes (`EquiJoin`,
`AsofJoin`, `Pivot`, ...) is external and takes part in the model and the
reference alike. A combine is any function that gives an output row for the
source rows its specification says it looks at.

A frame of `Reshapes` is a function of the keys of its rows: places for what is read of
the source, indexes for a pivot, a variable and a place for an unpivot. Each row comes
with its place in the order of the frame, and rows of one place may come in any order,
as those of a pivot without `maintain_order` do; `Answered` is then every frame that
the filter and `head(n_rows)` may give.

`CombineDeclared` is what a specification declares of its combine: what the docstrings of
`FilterSpec` and `IntervalFilterSpec` say, and no more. There are queries for which the
code reads too little all the same; `FallsShort` names them, in four cases that the proof
turned up (see "Findings"). They are asks like any other; `CombineAgrees` says
that nothing is lost but for them, and `WindowsAreRead`, that nothing is lost at all, fails
on one of them.

Instants lie on a line like the values of the visitors, two to a day, so that a
date, which stands at midnight, and a datetime of the same day differ, and an open
bound differs from a closed one.

### `Exclusion`

The known partitions are grouped column by column as `_repeated_grouping` does,
with its early stop, and turned into the null-aware comparisons of `_not_in` and
`ne_missing`, evaluated with the three-valued logic of `Predicates`. Without
partition columns the code returns early (util.py:196), and `ExclusionExact` says
nothing of that case.

## Runs

| Run | Question | Bounds |
|---|---|---|
| `memory_partitioned` | safety and liveness of a partitioned `cache_memory`, with interrupts | two threads, two partitions, two ways of writing a demand, one change of the source |
| `caches` | three caches, one at a time (see below): `cache_memory` without partition columns, with three threads and interrupts, as a refinement of `ReplayStore`; `REBUILD`, `CACHE`, `CACHE_ONLY` of `cache_parquet` over open ranges, with arriving and vanishing days and failed deletions; three kinds of collect of `cache` on a shared mapping that evicts | one partition; two processes, two days, of which the second arrives later; two threads, two partitions, two columns, two revisions |
| `parquet_ranges` | `CACHE` and `READ_ONLY` over overlapping ranges, one day per batch, corrections, expiry, kills | two processes, two days |
| `parquet_faults` | sinks that fail or are refused, visitors that raise, rebuilds that leave files stale; termination | two processes, two days, of which the second arrives later, one open sink |
| `parquet_row_twice` | violation: a row comes twice from a glob read | |
| `parquet_listing_lost` | violation: rows are lost when a listing fails | |
| `sql_stream` | two scans on one executor: refinement of `RowStream` and termination | batches of one and two rows, an empty slice, a budget of two, one scan throttled to one worker |
| `io_sources` | the other sources, one at a time (see below) | Ray: four partitions, one empty, a window of two; layers: two executions of two batches; Delta: three sinks of two, one and two chunks, one without a unit and two of different units, and one collect; joins: four rows a side, one change; reshapes: sources of at most three rows; combines: five rows; three days; exclusion: three partition columns with nulls |
| `delta_unit_lost` | violation: a chunk comes back in the unit of another frame | two sinks of different units |
| `combine_window_undone` | violation: the values of a column are pushed and its window is lost | one query |
| `column_half_published` | violation: columns of two readings in one answer | one partition |
| `predicates` | no use of a predicate and no translation of it loses a row, a split reads each once, a limit counts rows read | two columns, values 1 to 3 and null, 19 leaves for the visitors and 16 for the translations, at most three nodes before the last leaf and four in all, horizontal functions of at most two operands; three dialects; limits 0, 2 and none |

`MCSources` checks seven modules that have no variable in common and never meet:
its next-state relation lets one of them move while the others are in their
initial states, so that a behaviour belongs to one module and the run is the sum,
not the product, of their state spaces. `MCPredicates` does the same for the
visitors and the translations, and `MCCaches` for the three caches. The asks of `Joins`, `Reshapes` and `Combine` are
listed one by one in `MCSources`: each is the smallest that reaches a branch of the
code (every kind of join and strategy, tolerance or none, dates, a time zone, old
polars; every reshape with and without columns, predicate, `n_rows`; windows on
either side, sharers, total and partial mappings of values and of windows, each
`closed`, virtual request columns, constant predicates), and every one is checked
against all subsets of the rows.

The bounds are the smallest at which every path of the code is taken and two
actors can interleave in it: two processes are enough for every race between a
plan and its execution, because every module relates the state of one actor to
what others did in between, whoever they are; a third thread is needed only for
"one waits while another is woken", and is there in `caches`. Two days
give every interval of one and of two days, a first and a last day, a file to
keep beside a file to write, and a day of no rows before or after one with rows.
Three days leave room for a window on either side of a day; two revisions tell old
rows from new ones; a queue and a window of two with more slices than slots make
every refill and every full queue happen. Every named bound (`MaxVersion`,
`MaxRev`, the counters of faults) caps an external action and never an action of
the program; `MaxLeaves`, `MaxNodes` and `MaxOperands` cap the size of an
expression. Three leaves under a binary node, a ternary or a
negation are where the visitors decide something; three values give an interval
with an inside and two ends, and the leaves are one of every kind of atom, with
and without nulls. A negated conjunction of exact value sets needs six nodes and
is beyond that bound. What is proved (see below) has no bound.

`CHECK_DEADLOCK FALSE` stands in every configuration but that of `memory_partitioned`,
where threads may always collect again: all other programs here really end, when no more
queries are asked.

### Fairness

`MemoryCache`: weak fairness of each thread's own steps; the build ends. The
interrupts and the changes of the source are not fair. `ParquetCache`: weak
fairness of each process's steps together: polars drives a query that runs to its
end. Weak fairness is enough for the lock, which `acquire` polls, because the
queries are bounded: a process that waits finds it free for good in the end.
Kills, expiry and upstream changes are not fair. `SqlStream`: weak fairness of the executor, of every
worker, and of the generator, which includes that the engine goes on pulling a
scan it opened or closes it. That is what the polars engine does with one scan;
a program that stops pulling one scan until another ends is not covered (see
below).

### Findings

Five runs show a disagreement between the code and its own text; PROJECT.json
quotes the lines: rows counted twice by `READ_ONLY` (`parquet_row_twice`), rows
lost when the listing after a write fails (`parquet_listing_lost`), columns
of two readings in one answer (`column_half_published`), a frame read back in the
unit of another one (`delta_unit_lost`: it is stored silently by a table that describes
another unit, delta_io.py:556), and values pushed without their window
(`combine_window_undone`). Others were met while modelling and have no run:

- `lazy_cache_memory.py:256`: a `KeyboardInterrupt` after `building = True` and
  before the `try` (or after it and before the lock of l.314) leaves the flag
  set, and every later collect waits for ever; the comment of l.294-298 says
  that an interrupted build poisons the instance instead. `EveryCollectReturns` says
  that a collect ends unless the flag is left so (`Abandoned`).
- `lazy_cache_memory.py:221`: an unrestricted demand builds every partition
  again, those in the buffers included, and drops the copies
  (`BuildsBounded` states the bound that holds).
- `lazy_cache_parquet.py:902`: a query with an upper bound only fills gaps up to
  that bound although it may lie in the future.
- `lazy_sql_reader.py:561`: the final wait is said to be bounded to one batch
  fetch, but a cancelled future is done only when a thread of the shared executor
  takes it, and those may be parked on the queue of another scan.
- `delta_io.py:560`: with mode `ignore` the chunks after the first are appended to
  a table that existed, although that mode is to leave such a table alone;
  `SinksShowPrefixes` leaves that mode out where a table was found.
- `delta_io.py:702`, `:732`: a version may be a "timestamp version" (l.608), and the comment
  of l.701 says that times are "handled via load_as_of", but nothing calls it: the
  mapping is that of the latest version, and so are the rows unless
  `pushdown_predicate_deltalake` is off. `ScansDecode` states what is read.
- `pushdown_combine.py:366`: the bounds of an empty range are infinite the other
  way round, so a mapping given as a function is applied to them, which the
  docstring (l.152) says happens to finite bounds only.
- `pushdown_combine.py:178-230`, `:366`, `:414`: the other queries for which a combine reads
  too little. Instants, days and windows of a few positions are enough for each:
  - `BoundsCross`: l.157 says of `IntervalFilterSpec` that it "never drops an overlapping
    one"; with a mapping that does not keep the order of the requests, such as
    `{1: 5, 3: 2}` for a range from 1 to 3, the mapped bounds are not the bounds of the
    mapped requests, and `_apply_interval_filter` drops rows that overlap a request
    between them.
  - `OpensAtNoon`: l.414 says that sub-day bounds are rounded out to whole days; a lower
    datetime bound that is open stays open when it is floored for a `Date` source, so that
    after `> 12:00` a lookback of less than twelve hours does not read the day of the
    bound, though the window of the next day's midnight reaches into it.
  - `DaysUndone`: the comment at l.924-925 says that a column with a time zone is left
    unfiltered when dates are asked for; the second pass still pushes the dates as
    values, as it does without a time zone when no range is left of them.

  The fourth, `WindowUndone`, is that of the run: l.856-859 say that discrete filters are
  skipped for columns with a window, as they would undo it;
  `(d.is_null() | (d == x)) & d.is_not_null()` leaves `SetVisitor` the value `x` but
  `IntervalVisitor` no range, and then the filter of the value is pushed and the window
  is lost.

## What is proved

### The memory cache

`MemoryCache_proofs` proves, for every set of threads and partitions, every
demand and every bound, with and without interrupts:

- `TypeCorrect`, `CacheInvariant`: the type invariant (which for that reason no
  run repeats) and the inductive invariant `CacheInv`;
- `SoleBuilderHolds`, `AnswersAgreeHolds`, `AnswersCompleteHolds`,
  `FailureIsFinalHolds`: the safety properties;
- `BuildInvariant`, `BuildsBoundedHolds`: how often a partition may be built;
- `Refinement`: `MemoryCache` implements `ReplayStore`, step by step.

None of the safety properties is inductive. That answers agree needs to know
that a partition in flight is one that the buffers lack or that will lose to
`setdefault`; that answers are complete needs to know that what is flagged as
covered (`full_built`, a recorded demand, a key) is in the buffers, and that
what a builder has planned and collected covers what its thread asked for. These
are the conjuncts of `CacheInv` (`FlightInv`, `TodoInv`, `CoverInv`,
`AnswerInv`), each named for the state it relates. The proof has one lemma per
kind of step, and the temporal theorems combine them.

The bound on builds counts what each build leaves behind: every build before the
first unrestricted one has recorded one more predicate, a build that failed or was
abandoned is the last, and a restricted one skips what is in the buffers
(`BuildInvariant`). The assumptions are those of the module: the kinds of demands are what the constants say, and the initial
partitions are partitions.

### The predicate visitors

`PredicateVisitors_proofs` and `NormalForm_proofs` prove, for every set of columns,
values and leaf expressions and for expressions of any size:

- `RestrictionHolds`: a restriction loses no row of the predicate, nor its negated
  form one of the negation, and neither reads another column;
- `NormalFormHolds`: a DNF holds on every row the predicate keeps, and one that
  may be negated is refuted by every row the negation keeps;
- `SkippedScansHold`: a predicate whose scan is skipped is true of no row;
- `PruningHolds`: the files left by the partition filters have every row that the
  predicate keeps;
- `PartitionsCoverOnceHolds`: the splits of a partitioner cover every row the
  predicate keeps, and none twice;
- `TranslationHolds`: what a database, a Narwhals backend or a Delta table is handed
  keeps every row the predicate keeps, and where SQL may negate it, it means the same;
- `LimitHolds`: a limit counts the rows that are read and not those that pass.

The properties are not inductive. A ternary fills the nulls of its negated
predicate with true, so a restriction has to be true or null wherever the
predicate is null: `RestrictInv` says that it is nowhere below the predicate. A
negation takes one atom of each clause, and a ternary sends the rows where its
predicate is null to the other arm by asking for nulls in the columns of the DNF:
`NormalInv` says that a DNF that may be negated has a clause, an atom in every
clause, and a null in one of its columns wherever the predicate is null. The
lemmas take the leaves, the combinations (`AndFacts`, `OrFacts`, `NegateFacts`)
and the contradictions (`ContradictionSound`) one at a time; `RestrictStep` and
`NormalStep` have one step per visit. The assumptions are those of the modules:
cells are integers or null, and an opaque leaf reads the columns it names.

That splits cover every row needs that the values and the intervals a predicate
allows hold the cell of every row it keeps; they are negated only where they are
exact, and a null cell is in no interval, so the visitor leaves the whole line
wherever a row with a null may be kept (`AllowedInv`). That no row is split twice
needs that the atomic intervals of a set of positions are disjoint and do not touch,
that buckets are numbered by the least value in them, and that windows are told
apart by their starts. `LineAssumption`, of this part only, is that there is a least
and a greatest value.

The translations are proved by one invariant of a visited node (`TranslatedInv`): what
only feeds AND and OR keeps the rows of the predicate; what may be negated, compared
or tested for null means the same on every row a database can have; what Narwhals is
handed keeps NaN rows; and what is stored reads the columns whose dtype it has.
`PushedAssumption` asks of the constants that NaN is the greatest of the values and
has no portable spelling, that a cast keeps null, and that opaque leaves read the
columns they name. `LimitHolds` follows from `PushedKeepsRows`, since a reader is
never handed both a limit and a predicate.

### The fan-out to Ray

`RayFanout_proofs` proves, for every number and size of partitions, every
`max_concurrency`, `batch_size` and `n_rows`, in both orders of delivery:

- `FanoutInvariant`: the type invariant (which for that reason no run repeats) and
  the inductive invariant `FanoutInv`;
- `TasksBoundedHolds`, `NothingLeftRunningHolds`: the cap on running tasks and what
  may be left of them;
- `RefinesStream`: `RayFanout` implements `RowStream`, step by step.

That the cap holds needs to know that what runs is in the window or was just taken
from it, and that in order the slot of the task taken stays free until it is fetched
(`WindowInv`, `FullInv`). That nothing is missing at a normal end needs that the
window is short only when no partition is left to submit (`FullInv`), that
`rows_yielded` is what was yielded and what is prepared (`CountInv`), and which
partitions have sent nothing, a part, or everything (`SentInv`). In order, the window
is the range of partitions between the one taken and the next, from which the order
of the rows follows. The proof has one lemma for each conjunct with one step per
action, and lemmas for the steps that move the window. The assumptions are those of
the module: sizes and limits are numbers, and `n_rows` may be absent.

### The Parquet cache

`ParquetCache_proofs` proves, for every set of processes, asks and faults and any
number of days, revisions, batches, open sinks and retries:

- `TypeCorrect`; `WritersSound`, the inductive invariant of the writers;
  `NoOverwriteRefusedHolds`, `FilesTrueHolds` and `WritesStayInScopeHolds`, without
  a hypothesis;
- with a lock (`UseLock`): `WritersHoldLock` and `VersionsAdvanceHolds`;
- with a lock and listings that do not fail: `FilesKeptHolds`;
- if deletions do not fail and no process is killed: `TornCleanedHolds`;
- if `READ_ONLY` asks for finite ranges of at most `MaxScanPaths` days, so that the
  scan names every path: `NoRowTwiceHolds`;
- if no write asks for days after the last one that has arrived:
  `GapsSettledHolds`;
- with a lock, faults among expiry, kills and visitors that raise, and no write of a
  range with an open end that is longer than the sinks that may be open at once
  (`Smooth`): `AnswersFreshHolds`. Finite ranges may have any length, as a batch of
  them that is too large is refused (`CapInv`).

Each hypothesis is needed: TLC finds the property violated on small instances
without it. Two writers without a lock replace each other's files by older ones; a
listing that fails makes a holder fetch what is cached (the run
`parquet_listing_lost` loses rows that way); a cleanup that cannot delete, or that
is killed, leaves its torn files; a glob reads the days that are also fetched
(`parquet_row_twice`); a file written ahead of the source is listed, and then
bounds the gaps of the next open query (the finding at l.902). That an answer be fresh
needs sinks that succeed as well, because one that fails leaves a torn file where a
reader may find it, and deletions that succeed, because a rebuild that cannot delete
a stale file reads it again.

What a process may write depends on what it planned, on the batches it has left
and on what it has completed, and `WriterSound` relates the three at each point of
a write: what is fetched is the scope without the days kept from the listing
(`PlanSound`), the batches left are disjoint, avoid what is completed and cover
what is not (`BatchSound`), and what is emptied or has to be has no rows in the
snapshot (`GapSound`). It is inductive only together with `TypeOK`, as the gaps of
a range with open ends are computed from the listing. No lock is needed for it:
nothing it speaks of belongs to another process.

The properties of the files need what processes know of each other. `SharedInv`
says that files and snapshots are not newer than the source, `LockInv` that who
writes holds the lock and has a snapshot as recent as any file, `KeptInv` that a
complete file of a day that is fetched is either expired or of the holder itself,
`RowInv` that the days read from the cache and those fetched are disjoint, and
`ArrivedInv` that files, listings and gaps end with the days that have arrived.

Freshness follows each day of the scope. While a query writes, a day is one it
keeps, one it has completed, or one whose file is yet to be replaced, emptied or
deleted, and `WriterDay` says how recent the file is in each case; at the last
listing no file of the third kind is left, which is what the reader starts from.
While it reads, a day has a file as recent as the plan, or had no rows at some
moment since (`ReaderDay`), whatever later holders of the lock do, because their
snapshots are not older. `FreshInv` is the conjunction of the two with the answers;
it was model-checked on instances with finite, open and mixed ranges before the
proof. Each step of `Next` has a lemma that says what it does to the locals
(`...Becomes`), one that it keeps `WriterSound` (`...Sound`), and the effects on
files, lock and snapshots are collected in `MoveEffects` and `WorldEffects`, from
which the invariants of the shared state follow without going through `Next` again.

### The column cache

`ColumnCache_proofs` proves, for every set of threads, partitions, columns and
asks, with and without validation and eviction: `TypeCorrect`, the inductive
invariant `ColumnInvariant`, and `ColumnsCompleteHolds`, `MissesFreshHolds` and
`ValidatedOnlyHolds`.

An answer is put together from what was found, read entry by entry while others
publish and evict, and what was collected. That it is complete needs that a collect
reads only what it found at first (`Reads`), that what is read and what is collected
complete each other for each partition (`Collected`), and that nothing is newer than
the source (`SourceInv`). `ValidatedOnly` needs its own invariant only: publishing
checks every block before it is stored, also where a later block fails.

### The streaming scans

`SqlStream_proofs` proves, for every set of scans, every slicing into batches, every
budget of the executor, `max_concurrency` and `n_rows`: the inductive invariant
`StreamInvariant`, `TypeCorrect`, `SlotsBoundedHolds`, `NoOrphansHolds`, and
`RefinesStream`: each scan implements `RowStream`.

That no worker is left needs to know that one that may still start or run belongs to
a future the generator holds, and that it holds at most as many as it may
(`FutureInv`). That a normal end is not early needs where every batch is: `QueueInv`
says that of each slice the batches up to some point were taken and yielded, those
after it which its worker has put are in the queue, in order, and the marker is the last;
`WorkerInv` that a worker that has finished has put all of them; `CountInv` and
`DirectInv` that what was yielded adds up to them or to `n_rows`. `PoolInv` keeps the
work queue free of duplicates, from which the budget follows. Steps of one scan leave
the others alone (`OneScan`), so that the invariant is proved scan by scan, and the
kinds of steps are described by their effects once, for the invariant and for the
refinement.

### Delta tables and the layers of a source

`Sources_proofs` proves, for every set of executions and span parents,
`ExecutionsObservedHolds`, and for every set of sinks, frames, modes and units
`DeltaInvariant`, `SinksShowPrefixesHolds` and `ScansDecodeHolds`.

`StackSound` says of one execution, at each suspension point, whether it has an inner
iterator and that it has emitted nothing before it is over. `DeltaInv` says how far
every sink has come (`SinkSound`) and which chunks of it every version shows: an
overwrite all or none, any other sink the first so many of its frame, and the last
version all that it has written, unless another sink has overwritten the table since
(`VersionSound`). Every version carries the description of the sink
that created the table (`TableCreated`), and as a frame of other column types is refused, what a
version shows is either mapped throughout or not at all (`VersionDecodes`): from the
two follows `ScansDecode`, for a scan whose mapping is no newer than the version it reads
(`ScanSound`, `Opens`, `AskedOrNew`). Nothing is assumed of the units, and the first commit
decides which frames are foreign.

### Joins and exclusion

`Sources_proofs` also proves, for every set of frames, asks, days and tolerances,
`JoinsHold`: a join read under its filters has the rows of the plain join of what each
side had when it was read. `JoinInv` keeps what was read of the left side and when. A
left row whose joined rows the predicate rejects is missed by nobody (`LeftRead`), and
any other keeps all its matches: the key filter has its keys (`EquiAgrees`), the window
of an asof join reaches as far as the closest row may be (`WindowCovers`,
`AsofAgrees`), and the validity ranges of `join_between` overlap what is asked for
(`BetweenAgrees`). The assumptions are those of the module: what the visitors leave of
a conjunct to some columns keeps by those columns and loses no row.

`ExclusionHolds`: the predicate of the known partitions is false on their rows and true
on all others, for every list of partition columns and every set of known partitions,
also as it grows. `DiffersExact` says so of one product of values, nulls included; a
pass of the grouping neither adds a partition to what the products cover nor takes one
away (`GroupedCovers`), so neither do all of them (`RegroupedCovers`), nor does
dropping what others cover (`ShrunkCovers`). The passes are a recursive function, which
is unfolded by the least pass at which it would be wrong (`GroupingsUnfold`). The
assumption is that cells are integers or null, and finitely many.

### Reshapes and combines

`ReshapesHold`: for every source, set of columns, query, predicate and `n_rows`, what a
pivot, an unpivot or a concat answers is a frame that the plain reshape, filtered and
cut to its head, may give. The frame that is computed has the passing rows of the plain
one, at the same places as far as order is promised (`SameAnswers`, which knows
nothing of what was read), and three lemmas say so of the reshapes. Rows whose index the
predicate rejects are missed by nobody, an index that is read has all of its cells that
are asked for or decide the predicate, and one that lost all its rows to the filter on
the on-values comes back with the second reading or, with `dense_on`, was never lost.
`ShapeInv` keeps of the first reading what the second is joined to, as the source may
change between them. The assumptions (`ShapesAssumption`) are that a conjunct reads
columns of the frame, tells rows apart by the columns it reads, and leaves an unpivot
the variables it keeps.

`CombineHolds`: for every set of rows, specifications and predicate, the outputs the
predicate keeps see the same source rows whether all of them were handed to the combine
or only those that were read. A row that serves an output the predicate keeps passes
every filter of the source: the range widened by the window, rounded to days where the
column is a date; the union of what the sharers of a column enclose, around values
and the values they map to; the hull of the ranges of an interval; and
the union of the discrete values. That none of them may be left out of the sharing or
narrowed by another filter is what `Suppressed` and `Handled` decide, and most of the
proof is about the pairs of these. Nothing is lost either when an output keeps
its row only because no source row is seen (an outer combine), because every row that
might be seen is read. There is no invariant but the property itself: the whole collect
is one step, and the proof is about operators.

The proof needs `CombineAssumption` (what the visitors leave of a conjunct loses no
row) and `CombineDeclared`, which repeats the docstrings: a specification declares every
row the combine looks at, mappings give values of the source, and a window around mapped
values over a range that cannot be enumerated covers the offset. The four cases of
`FallsShort` are in the property itself: they are where the proof of the unrestricted
`WindowsAreRead` failed.

### What is only model-checked

Liveness (`EveryCollectReturns`, `EveryScanEnds`, `EveryQueryEnds`) and `ENABLED` are out
of the prover's reach and stay with TLC. Every invariant and every action property
of the runs that pass is proved, and the two refinements. The runs that expect a
violation show counterexamples.

## What is not modelled

The values of rows and their types, sorting, and the text of SQL,
messages and paths: no property is about them. The translation of a predicate to
partitions is a set of partitions in the modules of the caches. Of `cache_parquet`:
partition columns besides the date, null keys, and the migration of old layouts. Of
`cache`: `df_key` and the partition columns kept beside the data. Of
`execute_on_ray`: the derivation of partitions. Of the visitors: aliases, arithmetic
on columns, the rounding of temporal literals, and the caps on the number of
windows; of the partitioners, values given by the user. Of the translations:
temporal functions, casts that round, and the rounding of float lists. Of Delta
tables: mode `merge` and `overwrite_schema`. Of joins:
`nulls_equal`, join columns of different names, several asof indexes. Of reshapes:
aggregations, and concatenation by alignment. Of combines: mappings by a function,
bounds that leave an open window to a virtual interval, and more than one source,
as each is filtered on its own. Of `util.py`: `with_columns_topo` and
`filter_no_pushdown`. `base.py`, `enum.py` and `sql_dialects.py` are conversions
without state; PROJECT.json lists the components that have no module and why.

## Plan

Done: the memory cache, the Parquet cache, the column cache, the two partitioned
scans with their common abstract specification, Delta tables and the layers of a
source, the predicate algebra with its uses and translations, exclusion, joins,
reshapes and combines, each with its proofs. To come:

1. `ParquetCache` with a second partition column and null keys.
2. The key function and partition columns of `cache`; mode `merge` of `sink_delta`.
