----------------------------- MODULE RayFanout -----------------------------
(***************************************************************************)
(* execute_on_ray (io_sources/lazy_ray.py, _run_on_ray): a scan whose      *)
(* partitions are computed by tasks on a Ray cluster.  The generator keeps *)
(* a window of tasks in flight and yields their results in the order of    *)
(* the partitions, or in the order of completion, cut to n_rows and sliced *)
(* by batch_size.  However it ends, it cancels the tasks still in flight.  *)
(***************************************************************************)
EXTENDS Integers, Sequences, FiniteSets, SequencesExt

CONSTANTS
    TaskRows,        (* number of rows of each partition, in spec order    *)
    MaxConcurrency,  (* max_concurrency, 0 for None                        *)
    Orders,          (* values of preserve_partition_order                 *)
    BatchSize,       (* batch_size, 0 for None                             *)
    Caps,            (* what the engine may ask for as n_rows              *)
    Uncapped         (* n_rows is None                                     *)

ASSUME RayFanoutAssumption ==
    /\ TaskRows \in Seq(Nat)
    /\ MaxConcurrency \in Nat /\ BatchSize \in Nat
    /\ Orders \subseteq BOOLEAN
    /\ Caps \subseteq Nat \cup {Uncapped}
    /\ Uncapped \notin Nat

VARIABLES
    ordered,      (* preserve_partition_order                              *)
    pc,           (* where the generator is                                *)
    n_rows,
    inflight,     (* tasks held, in the order they were submitted          *)
    next_spec,    (* next partition to submit                              *)
    task,         (* partition -> state of its task on the cluster         *)
    cancelled,    (* tasks that ray.cancel was called for                  *)
    current,      (* the partition taken from inflight, or 0               *)
    frames,       (* rows of current still to be yielded                   *)
    stop,         (* n_rows is reached                                     *)
    rows_yielded, (* rows prepared so far                                  *)
    sent,         (* partition -> number of its rows yielded               *)
    total         (* number of rows yielded                                *)

clientVars == <<ordered, n_rows, current, frames, stop, rows_yielded, sent, total>>
vars == <<pc, inflight, next_spec, cancelled, task, clientVars>>

Specs == 1..Len(TaskRows)
Ended == {"ok", "error", "closed", "interrupted"}
Smaller(a, b) == IF a <= b THEN a ELSE b

(* window, the most tasks in flight.                                       *)
Window == IF MaxConcurrency = 0 THEN Len(TaskRows) ELSE Smaller(MaxConcurrency, Len(TaskRows))

TypeOK ==
    /\ ordered \in Orders
    /\ pc \in {"idle", "loop", "fetch", "yield", "yielded"} \cup Ended
    /\ n_rows \in Nat \cup {Uncapped}
    /\ inflight \in Seq(Specs)
    /\ next_spec \in 1..(Len(TaskRows) + 1)
    /\ task \in [Specs -> {"none", "running", "done", "failed"}]
    /\ cancelled \in SUBSET Specs
    /\ current \in Specs \cup {0}
    /\ frames \in Nat
    /\ stop \in BOOLEAN
    /\ rows_yielded \in Nat
    /\ sent \in [Specs -> Nat]
    /\ total \in Nat

Init ==
    /\ ordered \in Orders
    /\ pc = "idle"
    /\ n_rows = Uncapped
    /\ inflight = <<>>
    /\ next_spec = 1
    /\ task = [i \in Specs |-> "none"]
    /\ cancelled = {}
    /\ current = 0
    /\ frames = 0
    /\ stop = FALSE
    /\ rows_yielded = 0
    /\ sent = [i \in Specs |-> 0]
    /\ total = 0

-----------------------------------------------------------------------------
(* A task ends on the cluster (external).  One that was cancelled without  *)
(* force may also run to its end.                                          *)
TaskEnds(i) ==
    /\ task[i] = "running"
    /\ task' \in {[task EXCEPT ![i] = "done"], [task EXCEPT ![i] = "failed"]}
    /\ UNCHANGED <<pc, inflight, next_spec, cancelled, clientVars>>

-----------------------------------------------------------------------------
(* The generator.                                                          *)

(* No predicate where one is required, or no split to be derived from it.  *)
OpenRefused ==
    /\ pc = "idle"
    /\ pc' = "error"
    /\ n_rows' \in Caps
    /\ UNCHANGED <<inflight, next_spec, cancelled, task, ordered, current, frames, stop,
                   rows_yielded, sent, total>>

(* The first window of tasks is submitted; none if there is no partition.  *)
Open ==
    /\ pc = "idle"
    /\ n_rows' \in Caps
    /\ inflight' = [i \in 1..Window |-> i]
    /\ next_spec' = Window + 1
    /\ task' = [i \in Specs |-> IF i <= Window THEN "running" ELSE "none"]
    /\ pc' = "loop"
    /\ UNCHANGED <<cancelled, ordered, current, frames, stop, rows_yielded, sent, total>>

(* The tasks held are now held, and the next partition, if any, besides.   *)
Refill(held) ==
    IF next_spec <= Len(TaskRows)
    THEN /\ inflight' = Append(held, next_spec)
         /\ task' = [task EXCEPT ![next_spec] = "running"]
         /\ next_spec' = next_spec + 1
    ELSE inflight' = held /\ UNCHANGED <<task, next_spec>>

(* Bug: the slot of the head is refilled before the head is fetched.       *)
TakeHeadRefills ==
    /\ pc = "loop" /\ ordered
    /\ inflight # <<>>
    /\ current' = Head(inflight)
    /\ Refill(Tail(inflight))
    /\ pc' = "fetch"
    /\ UNCHANGED <<cancelled, ordered, n_rows, frames, stop, rows_yielded, sent, total>>

(* Ordered: the head is taken, finished or not.                            *)
TakeHead ==
    /\ pc = "loop" /\ ordered
    /\ inflight # <<>>
    /\ current' = Head(inflight)
    /\ inflight' = Tail(inflight)
    /\ pc' = "fetch"
    /\ UNCHANGED <<next_spec, cancelled, task, ordered, n_rows, frames, stop, rows_yielded,
                   sent, total>>

(* Unordered: a finished task is taken, and its slot refilled.             *)
TakeReady ==
    /\ pc = "loop" /\ ~ordered
    /\ \E n \in 1..Len(inflight) :
          /\ task[inflight[n]] # "running"
          /\ current' = inflight[n]
          /\ Refill(RemoveAt(inflight, n))
    /\ pc' = "fetch"
    /\ UNCHANGED <<cancelled, ordered, n_rows, frames, stop, rows_yielded, sent, total>>

(* Bug: only what n_rows makes superfluous is cancelled.                   *)
CancelInflightOnStop == cancelled' = IF stop THEN cancelled \cup ToSet(inflight) ELSE cancelled

(* The finally block.                                                      *)
CancelInflight == cancelled' = cancelled \cup ToSet(inflight)

Exit(how) ==
    /\ CancelInflight
    /\ pc' = how
    /\ UNCHANGED inflight

(* Nothing is in flight any more.                                          *)
Exhausted ==
    /\ pc = "loop"
    /\ inflight = <<>>
    /\ Exit("ok")
    /\ UNCHANGED <<next_spec, task, clientVars>>

(* Bug: rows of earlier partitions do not count.                           *)
RemainingOfEach == n_rows

(* remaining, with n_rows.                                                 *)
Remaining == n_rows - rows_yielded

(* prepare: the result is cut to what remains of n_rows.  In order, the    *)
(* slot is refilled now, unless n_rows is reached.                         *)
Fetch ==
    LET cut == n_rows # Uncapped /\ TaskRows[current] >= Remaining
        rows == IF cut THEN Remaining ELSE TaskRows[current]
    IN /\ pc = "fetch"
       /\ task[current] = "done"
       /\ n_rows # 0
       /\ frames' = rows
       /\ rows_yielded' = rows_yielded + rows
       /\ stop' = cut
       /\ IF ordered /\ ~cut THEN Refill(inflight) ELSE UNCHANGED <<inflight, task, next_spec>>
       /\ pc' = "yield"
       /\ UNCHANGED <<cancelled, ordered, n_rows, current, sent, total>>

(* With n_rows = 0 nothing is yielded of the first result.                 *)
FetchNothing ==
    /\ pc = "fetch"
    /\ task[current] = "done"
    /\ n_rows = 0
    /\ stop' = TRUE
    /\ Exit("ok")
    /\ UNCHANGED <<next_spec, task, ordered, n_rows, current, frames, rows_yielded, sent, total>>

(* The task failed: the failure is raised.                                 *)
FetchFails ==
    /\ pc = "fetch"
    /\ task[current] = "failed"
    /\ Exit("error")
    /\ UNCHANGED <<next_spec, task, clientVars>>

(* The next frame of the result is yielded.                                *)
YieldFrame ==
    LET n == IF BatchSize = 0 THEN frames ELSE Smaller(BatchSize, frames)
    IN /\ pc = "yield"
       /\ frames' = frames - n
       /\ sent' = [sent EXCEPT ![current] = @ + n]
       /\ total' = total + n
       /\ pc' = "yielded"
       /\ UNCHANGED <<inflight, next_spec, cancelled, task, ordered, n_rows, current, stop,
                      rows_yielded>>

(* The engine asks for more.                                               *)
Pull ==
    /\ pc = "yielded"
    /\ \/ frames > 0 /\ pc' = "yield" /\ UNCHANGED <<inflight, cancelled>>
       \/ frames = 0 /\ ~stop /\ pc' = "loop" /\ UNCHANGED <<inflight, cancelled>>
       \/ frames = 0 /\ stop /\ Exit("ok")
    /\ UNCHANGED <<next_spec, task, clientVars>>

(* The engine closes the generator where it is suspended.                  *)
Close ==
    /\ pc = "yielded"
    /\ Exit("closed")
    /\ UNCHANGED <<next_spec, task, clientVars>>

(* A KeyboardInterrupt while the generator waits for Ray.                  *)
Interrupt ==
    /\ pc \in {"loop", "fetch"}
    /\ Exit("interrupted")
    /\ UNCHANGED <<next_spec, task, clientVars>>

Next ==
    \/ \E i \in Specs : TaskEnds(i)
    \/ OpenRefused \/ Open \/ TakeHead \/ TakeReady \/ Exhausted
    \/ Fetch \/ FetchNothing \/ FetchFails \/ YieldFrame \/ Pull \/ Close \/ Interrupt

Spec == Init /\ [][Next]_vars

-----------------------------------------------------------------------------
(* Properties.                                                             *)

RunningTasks == {i \in Specs : task[i] = "running"}

(* max_concurrency caps the tasks running at once, in both orders, though  *)
(* slots are refilled at different moments (l.249-261, l.280-287).         *)
TasksBounded == Cardinality(RunningTasks) <= Window /\ Len(inflight) <= Window

(* However the generator ends, it has cancelled every task that still runs; *)
(* an interrupt leaves at most the one it was waiting for, which was taken  *)
(* from the window before (l.249-251, l.267-270, l.296-300).               *)
NothingLeftRunning ==
    pc \in Ended =>
        RunningTasks \ cancelled \subseteq (IF pc = "interrupted" THEN {current} ELSE {})

Status ==
    CASE pc \in {"idle", "ok", "error", "closed"} -> pc
      [] pc = "interrupted" -> "error"
      [] pc \in {"loop", "fetch", "yield", "yielded"} -> "open"

Stream == INSTANCE RowStream WITH
    Parts <- Specs, Size <- TaskRows, status <- Status, inOrder <- ordered

(* The scan yields each row once, at most n_rows of them, in the order of   *)
(* the partitions if that is kept, whatever the order in which the tasks    *)
(* end, and ends normally only when nothing is missing: a failed task is    *)
(* never swallowed and a task taken from the window is always fetched.      *)
ImplementsStream == Stream!StreamSpec
=============================================================================
