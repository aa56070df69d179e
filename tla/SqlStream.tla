----------------------------- MODULE SqlStream -----------------------------
(***************************************************************************)
(* scan_db (io_sources/lazy_sql_reader.py): concurrent scans of databases, *)
(* each split into slices.  The slices of a scan are read by worker        *)
(* threads of one executor that all scans share, and streamed batch by     *)
(* batch through a bounded queue to the generator the engine consumes.     *)
(* A slice marks its end in the queue, and the marker, not the worker's    *)
(* future, tells the generator to start the next slice.  Whatever ends the *)
(* scan, the generator waits for its workers before it returns.            *)
(*                                                                         *)
(* Batch b of a slice holds its rows End[b-1]+1 .. End[b].                 *)
(***************************************************************************)
EXTENDS Integers, Sequences, FiniteSets

CONSTANTS
    Scans,           (* the scans of the process                           *)
    Batches,         (* scan -> slice -> batch -> rows up to this batch    *)
    Budget,          (* POLARS_IO_TOOLS_MAX_SQL_CONNECTIONS                *)
    MaxConcurrency,  (* scan -> max_concurrency, 0 for None                *)
    Caps,            (* scan -> what the engine may ask for as n_rows      *)
    Uncapped         (* n_rows is None                                     *)

Slices(s) == 1..Len(Batches[s])
End(s, i, b) == IF b = 0 THEN 0 ELSE Batches[s][i][b]
Rows(s, i) == End(s, i, Len(Batches[s][i]))

ASSUME SqlStreamAssumption ==
    /\ Batches \in [Scans -> Seq(Seq(Nat))]
    /\ \A s \in Scans : \A i \in Slices(s) : \A b, c \in 0..Len(Batches[s][i]) :
          b <= c => End(s, i, b) <= End(s, i, c)
    /\ Budget \in Nat \ {0}
    /\ MaxConcurrency \in [Scans -> Nat]
    /\ Caps \in [Scans -> SUBSET (Nat \cup {Uncapped})]
    /\ Uncapped \notin Nat

VARIABLES
    pc,           (* scan -> where its generator is                        *)
    n_rows,       (* scan -> n_rows                                        *)
    sent,         (* scan -> slice -> number of its rows yielded           *)
    yielded_rows, (* scan -> number of rows yielded                        *)
    futures,      (* scan -> slices whose future it holds                  *)
    next_submit,  (* scan -> next slice to submit                          *)
    shared,       (* scan -> its queue of batches and end markers          *)
    stop,         (* scan -> its stop event                                *)
    work,         (* scan -> slice -> state of its worker                  *)
    pos,          (* scan -> slice -> batch the worker has in hand         *)
    item,         (* scan -> the slice whose marker was taken              *)
    outcome,      (* scan -> how it will end                               *)
    pool          (* work queue of the executor                            *)

scanVars == <<n_rows, sent, yielded_rows>>
futureVars == <<futures, next_submit, stop, item, outcome>>
vars == <<pc, scanVars, futureVars, shared, work, pos, pool>>

Ended == {"ok", "error", "closed"}
Workers == UNION {{s} \X Slices(s) : s \in Scans}
Running == {w \in Workers : work[w[1]][w[2]] \in {"fetch", "put", "return"}}

(* k, the slices of a scan in flight and the capacity of its queue.        *)
K(s) == IF MaxConcurrency[s] = 0 \/ MaxConcurrency[s] > Budget
        THEN Budget ELSE MaxConcurrency[s]

(* The end marker of a slice comes after its last batch.                   *)
Marker(s, i) == Len(Batches[s][i]) + 1
Item(s) == [slice : Slices(s), batch : Nat]

TypeOK ==
    /\ pc \in [Scans -> {"idle", "direct", "direct_yielded", "get", "polled", "yielded",
                         "reconcile", "closing"} \cup Ended]
    /\ n_rows \in [Scans -> Nat \cup {Uncapped}]
    /\ yielded_rows \in [Scans -> Nat]
    /\ outcome \in [Scans -> Ended]
    /\ stop \in [Scans -> BOOLEAN]
    /\ \A s \in Scans :
          /\ sent[s] \in [Slices(s) -> Nat]
          /\ futures[s] \in SUBSET Slices(s)
          /\ next_submit[s] \in 1..(Len(Batches[s]) + 1)
          /\ item[s] \in Slices(s) \cup {0}
          /\ work[s] \in [Slices(s) -> {"none", "queued", "cancelled", "fetch", "put", "return",
                                        "finished", "failed", "skipped"}]
          /\ pos[s] \in [Slices(s) -> Nat]
          /\ shared[s] \in Seq(Item(s))
    /\ pool \in Seq(Workers)

Init ==
    /\ pc = [s \in Scans |-> "idle"]
    /\ n_rows = [s \in Scans |-> Uncapped]
    /\ sent = [s \in Scans |-> [i \in Slices(s) |-> 0]]
    /\ yielded_rows = [s \in Scans |-> 0]
    /\ futures = [s \in Scans |-> {}]
    /\ next_submit = [s \in Scans |-> 1]
    /\ shared = [s \in Scans |-> <<>>]
    /\ stop = [s \in Scans |-> FALSE]
    /\ work = [s \in Scans |-> [i \in Slices(s) |-> "none"]]
    /\ pos = [s \in Scans |-> [i \in Slices(s) |-> 0]]
    /\ item = [s \in Scans |-> 0]
    /\ outcome = [s \in Scans |-> "ok"]
    /\ pool = <<>>

-----------------------------------------------------------------------------
(* The generator of scan s.                                                *)

Smaller(a, b) == IF a <= b THEN a ELSE b
Full(s) == n_rows[s] # Uncapped /\ yielded_rows[s] >= n_rows[s]

(* Nothing to read: n_rows is 0, or the partition list is empty.           *)
OpenEmpty(s) ==
    /\ pc[s] = "idle"
    /\ \E c \in Caps[s] : /\ c = 0 \/ Slices(s) = {}
                         /\ n_rows' = [n_rows EXCEPT ![s] = c]
    /\ pc' = [pc EXCEPT ![s] = "ok"]
    /\ UNCHANGED <<sent, yielded_rows, futureVars, shared, work, pos, pool>>

(* Too many partitions, or a clause of the query that cannot be sliced.    *)
OpenRefused(s) ==
    /\ pc[s] = "idle"
    /\ Slices(s) # {}
    /\ \E c \in Caps[s] \ {0} : n_rows' = [n_rows EXCEPT ![s] = c]
    /\ pc' = [pc EXCEPT ![s] = "error"]
    /\ UNCHANGED <<sent, yielded_rows, futureVars, shared, work, pos, pool>>

(* One query reads everything, in the generator itself: the scan has one   *)
(* slice, or its predicate gives the partitioner no bounded split.         *)
OpenDirect(s) ==
    /\ pc[s] = "idle"
    /\ Slices(s) # {}
    /\ \E c \in Caps[s] \ {0} : n_rows' = [n_rows EXCEPT ![s] = c]
    /\ pc' = [pc EXCEPT ![s] = "direct"]
    /\ UNCHANGED <<sent, yielded_rows, futureVars, shared, work, pos, pool>>

(* The first k slices are submitted.                                       *)
OpenFanOut(s) ==
    LET first == 1..Smaller(K(s), Len(Batches[s]))
    IN /\ pc[s] = "idle"
       /\ Len(Batches[s]) > 1
       /\ \E c \in Caps[s] \ {0} : n_rows' = [n_rows EXCEPT ![s] = c]
       /\ pc' = [pc EXCEPT ![s] = "get"]
       /\ futures' = [futures EXCEPT ![s] = first]
       /\ next_submit' = [next_submit EXCEPT ![s] = Smaller(K(s), Len(Batches[s])) + 1]
       /\ work' = [work EXCEPT ![s] = [i \in Slices(s) |-> IF i \in first THEN "queued" ELSE @[i]]]
       /\ pool' = pool \o [i \in first |-> <<s, i>>]
       /\ UNCHANGED <<sent, yielded_rows, stop, item, outcome, shared, pos>>

(* _emit: the rows of batch b of slice i, cut to what n_rows leaves.       *)
Emit(s, i, b) ==
    LET height == End(s, i, b) - End(s, i, b - 1)
        rows == IF n_rows[s] = Uncapped THEN height
                ELSE Smaller(height, n_rows[s] - yielded_rows[s])
    IN /\ sent' = [sent EXCEPT ![s][i] = @ + rows]
       /\ yielded_rows' = [yielded_rows EXCEPT ![s] = @ + rows]

(* The next batch of the only query is read and yielded, ...               *)
DirectRead(s) ==
    /\ pc[s] = "direct"
    /\ \E i \in Slices(s) :
          /\ pos[s][i] < Len(Batches[s][i])
          /\ Emit(s, i, pos[s][i] + 1)
          /\ pos' = [pos EXCEPT ![s][i] = @ + 1]
    /\ pc' = [pc EXCEPT ![s] = "direct_yielded"]
    /\ UNCHANGED <<n_rows, futureVars, shared, work, pool>>

(* ... the engine asks for more rows, ...                                  *)
DirectPull(s) ==
    /\ pc[s] = "direct_yielded"
    /\ pc' = [pc EXCEPT ![s] = IF Full(s) THEN "ok" ELSE "direct"]
    /\ UNCHANGED <<scanVars, futureVars, shared, work, pos, pool>>

(* ... and the query ends, or it fails.                                    *)
DirectEnd(s) ==
    /\ pc[s] = "direct"
    /\ \/ /\ \A i \in Slices(s) : pos[s][i] = Len(Batches[s][i])
          /\ pc' = [pc EXCEPT ![s] = "ok"]
       \/ pc' = [pc EXCEPT ![s] = "error"]
    /\ UNCHANGED <<scanVars, futureVars, shared, work, pos, pool>>

(* Bug: the workers are not stopped.                                       *)
FinallyNoStop(s, held, how) ==
    /\ work' = [work EXCEPT ![s] = [i \in Slices(s) |->
                   IF i \in held /\ @[i] = "queued" THEN "cancelled" ELSE @[i]]]
    /\ outcome' = [outcome EXCEPT ![s] = how]
    /\ pc' = [pc EXCEPT ![s] = "closing"]
    /\ UNCHANGED stop

(* The finally block: stop the workers and cancel the futures held, of     *)
(* which those still in the executor's queue never start.                  *)
Finally(s, held, how) ==
    /\ stop' = [stop EXCEPT ![s] = TRUE]
    /\ work' = [work EXCEPT ![s] = [i \in Slices(s) |->
                   IF i \in held /\ @[i] = "queued" THEN "cancelled" ELSE @[i]]]
    /\ outcome' = [outcome EXCEPT ![s] = how]
    /\ pc' = [pc EXCEPT ![s] = "closing"]

(* A batch is taken from the queue and yielded.                            *)
TakeBatch(s) ==
    /\ pc[s] = "get"
    /\ shared[s] # <<>>
    /\ LET h == Head(shared[s])
       IN /\ h.batch # Marker(s, h.slice)
          /\ Emit(s, h.slice, h.batch)
    /\ shared' = [shared EXCEPT ![s] = Tail(@)]
    /\ pc' = [pc EXCEPT ![s] = "yielded"]
    /\ UNCHANGED <<n_rows, futureVars, work, pos, pool>>

(* An end marker is taken from the queue.                                  *)
TakeMarker(s) ==
    /\ pc[s] = "get"
    /\ shared[s] # <<>>
    /\ Head(shared[s]).batch = Marker(s, Head(shared[s]).slice)
    /\ item' = [item EXCEPT ![s] = Head(shared[s]).slice]
    /\ shared' = [shared EXCEPT ![s] = Tail(@)]
    /\ pc' = [pc EXCEPT ![s] = "reconcile"]
    /\ UNCHANGED <<scanVars, futures, next_submit, stop, outcome, work, pos, pool>>

(* There are slices left to submit.                                        *)
MoreSlices(s) == next_submit[s] <= Len(Batches[s])

(* Bug: the result of the future is not awaited.                           *)
FutureDoneUnawaited(s, i) == TRUE

(* result() of the future of a slice that has put its marker returns.      *)
FutureDone(s, i) == work[s][i] = "finished"

(* The future of the marked slice is awaited and dropped, and the next     *)
(* slice, if any, is submitted.  With no future left the loop ends.        *)
Reconcile(s) ==
    LET i == item[s]
        n == next_submit[s]
        more == MoreSlices(s)
        held == (futures[s] \ {i}) \cup IF more THEN {n} ELSE {}
    IN /\ pc[s] = "reconcile"
       /\ FutureDone(s, i)
       /\ futures' = [futures EXCEPT ![s] = held]
       /\ \/ more
             /\ next_submit' = [next_submit EXCEPT ![s] = n + 1]
             /\ work' = [work EXCEPT ![s][n] = "queued"]
             /\ pool' = Append(pool, <<s, n>>)
             /\ pc' = [pc EXCEPT ![s] = "get"]
             /\ UNCHANGED <<stop, outcome>>
          \/ ~more /\ held # {}
             /\ pc' = [pc EXCEPT ![s] = "get"]
             /\ UNCHANGED <<next_submit, work, pool, stop, outcome>>
          \/ ~more /\ held = {}
             /\ Finally(s, held, "ok")
             /\ UNCHANGED <<next_submit, pool>>
       /\ item' = [item EXCEPT ![s] = 0]
       /\ UNCHANGED <<scanVars, shared, pos>>

(* get times out on an empty queue ...                                     *)
PollEmpty(s) ==
    /\ pc[s] = "get"
    /\ shared[s] = <<>>
    /\ pc' = [pc EXCEPT ![s] = "polled"]
    /\ UNCHANGED <<scanVars, futureVars, shared, work, pos, pool>>

FailedFutures(s) == {i \in futures[s] : work[s][i] = "failed"}

(* ... and the failure of a worker is surfaced, ...                        *)
SurfaceFailure(s) ==
    /\ pc[s] = "polled"
    /\ FailedFutures(s) # {}
    /\ Finally(s, futures[s], "error")
    /\ UNCHANGED <<scanVars, futures, next_submit, item, shared, pos, pool>>

(* Bug: finished workers are reconciled without their markers.             *)
PollAgainReaps(s) ==
    LET held == {i \in futures[s] : work[s][i] # "finished"}
    IN /\ pc[s] = "polled"
       /\ FailedFutures(s) = {}
       /\ futures' = [futures EXCEPT ![s] = held]
       /\ IF held = {} THEN Finally(s, held, "ok")
          ELSE pc' = [pc EXCEPT ![s] = "get"] /\ UNCHANGED <<stop, work, outcome>>
       /\ UNCHANGED <<scanVars, next_submit, item, shared, pos, pool>>

(* ... or, when none has failed, the queue is polled again.                *)
PollAgain(s) ==
    /\ pc[s] = "polled"
    /\ FailedFutures(s) = {}
    /\ pc' = [pc EXCEPT ![s] = "get"]
    /\ UNCHANGED <<scanVars, futureVars, shared, work, pos, pool>>

(* The engine asks for more rows; the scan stops early at n_rows.          *)
Pull(s) ==
    /\ pc[s] = "yielded"
    /\ IF Full(s)
       THEN Finally(s, futures[s], "ok")
       ELSE pc' = [pc EXCEPT ![s] = "get"] /\ UNCHANGED <<stop, work, outcome>>
    /\ UNCHANGED <<scanVars, futures, next_submit, item, shared, pos, pool>>

(* The engine closes the generator where it is suspended.                  *)
Close(s) ==
    \/ /\ pc[s] = "yielded"
       /\ Finally(s, futures[s], "closed")
       /\ UNCHANGED <<scanVars, futures, next_submit, item, shared, pos, pool>>
    \/ /\ pc[s] = "direct_yielded"
       /\ pc' = [pc EXCEPT ![s] = "closed"]
       /\ UNCHANGED <<scanVars, futureVars, shared, work, pos, pool>>

(* Bug: the workers are not waited for.                                    *)
AllDoneUnawaited(s) == TRUE

(* wait() of the finally block returns.                                    *)
AllDone(s) == \A i \in futures[s] : work[s][i] \in {"finished", "failed", "skipped"}

(* Every future held is done, the cancelled ones once a thread of the      *)
(* executor has come across them.  The generator ends with its locals.     *)
Closed(s) ==
    /\ pc[s] = "closing"
    /\ AllDone(s)
    /\ pc' = [pc EXCEPT ![s] = outcome[s]]
    /\ futures' = [futures EXCEPT ![s] = {}]
    /\ shared' = [shared EXCEPT ![s] = <<>>]
    /\ pos' = [pos EXCEPT ![s] = [i \in Slices(s) |-> 0]]
    /\ UNCHANGED <<scanVars, next_submit, stop, item, outcome, work, pool>>

-----------------------------------------------------------------------------
(* The executor and its workers.                                           *)

(* An idle thread of the executor takes the next work item: a cancelled    *)
(* future is skipped, and a worker that finds stop set returns.            *)
Dequeue ==
    /\ pool # <<>>
    /\ Cardinality(Running) < Budget
    /\ LET s == Head(pool)[1]
           i == Head(pool)[2]
       IN work' = [work EXCEPT ![s][i] = IF @ = "cancelled" THEN "skipped"
                                         ELSE IF stop[s] THEN "finished" ELSE "fetch"]
    /\ pool' = Tail(pool)
    /\ UNCHANGED <<pc, scanVars, futureVars, shared, pos>>

(* The worker has the next batch of its slice in hand, or the marker.      *)
Fetch(s, i) ==
    /\ work[s][i] = "fetch"
    /\ pos' = [pos EXCEPT ![s][i] = @ + 1]
    /\ work' = [work EXCEPT ![s][i] = IF stop[s] THEN "finished" ELSE "put"]
    /\ UNCHANGED <<pc, scanVars, futureVars, shared, pool>>

(* The query or the processing of a batch raises.                          *)
WorkerFails(s, i) ==
    /\ work[s][i] = "fetch"
    /\ work' = [work EXCEPT ![s][i] = "failed"]
    /\ UNCHANGED <<pc, scanVars, futureVars, shared, pos, pool>>

(* _put succeeds: the queue has room.  Testing stop and putting are two    *)
(* steps of the code, so that a put may come after stop is set.            *)
Put(s, i) ==
    /\ work[s][i] = "put"
    /\ Len(shared[s]) < K(s)
    /\ shared' = [shared EXCEPT ![s] = Append(@, [slice |-> i, batch |-> pos[s][i]])]
    /\ work' = [work EXCEPT ![s][i] = IF pos[s][i] = Marker(s, i) THEN "return" ELSE "fetch"]
    /\ UNCHANGED <<pc, scanVars, futureVars, pos, pool>>

(* _put gives up: stop is set.                                             *)
GiveUp(s, i) ==
    /\ work[s][i] = "put"
    /\ stop[s]
    /\ work' = [work EXCEPT ![s][i] = "finished"]
    /\ UNCHANGED <<pc, scanVars, futureVars, shared, pos, pool>>

(* The worker returns and its future is done.                              *)
Return(s, i) ==
    /\ work[s][i] = "return"
    /\ work' = [work EXCEPT ![s][i] = "finished"]
    /\ UNCHANGED <<pc, scanVars, futureVars, shared, pos, pool>>

Generator(s) ==
    \/ DirectRead(s) \/ DirectPull(s) \/ DirectEnd(s)
    \/ TakeBatch(s) \/ TakeMarker(s) \/ Reconcile(s)
    \/ PollEmpty(s) \/ SurfaceFailure(s) \/ PollAgain(s) \/ Pull(s) \/ Closed(s)

Worker(s, i) ==
    Fetch(s, i) \/ WorkerFails(s, i) \/ Put(s, i) \/ GiveUp(s, i) \/ Return(s, i)

Next ==
    \/ \E s \in Scans :
          \/ OpenEmpty(s) \/ OpenRefused(s) \/ OpenDirect(s) \/ OpenFanOut(s)
          \/ Generator(s) \/ Close(s)
          \/ \E i \in Slices(s) : Worker(s, i)
    \/ Dequeue

(* Threads keep running, and the engine keeps pulling what it has opened   *)
(* until it closes it.                                                     *)
Fairness ==
    /\ WF_vars(Dequeue)
    /\ \A s \in Scans : /\ WF_vars(Generator(s))
                        /\ \A i \in Slices(s) : WF_vars(Worker(s, i))

Spec == Init /\ [][Next]_vars
FairSpec == Spec /\ Fairness

-----------------------------------------------------------------------------
(* Properties.                                                             *)

Active(s) == {i \in Slices(s) : work[s][i] \in {"fetch", "put", "return"}}

(* max_concurrency caps the slices of a scan that hold a connection, and   *)
(* the budget those of all scans, also while one slice is replaced by the  *)
(* next (l.506, l.548-551).                                                *)
SlotsBounded ==
    /\ Cardinality(Running) <= Budget
    /\ \A s \in Scans : Cardinality(Active(s)) <= K(s)

(* Once the generator has ended, in any way, no worker of the scan runs or *)
(* will run: no connection is left behind (l.556-566).                     *)
NoOrphans ==
    \A s \in Scans : pc[s] \in Ended =>
        Active(s) = {} /\ \A i \in Slices(s) : work[s][i] # "queued"

Status(s) == IF pc[s] = "idle" \/ pc[s] \in Ended THEN pc[s] ELSE "open"

Stream(s) == INSTANCE RowStream WITH
    Parts <- Slices(s),
    Size <- [i \in Slices(s) |-> Rows(s, i)],
    Caps <- Caps[s],
    inOrder <- FALSE,
    Uncapped <- Uncapped,
    status <- Status(s),
    n_rows <- n_rows[s],
    sent <- sent[s],
    total <- yielded_rows[s]

(* Every scan yields each row once, at most n_rows of them, and ends       *)
(* normally only when nothing is missing: a failed worker is never         *)
(* swallowed, and no batch is dropped with its slice (l.540-555).          *)
ImplementsStream ==
    /\ \A s \in Scans : Stream(s)!StreamInit
    /\ [][\A s \in Scans : [Stream(s)!StreamNext]_(Stream(s)!streamVars)]_vars

(* Every scan ends: the markers restart the fan-out, a failed worker ends  *)
(* it, and the wait of the finally block is not for ever.                  *)
EveryScanEnds ==
    \A s \in Scans : pc[s] \notin {"idle"} \cup Ended ~> pc[s] \in Ended
=============================================================================
