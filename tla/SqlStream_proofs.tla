-------------------------- MODULE SqlStream_proofs --------------------------
(***************************************************************************)
(* Proofs about SqlStream for every set of scans, every slicing into       *)
(* batches, every budget and max_concurrency and every n_rows: type        *)
(* correctness, the inductive invariant StreamInv, the caps on running     *)
(* workers, that no worker outlives its scan, and the refinement of        *)
(* RowStream.                                                              *)
(***************************************************************************)
EXTENDS SqlStream, FiniteSetTheorems, SequenceTheorems, TLAPS

Streaming == {"get", "polled", "yielded", "reconcile"}

(* Every variable but pool maps a scan to its state.                       *)
Family(f) == f = [s \in Scans |-> f[s]]
Families ==
    /\ Family(pc) /\ Family(n_rows) /\ Family(sent) /\ Family(yielded_rows)
    /\ Family(futures) /\ Family(next_submit) /\ Family(stop) /\ Family(item)
    /\ Family(outcome) /\ Family(shared) /\ Family(work) /\ Family(pos)

(* The state of a scan has its type.                                       *)
ScanType(s) ==
    /\ pc[s] \in {"idle", "direct", "direct_yielded", "closing"} \cup Streaming \cup Ended
    /\ n_rows[s] \in Nat \cup {Uncapped}
    /\ yielded_rows[s] \in Nat
    /\ outcome[s] \in Ended
    /\ stop[s] \in BOOLEAN
    /\ sent[s] \in [Slices(s) -> Nat]
    /\ futures[s] \in SUBSET Slices(s)
    /\ next_submit[s] \in 1..(Len(Batches[s]) + 1)
    /\ item[s] \in Slices(s) \cup {0}
    /\ work[s] \in [Slices(s) -> {"none", "queued", "cancelled", "fetch", "put", "return",
                                  "finished", "failed", "skipped"}]
    /\ pos[s] \in [Slices(s) -> Nat]
    /\ shared[s] \in Seq(Item(s))

(* The executor's queue holds each worker once, and only those that have   *)
(* not started.                                                            *)
PoolInv ==
    /\ \A k \in 1..Len(pool) : work[pool[k][1]][pool[k][2]] \in {"queued", "cancelled"}
    /\ \A j, k \in 1..Len(pool) : j # k => pool[j] # pool[k]

(* A worker that may still run belongs to a future the generator holds, of *)
(* which there are at most K.                                              *)
FutureInv(s) ==
    /\ \A i \in Slices(s) : i >= next_submit[s] => work[s][i] = "none" /\ i \notin futures[s]
    /\ \A i \in Slices(s) : i \notin futures[s] =>
          work[s][i] \in {"none", "finished", "failed", "skipped"}
    /\ IsFiniteSet(futures[s]) /\ Cardinality(futures[s]) <= K(s)
    /\ pc[s] \in Ended => futures[s] = {}
    /\ pc[s] \in {"idle", "direct", "direct_yielded"} =>
          next_submit[s] = 1 /\ ~stop[s] /\ shared[s] = <<>>
    /\ pc[s] = "idle" => /\ n_rows[s] = Uncapped /\ yielded_rows[s] = 0
                         /\ \A i \in Slices(s) : sent[s][i] = 0 /\ pos[s][i] = 0
    /\ pc[s] = "reconcile" => item[s] \in futures[s]

(* While the generator takes batches, no worker is stopped, and a worker   *)
(* that has finished has come to the end of its slice.                     *)
WorkerInv(s) ==
    pc[s] \in Streaming =>
        /\ ~stop[s]
        /\ \A i \in Slices(s) :
              \/ work[s][i] \in {"none", "queued"} /\ pos[s][i] = 0
              \/ work[s][i] \in {"fetch", "failed"} /\ pos[s][i] < Marker(s, i)
              \/ work[s][i] = "put" /\ pos[s][i] \in 1..Marker(s, i)
              \/ work[s][i] \in {"return", "finished"} /\ pos[s][i] = Marker(s, i)

(* The last batch of slice i that its worker has put.                      *)
LastPut(s, i) == IF work[s][i] = "put" THEN pos[s][i] - 1 ELSE pos[s][i]

(* The batches of slice i up to d were taken from the queue and yielded;   *)
(* those after d that its worker has put are in the queue.                 *)
Taken(s, i, d) ==
    /\ d <= LastPut(s, i)
    /\ sent[s][i] = End(s, i, Smaller(d, Len(Batches[s][i])))
    /\ \A k \in 1..Len(shared[s]) : shared[s][k].slice = i =>
          d < shared[s][k].batch /\ shared[s][k].batch <= LastPut(s, i)
    /\ \A b \in 1..LastPut(s, i) : d < b =>
          \E k \in 1..Len(shared[s]) : shared[s][k] = [slice |-> i, batch |-> b]

(* The marker of slice i was taken from the queue.                         *)
MarkerTaken(s, i) ==
    i < next_submit[s] /\ (i \notin futures[s] \/ (pc[s] = "reconcile" /\ i = item[s]))

(* Unless n_rows cut the last batch, every slice has sent the batches that *)
(* were taken, and its marker is taken last.                               *)
Ordered(q) ==
    \A j, k \in 1..Len(q) : j < k /\ q[j].slice = q[k].slice => q[j].batch < q[k].batch
QueueInv(s) ==
    pc[s] \in Streaming /\ ~(pc[s] = "yielded" /\ Full(s)) =>
        /\ Ordered(shared[s])
        /\ \A i \in Slices(s) : \E d \in 0..Marker(s, i) :
              Taken(s, i, d) /\ (d = Marker(s, i) <=> MarkerTaken(s, i))

(* The only query has sent the batches it has read, unless n_rows cut the  *)
(* last one.                                                               *)
DirectInv(s) ==
    pc[s] = "direct" \/ (pc[s] = "direct_yielded" /\ ~Full(s)) =>
        \A i \in Slices(s) : pos[s][i] <= Len(Batches[s][i]) /\ sent[s][i] = End(s, i, pos[s][i])

(* No more than n_rows are yielded, and a normal end is not early.         *)
CountInv(s) ==
    /\ n_rows[s] # Uncapped => yielded_rows[s] <= n_rows[s]
    /\ pc[s] = "closing" /\ outcome[s] = "ok" =>
          yielded_rows[s] = n_rows[s] \/ \A i \in Slices(s) : sent[s][i] = Rows(s, i)

ScanInv(s) ==
    /\ ScanType(s) /\ FutureInv(s) /\ WorkerInv(s)
    /\ QueueInv(s) /\ DirectInv(s) /\ CountInv(s)

StreamInv ==
    /\ Families
    /\ \A s \in Scans : ScanInv(s)
    /\ pool \in Seq(Workers) /\ PoolInv
    /\ IsFiniteSet(Running) /\ Cardinality(Running) <= Budget

-----------------------------------------------------------------------------
(* Facts about the constants.                                              *)

(* What the assumption says of one slice.                                  *)
LEMMA SliceFacts ==
    ASSUME NEW s \in Scans
    PROVE  /\ Len(Batches[s]) \in Nat /\ Slices(s) = 1..Len(Batches[s])
           /\ K(s) \in Nat \ {0}
           /\ \A i \in Slices(s) :
                 /\ Len(Batches[s][i]) \in Nat /\ Marker(s, i) = Len(Batches[s][i]) + 1
                 /\ End(s, i, 0) = 0 /\ Rows(s, i) = End(s, i, Len(Batches[s][i]))
                 /\ \A b \in 0..Len(Batches[s][i]) :
                       End(s, i, b) \in Nat /\ End(s, i, b) <= Rows(s, i)
                 /\ \A b \in 1..Len(Batches[s][i]) : End(s, i, b - 1) <= End(s, i, b)
<1>1. Batches[s] \in Seq(Seq(Nat)) /\ MaxConcurrency[s] \in Nat /\ Budget \in Nat \ {0}
  BY SqlStreamAssumption
<1>2. Len(Batches[s]) \in Nat /\ Slices(s) = 1..Len(Batches[s])
  BY <1>1 DEF Slices
<1>3. K(s) \in Nat \ {0}
  BY <1>1 DEF K
<1>4. ASSUME NEW i \in Slices(s)
      PROVE  /\ Len(Batches[s][i]) \in Nat /\ Marker(s, i) = Len(Batches[s][i]) + 1
             /\ End(s, i, 0) = 0 /\ Rows(s, i) = End(s, i, Len(Batches[s][i]))
             /\ \A b \in 0..Len(Batches[s][i]) :
                   End(s, i, b) \in Nat /\ End(s, i, b) <= Rows(s, i)
             /\ \A b \in 1..Len(Batches[s][i]) : End(s, i, b - 1) <= End(s, i, b)
  <2>1. Batches[s][i] \in Seq(Nat)
    BY <1>1, <1>2, ElementOfSeq
  <2>2. Len(Batches[s][i]) \in Nat
    BY <2>1
  <2>3. \A b \in 1..Len(Batches[s][i]) : Batches[s][i][b] \in Nat
    BY <2>1, ElementOfSeq
  <2>4. \A b \in 0..Len(Batches[s][i]) : End(s, i, b) \in Nat
    BY <2>2, <2>3 DEF End
  <2>5. \A b, c \in 0..Len(Batches[s][i]) : b <= c => End(s, i, b) <= End(s, i, c)
    BY SqlStreamAssumption
  <2>6. \A b \in 0..Len(Batches[s][i]) : End(s, i, b) <= Rows(s, i)
    BY <2>2, <2>5 DEF Rows
  <2>7. \A b \in 1..Len(Batches[s][i]) : End(s, i, b - 1) <= End(s, i, b)
    BY <2>2, <2>5
  <2>8. QED BY <2>2, <2>4, <2>6, <2>7 DEF End, Rows, Marker
<1>5. QED BY <1>2, <1>3, <1>4

-----------------------------------------------------------------------------
(* What each kind of step does to the state of the scan that takes it.     *)

KeptScan(s) == n_rows'[s] = n_rows[s] /\ sent'[s] = sent[s] /\ yielded_rows'[s] = yielded_rows[s]
KeptFutures(s) ==
    /\ futures'[s] = futures[s] /\ next_submit'[s] = next_submit[s]
    /\ stop'[s] = stop[s] /\ item'[s] = item[s] /\ outcome'[s] = outcome[s]
KeptWork(s) == shared'[s] = shared[s] /\ work'[s] = work[s] /\ pos'[s] = pos[s]
Kept(s) == pc'[s] = pc[s] /\ KeptScan(s) /\ KeptFutures(s) /\ KeptWork(s)

(* The scan opens, and no worker is started.                               *)
Opens(s) ==
    /\ pc[s] = "idle" /\ pc'[s] \in {"ok", "error", "direct"}
    /\ n_rows'[s] \in Caps[s]
    /\ pc'[s] = "ok" => n_rows'[s] = 0 \/ Slices(s) = {}
    /\ sent'[s] = sent[s] /\ yielded_rows'[s] = yielded_rows[s]
    /\ KeptFutures(s) /\ KeptWork(s) /\ pool' = pool

(* The generator of the only query goes on, or ends.                       *)
DirectMoves(s) ==
    /\ \/ pc[s] = "direct_yielded" /\ pc'[s] = IF Full(s) THEN "ok" ELSE "direct"
       \/ pc[s] = "direct_yielded" /\ pc'[s] = "closed"
       \/ pc[s] = "direct" /\ pc'[s] = "error"
       \/ /\ pc[s] = "direct" /\ pc'[s] = "ok"
          /\ \A i \in Slices(s) : pos[s][i] = Len(Batches[s][i])
    /\ KeptScan(s) /\ KeptFutures(s) /\ KeptWork(s) /\ pool' = pool

(* The generator of the fan-out goes on to poll the queue.                 *)
Moves(s) ==
    /\ \/ pc[s] = "get" /\ pc'[s] = "polled"
       \/ pc[s] = "polled" /\ pc'[s] = "get"
       \/ pc[s] = "yielded" /\ ~Full(s) /\ pc'[s] = "get"
    /\ KeptScan(s) /\ KeptFutures(s) /\ KeptWork(s) /\ pool' = pool

(* The generator of the fan-out stops the workers it holds.                *)
CancelledIn(s, held) ==
    work'[s] = [i \in Slices(s) |->
                   IF i \in held /\ work[s][i] = "queued" THEN "cancelled" ELSE work[s][i]]
Stops(s) ==
    /\ pc[s] \in {"polled", "yielded"} /\ pc'[s] = "closing"
    /\ outcome'[s] \in Ended
    /\ outcome'[s] = "ok" => pc[s] = "yielded" /\ Full(s)
    /\ stop'[s] = TRUE
    /\ CancelledIn(s, futures[s])
    /\ KeptScan(s) /\ futures'[s] = futures[s] /\ next_submit'[s] = next_submit[s]
    /\ item'[s] = item[s] /\ shared'[s] = shared[s] /\ pos'[s] = pos[s] /\ pool' = pool

(* An open without workers.                                                *)
LEMMA OpensEffect ==
    ASSUME Families, NEW s \in Scans, OpenEmpty(s) \/ OpenRefused(s) \/ OpenDirect(s)
    PROVE  Opens(s)
  BY DEF Families, Family, OpenEmpty, OpenRefused, OpenDirect, Opens, futureVars, KeptFutures, KeptWork

(* The first slices are submitted.                                         *)
Ahead(s) == Smaller(K(s), Len(Batches[s]))
FansOut(s) ==
    /\ pc[s] = "idle" /\ pc'[s] = "get"
    /\ Len(Batches[s]) > 1
    /\ n_rows'[s] \in Caps[s] \ {0}
    /\ sent'[s] = sent[s] /\ yielded_rows'[s] = yielded_rows[s]
    /\ futures'[s] = 1..Ahead(s) /\ next_submit'[s] = Ahead(s) + 1
    /\ stop'[s] = stop[s] /\ item'[s] = item[s] /\ outcome'[s] = outcome[s]
    /\ shared'[s] = shared[s] /\ pos'[s] = pos[s]
    /\ work'[s] = [i \in Slices(s) |-> IF i \in 1..Ahead(s) THEN "queued" ELSE work[s][i]]
    /\ pool' = pool \o [i \in 1..Ahead(s) |-> <<s, i>>]

(* The fan-out opens with its first slices queued.                          *)
LEMMA FanOutEffect ==
    ASSUME Families, NEW s \in Scans, OpenFanOut(s)
    PROVE  FansOut(s)
  BY DEF Families, Family, OpenFanOut, FansOut, Ahead

(* The only query goes on, or ends.                                        *)
LEMMA DirectMovesEffect ==
    ASSUME Families, NEW s \in Scans,
           DirectPull(s) \/ DirectEnd(s) \/ (Close(s) /\ pc[s] = "direct_yielded")
    PROVE  DirectMoves(s)
  BY DEF Families, Family, DirectPull, DirectEnd, Close, DirectMoves, scanVars, futureVars,
         KeptScan, KeptFutures, KeptWork

(* The fan-out goes on.                                                    *)
LEMMA MovesEffect ==
    ASSUME Families, NEW s \in Scans,
           PollEmpty(s) \/ PollAgain(s) \/ (Pull(s) /\ ~Full(s))
    PROVE  Moves(s)
  BY DEF Families, Family, PollEmpty, PollAgain, Pull, Moves, scanVars, futureVars,
         KeptScan, KeptFutures, KeptWork

(* The fan-out is stopped.                                                 *)
LEMMA StopsEffect ==
    ASSUME Families, NEW s \in Scans,
           SurfaceFailure(s) \/ (Pull(s) /\ Full(s)) \/ (Close(s) /\ pc[s] = "yielded")
    PROVE  Stops(s)
<1>1. SurfaceFailure(s) => Stops(s)
  BY DEF Families, Family, SurfaceFailure, Finally, Stops, CancelledIn, scanVars, KeptScan, Ended
<1>2. Pull(s) /\ Full(s) => Stops(s)
  BY DEF Families, Family, Pull, Finally, Stops, CancelledIn, scanVars, KeptScan, Ended
<1>3. Close(s) /\ pc[s] = "yielded" => Stops(s)
  BY DEF Families, Family, Close, Finally, Stops, CancelledIn, scanVars, KeptScan, Ended
<1>4. QED BY <1>1, <1>2, <1>3

(* _emit yields some rows of batch b of slice i: all, or what n_rows leaves. *)
Emits(s, i, b) ==
    \E n \in Nat :
        /\ sent'[s] = [sent[s] EXCEPT ![i] = @ + n]
        /\ yielded_rows'[s] = yielded_rows[s] + n
        /\ n <= End(s, i, b) - End(s, i, b - 1)
        /\ n_rows[s] # Uncapped => yielded_rows[s] + n <= n_rows[s]
        /\ \/ n = End(s, i, b) - End(s, i, b - 1)
           \/ n_rows[s] # Uncapped /\ yielded_rows[s] + n = n_rows[s]

(* The rows of a batch are yielded, up to n_rows.                           *)
LEMMA EmitEffect ==
    ASSUME Families, NEW s \in Scans, ScanInv(s), NEW i \in Slices(s),
           NEW b \in 1..Len(Batches[s][i]), Emit(s, i, b)
    PROVE  Emits(s, i, b)
<1> DEFINE height == End(s, i, b) - End(s, i, b - 1)
           rows == IF n_rows[s] = Uncapped THEN height
                   ELSE Smaller(height, n_rows[s] - yielded_rows[s])
<1>1. /\ sent'[s] = [sent[s] EXCEPT ![i] = @ + rows]
      /\ yielded_rows'[s] = yielded_rows[s] + rows
  BY DEF Families, Family, Emit
<1>2. height \in Nat
  <2>1. Len(Batches[s][i]) \in Nat
    BY SliceFacts
  <2>2. b \in 0..Len(Batches[s][i]) /\ b - 1 \in 0..Len(Batches[s][i])
    BY <2>1
  <2>3. End(s, i, b) \in Nat /\ End(s, i, b - 1) \in Nat /\ End(s, i, b - 1) <= End(s, i, b)
    BY <2>2, SliceFacts
  <2>4. QED BY <2>3
<1>3. /\ yielded_rows[s] \in Nat /\ n_rows[s] \in Nat \cup {Uncapped}
      /\ n_rows[s] # Uncapped => yielded_rows[s] <= n_rows[s]
  BY DEF ScanInv, ScanType, CountInv
<1> HIDE DEF height
<1>4. /\ rows \in Nat /\ rows <= height
      /\ n_rows[s] # Uncapped => yielded_rows[s] + rows <= n_rows[s]
      /\ rows = height \/ (n_rows[s] # Uncapped /\ yielded_rows[s] + rows = n_rows[s])
  BY <1>2, <1>3 DEF Smaller
<1> HIDE DEF rows
<1>5. QED BY <1>1, <1>4 DEF Emits, height

(* The next batch of the only query is read and yielded.                   *)
ReadsDirectly(s) ==
    \E i \in Slices(s) :
        /\ pc[s] = "direct" /\ pc'[s] = "direct_yielded"
        /\ pos[s][i] < Len(Batches[s][i])
        /\ Emits(s, i, pos[s][i] + 1)
        /\ pos'[s] = [pos[s] EXCEPT ![i] = @ + 1]
        /\ n_rows'[s] = n_rows[s] /\ KeptFutures(s)
        /\ shared'[s] = shared[s] /\ work'[s] = work[s] /\ pool' = pool

(* The only query reads a batch.                                            *)
LEMMA DirectReadEffect ==
    ASSUME Families, NEW s \in Scans, ScanInv(s), DirectRead(s)
    PROVE  ReadsDirectly(s)
<1>1. PICK i \in Slices(s) : /\ pos[s][i] < Len(Batches[s][i])
                            /\ Emit(s, i, pos[s][i] + 1)
                            /\ pos' = [pos EXCEPT ![s][i] = @ + 1]
  BY DEF DirectRead
<1>2. pos[s][i] \in Nat /\ Len(Batches[s][i]) \in Nat
  BY SliceFacts DEF ScanInv, ScanType
<1>3. pos[s][i] + 1 \in 1..Len(Batches[s][i])
  BY <1>1, <1>2
<1>4. Emits(s, i, pos[s][i] + 1)
  BY <1>1, <1>3, EmitEffect
<1>5. /\ pc[s] = "direct" /\ pc'[s] = "direct_yielded" /\ n_rows'[s] = n_rows[s]
      /\ KeptFutures(s) /\ shared'[s] = shared[s] /\ work'[s] = work[s] /\ pool' = pool
      /\ pos'[s] = [pos[s] EXCEPT ![i] = @ + 1]
  BY <1>1 DEF Families, Family, DirectRead, futureVars, KeptFutures
<1>6. QED BY <1>1, <1>4, <1>5 DEF ReadsDirectly

(* The head of the queue is taken; a batch is of a slice of the scan.      *)
LEMMA QueueHead ==
    ASSUME NEW s \in Scans, ScanInv(s), shared[s] # <<>>
    PROVE  LET h == Head(shared[s])
           IN /\ h \in Item(s) /\ h.slice \in Slices(s) /\ h.batch \in Nat
              /\ Len(shared[s]) \in Nat /\ Len(shared[s]) > 0 /\ h = shared[s][1]
              /\ Tail(shared[s]) \in Seq(Item(s))
              /\ Len(Tail(shared[s])) = Len(shared[s]) - 1
              /\ \A k \in 1..Len(Tail(shared[s])) : Tail(shared[s])[k] = shared[s][k + 1]
<1>1. shared[s] \in Seq(Item(s))
  BY DEF ScanInv, ScanType
<1>2. /\ Head(shared[s]) \in Item(s) /\ Head(shared[s]) = shared[s][1]
      /\ Tail(shared[s]) \in Seq(Item(s))
      /\ Len(Tail(shared[s])) = Len(shared[s]) - 1
      /\ \A k \in 1..Len(Tail(shared[s])) : Tail(shared[s])[k] = shared[s][k + 1]
  BY <1>1, HeadTailProperties
<1>3. Len(shared[s]) \in Nat /\ Len(shared[s]) > 0
  BY <1>1, EmptySeq
<1>4. Head(shared[s]).slice \in Slices(s) /\ Head(shared[s]).batch \in Nat
  BY <1>2 DEF Item
<1>5. QED BY <1>2, <1>3, <1>4

(* A batch at the head of the queue is the next of its slice.              *)
LEMMA HeadIsNext ==
    ASSUME NEW s \in Scans, ScanInv(s), pc[s] = "get", shared[s] # <<>>
    PROVE  LET h == Head(shared[s])
           IN \E d \in 0..Marker(s, h.slice) :
                 /\ Taken(s, h.slice, d) /\ h.batch = d + 1
                 /\ d < Marker(s, h.slice) /\ ~MarkerTaken(s, h.slice)
                 /\ h.batch <= LastPut(s, h.slice)
<1> DEFINE h == Head(shared[s])
<1>1. /\ h.slice \in Slices(s) /\ h.batch \in Nat /\ h = shared[s][1]
      /\ Len(shared[s]) \in Nat /\ Len(shared[s]) > 0
  BY QueueHead
<1>2. PICK d \in 0..Marker(s, h.slice) :
         Taken(s, h.slice, d) /\ (d = Marker(s, h.slice) <=> MarkerTaken(s, h.slice))
  BY <1>1 DEF ScanInv, QueueInv, Streaming
<1>3. Marker(s, h.slice) \in Nat /\ pos[s][h.slice] \in Nat
  <2>1. Marker(s, h.slice) \in Nat
    BY <1>1, SliceFacts
  <2>2. pos[s][h.slice] \in Nat
    BY <1>1 DEF ScanInv, ScanType
  <2>3. QED BY <2>1, <2>2
<1>4. d < h.batch /\ h.batch <= LastPut(s, h.slice)
  BY <1>1, <1>2 DEF Taken
<1>5. LastPut(s, h.slice) \in Int /\ LastPut(s, h.slice) <= Marker(s, h.slice)
  BY <1>1, <1>3 DEF ScanInv, WorkerInv, LastPut, Streaming
<1>6. h.batch = d + 1
  <2>1. d + 1 \in 1..LastPut(s, h.slice) /\ d < d + 1
    BY <1>1, <1>2, <1>3, <1>4, <1>5
  <2>2. PICK k \in 1..Len(shared[s]) : shared[s][k] = [slice |-> h.slice, batch |-> d + 1]
    BY <1>2, <2>1 DEF Taken
  <2>3. k # 1 => shared[s][1].batch < shared[s][k].batch
    BY <1>1, <2>2 DEF ScanInv, QueueInv, Ordered, Streaming
  <2>4. CASE k = 1
    BY <1>1, <2>2, <2>4
  <2>5. CASE k # 1
    BY <1>1, <1>2, <1>3, <1>4, <2>2, <2>3, <2>5
  <2>6. QED BY <2>4, <2>5
<1>7. d < Marker(s, h.slice)
  BY <1>1, <1>2, <1>3, <1>4, <1>5
<1>8. QED BY <1>2, <1>4, <1>6, <1>7

(* A batch is taken from the queue and yielded.                            *)
TakesBatch(s) ==
    LET h == Head(shared[s])
    IN /\ pc[s] = "get" /\ pc'[s] = "yielded" /\ shared[s] # <<>>
       /\ h.batch # Marker(s, h.slice) /\ h.batch \in 1..Len(Batches[s][h.slice])
       /\ Emits(s, h.slice, h.batch)
       /\ shared'[s] = Tail(shared[s])
       /\ n_rows'[s] = n_rows[s] /\ KeptFutures(s)
       /\ work'[s] = work[s] /\ pos'[s] = pos[s] /\ pool' = pool

(* The generator takes a batch.                                             *)
LEMMA TakeBatchEffect ==
    ASSUME Families, NEW s \in Scans, ScanInv(s), TakeBatch(s)
    PROVE  TakesBatch(s)
<1> DEFINE h == Head(shared[s])
<1>1. /\ pc[s] = "get" /\ pc'[s] = "yielded" /\ shared[s] # <<>>
      /\ h.batch # Marker(s, h.slice)
      /\ shared'[s] = Tail(shared[s])
      /\ n_rows'[s] = n_rows[s] /\ KeptFutures(s)
      /\ work'[s] = work[s] /\ pos'[s] = pos[s] /\ pool' = pool
  BY DEF Families, Family, TakeBatch, futureVars, KeptFutures
<1>2. h.slice \in Slices(s) /\ h.batch \in Nat
  BY <1>1, QueueHead
<1>3. PICK d \in 0..Marker(s, h.slice) : h.batch = d + 1 /\ d < Marker(s, h.slice)
  BY <1>1, HeadIsNext
<1>4. Marker(s, h.slice) = Len(Batches[s][h.slice]) + 1 /\ Len(Batches[s][h.slice]) \in Nat
  BY <1>2, SliceFacts
<1>5. h.batch \in 1..Len(Batches[s][h.slice])
  BY SMTT(30), <1>1, <1>3, <1>4
<1>6. Emit(s, h.slice, h.batch)
  BY DEF TakeBatch
<1>7. Emits(s, h.slice, h.batch)
  BY <1>2, <1>5, <1>6, EmitEffect
<1>8. QED BY <1>1, <1>5, <1>7 DEF TakesBatch

(* An end marker is taken from the queue.                                  *)
TakesMarker(s) ==
    LET h == Head(shared[s])
    IN /\ pc[s] = "get" /\ pc'[s] = "reconcile" /\ shared[s] # <<>>
       /\ h.batch = Marker(s, h.slice) /\ item'[s] = h.slice
       /\ shared'[s] = Tail(shared[s])
       /\ KeptScan(s)
       /\ futures'[s] = futures[s] /\ next_submit'[s] = next_submit[s]
       /\ stop'[s] = stop[s] /\ outcome'[s] = outcome[s]
       /\ work'[s] = work[s] /\ pos'[s] = pos[s] /\ pool' = pool

(* The generator takes a marker.                                            *)
LEMMA TakeMarkerEffect ==
    ASSUME Families, NEW s \in Scans, TakeMarker(s)
    PROVE  TakesMarker(s)
  BY DEF Families, Family, TakeMarker, TakesMarker, scanVars, KeptScan

(* The marked slice is replaced, dropped, or was the last.                 *)
Reconciles(s, held) ==
    /\ pc[s] = "reconcile" /\ work[s][item[s]] = "finished"
    /\ futures'[s] = held /\ item'[s] = 0
    /\ KeptScan(s) /\ shared'[s] = shared[s] /\ pos'[s] = pos[s]
Replaces(s) ==
    /\ MoreSlices(s) /\ Reconciles(s, (futures[s] \ {item[s]}) \cup {next_submit[s]})
    /\ pc'[s] = "get" /\ stop'[s] = stop[s] /\ outcome'[s] = outcome[s]
    /\ next_submit'[s] = next_submit[s] + 1
    /\ work'[s] = [work[s] EXCEPT ![next_submit[s]] = "queued"]
    /\ pool' = Append(pool, <<s, next_submit[s]>>)
Drops(s) ==
    /\ ~MoreSlices(s) /\ Reconciles(s, futures[s] \ {item[s]})
    /\ pc'[s] = "get" /\ stop'[s] = stop[s] /\ outcome'[s] = outcome[s]
    /\ next_submit'[s] = next_submit[s] /\ work'[s] = work[s] /\ pool' = pool
EndsLoop(s) ==
    /\ ~MoreSlices(s) /\ Reconciles(s, {}) /\ futures[s] \subseteq {item[s]}
    /\ pc'[s] = "closing" /\ stop'[s] = TRUE /\ outcome'[s] = "ok"
    /\ next_submit'[s] = next_submit[s] /\ CancelledIn(s, {}) /\ pool' = pool

(* The marked slice is replaced, dropped, or was the last.                  *)
LEMMA ReconcileEffect ==
    ASSUME Families, NEW s \in Scans, Reconcile(s)
    PROVE  Replaces(s) \/ Drops(s) \/ EndsLoop(s)
<1>1. CASE MoreSlices(s)
  BY <1>1 DEF Families, Family, Reconcile, FutureDone, Replaces, Reconciles, scanVars, KeptScan
<1>2. CASE ~MoreSlices(s) /\ futures[s] \ {item[s]} # {}
  BY <1>2 DEF Families, Family, Reconcile, FutureDone, Drops, Reconciles, scanVars, KeptScan
<1>3. CASE ~MoreSlices(s) /\ futures[s] \ {item[s]} = {}
  BY <1>3 DEF Families, Family, Reconcile, FutureDone, EndsLoop, Reconciles, scanVars, KeptScan,
              Finally, CancelledIn
<1>4. QED BY <1>1, <1>2, <1>3

(* The generator returns.                                                  *)
Returns(s) ==
    /\ pc[s] = "closing" /\ pc'[s] = outcome[s] /\ AllDone(s)
    /\ futures'[s] = {} /\ shared'[s] = <<>> /\ pos'[s] = [i \in Slices(s) |-> 0]
    /\ KeptScan(s) /\ next_submit'[s] = next_submit[s] /\ stop'[s] = stop[s]
    /\ item'[s] = item[s] /\ outcome'[s] = outcome[s] /\ work'[s] = work[s] /\ pool' = pool

(* The generator has waited for its workers.                                *)
LEMMA ClosedEffect ==
    ASSUME Families, NEW s \in Scans, Closed(s)
    PROVE  Returns(s)
  BY DEF Families, Family, Closed, Returns, scanVars, KeptScan

(* A worker, or the executor that starts it, changes the state of its      *)
(* slice only.                                                             *)
Works(s, i, now, at, put) ==
    /\ work'[s] = [work[s] EXCEPT ![i] = now]
    /\ pos'[s] = [pos[s] EXCEPT ![i] = at]
    /\ shared'[s] = IF put THEN Append(shared[s], [slice |-> i, batch |-> at]) ELSE shared[s]
    /\ pc'[s] = pc[s] /\ KeptScan(s) /\ KeptFutures(s)

WorksOn(s, i) ==
    /\ \/ work[s][i] = "fetch" /\ ~stop[s] /\ Works(s, i, "put", pos[s][i] + 1, FALSE)
       \/ work[s][i] = "fetch" /\ stop[s] /\ Works(s, i, "finished", pos[s][i] + 1, FALSE)
       \/ work[s][i] = "fetch" /\ Works(s, i, "failed", pos[s][i], FALSE)
       \/ /\ work[s][i] = "put" /\ pos[s][i] = Marker(s, i)
          /\ Works(s, i, "return", pos[s][i], TRUE)
       \/ /\ work[s][i] = "put" /\ pos[s][i] # Marker(s, i)
          /\ Works(s, i, "fetch", pos[s][i], TRUE)
       \/ work[s][i] = "put" /\ stop[s] /\ Works(s, i, "finished", pos[s][i], FALSE)
       \/ work[s][i] = "return" /\ Works(s, i, "finished", pos[s][i], FALSE)
    /\ pool' = pool
Starts(s, i) ==
    /\ pool # <<>> /\ Head(pool) = <<s, i>> /\ pool' = Tail(pool)
    /\ Cardinality(Running) < Budget
    /\ \/ work[s][i] = "cancelled" /\ Works(s, i, "skipped", pos[s][i], FALSE)
       \/ work[s][i] = "queued" /\ stop[s] /\ Works(s, i, "finished", pos[s][i], FALSE)
       \/ work[s][i] = "queued" /\ ~stop[s] /\ Works(s, i, "fetch", pos[s][i], FALSE)

(* A step of a worker.                                                      *)
LEMMA WorkerEffect ==
    ASSUME Families, NEW s \in Scans, ScanInv(s), NEW i \in Slices(s), Worker(s, i)
    PROVE  WorksOn(s, i)
<1>1. pos[s] = [pos[s] EXCEPT ![i] = pos[s][i]] /\ stop[s] \in BOOLEAN
  BY DEF ScanInv, ScanType
<1>2. Fetch(s, i) => WorksOn(s, i)
  BY <1>1 DEF Families, Family, Fetch, WorksOn, Works, scanVars, futureVars, KeptScan, KeptFutures
<1>3. WorkerFails(s, i) => WorksOn(s, i)
  BY <1>1 DEF Families, Family, WorkerFails, WorksOn, Works, scanVars, futureVars, KeptScan, KeptFutures
<1>4. Put(s, i) => WorksOn(s, i)
  BY <1>1 DEF Families, Family, Put, WorksOn, Works, scanVars, futureVars, KeptScan, KeptFutures
<1>5. GiveUp(s, i) => WorksOn(s, i)
  BY <1>1 DEF Families, Family, GiveUp, WorksOn, Works, scanVars, futureVars, KeptScan, KeptFutures
<1>6. Return(s, i) => WorksOn(s, i)
  BY <1>1 DEF Families, Family, Return, WorksOn, Works, scanVars, futureVars, KeptScan, KeptFutures
<1>7. QED BY <1>2, <1>3, <1>4, <1>5, <1>6 DEF Worker

(* The executor's queue without its head.                                  *)
LEMMA PoolHead ==
    ASSUME pool \in Seq(Workers), pool # <<>>
    PROVE  /\ Len(pool) \in Nat /\ Len(pool) > 0 /\ Head(pool) = pool[1]
           /\ Tail(pool) \in Seq(Workers) /\ Len(Tail(pool)) = Len(pool) - 1
           /\ \A k \in 1..Len(Tail(pool)) : Tail(pool)[k] = pool[k + 1]
           /\ \E s \in Scans : \E i \in Slices(s) : Head(pool) = <<s, i>>
<1>1. /\ Head(pool) \in Workers /\ Head(pool) = pool[1]
      /\ Tail(pool) \in Seq(Workers) /\ Len(Tail(pool)) = Len(pool) - 1
      /\ \A k \in 1..Len(Tail(pool)) : Tail(pool)[k] = pool[k + 1]
  BY HeadTailProperties
<1>2. Len(pool) \in Nat /\ Len(pool) > 0
  BY EmptySeq
<1>3. QED BY <1>1, <1>2 DEF Workers

(* A thread of the executor takes the head of the queue.                   *)
LEMMA DequeueMoves ==
    ASSUME NEW s, NEW i, Head(pool) = <<s, i>>, Dequeue
    PROVE  /\ pool # <<>> /\ pool' = Tail(pool) /\ Cardinality(Running) < Budget
           /\ work' = [work EXCEPT ![s][i] = IF @ = "cancelled" THEN "skipped"
                                             ELSE IF stop[s] THEN "finished" ELSE "fetch"]
           /\ UNCHANGED <<pc, scanVars, futureVars, shared, pos>>
<1>1. Head(pool)[1] = s /\ Head(pool)[2] = i
  OBVIOUS
<1>2. work' = [work EXCEPT ![s][i] = IF @ = "cancelled" THEN "skipped"
                                    ELSE IF stop[s] THEN "finished" ELSE "fetch"]
  BY <1>1 DEF Dequeue
<1>3. QED BY <1>2 DEF Dequeue

(* The executor starts or skips the first of its work queue.                *)
LEMMA DequeueEffect ==
    ASSUME StreamInv, NEW s \in Scans, NEW i \in Slices(s), Head(pool) = <<s, i>>, Dequeue
    PROVE  Starts(s, i)
<1>1. pos[s] = [pos[s] EXCEPT ![i] = pos[s][i]] /\ stop[s] \in BOOLEAN
  BY DEF StreamInv, ScanInv, ScanType
<1>2. work[s][i] \in {"queued", "cancelled"}
  <2>1. Len(pool) \in Nat /\ Len(pool) > 0 /\ Head(pool) = pool[1]
    BY PoolHead DEF StreamInv, Dequeue
  <2>2. 1 \in 1..Len(pool) /\ pool[1][1] = s /\ pool[1][2] = i
    BY <2>1
  <2>3. QED BY <2>2 DEF StreamInv, PoolInv
<1>3. /\ pool # <<>> /\ pool' = Tail(pool) /\ Cardinality(Running) < Budget
      /\ work' = [work EXCEPT ![s][i] = IF @ = "cancelled" THEN "skipped"
                                        ELSE IF stop[s] THEN "finished" ELSE "fetch"]
      /\ UNCHANGED <<pc, scanVars, futureVars, shared, pos>>
  BY DequeueMoves
<1>4. Families
  BY DEF StreamInv
<1>5. QED
  BY <1>1, <1>2, <1>3, <1>4
  DEF Families, Family, Starts, Works, scanVars, futureVars, KeptScan, KeptFutures

-----------------------------------------------------------------------------
(* Every step is a step of one scan, of one of these kinds.                *)

ScanStep(s) ==
    \/ OpenEmpty(s) \/ OpenRefused(s) \/ OpenDirect(s) \/ OpenFanOut(s)
    \/ Generator(s) \/ Close(s)
    \/ \E i \in Slices(s) : Worker(s, i)
Kind(s) ==
    \/ Opens(s) \/ FansOut(s) \/ ReadsDirectly(s) \/ DirectMoves(s)
    \/ Moves(s) \/ Stops(s) \/ TakesBatch(s) \/ TakesMarker(s)
    \/ Replaces(s) \/ Drops(s) \/ EndsLoop(s) \/ Returns(s)
    \/ \E i \in Slices(s) : WorksOn(s, i) \/ Starts(s, i)
OneScan(s) == Families' /\ (\A u \in Scans : u # s => Kept(u)) /\ Kind(s)

(* A step of scan s leaves the others alone.                               *)
LEMMA OthersKept ==
    ASSUME Families, NEW s \in Scans, ScanStep(s)
    PROVE  Families' /\ \A u \in Scans : u # s => Kept(u)
<1>1. CASE OpenEmpty(s)
  BY <1>1 DEF Families, Family, scanVars, futureVars, Kept, KeptScan, KeptFutures, KeptWork,
         OpenEmpty
<1>2. CASE OpenRefused(s)
  BY <1>2 DEF Families, Family, scanVars, futureVars, Kept, KeptScan, KeptFutures, KeptWork,
         OpenRefused
<1>3. CASE OpenDirect(s)
  BY <1>3 DEF Families, Family, scanVars, futureVars, Kept, KeptScan, KeptFutures, KeptWork,
         OpenDirect
<1>4. CASE OpenFanOut(s)
  BY <1>4 DEF Families, Family, scanVars, futureVars, Kept, KeptScan, KeptFutures, KeptWork,
         OpenFanOut
<1>5. CASE DirectRead(s)
  BY <1>5 DEF Families, Family, scanVars, futureVars, Kept, KeptScan, KeptFutures, KeptWork,
         DirectRead, Emit
<1>6. CASE DirectPull(s)
  BY <1>6 DEF Families, Family, scanVars, futureVars, Kept, KeptScan, KeptFutures, KeptWork,
         DirectPull
<1>7. CASE DirectEnd(s)
  BY <1>7 DEF Families, Family, scanVars, futureVars, Kept, KeptScan, KeptFutures, KeptWork,
         DirectEnd
<1>8. CASE TakeBatch(s)
  BY <1>8 DEF Families, Family, scanVars, futureVars, Kept, KeptScan, KeptFutures, KeptWork,
         TakeBatch, Emit
<1>9. CASE TakeMarker(s)
  BY <1>9 DEF Families, Family, scanVars, futureVars, Kept, KeptScan, KeptFutures, KeptWork,
         TakeMarker
<1>10. CASE Reconcile(s)
  BY <1>10 DEF Families, Family, scanVars, futureVars, Kept, KeptScan, KeptFutures, KeptWork,
         Reconcile, Finally
<1>11. CASE PollEmpty(s)
  BY <1>11 DEF Families, Family, scanVars, futureVars, Kept, KeptScan, KeptFutures, KeptWork,
         PollEmpty
<1>12. CASE SurfaceFailure(s)
  BY <1>12 DEF Families, Family, scanVars, futureVars, Kept, KeptScan, KeptFutures, KeptWork,
         SurfaceFailure, Finally
<1>13. CASE PollAgain(s)
  BY <1>13 DEF Families, Family, scanVars, futureVars, Kept, KeptScan, KeptFutures, KeptWork,
         PollAgain
<1>14. CASE Pull(s)
  BY <1>14 DEF Families, Family, scanVars, futureVars, Kept, KeptScan, KeptFutures, KeptWork,
         Pull, Finally
<1>15. CASE Closed(s)
  BY <1>15 DEF Families, Family, scanVars, futureVars, Kept, KeptScan, KeptFutures, KeptWork,
         Closed
<1>16. CASE Close(s)
  BY <1>16 DEF Families, Family, scanVars, futureVars, Kept, KeptScan, KeptFutures, KeptWork,
         Close, Finally
<1>17. ASSUME NEW i \in Slices(s), Worker(s, i)
       PROVE  Families' /\ \A u \in Scans : u # s => Kept(u)
  <2>1. CASE Fetch(s, i)
    BY <2>1 DEF Families, Family, scanVars, futureVars, Kept, KeptScan, KeptFutures, KeptWork,
           Fetch
  <2>2. CASE WorkerFails(s, i)
    BY <2>2 DEF Families, Family, scanVars, futureVars, Kept, KeptScan, KeptFutures, KeptWork,
           WorkerFails
  <2>3. CASE Put(s, i)
    BY <2>3 DEF Families, Family, scanVars, futureVars, Kept, KeptScan, KeptFutures, KeptWork,
           Put
  <2>4. CASE GiveUp(s, i)
    BY <2>4 DEF Families, Family, scanVars, futureVars, Kept, KeptScan, KeptFutures, KeptWork,
           GiveUp
  <2>5. CASE Return(s, i)
    BY <2>5 DEF Families, Family, scanVars, futureVars, Kept, KeptScan, KeptFutures, KeptWork,
           Return
  <2>6. QED BY <1>17, <2>1, <2>2, <2>3, <2>4, <2>5 DEF Worker
<1>18. QED
  BY <1>1, <1>2, <1>3, <1>4, <1>5, <1>6, <1>7, <1>8, <1>9, <1>10,
     <1>11, <1>12, <1>13, <1>14, <1>15, <1>16, <1>17 DEF ScanStep, Generator

(* Every step is one of the kinds of steps, of one scan.                    *)
LEMMA StepKinds ==
    ASSUME StreamInv, Next
    PROVE  \E s \in Scans : OneScan(s)
<1>1. ASSUME NEW s \in Scans, ScanStep(s) PROVE OneScan(s)
  <2>1. Families' /\ \A u \in Scans : u # s => Kept(u)
    BY <1>1, OthersKept DEF StreamInv
  <2>2. Families /\ ScanInv(s)
    BY DEF StreamInv
  <2>3. ASSUME NEW i \in Slices(s), Worker(s, i) PROVE Kind(s)
    BY <2>2, <2>3, WorkerEffect DEF Kind
  <2>4. ASSUME OpenEmpty(s) \/ OpenRefused(s) \/ OpenDirect(s) \/ OpenFanOut(s) PROVE Kind(s)
    BY <2>2, <2>4, OpensEffect, FanOutEffect DEF Kind
  <2>5. ASSUME DirectRead(s) \/ DirectPull(s) \/ DirectEnd(s) \/ TakeBatch(s) \/ TakeMarker(s) PROVE Kind(s)
    BY <2>2, <2>5, DirectReadEffect, DirectMovesEffect, TakeBatchEffect, TakeMarkerEffect DEF Kind
  <2>6. ASSUME Reconcile(s) PROVE Kind(s)
    BY <2>2, <2>6, ReconcileEffect DEF Kind
  <2>7. ASSUME PollEmpty(s) \/ SurfaceFailure(s) \/ PollAgain(s) \/ Closed(s) PROVE Kind(s)
    BY <2>2, <2>7, MovesEffect, StopsEffect, ClosedEffect DEF Kind
  <2>8. ASSUME Pull(s) PROVE Kind(s)
    BY <2>2, <2>8, MovesEffect, StopsEffect DEF Kind
  <2>9. ASSUME Close(s) PROVE Kind(s)
    <3>1. pc[s] = "yielded" \/ pc[s] = "direct_yielded"
      BY <2>9 DEF Close
    <3>2. QED BY <2>2, <2>9, <3>1, StopsEffect, DirectMovesEffect DEF Kind
  <2>10. Kind(s)
    BY <1>1, <2>3, <2>4, <2>5, <2>6, <2>7, <2>8, <2>9 DEF ScanStep, Generator
  <2>11. QED BY <2>1, <2>10 DEF OneScan
<1>2. ASSUME Dequeue PROVE \E s \in Scans : OneScan(s)
  <2>1. PICK s \in Scans : \E i \in Slices(s) : Head(pool) = <<s, i>>
    BY <1>2, PoolHead DEF StreamInv, Dequeue
  <2>2. PICK i \in Slices(s) : Head(pool) = <<s, i>>
    BY <2>1
  <2>3. Kind(s)
    BY <1>2, <2>2, DequeueEffect DEF Kind
  <2>4. /\ work' = [work EXCEPT ![s][i] = IF @ = "cancelled" THEN "skipped"
                                          ELSE IF stop[s] THEN "finished" ELSE "fetch"]
        /\ UNCHANGED <<pc, scanVars, futureVars, shared, pos>>
    BY <1>2, <2>2, DequeueMoves
  <2>5. Families' /\ \A u \in Scans : u # s => Kept(u)
    BY <2>4 DEF StreamInv, Families, Family, scanVars, futureVars,
                Kept, KeptScan, KeptFutures, KeptWork
  <2>6. QED BY <2>3, <2>5 DEF OneScan
<1>3. QED BY <1>1, <1>2 DEF Next, ScanStep

(* A scan that is left alone keeps its invariant.                          *)
LEMMA InvKept ==
    ASSUME NEW u \in Scans, Kept(u), ScanInv(u)
    PROVE  ScanInv(u)'
<1>1. /\ pc'[u] = pc[u] /\ n_rows'[u] = n_rows[u] /\ sent'[u] = sent[u]
      /\ yielded_rows'[u] = yielded_rows[u] /\ futures'[u] = futures[u]
      /\ next_submit'[u] = next_submit[u] /\ stop'[u] = stop[u] /\ item'[u] = item[u]
      /\ outcome'[u] = outcome[u] /\ shared'[u] = shared[u] /\ work'[u] = work[u]
      /\ pos'[u] = pos[u]
  BY DEF Kept, KeptScan, KeptFutures, KeptWork
<1>2. ScanType(u)'
  BY <1>1 DEF ScanInv, ScanType
<1>3. FutureInv(u)'
  BY <1>1 DEF ScanInv, FutureInv
<1>4. WorkerInv(u)'
  BY <1>1 DEF ScanInv, WorkerInv
<1>5. QueueInv(u)'
  <2>1. Full(u)' = Full(u) /\ \A i : MarkerTaken(u, i)' = MarkerTaken(u, i)
    BY <1>1 DEF Full, MarkerTaken
  <2>2. \A i, d : Taken(u, i, d)' = Taken(u, i, d)
    BY <1>1 DEF Taken, LastPut
  <2>3. QED BY <1>1, <2>1, <2>2 DEF ScanInv, QueueInv, Ordered
<1>6. DirectInv(u)'
  BY <1>1 DEF ScanInv, DirectInv, Full
<1>7. CountInv(u)'
  BY <1>1 DEF ScanInv, CountInv
<1>8. QED BY <1>2, <1>3, <1>4, <1>5, <1>6, <1>7 DEF ScanInv

-----------------------------------------------------------------------------
(* One step of a scan keeps its invariant.                                 *)

(* How many slices are submitted ahead.                                    *)
LEMMA AheadFacts ==
    ASSUME NEW s \in Scans
    PROVE  /\ Ahead(s) \in Nat /\ Ahead(s) <= K(s) /\ Ahead(s) <= Len(Batches[s])
           /\ 1..Ahead(s) \subseteq Slices(s)
           /\ Len(Batches[s]) > 0 => Ahead(s) > 0
  BY SliceFacts DEF Ahead, Smaller

(* What is emitted are rows of a slice.                                    *)
LEMMA EmitsTyped ==
    ASSUME NEW s \in Scans, ScanType(s), NEW i \in Slices(s), NEW b, Emits(s, i, b)
    PROVE  sent'[s] \in [Slices(s) -> Nat] /\ yielded_rows'[s] \in Nat
  BY DEF ScanType, Emits

(* A worker keeps the types.                                               *)
LEMMA WorksTyped ==
    ASSUME NEW s \in Scans, ScanType(s), NEW i \in Slices(s), NEW at \in Nat, NEW put \in BOOLEAN,
           NEW now \in {"put", "finished", "failed", "return", "fetch", "skipped"},
           Works(s, i, now, at, put)
    PROVE  ScanType(s)'
<1>1. shared'[s] \in Seq(Item(s))
  <2>1. [slice |-> i, batch |-> at] \in Item(s) /\ shared[s] \in Seq(Item(s))
    BY DEF Item, ScanType
  <2>2. QED BY <2>1, AppendProperties DEF Works
<1>2. /\ work'[s] \in [Slices(s) -> {"none", "queued", "cancelled", "fetch", "put", "return",
                                     "finished", "failed", "skipped"}]
      /\ pos'[s] \in [Slices(s) -> Nat]
  BY DEF Works, ScanType
<1>3. QED BY <1>1, <1>2 DEF ScanType, Works, KeptScan, KeptFutures

(* A generator that stops its workers keeps the types of their states.     *)
LEMMA CancelledTyped ==
    ASSUME NEW s \in Scans, ScanType(s), NEW held, CancelledIn(s, held)
    PROVE  work'[s] \in [Slices(s) -> {"none", "queued", "cancelled", "fetch", "put", "return",
                                      "finished", "failed", "skipped"}]
  BY DEF ScanType, CancelledIn

(* A step keeps the types.                                                 *)
LEMMA TypeStep ==
    ASSUME NEW s \in Scans, ScanInv(s), Kind(s)
    PROVE  ScanType(s)'
<1>1. ASSUME Opens(s) PROVE ScanType(s)'
  <2>1. n_rows'[s] \in Nat \cup {Uncapped}
    BY <1>1, SqlStreamAssumption DEF Opens
  <2>2. QED BY <1>1, <2>1 DEF ScanInv, ScanType, Opens, KeptFutures, KeptWork, Ended
<1>2. ASSUME FansOut(s) PROVE ScanType(s)'
  <2>1. n_rows'[s] \in Nat \cup {Uncapped}
    BY <1>2, SqlStreamAssumption DEF FansOut
  <2>2. futures'[s] \in SUBSET Slices(s) /\ next_submit'[s] \in 1..(Len(Batches[s]) + 1)
    BY <1>2, AheadFacts, SliceFacts DEF FansOut
  <2>3. work'[s] \in [Slices(s) -> {"none", "queued", "cancelled", "fetch", "put", "return",
                                    "finished", "failed", "skipped"}]
    BY <1>2 DEF FansOut, ScanInv, ScanType
  <2>4. pc'[s] \in Streaming
    BY <1>2 DEF FansOut, Streaming
  <2>5. QED BY <1>2, <2>1, <2>2, <2>3, <2>4 DEF ScanInv, ScanType, FansOut
<1>3. ASSUME ReadsDirectly(s) PROVE ScanType(s)'
  <2>1. PICK i \in Slices(s) : Emits(s, i, pos[s][i] + 1) /\ pos'[s] = [pos[s] EXCEPT ![i] = @ + 1]
    BY <1>3 DEF ReadsDirectly
  <2>2. sent'[s] \in [Slices(s) -> Nat] /\ yielded_rows'[s] \in Nat
    BY <2>1, EmitsTyped DEF ScanInv
  <2>3. pos'[s] \in [Slices(s) -> Nat]
    BY <2>1 DEF ScanInv, ScanType
  <2>4. QED BY <1>3, <2>2, <2>3 DEF ScanInv, ScanType, ReadsDirectly, KeptFutures
<1>4. ASSUME DirectMoves(s) PROVE ScanType(s)'
  <2>1. pc'[s] \in {"ok", "direct", "closed", "error"}
    BY <1>4 DEF DirectMoves
  <2>2. QED
    BY <1>4, <2>1 DEF ScanInv, ScanType, DirectMoves, KeptScan, KeptFutures, KeptWork, Ended
<1>5. ASSUME Moves(s) PROVE ScanType(s)'
  BY <1>5 DEF ScanInv, ScanType, Moves, KeptScan, KeptFutures, KeptWork, Streaming
<1>6. ASSUME Stops(s) PROVE ScanType(s)'
  <2>1. work'[s] \in [Slices(s) -> {"none", "queued", "cancelled", "fetch", "put", "return",
                                    "finished", "failed", "skipped"}]
    BY <1>6, CancelledTyped DEF ScanInv, Stops
  <2>2. QED BY <1>6, <2>1 DEF ScanInv, ScanType, Stops, KeptScan
<1>7. ASSUME TakesBatch(s) PROVE ScanType(s)'
  <2>1. shared'[s] \in Seq(Item(s)) /\ Head(shared[s]).slice \in Slices(s)
    BY <1>7, QueueHead DEF TakesBatch
  <2>2. sent'[s] \in [Slices(s) -> Nat] /\ yielded_rows'[s] \in Nat
    BY <1>7, <2>1, EmitsTyped DEF ScanInv, TakesBatch
  <2>3. pc'[s] \in Streaming
    BY <1>7 DEF TakesBatch, Streaming
  <2>4. QED BY <1>7, <2>1, <2>2, <2>3 DEF ScanInv, ScanType, TakesBatch, KeptFutures
<1>8. ASSUME TakesMarker(s) PROVE ScanType(s)'
  <2>1. shared'[s] \in Seq(Item(s)) /\ item'[s] \in Slices(s)
    BY <1>8, QueueHead DEF TakesMarker
  <2>2. pc'[s] \in Streaming
    BY <1>8 DEF TakesMarker, Streaming
  <2>3. QED BY <1>8, <2>1, <2>2 DEF ScanInv, ScanType, TakesMarker, KeptScan
<1>9. ASSUME Replaces(s) PROVE ScanType(s)'
  <2>1. /\ next_submit[s] \in 1..(Len(Batches[s]) + 1) /\ next_submit[s] <= Len(Batches[s])
        /\ Len(Batches[s]) \in Nat
    BY <1>9, SliceFacts DEF ScanInv, ScanType, Replaces, MoreSlices
  <2>2. next_submit[s] \in Slices(s) /\ next_submit[s] + 1 \in 1..(Len(Batches[s]) + 1)
    BY <2>1, SliceFacts
  <2>3. pc'[s] \in Streaming
    BY <1>9 DEF Replaces, Streaming
  <2>4. QED BY <1>9, <2>2, <2>3 DEF ScanInv, ScanType, Replaces, Reconciles, KeptScan
<1>10. ASSUME Drops(s) PROVE ScanType(s)'
  <2>1. pc'[s] \in Streaming
    BY <1>10 DEF Drops, Streaming
  <2>2. QED BY <1>10, <2>1 DEF ScanInv, ScanType, Drops, Reconciles, KeptScan
<1>11. ASSUME EndsLoop(s) PROVE ScanType(s)'
  <2>1. work'[s] \in [Slices(s) -> {"none", "queued", "cancelled", "fetch", "put", "return",
                                    "finished", "failed", "skipped"}]
    BY <1>11, CancelledTyped DEF ScanInv, EndsLoop
  <2>2. QED BY <1>11, <2>1 DEF ScanInv, ScanType, EndsLoop, Reconciles, KeptScan, Ended
<1>12. ASSUME Returns(s) PROVE ScanType(s)'
  <2>1. shared'[s] \in Seq(Item(s))
    BY <1>12, EmptySeq DEF Returns
  <2>2. QED BY <1>12, <2>1 DEF ScanInv, ScanType, Returns, KeptScan
<1>13. ASSUME NEW i \in Slices(s), WorksOn(s, i) PROVE ScanType(s)'
  <2>1. pos[s][i] \in Nat /\ pos[s][i] + 1 \in Nat
    BY DEF ScanInv, ScanType
  <2>2. QED BY <1>13, <2>1, WorksTyped DEF WorksOn, ScanInv
<1>14. ASSUME NEW i \in Slices(s), Starts(s, i) PROVE ScanType(s)'
  <2>1. pos[s][i] \in Nat
    BY DEF ScanInv, ScanType
  <2>2. QED BY <1>14, <2>1, WorksTyped DEF Starts, ScanInv
<1>15. QED
  BY <1>1, <1>2, <1>3, <1>4, <1>5, <1>6, <1>7, <1>8,
     <1>9, <1>10, <1>11, <1>12, <1>13, <1>14 DEF Kind

(* Before the first submit no future is held and no worker exists.         *)
LEMMA NoneSubmitted ==
    ASSUME NEW s \in Scans, ScanInv(s), pc[s] \in {"idle", "direct", "direct_yielded"}
    PROVE  /\ futures[s] = {} /\ next_submit[s] = 1 /\ ~stop[s] /\ shared[s] = <<>>
           /\ \A i \in Slices(s) : work[s][i] = "none"
<1>1. next_submit[s] = 1 /\ ~stop[s] /\ shared[s] = <<>> /\ futures[s] \subseteq Slices(s)
  BY DEF ScanInv, ScanType, FutureInv
<1>2. \A i \in Slices(s) : i >= 1
  BY DEF Slices
<1>3. \A i \in Slices(s) : work[s][i] = "none" /\ i \notin futures[s]
  BY <1>1, <1>2 DEF ScanInv, FutureInv
<1>4. QED BY <1>1, <1>3

(* A slice whose worker has put something is held.                         *)
LEMMA PutterHeld ==
    ASSUME NEW s \in Scans, ScanInv(s), pc[s] = "get", NEW i \in Slices(s),
           0 < LastPut(s, i), ~MarkerTaken(s, i)
    PROVE  i \in futures[s]
<1>1. work[s][i] # "none"
  BY DEF ScanInv, WorkerInv, Streaming, LastPut
<1>2. i \in Int /\ next_submit[s] \in Int
  BY DEF ScanInv, ScanType, Slices
<1>3. i < next_submit[s]
  BY <1>1, <1>2 DEF ScanInv, FutureInv
<1>4. QED BY <1>3 DEF MarkerTaken

(* A worker keeps the futures.                                             *)
LEMMA WorkerKeepsFutures ==
    ASSUME NEW s \in Scans, ScanInv(s), NEW i \in Slices(s), NEW now, NEW at, NEW put \in BOOLEAN,
           work[s][i] \in {"queued", "cancelled", "fetch", "put", "return"},
           Works(s, i, now, at, put)
    PROVE  FutureInv(s)'
<1>1. i \in futures[s] /\ ~(i >= next_submit[s])
  BY DEF ScanInv, FutureInv
<1>2. pc[s] \notin {"idle", "direct", "direct_yielded"}
  BY NoneSubmitted
<1>3. \A j \in Slices(s) : j # i => work'[s][j] = work[s][j]
  BY DEF Works, ScanInv, ScanType
<1>4. /\ pc'[s] = pc[s] /\ futures'[s] = futures[s] /\ next_submit'[s] = next_submit[s]
      /\ item'[s] = item[s]
  BY DEF Works, KeptFutures
<1>5. QED BY <1>1, <1>2, <1>3, <1>4 DEF ScanInv, FutureInv

(* A step keeps the futures and the workers in step.                       *)
LEMMA FutureStep ==
    ASSUME NEW s \in Scans, ScanInv(s), Kind(s)
    PROVE  FutureInv(s)'
<1>1. ASSUME Opens(s) PROVE FutureInv(s)'
  <2>1. /\ futures[s] = {} /\ next_submit[s] = 1 /\ ~stop[s] /\ shared[s] = <<>>
        /\ \A i \in Slices(s) : work[s][i] = "none"
    BY <1>1, NoneSubmitted DEF Opens
  <2>2. pc'[s] # "idle" /\ pc'[s] # "reconcile"
    BY <1>1 DEF Opens
  <2>3. IsFiniteSet(futures[s]) /\ Cardinality(futures[s]) <= K(s)
    BY DEF ScanInv, FutureInv
  <2>4. QED BY <1>1, <2>1, <2>2, <2>3 DEF FutureInv, Opens, KeptFutures, KeptWork
<1>2. ASSUME FansOut(s) PROVE FutureInv(s)'
  <2>1. /\ futures[s] = {} /\ next_submit[s] = 1
        /\ \A i \in Slices(s) : work[s][i] = "none"
    BY <1>2, NoneSubmitted DEF FansOut
  <2>2. /\ pc'[s] = "get" /\ futures'[s] = 1..Ahead(s) /\ next_submit'[s] = Ahead(s) + 1
        /\ work'[s] = [i \in Slices(s) |-> IF i \in 1..Ahead(s) THEN "queued" ELSE work[s][i]]
    BY <1>2 DEF FansOut
  <2>3. IsFiniteSet(1..Ahead(s)) /\ Cardinality(1..Ahead(s)) <= K(s)
    <3>1. Ahead(s) \in Nat /\ Ahead(s) <= K(s)
      BY AheadFacts
    <3>2. /\ IsFiniteSet(1..Ahead(s))
          /\ Cardinality(1..Ahead(s)) = IF 1 > Ahead(s) THEN 0 ELSE Ahead(s) - 1 + 1
      BY <3>1, FS_Interval
    <3>3. Cardinality(1..Ahead(s)) = Ahead(s)
      BY <3>1, <3>2
    <3>4. QED BY <3>1, <3>2, <3>3
  <2>4. \A i \in Slices(s) : i >= next_submit'[s] => work'[s][i] = "none" /\ i \notin futures'[s]
    BY <2>1, <2>2, AheadFacts
  <2>5. \A i \in Slices(s) : i \notin futures'[s] => work'[s][i] = "none"
    BY <2>1, <2>2
  <2>6. QED BY <2>2, <2>3, <2>4, <2>5 DEF FutureInv, Ended
<1>3. ASSUME ReadsDirectly(s) PROVE FutureInv(s)'
  BY <1>3 DEF ScanInv, FutureInv, ReadsDirectly, KeptFutures, Ended
<1>4. ASSUME DirectMoves(s) PROVE FutureInv(s)'
  <2>1. /\ futures[s] = {} /\ next_submit[s] = 1 /\ ~stop[s] /\ shared[s] = <<>>
    BY <1>4, NoneSubmitted DEF DirectMoves
  <2>2. pc'[s] # "idle" /\ pc'[s] # "reconcile"
    BY <1>4 DEF DirectMoves
  <2>3. QED BY <1>4, <2>1, <2>2 DEF ScanInv, FutureInv, DirectMoves, KeptFutures, KeptWork
<1>5. ASSUME Moves(s) PROVE FutureInv(s)'
  BY <1>5 DEF ScanInv, FutureInv, Moves, KeptFutures, KeptWork, Ended
<1>6. ASSUME Stops(s) PROVE FutureInv(s)'
  <2>1. /\ pc'[s] = "closing" /\ futures'[s] = futures[s] /\ next_submit'[s] = next_submit[s]
        /\ \A i \in Slices(s) : i \notin futures[s] => work'[s][i] = work[s][i]
    BY <1>6 DEF Stops, CancelledIn
  <2>2. QED BY <2>1 DEF ScanInv, FutureInv, Ended
<1>7. ASSUME TakesBatch(s) PROVE FutureInv(s)'
  BY <1>7 DEF ScanInv, FutureInv, TakesBatch, KeptFutures, Ended
<1>8. ASSUME TakesMarker(s) PROVE FutureInv(s)'
  <2> DEFINE h == Head(shared[s])
  <2>1. /\ pc[s] = "get" /\ pc'[s] = "reconcile" /\ item'[s] = h.slice
        /\ futures'[s] = futures[s] /\ next_submit'[s] = next_submit[s] /\ work'[s] = work[s]
    BY <1>8 DEF TakesMarker
  <2>2. h.slice \in Slices(s)
    BY <1>8, QueueHead DEF TakesMarker
  <2>3. PICK d \in 0..Marker(s, h.slice) :
           h.batch = d + 1 /\ ~MarkerTaken(s, h.slice) /\ h.batch <= LastPut(s, h.slice)
    BY <1>8, HeadIsNext DEF TakesMarker
  <2>4. LastPut(s, h.slice) \in Int
    BY <2>2 DEF ScanInv, ScanType, LastPut
  <2>5. h.slice \in futures[s]
    BY <2>1, <2>2, <2>3, <2>4, PutterHeld
  <2> HIDE DEF h
  <2>6. QED BY <2>1, <2>5 DEF ScanInv, FutureInv, Ended
<1>9. ASSUME Replaces(s) PROVE FutureInv(s)'
  <2> DEFINE n == next_submit[s]
             rest == futures[s] \ {item[s]}
  <2>1. /\ pc[s] = "reconcile" /\ pc'[s] = "get" /\ work[s][item[s]] = "finished"
        /\ n <= Len(Batches[s]) /\ next_submit'[s] = n + 1
        /\ futures'[s] = rest \cup {n} /\ work'[s] = [work[s] EXCEPT ![n] = "queued"]
    BY <1>9 DEF Replaces, Reconciles, MoreSlices
  <2>2. /\ n \in 1..(Len(Batches[s]) + 1) /\ Len(Batches[s]) \in Nat /\ n \in Slices(s)
        /\ \A i \in Slices(s) : i \in Int
    BY SMTT(30), <2>1, SliceFacts DEF ScanInv, ScanType
  <2>3. /\ item[s] \in futures[s] /\ n \notin futures[s]
        /\ IsFiniteSet(futures[s]) /\ Cardinality(futures[s]) <= K(s)
    BY <2>1, <2>2 DEF ScanInv, FutureInv
  <2>4. /\ IsFiniteSet(rest) /\ Cardinality(rest) = Cardinality(futures[s]) - 1
        /\ IsFiniteSet(rest \cup {n}) /\ Cardinality(rest \cup {n}) = Cardinality(rest) + 1
    BY <2>3, FS_RemoveElement, FS_AddElement
  <2>5. Cardinality(futures[s]) \in Nat
    BY <2>3, FS_CardinalityType
  <2>6. IsFiniteSet(futures'[s]) /\ Cardinality(futures'[s]) <= K(s)
    BY <2>1, <2>3, <2>4, <2>5
  <2>7. \A i \in Slices(s) : work'[s][i] = IF i = n THEN "queued" ELSE work[s][i]
    BY <2>1 DEF ScanInv, ScanType
  <2>8. \A i \in Slices(s) : i >= n + 1 => work'[s][i] = "none" /\ i \notin futures'[s]
    BY <2>1, <2>2, <2>7 DEF ScanInv, FutureInv
  <2>9. \A i \in Slices(s) : i \notin futures'[s] =>
           work'[s][i] \in {"none", "finished", "failed", "skipped"}
    BY <2>1, <2>7 DEF ScanInv, FutureInv
  <2> HIDE DEF n, rest
  <2>10. QED BY <2>1, <2>6, <2>8, <2>9 DEF FutureInv, Ended
<1>10. ASSUME Drops(s) PROVE FutureInv(s)'
  <2>1. /\ pc[s] = "reconcile" /\ pc'[s] = "get" /\ work[s][item[s]] = "finished"
        /\ next_submit'[s] = next_submit[s]
        /\ futures'[s] = futures[s] \ {item[s]} /\ work'[s] = work[s]
    BY <1>10 DEF Drops, Reconciles
  <2>2. /\ item[s] \in futures[s]
        /\ IsFiniteSet(futures[s]) /\ Cardinality(futures[s]) <= K(s)
    BY <2>1 DEF ScanInv, FutureInv
  <2>3. IsFiniteSet(futures'[s]) /\ Cardinality(futures'[s]) <= K(s)
    <3>1. Cardinality(futures[s]) \in Nat /\ K(s) \in Nat
      BY <2>2, FS_CardinalityType, SliceFacts
    <3>2. /\ IsFiniteSet(futures[s] \ {item[s]})
          /\ Cardinality(futures[s] \ {item[s]}) = Cardinality(futures[s]) - 1
      BY <2>2, FS_RemoveElement
    <3>3. QED BY <2>1, <2>2, <3>1, <3>2
  <2>4. \A i \in Slices(s) : i \notin futures'[s] =>
           work'[s][i] \in {"none", "finished", "failed", "skipped"}
    BY <2>1 DEF ScanInv, FutureInv
  <2>5. QED BY <2>1, <2>3, <2>4 DEF ScanInv, FutureInv, Ended
<1>11. ASSUME EndsLoop(s) PROVE FutureInv(s)'
  <2>1. /\ pc[s] = "reconcile" /\ pc'[s] = "closing" /\ work[s][item[s]] = "finished"
        /\ next_submit'[s] = next_submit[s] /\ futures[s] \subseteq {item[s]}
        /\ futures'[s] = {} /\ \A i \in Slices(s) : work'[s][i] = work[s][i]
    BY <1>11 DEF EndsLoop, Reconciles, CancelledIn
  <2>2. \A i \in Slices(s) : work'[s][i] \in {"none", "finished", "failed", "skipped"}
    BY <2>1 DEF ScanInv, FutureInv
  <2>3. IsFiniteSet({}) /\ Cardinality({}) <= K(s)
    BY FS_EmptySet, SliceFacts
  <2>4. QED BY <2>1, <2>2, <2>3 DEF ScanInv, FutureInv, Ended
<1>12. ASSUME Returns(s) PROVE FutureInv(s)'
  <2>1. /\ pc'[s] \in Ended /\ futures'[s] = {} /\ work'[s] = work[s]
        /\ next_submit'[s] = next_submit[s]
        /\ \A i \in futures[s] : work[s][i] \in {"finished", "failed", "skipped"}
    BY <1>12 DEF Returns, AllDone, ScanInv, ScanType
  <2>2. \A i \in Slices(s) : work'[s][i] \in {"none", "finished", "failed", "skipped"}
    BY <2>1 DEF ScanInv, FutureInv
  <2>3. IsFiniteSet({}) /\ Cardinality({}) <= K(s)
    BY FS_EmptySet, SliceFacts
  <2>4. QED BY <2>1, <2>2, <2>3 DEF ScanInv, FutureInv, Ended
<1>13. ASSUME NEW i \in Slices(s), WorksOn(s, i) PROVE FutureInv(s)'
  <2>1. work[s][i] \in {"fetch", "put", "return"}
    BY <1>13 DEF WorksOn
  <2>2. QED BY <1>13, <2>1, WorkerKeepsFutures DEF WorksOn
<1>14. ASSUME NEW i \in Slices(s), Starts(s, i) PROVE FutureInv(s)'
  <2>1. work[s][i] \in {"queued", "cancelled"}
    BY <1>14 DEF Starts
  <2>2. QED BY <1>14, <2>1, WorkerKeepsFutures DEF Starts
<1>15. QED
  BY <1>1, <1>2, <1>3, <1>4, <1>5, <1>6, <1>7, <1>8,
     <1>9, <1>10, <1>11, <1>12, <1>13, <1>14 DEF Kind

(* When the last future is dropped every slice has sent all its rows.      *)
LEMMA AllSent ==
    ASSUME NEW s \in Scans, ScanInv(s), EndsLoop(s), NEW i \in Slices(s)
    PROVE  sent[s][i] = Rows(s, i)
<1>1. /\ pc[s] = "reconcile" /\ futures[s] \subseteq {item[s]}
      /\ ~(next_submit[s] <= Len(Batches[s]))
  BY DEF EndsLoop, Reconciles, MoreSlices
<1>2. i \in 1..Len(Batches[s]) /\ Len(Batches[s]) \in Nat /\ next_submit[s] \in Int
  <2>1. i \in 1..Len(Batches[s]) /\ Len(Batches[s]) \in Nat
    BY SliceFacts
  <2>2. next_submit[s] \in Int
    BY <2>1 DEF ScanInv, ScanType
  <2>3. QED BY <2>1, <2>2
<1>3. MarkerTaken(s, i)
  BY <1>1, <1>2 DEF MarkerTaken
<1>4. Taken(s, i, Marker(s, i))
  BY <1>1, <1>3 DEF ScanInv, QueueInv, Streaming
<1>5. Smaller(Marker(s, i), Len(Batches[s][i])) = Len(Batches[s][i])
  BY SliceFacts DEF Smaller
<1>6. QED BY <1>4, <1>5 DEF Taken, Rows

(* A worker keeps its state and the batch it has in hand in step.          *)
LEMMA InHandKept ==
    ASSUME NEW s \in Scans, ScanInv(s), pc[s] \in Streaming, NEW i \in Slices(s),
           NEW now, NEW at, NEW put \in BOOLEAN, Works(s, i, now, at, put),
           \/ now \in {"fetch", "failed"} /\ at < Marker(s, i)
           \/ now = "put" /\ at \in 1..Marker(s, i)
           \/ now \in {"return", "finished"} /\ at = Marker(s, i)
    PROVE  WorkerInv(s)'
<1>1. /\ \A j \in Slices(s) : work'[s][j] = IF j = i THEN now ELSE work[s][j]
      /\ \A j \in Slices(s) : pos'[s][j] = IF j = i THEN at ELSE pos[s][j]
  BY DEF ScanInv, ScanType, Works
<1>2. stop'[s] = stop[s] /\ pc'[s] = pc[s]
  BY DEF Works, KeptFutures
<1>3. QED BY <1>1, <1>2 DEF ScanInv, WorkerInv

(* A step keeps the workers and the batches they have in hand in step.     *)
LEMMA WorkerStep ==
    ASSUME NEW s \in Scans, ScanInv(s), Kind(s)
    PROVE  WorkerInv(s)'
<1>1. ASSUME Opens(s) PROVE WorkerInv(s)'
  BY <1>1 DEF WorkerInv, Streaming, Opens
<1>2. ASSUME FansOut(s) PROVE WorkerInv(s)'
  <2>1. /\ pos'[s] = pos[s] /\ \A i \in Slices(s) : pos[s][i] = 0
        /\ ~stop[s] /\ \A i \in Slices(s) : work[s][i] = "none"
    BY <1>2, NoneSubmitted DEF FansOut, ScanInv, FutureInv
  <2>2. \A i \in Slices(s) : work'[s][i] \in {"none", "queued"} /\ pos'[s][i] = 0
    BY <1>2, <2>1 DEF FansOut
  <2>3. QED BY <1>2, <2>1, <2>2 DEF WorkerInv, FansOut
<1>3. ASSUME ReadsDirectly(s) PROVE WorkerInv(s)'
  BY <1>3 DEF WorkerInv, Streaming, ReadsDirectly
<1>4. ASSUME DirectMoves(s) PROVE WorkerInv(s)'
  BY <1>4 DEF WorkerInv, Streaming, DirectMoves
<1>5. ASSUME Moves(s) PROVE WorkerInv(s)'
  <2>1. pc[s] \in Streaming /\ stop'[s] = stop[s] /\ work'[s] = work[s] /\ pos'[s] = pos[s]
    BY <1>5 DEF Moves, KeptFutures, KeptWork, Streaming
  <2>2. QED BY <2>1 DEF ScanInv, WorkerInv
<1>6. ASSUME Stops(s) PROVE WorkerInv(s)'
  BY <1>6 DEF WorkerInv, Streaming, Stops
<1>7. ASSUME TakesBatch(s) PROVE WorkerInv(s)'
  <2>1. pc[s] \in Streaming /\ stop'[s] = stop[s] /\ work'[s] = work[s] /\ pos'[s] = pos[s]
    BY <1>7 DEF TakesBatch, KeptFutures, Streaming
  <2>2. QED BY <2>1 DEF ScanInv, WorkerInv
<1>8. ASSUME TakesMarker(s) PROVE WorkerInv(s)'
  <2>1. pc[s] \in Streaming /\ stop'[s] = stop[s] /\ work'[s] = work[s] /\ pos'[s] = pos[s]
    BY <1>8 DEF TakesMarker, KeptScan, Streaming
  <2>2. QED BY <2>1 DEF ScanInv, WorkerInv
<1>9. ASSUME Replaces(s) PROVE WorkerInv(s)'
  <2> DEFINE n == next_submit[s]
  <2>1. /\ pc[s] \in Streaming /\ stop'[s] = stop[s] /\ pos'[s] = pos[s]
        /\ work'[s] = [work[s] EXCEPT ![n] = "queued"]
        /\ n <= Len(Batches[s])
    BY <1>9 DEF Replaces, Reconciles, MoreSlices, Streaming
  <2>2. n \in Slices(s) /\ n \in Int
    BY <2>1, SliceFacts DEF ScanInv, ScanType
  <2>3. work[s][n] = "none"
    BY <2>2 DEF ScanInv, FutureInv
  <2>4. pos[s][n] = 0
    BY <2>1, <2>2, <2>3 DEF ScanInv, WorkerInv
  <2>5. \A i \in Slices(s) : work'[s][i] = IF i = n THEN "queued" ELSE work[s][i]
    BY <2>1 DEF ScanInv, ScanType
  <2> HIDE DEF n
  <2>6. QED BY <2>1, <2>4, <2>5 DEF ScanInv, WorkerInv
<1>10. ASSUME Drops(s) PROVE WorkerInv(s)'
  <2>1. pc[s] \in Streaming /\ stop'[s] = stop[s] /\ work'[s] = work[s] /\ pos'[s] = pos[s]
    BY <1>10 DEF Drops, Reconciles, Streaming
  <2>2. QED BY <2>1 DEF ScanInv, WorkerInv
<1>11. ASSUME EndsLoop(s) PROVE WorkerInv(s)'
  BY <1>11 DEF WorkerInv, Streaming, EndsLoop
<1>12. ASSUME Returns(s) PROVE WorkerInv(s)'
  <2>1. pc'[s] \in Ended
    BY <1>12 DEF Returns, ScanInv, ScanType
  <2>2. QED BY <2>1 DEF WorkerInv, Ended, Streaming
<1>13. ASSUME NEW i \in Slices(s), WorksOn(s, i) PROVE WorkerInv(s)'
  <2> SUFFICES ASSUME pc[s] \in Streaming PROVE WorkerInv(s)'
    BY <1>13 DEF WorkerInv, WorksOn, Works
  <2>1. ~stop[s] /\ pos[s][i] \in Nat
    BY DEF ScanInv, ScanType, WorkerInv
  <2>2. Marker(s, i) \in Nat
    BY SliceFacts
  <2>3. /\ work[s][i] = "fetch" => pos[s][i] < Marker(s, i)
        /\ work[s][i] = "put" => pos[s][i] \in 1..Marker(s, i)
        /\ work[s][i] = "return" => pos[s][i] = Marker(s, i)
    BY DEF ScanInv, WorkerInv
  <2>4. /\ work[s][i] = "fetch" => pos[s][i] + 1 \in 1..Marker(s, i)
        /\ work[s][i] = "put" /\ pos[s][i] # Marker(s, i) => pos[s][i] < Marker(s, i)
    BY <2>1, <2>2, <2>3
  <2>5. QED BY <1>13, <2>1, <2>3, <2>4, InHandKept DEF WorksOn
<1>14. ASSUME NEW i \in Slices(s), Starts(s, i) PROVE WorkerInv(s)'
  <2> SUFFICES ASSUME pc[s] \in Streaming PROVE WorkerInv(s)'
    BY <1>14 DEF WorkerInv, Starts, Works
  <2>1. ~stop[s] /\ work[s][i] = "queued" /\ pos[s][i] = 0
    BY <1>14 DEF Starts, ScanInv, WorkerInv
  <2>2. pos[s][i] < Marker(s, i)
    BY <2>1, SliceFacts
  <2>3. QED BY <1>14, <2>1, <2>2, InHandKept DEF Starts
<1>15. QED
  BY <1>1, <1>2, <1>3, <1>4, <1>5, <1>6, <1>7, <1>8,
     <1>9, <1>10, <1>11, <1>12, <1>13, <1>14 DEF Kind

(* A step keeps what the only query has sent.                              *)
LEMMA DirectStep ==
    ASSUME NEW s \in Scans, ScanInv(s), Kind(s)
    PROVE  DirectInv(s)'
<1>1. ASSUME Opens(s) PROVE DirectInv(s)'
  <2> SUFFICES ASSUME pc'[s] = "direct", NEW i \in Slices(s)
               PROVE  pos'[s][i] <= Len(Batches[s][i]) /\ sent'[s][i] = End(s, i, pos'[s][i])
    BY <1>1 DEF Opens, DirectInv
  <2>1. pos'[s][i] = 0 /\ sent'[s][i] = 0
    BY <1>1 DEF Opens, KeptWork, ScanInv, FutureInv
  <2>2. QED BY <2>1, SliceFacts
<1>2. ASSUME FansOut(s) PROVE DirectInv(s)'
  BY <1>2 DEF DirectInv, FansOut
<1>3. ASSUME ReadsDirectly(s) PROVE DirectInv(s)'
  <2>1. PICK i \in Slices(s) : /\ pos[s][i] < Len(Batches[s][i])
                              /\ Emits(s, i, pos[s][i] + 1)
                              /\ pos'[s] = [pos[s] EXCEPT ![i] = @ + 1]
    BY <1>3 DEF ReadsDirectly
  <2>2. PICK n \in Nat :
           /\ sent'[s] = [sent[s] EXCEPT ![i] = @ + n]
           /\ yielded_rows'[s] = yielded_rows[s] + n
           /\ n <= End(s, i, pos[s][i] + 1) - End(s, i, (pos[s][i] + 1) - 1)
           /\ n_rows[s] # Uncapped => yielded_rows[s] + n <= n_rows[s]
           /\ \/ n = End(s, i, pos[s][i] + 1) - End(s, i, (pos[s][i] + 1) - 1)
              \/ n_rows[s] # Uncapped /\ yielded_rows[s] + n = n_rows[s]
    BY <2>1, Zenon DEF Emits
  <2>3. pc[s] = "direct" /\ pc'[s] = "direct_yielded" /\ n_rows'[s] = n_rows[s]
    BY <1>3 DEF ReadsDirectly
  <2> SUFFICES ASSUME ~Full(s)', NEW j \in Slices(s)
               PROVE  pos'[s][j] <= Len(Batches[s][j]) /\ sent'[s][j] = End(s, j, pos'[s][j])
    BY <2>3 DEF DirectInv
  <2>4. \A k \in Slices(s) : pos[s][k] <= Len(Batches[s][k]) /\ sent[s][k] = End(s, k, pos[s][k])
    BY <2>3 DEF ScanInv, DirectInv
  <2>5. /\ pos[s][i] \in Nat /\ Len(Batches[s][i]) \in Nat /\ pos[s] \in [Slices(s) -> Nat]
        /\ sent[s] \in [Slices(s) -> Nat] /\ yielded_rows[s] \in Nat
        /\ n_rows[s] \in Nat \cup {Uncapped}
    BY SliceFacts DEF ScanInv, ScanType
  <2>6. n = End(s, i, pos[s][i] + 1) - End(s, i, pos[s][i])
    <3>1. (pos[s][i] + 1) - 1 = pos[s][i]
      BY <2>5
    <3>2. ~(n_rows[s] # Uncapped /\ yielded_rows[s] + n = n_rows[s])
      BY <2>2, <2>3, <2>5 DEF Full
    <3>3. QED BY <2>2, <3>1, <3>2
  <2>7. pos[s][i] + 1 \in 0..Len(Batches[s][i]) /\ pos[s][i] \in 0..Len(Batches[s][i])
    BY <2>1, <2>5
  <2>8. End(s, i, pos[s][i] + 1) \in Nat /\ End(s, i, pos[s][i]) \in Nat
    BY <2>7, SliceFacts
  <2>9. CASE j = i
    <3>1. pos'[s][i] = pos[s][i] + 1 /\ sent'[s][i] = sent[s][i] + n
      BY <2>1, <2>2, <2>5
    <3>2. sent'[s][i] = End(s, i, pos[s][i] + 1)
      BY <2>4, <2>6, <2>8, <3>1
    <3>3. QED BY <2>7, <2>9, <3>1, <3>2
  <2>10. CASE j # i
    BY <2>1, <2>2, <2>4, <2>5, <2>10
  <2>11. QED BY <2>9, <2>10
<1>4. ASSUME DirectMoves(s) PROVE DirectInv(s)'
  BY <1>4 DEF DirectMoves, KeptScan, KeptWork, ScanInv, DirectInv
<1>5. ASSUME Moves(s) PROVE DirectInv(s)'
  BY <1>5 DEF DirectInv, Moves
<1>6. ASSUME Stops(s) PROVE DirectInv(s)'
  BY <1>6 DEF DirectInv, Stops
<1>7. ASSUME TakesBatch(s) PROVE DirectInv(s)'
  BY <1>7 DEF DirectInv, TakesBatch
<1>8. ASSUME TakesMarker(s) PROVE DirectInv(s)'
  BY <1>8 DEF DirectInv, TakesMarker
<1>9. ASSUME Replaces(s) PROVE DirectInv(s)'
  BY <1>9 DEF DirectInv, Replaces
<1>10. ASSUME Drops(s) PROVE DirectInv(s)'
  BY <1>10 DEF DirectInv, Drops
<1>11. ASSUME EndsLoop(s) PROVE DirectInv(s)'
  BY <1>11 DEF DirectInv, EndsLoop
<1>12. ASSUME Returns(s) PROVE DirectInv(s)'
  <2>1. pc'[s] \in Ended
    BY <1>12 DEF Returns, ScanInv, ScanType
  <2>2. QED BY <2>1 DEF DirectInv, Ended
<1>13. ASSUME NEW i \in Slices(s), WorksOn(s, i) PROVE DirectInv(s)'
  <2>1. pc'[s] = pc[s] /\ work[s][i] # "none"
    BY <1>13 DEF WorksOn, Works
  <2>2. QED BY <2>1, NoneSubmitted DEF DirectInv
<1>14. ASSUME NEW i \in Slices(s), Starts(s, i) PROVE DirectInv(s)'
  <2>1. pc'[s] = pc[s] /\ work[s][i] # "none"
    BY <1>14 DEF Starts, Works
  <2>2. QED BY <2>1, NoneSubmitted DEF DirectInv
<1>15. QED
  BY <1>1, <1>2, <1>3, <1>4, <1>5, <1>6, <1>7, <1>8,
     <1>9, <1>10, <1>11, <1>12, <1>13, <1>14 DEF Kind

(* A step keeps the count of the rows yielded.                             *)
LEMMA CountStep ==
    ASSUME NEW s \in Scans, ScanInv(s), Kind(s)
    PROVE  CountInv(s)'
<1>1. ASSUME Opens(s) PROVE CountInv(s)'
  <2>1. yielded_rows'[s] = 0 /\ pc'[s] # "closing" /\ n_rows'[s] \in Caps[s]
    BY <1>1 DEF Opens, ScanInv, FutureInv
  <2>2. n_rows'[s] \in Nat \cup {Uncapped}
    BY <2>1, SqlStreamAssumption
  <2>3. QED BY <2>1, <2>2 DEF CountInv
<1>2. ASSUME FansOut(s) PROVE CountInv(s)'
  <2>1. yielded_rows'[s] = 0 /\ pc'[s] # "closing" /\ n_rows'[s] \in Caps[s]
    BY <1>2 DEF FansOut, ScanInv, FutureInv
  <2>2. n_rows'[s] \in Nat \cup {Uncapped}
    BY <2>1, SqlStreamAssumption
  <2>3. QED BY <2>1, <2>2 DEF CountInv
<1>3. ASSUME ReadsDirectly(s) PROVE CountInv(s)'
  <2>1. \E i, b : Emits(s, i, b)
    BY <1>3 DEF ReadsDirectly
  <2>2. n_rows'[s] = n_rows[s] /\ pc'[s] # "closing"
    BY <1>3 DEF ReadsDirectly
  <2>3. n_rows[s] # Uncapped => yielded_rows'[s] <= n_rows[s]
    BY <2>1 DEF Emits
  <2>4. QED BY <2>2, <2>3 DEF CountInv
<1>4. ASSUME DirectMoves(s) PROVE CountInv(s)'
  <2>1. n_rows'[s] = n_rows[s] /\ yielded_rows'[s] = yielded_rows[s] /\ pc'[s] # "closing"
    BY <1>4 DEF DirectMoves, KeptScan
  <2>2. QED BY <2>1 DEF ScanInv, CountInv
<1>5. ASSUME Moves(s) PROVE CountInv(s)'
  <2>1. n_rows'[s] = n_rows[s] /\ yielded_rows'[s] = yielded_rows[s] /\ pc'[s] # "closing"
    BY <1>5 DEF Moves, KeptScan
  <2>2. QED BY <2>1 DEF ScanInv, CountInv
<1>6. ASSUME Stops(s) PROVE CountInv(s)'
  <2>1. n_rows'[s] = n_rows[s] /\ yielded_rows'[s] = yielded_rows[s]
    BY <1>6 DEF Stops, KeptScan
  <2>2. Full(s) => yielded_rows[s] = n_rows[s]
    BY DEF Full, ScanInv, ScanType, CountInv
  <2>3. QED BY <1>6, <2>1, <2>2 DEF ScanInv, CountInv, Stops
<1>7. ASSUME TakesBatch(s) PROVE CountInv(s)'
  <2>1. \E i, b : Emits(s, i, b)
    BY <1>7 DEF TakesBatch
  <2>2. n_rows'[s] = n_rows[s] /\ pc'[s] # "closing"
    BY <1>7 DEF TakesBatch
  <2>3. n_rows[s] # Uncapped => yielded_rows'[s] <= n_rows[s]
    BY <2>1 DEF Emits
  <2>4. QED BY <2>2, <2>3 DEF CountInv
<1>8. ASSUME TakesMarker(s) PROVE CountInv(s)'
  <2>1. n_rows'[s] = n_rows[s] /\ yielded_rows'[s] = yielded_rows[s] /\ pc'[s] # "closing"
    BY <1>8 DEF TakesMarker, KeptScan
  <2>2. QED BY <2>1 DEF ScanInv, CountInv
<1>9. ASSUME Replaces(s) PROVE CountInv(s)'
  <2>1. n_rows'[s] = n_rows[s] /\ yielded_rows'[s] = yielded_rows[s] /\ pc'[s] # "closing"
    BY <1>9 DEF Replaces, Reconciles, KeptScan
  <2>2. QED BY <2>1 DEF ScanInv, CountInv
<1>10. ASSUME Drops(s) PROVE CountInv(s)'
  <2>1. n_rows'[s] = n_rows[s] /\ yielded_rows'[s] = yielded_rows[s] /\ pc'[s] # "closing"
    BY <1>10 DEF Drops, Reconciles, KeptScan
  <2>2. QED BY <2>1 DEF ScanInv, CountInv
<1>11. ASSUME EndsLoop(s) PROVE CountInv(s)'
  <2>1. n_rows'[s] = n_rows[s] /\ yielded_rows'[s] = yielded_rows[s] /\ sent'[s] = sent[s]
    BY <1>11 DEF EndsLoop, Reconciles, KeptScan
  <2>2. \A i \in Slices(s) : sent'[s][i] = Rows(s, i)
    BY <1>11, <2>1, AllSent
  <2>3. QED BY <2>1, <2>2 DEF ScanInv, CountInv
<1>12. ASSUME Returns(s) PROVE CountInv(s)'
  <2>1. n_rows'[s] = n_rows[s] /\ yielded_rows'[s] = yielded_rows[s]
    BY <1>12 DEF Returns, KeptScan
  <2>2. pc'[s] \in Ended
    BY <1>12 DEF Returns, ScanInv, ScanType
  <2>3. QED BY <2>1, <2>2 DEF ScanInv, CountInv, Ended
<1>13. ASSUME NEW i \in Slices(s), WorksOn(s, i) PROVE CountInv(s)'
  <2>1. pc'[s] = pc[s] /\ KeptScan(s) /\ outcome'[s] = outcome[s]
    BY <1>13 DEF WorksOn, Works, KeptFutures
  <2>2. QED BY <2>1 DEF ScanInv, CountInv, KeptScan
<1>14. ASSUME NEW i \in Slices(s), Starts(s, i) PROVE CountInv(s)'
  <2>1. pc'[s] = pc[s] /\ KeptScan(s) /\ outcome'[s] = outcome[s]
    BY <1>14 DEF Starts, Works, KeptFutures
  <2>2. QED BY <2>1 DEF ScanInv, CountInv, KeptScan
<1>15. QED
  BY <1>1, <1>2, <1>3, <1>4, <1>5, <1>6, <1>7, <1>8,
     <1>9, <1>10, <1>11, <1>12, <1>13, <1>14 DEF Kind

(* The queue without its head.                                             *)
LEMMA OrderedTail ==
    ASSUME NEW s \in Scans, ScanInv(s), Ordered(shared[s]), shared[s] # <<>>
    PROVE  /\ Ordered(Tail(shared[s]))
           /\ \A k \in 1..Len(Tail(shared[s])) :
                 Tail(shared[s])[k].slice = Head(shared[s]).slice =>
                     Head(shared[s]).batch < Tail(shared[s])[k].batch
<1>1. /\ Len(shared[s]) \in Nat /\ Len(shared[s]) > 0 /\ Head(shared[s]) = shared[s][1]
      /\ Len(Tail(shared[s])) = Len(shared[s]) - 1
      /\ \A k \in 1..Len(Tail(shared[s])) : Tail(shared[s])[k] = shared[s][k + 1]
  BY QueueHead
<1>2. \A k \in 1..Len(Tail(shared[s])) : k + 1 \in 1..Len(shared[s]) /\ 1 < k + 1
  BY <1>1
<1>3. \A j, k \in 1..Len(Tail(shared[s])) : j < k => j + 1 < k + 1
  BY <1>1
<1>4. Ordered(Tail(shared[s]))
  BY <1>1, <1>2, <1>3 DEF Ordered
<1>5. 1 \in 1..Len(shared[s])
  BY <1>1
<1>6. QED BY <1>1, <1>2, <1>4, <1>5 DEF Ordered

(* Taking the head of the queue moves its slice on by one batch, and no    *)
(* other slice.                                                            *)
LEMMA TakenTail ==
    ASSUME NEW s \in Scans, ScanInv(s), Ordered(shared[s]), shared[s] # <<>>,
           shared'[s] = Tail(shared[s]), work'[s] = work[s], pos'[s] = pos[s],
           NEW i \in Slices(s), NEW d \in Nat, NEW e \in Nat, Taken(s, i, d),
           sent'[s][i] = End(s, i, Smaller(e, Len(Batches[s][i]))),
           IF i = Head(shared[s]).slice THEN e = d + 1 /\ e = Head(shared[s]).batch ELSE e = d
    PROVE  Taken(s, i, e)'
<1>1. /\ Len(shared[s]) \in Nat /\ Len(shared[s]) > 0 /\ Head(shared[s]) = shared[s][1]
      /\ Len(Tail(shared[s])) = Len(shared[s]) - 1
      /\ \A k \in 1..Len(Tail(shared[s])) : Tail(shared[s])[k] = shared[s][k + 1]
      /\ Head(shared[s]) \in Item(s)
  BY QueueHead
<1>2. LastPut(s, i)' = LastPut(s, i) /\ LastPut(s, i) \in Int
  BY DEF LastPut, ScanInv, ScanType
<1>3. e <= LastPut(s, i)
  BY <1>1 DEF Taken
<1>4. ASSUME NEW k \in 1..Len(Tail(shared[s])), Tail(shared[s])[k].slice = i
      PROVE  e < Tail(shared[s])[k].batch /\ Tail(shared[s])[k].batch <= LastPut(s, i)
  <2>1. k + 1 \in 1..Len(shared[s]) /\ Tail(shared[s])[k] = shared[s][k + 1]
    BY <1>1
  <2>2. d < shared[s][k + 1].batch /\ shared[s][k + 1].batch <= LastPut(s, i)
    BY <1>4, <2>1 DEF Taken
  <2>3. CASE i = Head(shared[s]).slice
    BY <1>4, <2>1, <2>2, <2>3, OrderedTail
  <2>4. CASE i # Head(shared[s]).slice
    BY <2>1, <2>2, <2>4
  <2>5. QED BY <2>3, <2>4
<1>5. ASSUME NEW b \in 1..LastPut(s, i), e < b
      PROVE  \E k \in 1..Len(Tail(shared[s])) : Tail(shared[s])[k] = [slice |-> i, batch |-> b]
  <2>1. d < b
    BY <1>2, <1>5
  <2>2. PICK k \in 1..Len(shared[s]) : shared[s][k] = [slice |-> i, batch |-> b]
    BY <2>1 DEF Taken
  <2>3. k # 1
    BY <1>1, <1>2, <1>5, <2>2
  <2>4. k - 1 \in 1..Len(Tail(shared[s])) /\ Tail(shared[s])[k - 1] = shared[s][(k - 1) + 1]
    BY <1>1, <2>3
  <2>5. (k - 1) + 1 = k
    BY <1>1
  <2>6. QED BY <2>2, <2>4, <2>5
<1>6. QED BY <1>2, <1>3, <1>4, <1>5 DEF Taken

(* A step that leaves the queue and what was put alone.                    *)
LEMMA TakenKept ==
    ASSUME NEW s, NEW i, NEW d, Taken(s, i, d), shared'[s] = shared[s],
           sent'[s][i] = sent[s][i], LastPut(s, i)' = LastPut(s, i)
    PROVE  Taken(s, i, d)'
  BY DEF Taken

(* A worker that puts the next batch of its slice.                         *)
LEMMA TakenPut ==
    ASSUME NEW s \in Scans, ScanInv(s), Ordered(shared[s]), NEW i \in Slices(s),
           NEW b \in Nat, LastPut(s, i) = b - 1, LastPut(s, i)' = b,
           shared'[s] = Append(shared[s], [slice |-> i, batch |-> b]), sent'[s] = sent[s],
           \E d \in Nat : Taken(s, i, d)
    PROVE  /\ Ordered(shared'[s])
           /\ \A d \in Nat : Taken(s, i, d) => Taken(s, i, d)'
           /\ \A j \in Slices(s), d \in Nat : j # i /\ LastPut(s, j)' = LastPut(s, j)
                 /\ Taken(s, j, d) => Taken(s, j, d)'
<1> DEFINE new == [slice |-> i, batch |-> b]
<1>1. shared[s] \in Seq(Item(s)) /\ new \in Item(s)
  BY DEF ScanInv, ScanType, Item
<1>2. /\ Len(shared[s]) \in Nat /\ Len(shared'[s]) = Len(shared[s]) + 1
      /\ \A k \in 1..Len(shared[s]) : shared'[s][k] = shared[s][k]
      /\ shared'[s][Len(shared[s]) + 1] = new
  BY <1>1, AppendProperties
<1>3. new.slice = i /\ new.batch = b
  OBVIOUS
<1>4. \A k \in 1..Len(shared'[s]) : k \in 1..Len(shared[s]) \/ k = Len(shared[s]) + 1
  BY <1>2
<1>5. \A k \in 1..Len(shared[s]) : k \in 1..Len(shared'[s])
  BY <1>2
<1>6. Len(shared[s]) + 1 \in 1..Len(shared'[s])
  BY <1>2
<1> HIDE DEF new
<1>7. \A k \in 1..Len(shared[s]) : shared[s][k].batch \in Nat
  <2>1. \A k \in 1..Len(shared[s]) : shared[s][k] \in Item(s)
    BY <1>1, ElementOfSeq
  <2>2. QED BY <2>1 DEF Item
<1>8. \A k \in 1..Len(shared[s]) : shared[s][k].slice = i => shared[s][k].batch < b
  BY <1>7 DEF Taken
<1>9. Ordered(shared'[s])
  <2> SUFFICES ASSUME NEW j \in 1..Len(shared'[s]), NEW k \in 1..Len(shared'[s]), j < k,
                      shared'[s][j].slice = shared'[s][k].slice
               PROVE  shared'[s][j].batch < shared'[s][k].batch
    BY DEF Ordered
  <2>1. j \in 1..Len(shared[s])
    BY <1>2
  <2>2. CASE k \in 1..Len(shared[s])
    BY <1>2, <2>1, <2>2 DEF Ordered
  <2>3. CASE k = Len(shared[s]) + 1
    BY <1>2, <1>3, <1>8, <2>1, <2>3
  <2>4. QED BY <1>4, <2>2, <2>3
<1>10. ASSUME NEW d \in Nat, Taken(s, i, d) PROVE Taken(s, i, d)'
  <2>1. d <= b - 1 /\ d < b
    BY <1>10 DEF Taken
  <2>2. \A k \in 1..Len(shared'[s]) : shared'[s][k].slice = i =>
           d < shared'[s][k].batch /\ shared'[s][k].batch <= b
    BY <1>2, <1>3, <1>4, <1>7, <1>8, <1>10, <2>1 DEF Taken
  <2>3. ASSUME NEW c \in 1..b, d < c
        PROVE  \E k \in 1..Len(shared'[s]) : shared'[s][k] = [slice |-> i, batch |-> c]
    <3>1. CASE c = b
      BY <1>2, <1>6, <3>1 DEF new
    <3>2. CASE c # b
      <4>1. c \in 1..LastPut(s, i)
        BY <3>2
      <4>2. PICK k \in 1..Len(shared[s]) : shared[s][k] = [slice |-> i, batch |-> c]
        BY <1>10, <2>3, <4>1 DEF Taken
      <4>3. QED BY <1>2, <1>5, <4>2
    <3>3. QED BY <3>1, <3>2
  <2>4. QED BY <1>10, <2>1, <2>2, <2>3 DEF Taken
<1>11. ASSUME NEW j \in Slices(s), NEW d \in Nat, j # i, LastPut(s, j)' = LastPut(s, j),
              Taken(s, j, d)
       PROVE  Taken(s, j, d)'
  <2>1. \A k \in 1..Len(shared'[s]) : shared'[s][k].slice = j =>
           d < shared'[s][k].batch /\ shared'[s][k].batch <= LastPut(s, j)
    BY <1>2, <1>3, <1>4, <1>11 DEF Taken
  <2>2. ASSUME NEW c \in 1..LastPut(s, j), d < c
        PROVE  \E k \in 1..Len(shared'[s]) : shared'[s][k] = [slice |-> j, batch |-> c]
    BY <1>2, <1>5, <1>11, <2>2 DEF Taken
  <2>3. QED BY <1>11, <2>1, <2>2 DEF Taken
<1>12. QED BY <1>9, <1>10, <1>11

(* A step that leaves the queue, what was put and what was taken alone.    *)
LEMMA QueueKept ==
    ASSUME NEW s \in Scans, ScanInv(s), pc[s] \in Streaming, ~(pc[s] = "yielded" /\ Full(s)),
           shared'[s] = shared[s], sent'[s] = sent[s],
           \A i \in Slices(s) : LastPut(s, i)' = LastPut(s, i),
           \A i \in Slices(s) : MarkerTaken(s, i)' = MarkerTaken(s, i)
    PROVE  QueueInv(s)'
<1>1. ASSUME NEW i \in Slices(s)
      PROVE  \E d \in 0..Marker(s, i) : Taken(s, i, d)' /\ (d = Marker(s, i) <=> MarkerTaken(s, i)')
  <2>1. PICK d \in 0..Marker(s, i) : Taken(s, i, d) /\ (d = Marker(s, i) <=> MarkerTaken(s, i))
    BY DEF ScanInv, QueueInv
  <2>2. Taken(s, i, d)'
    BY <2>1, TakenKept
  <2>3. QED BY <2>1, <2>2
<1>2. Ordered(shared'[s])
  BY DEF ScanInv, QueueInv
<1>3. QED BY <1>1, <1>2 DEF QueueInv

(* What was put of a slice, when its worker does a step.                   *)
LEMMA LastPutStep ==
    ASSUME NEW s \in Scans, ScanInv(s), NEW i \in Slices(s), NEW now, NEW at \in Nat,
           NEW put \in BOOLEAN, Works(s, i, now, at, put)
    PROVE  /\ LastPut(s, i)' = IF now = "put" THEN at - 1 ELSE at
           /\ \A j \in Slices(s) : j # i => LastPut(s, j)' = LastPut(s, j)
           /\ \A j \in Slices(s) : MarkerTaken(s, j)' = MarkerTaken(s, j)
           /\ pc'[s] = pc[s] /\ (Full(s)' <=> Full(s))
<1>1. /\ \A j \in Slices(s) : work'[s][j] = IF j = i THEN now ELSE work[s][j]
      /\ \A j \in Slices(s) : pos'[s][j] = IF j = i THEN at ELSE pos[s][j]
  BY DEF ScanInv, ScanType, Works
<1>2. pc'[s] = pc[s] /\ KeptScan(s) /\ KeptFutures(s)
  BY DEF Works
<1>3. \A j \in Slices(s) : MarkerTaken(s, j)' = MarkerTaken(s, j)
  BY <1>2 DEF MarkerTaken, KeptFutures
<1>4. Full(s)' <=> Full(s)
  BY <1>2 DEF Full, KeptScan
<1>5. /\ LastPut(s, i)' = IF now = "put" THEN at - 1 ELSE at
      /\ \A j \in Slices(s) : j # i => LastPut(s, j)' = LastPut(s, j)
  BY <1>1 DEF LastPut
<1>6. QED BY <1>2, <1>3, <1>4, <1>5

(* A worker that puts nothing keeps QueueInv, ...                          *)
LEMMA NothingPut ==
    ASSUME NEW s \in Scans, ScanInv(s), NEW i \in Slices(s), NEW now, NEW at \in Nat,
           Works(s, i, now, at, FALSE), LastPut(s, i) = IF now = "put" THEN at - 1 ELSE at
    PROVE  QueueInv(s)'
<1> SUFFICES ASSUME pc[s] \in Streaming, ~(pc[s] = "yielded" /\ Full(s))
             PROVE  QueueInv(s)'
  <2>1. pc'[s] = pc[s] /\ (Full(s)' <=> Full(s))
    BY LastPutStep
  <2>2. QED BY <2>1 DEF QueueInv
<1>1. /\ \A j \in Slices(s) : LastPut(s, j)' = LastPut(s, j)
      /\ \A j \in Slices(s) : MarkerTaken(s, j)' = MarkerTaken(s, j)
  BY LastPutStep
<1>2. shared'[s] = shared[s] /\ sent'[s] = sent[s]
  BY DEF Works, KeptScan
<1>3. QED BY <1>1, <1>2, QueueKept

(* ... and so does one that puts the next batch of its slice.              *)
LEMMA NextPut ==
    ASSUME NEW s \in Scans, ScanInv(s), NEW i \in Slices(s), NEW now, now # "put",
           work[s][i] = "put", Works(s, i, now, pos[s][i], TRUE)
    PROVE  QueueInv(s)'
<1>1. pos[s][i] \in Nat
  BY DEF ScanInv, ScanType
<1>2. /\ LastPut(s, i) = pos[s][i] - 1 /\ LastPut(s, i)' = pos[s][i]
      /\ \A j \in Slices(s) : j # i => LastPut(s, j)' = LastPut(s, j)
      /\ \A j \in Slices(s) : MarkerTaken(s, j)' = MarkerTaken(s, j)
      /\ pc'[s] = pc[s] /\ (Full(s)' <=> Full(s))
  <2>1. /\ LastPut(s, i)' = IF now = "put" THEN pos[s][i] - 1 ELSE pos[s][i]
        /\ \A j \in Slices(s) : j # i => LastPut(s, j)' = LastPut(s, j)
        /\ \A j \in Slices(s) : MarkerTaken(s, j)' = MarkerTaken(s, j)
        /\ pc'[s] = pc[s] /\ (Full(s)' <=> Full(s))
    BY <1>1, LastPutStep
  <2>2. LastPut(s, i) = pos[s][i] - 1
    BY DEF LastPut
  <2>3. QED BY <2>1, <2>2
<1>3. /\ pc'[s] = pc[s] /\ sent'[s] = sent[s]
      /\ shared'[s] = Append(shared[s], [slice |-> i, batch |-> pos[s][i]])
  BY DEF Works, KeptScan
<1> SUFFICES ASSUME pc[s] \in Streaming, ~(pc[s] = "yielded" /\ Full(s))
             PROVE  QueueInv(s)'
  BY <1>2, <1>3 DEF QueueInv
<1>4. /\ Ordered(shared[s])
      /\ \A j \in Slices(s) : \E d \in 0..Marker(s, j) :
            Taken(s, j, d) /\ (d = Marker(s, j) <=> MarkerTaken(s, j))
  BY DEF ScanInv, QueueInv
<1>5. \E d \in Nat : Taken(s, i, d)
  BY <1>4, SliceFacts
<1>6. /\ Ordered(shared'[s])
      /\ \A d \in Nat : Taken(s, i, d) => Taken(s, i, d)'
      /\ \A j \in Slices(s), d \in Nat : j # i /\ LastPut(s, j)' = LastPut(s, j)
            /\ Taken(s, j, d) => Taken(s, j, d)'
  BY <1>1, <1>2, <1>3, <1>4, <1>5, TakenPut
<1>7. ASSUME NEW j \in Slices(s)
      PROVE  \E d \in 0..Marker(s, j) : Taken(s, j, d)' /\ (d = Marker(s, j) <=> MarkerTaken(s, j)')
  <2>1. PICK d \in 0..Marker(s, j) : Taken(s, j, d) /\ (d = Marker(s, j) <=> MarkerTaken(s, j))
    BY <1>4
  <2>2. d \in Nat
    BY SliceFacts
  <2>3. Taken(s, j, d)'
    BY <1>2, <1>6, <2>1, <2>2
  <2>4. QED BY <1>2, <2>1, <2>3
<1>8. QED BY <1>6, <1>7 DEF QueueInv

(* A step keeps what was put, taken and sent of every slice in step.       *)
LEMMA QueueStep ==
    ASSUME NEW s \in Scans, ScanInv(s), Kind(s)
    PROVE  QueueInv(s)'
<1>1. ASSUME Opens(s) PROVE QueueInv(s)'
  BY <1>1 DEF QueueInv, Streaming, Opens
<1>2. ASSUME FansOut(s) PROVE QueueInv(s)'
  <2>1. /\ shared'[s] = <<>> /\ futures[s] = {} /\ next_submit[s] = 1
        /\ \A i \in Slices(s) : pos'[s][i] = 0 /\ sent'[s][i] = 0 /\ work[s][i] = "none"
    BY <1>2, NoneSubmitted DEF FansOut, ScanInv, FutureInv
  <2>2. /\ futures'[s] = 1..Ahead(s) /\ next_submit'[s] = Ahead(s) + 1 /\ pc'[s] = "get"
        /\ work'[s] = [i \in Slices(s) |-> IF i \in 1..Ahead(s) THEN "queued" ELSE work[s][i]]
    BY <1>2 DEF FansOut
  <2>3. Ordered(shared'[s])
    BY <2>1 DEF Ordered
  <2>4. ASSUME NEW i \in Slices(s)
        PROVE  /\ 0 \in 0..Marker(s, i) /\ Taken(s, i, 0)'
               /\ (0 = Marker(s, i) <=> MarkerTaken(s, i)')
    <3>1. Marker(s, i) \in Nat \ {0} /\ Len(Batches[s][i]) \in Nat /\ End(s, i, 0) = 0
      BY SliceFacts
    <3>2. work'[s][i] \in {"none", "queued"}
      BY <2>1, <2>2
    <3>3. LastPut(s, i)' = 0
      BY <2>1, <3>2 DEF LastPut
    <3>4. Taken(s, i, 0)'
      BY <2>1, <3>1, <3>3 DEF Taken, Smaller
    <3>5. ~MarkerTaken(s, i)'
      <4>1. Ahead(s) \in Nat /\ i \in Int /\ i >= 1
        BY AheadFacts DEF Slices
      <4>2. QED BY <2>2, <4>1 DEF MarkerTaken
    <3>6. QED BY <3>1, <3>4, <3>5
  <2>5. QED BY <2>3, <2>4 DEF QueueInv
<1>3. ASSUME ReadsDirectly(s) PROVE QueueInv(s)'
  BY <1>3 DEF QueueInv, Streaming, ReadsDirectly
<1>4. ASSUME DirectMoves(s) PROVE QueueInv(s)'
  BY <1>4 DEF QueueInv, Streaming, DirectMoves
<1>5. ASSUME Moves(s) PROVE QueueInv(s)'
  <2>1. /\ pc[s] \in {"get", "polled", "yielded"} /\ ~(pc[s] = "yielded" /\ Full(s))
        /\ pc'[s] \in {"get", "polled"}
        /\ KeptScan(s) /\ KeptFutures(s) /\ KeptWork(s)
    BY <1>5 DEF Moves
  <2>2. \A i \in Slices(s) : LastPut(s, i)' = LastPut(s, i) /\ MarkerTaken(s, i)' = MarkerTaken(s, i)
    BY <2>1 DEF LastPut, MarkerTaken, KeptFutures, KeptWork
  <2>3. QED BY <2>1, <2>2, QueueKept DEF KeptScan, KeptWork, Streaming
<1>6. ASSUME Stops(s) PROVE QueueInv(s)'
  BY <1>6 DEF QueueInv, Streaming, Stops
<1>7. ASSUME TakesBatch(s) PROVE QueueInv(s)'
  <2> DEFINE h == Head(shared[s])
  <2>1. /\ pc[s] = "get" /\ pc'[s] = "yielded" /\ shared[s] # <<>>
        /\ h.batch \in 1..Len(Batches[s][h.slice]) /\ Emits(s, h.slice, h.batch)
        /\ shared'[s] = Tail(shared[s]) /\ n_rows'[s] = n_rows[s] /\ KeptFutures(s)
        /\ work'[s] = work[s] /\ pos'[s] = pos[s]
    BY <1>7 DEF TakesBatch
  <2>2. h.slice \in Slices(s) /\ h.batch \in Nat
    BY <2>1, QueueHead
  <2>3. PICK n \in Nat :
           /\ sent'[s] = [sent[s] EXCEPT ![h.slice] = @ + n]
           /\ yielded_rows'[s] = yielded_rows[s] + n
           /\ n <= End(s, h.slice, h.batch) - End(s, h.slice, h.batch - 1)
           /\ n_rows[s] # Uncapped => yielded_rows[s] + n <= n_rows[s]
           /\ \/ n = End(s, h.slice, h.batch) - End(s, h.slice, h.batch - 1)
              \/ n_rows[s] # Uncapped /\ yielded_rows[s] + n = n_rows[s]
    BY <2>1, Zenon DEF Emits
  <2> HIDE DEF h
  <2> SUFFICES ASSUME ~Full(s)' PROVE QueueInv(s)'
    BY <2>1 DEF QueueInv
  <2>4. n = End(s, h.slice, h.batch) - End(s, h.slice, h.batch - 1)
    <3>1. yielded_rows[s] \in Nat /\ n_rows[s] \in Nat \cup {Uncapped}
      BY DEF ScanInv, ScanType
    <3>2. ~(n_rows[s] # Uncapped /\ yielded_rows[s] + n = n_rows[s])
      BY <2>1, <2>3, <3>1 DEF Full
    <3>3. QED BY <2>3, <3>2
  <2>5. /\ Ordered(shared[s])
        /\ \A i \in Slices(s) : \E d \in 0..Marker(s, i) :
              Taken(s, i, d) /\ (d = Marker(s, i) <=> MarkerTaken(s, i))
    BY <2>1 DEF ScanInv, QueueInv, Streaming
  <2>6. \A i \in Slices(s) : MarkerTaken(s, i)' = MarkerTaken(s, i)
    BY <2>1 DEF MarkerTaken, KeptFutures
  <2>7. \A i \in Slices(s) : sent'[s][i] = IF i = h.slice THEN sent[s][i] + n ELSE sent[s][i]
    BY <2>3 DEF ScanInv, ScanType
  <2>8. ASSUME NEW i \in Slices(s)
        PROVE  \E d \in 0..Marker(s, i) : Taken(s, i, d)' /\ (d = Marker(s, i) <=> MarkerTaken(s, i)')
    <3>1. Marker(s, i) = Len(Batches[s][i]) + 1 /\ Len(Batches[s][i]) \in Nat
      BY SliceFacts
    <3>2. CASE i = h.slice
      <4>1. PICK d \in 0..Marker(s, i) : /\ Taken(s, i, d) /\ h.batch = d + 1
                                        /\ ~MarkerTaken(s, i)
        BY <2>1, <3>2, HeadIsNext DEF h
      <4>2. /\ d \in Nat /\ d + 1 \in 0..Len(Batches[s][i]) /\ d \in 0..Len(Batches[s][i])
            /\ h.batch - 1 = d
        BY <2>1, <3>1, <3>2, <4>1
      <4>3. End(s, i, d) \in Nat /\ End(s, i, d + 1) \in Nat
        BY <4>2, SliceFacts
      <4>4. sent[s][i] = End(s, i, d)
        BY <3>1, <4>1, <4>2 DEF Taken, Smaller
      <4>5. sent'[s][i] = End(s, i, d + 1)
        <5>1. n = End(s, i, d + 1) - End(s, i, d)
          BY <2>4, <3>2, <4>1, <4>2
        <5>2. sent'[s][i] = sent[s][i] + n
          BY <2>7, <3>2
        <5>3. QED BY <4>3, <4>4, <5>1, <5>2
      <4>6. Smaller(d + 1, Len(Batches[s][i])) = d + 1
        BY <3>1, <4>2 DEF Smaller
      <4>7. Taken(s, i, d + 1)'
        BY <2>1, <2>5, <3>2, <4>1, <4>2, <4>5, <4>6, TakenTail DEF h
      <4>8. d + 1 \in 0..Marker(s, i) /\ d + 1 # Marker(s, i)
        BY <3>1, <4>2
      <4>9. QED BY <2>6, <4>1, <4>7, <4>8
    <3>3. CASE i # h.slice
      <4>1. PICK d \in 0..Marker(s, i) : Taken(s, i, d) /\ (d = Marker(s, i) <=> MarkerTaken(s, i))
        BY <2>5
      <4>2. d \in Nat /\ sent'[s][i] = End(s, i, Smaller(d, Len(Batches[s][i])))
        BY <2>7, <3>1, <3>3, <4>1 DEF Taken
      <4>3. Taken(s, i, d)'
        BY <2>1, <2>5, <3>3, <4>1, <4>2, TakenTail DEF h
      <4>4. QED BY <2>6, <4>1, <4>3
    <3>4. QED BY <3>2, <3>3
  <2>9. Ordered(shared'[s])
    BY <2>1, <2>5, OrderedTail
  <2>10. QED BY <2>8, <2>9 DEF QueueInv
<1>8. ASSUME TakesMarker(s) PROVE QueueInv(s)'
  <2> DEFINE h == Head(shared[s])
  <2>1. /\ pc[s] = "get" /\ pc'[s] = "reconcile" /\ shared[s] # <<>>
        /\ h.batch = Marker(s, h.slice) /\ item'[s] = h.slice
        /\ shared'[s] = Tail(shared[s]) /\ KeptScan(s)
        /\ futures'[s] = futures[s] /\ next_submit'[s] = next_submit[s]
        /\ work'[s] = work[s] /\ pos'[s] = pos[s]
    BY <1>8 DEF TakesMarker
  <2>2. h.slice \in Slices(s) /\ h.batch \in Nat
    BY <2>1, QueueHead
  <2>3. /\ Ordered(shared[s])
        /\ \A i \in Slices(s) : \E d \in 0..Marker(s, i) :
              Taken(s, i, d) /\ (d = Marker(s, i) <=> MarkerTaken(s, i))
    BY <2>1 DEF ScanInv, QueueInv, Streaming
  <2>4. \A i \in Slices(s) : i # h.slice => MarkerTaken(s, i)' = MarkerTaken(s, i)
    BY <2>1 DEF MarkerTaken
  <2>5. ASSUME NEW i \in Slices(s)
        PROVE  \E d \in 0..Marker(s, i) : Taken(s, i, d)' /\ (d = Marker(s, i) <=> MarkerTaken(s, i)')
    <3>1. Marker(s, i) = Len(Batches[s][i]) + 1 /\ Len(Batches[s][i]) \in Nat
      BY SliceFacts
    <3>2. CASE i = h.slice
      <4>1. PICK d \in 0..Marker(s, i) : /\ Taken(s, i, d) /\ h.batch = d + 1
                                        /\ ~MarkerTaken(s, i) /\ h.batch <= LastPut(s, i)
        BY <2>1, <3>2, HeadIsNext
      <4>2. d = Len(Batches[s][i]) /\ d \in Nat /\ Marker(s, i) = d + 1
        BY <2>1, <3>1, <3>2, <4>1
      <4>3. sent'[s][i] = End(s, i, Smaller(d + 1, Len(Batches[s][i])))
        BY <2>1, <3>1, <4>1, <4>2 DEF Taken, Smaller, KeptScan
      <4>4. Taken(s, i, d + 1)'
        BY SMTT(30), <2>1, <2>3, <3>2, <4>1, <4>2, <4>3, TakenTail
      <4>5. MarkerTaken(s, i)'
        <5>1. LastPut(s, i) \in Int
          BY DEF LastPut, ScanInv, ScanType
        <5>2. i \in futures[s]
          BY <2>1, <4>1, <4>2, <5>1, PutterHeld
        <5>3. i < next_submit[s]
          <6>1. i \in Int /\ next_submit[s] \in Int
            BY DEF Slices, ScanInv, ScanType
          <6>2. QED BY <5>2, <6>1 DEF ScanInv, FutureInv
        <5>4. QED BY <2>1, <3>2, <5>3 DEF MarkerTaken
      <4>6. d + 1 \in 0..Marker(s, i)
        BY <4>2
      <4>7. QED BY <4>2, <4>4, <4>5, <4>6
    <3>3. CASE i # h.slice
      <4>1. PICK d \in 0..Marker(s, i) : Taken(s, i, d) /\ (d = Marker(s, i) <=> MarkerTaken(s, i))
        BY <2>3
      <4>2. d \in Nat /\ sent'[s][i] = End(s, i, Smaller(d, Len(Batches[s][i])))
        BY <2>1, <3>1, <4>1 DEF Taken, KeptScan
      <4>3. Taken(s, i, d)'
        BY <2>1, <2>3, <3>3, <4>1, <4>2, TakenTail
      <4>4. QED BY <2>4, <3>3, <4>1, <4>3
    <3>4. QED BY <3>2, <3>3
  <2>6. Ordered(shared'[s])
    BY <2>1, <2>3, OrderedTail
  <2>7. QED BY <2>5, <2>6 DEF QueueInv
<1>9. ASSUME Replaces(s) PROVE QueueInv(s)'
  <2> DEFINE n == next_submit[s]
  <2>1. /\ pc[s] = "reconcile" /\ pc'[s] = "get" /\ n <= Len(Batches[s])
        /\ next_submit'[s] = n + 1
        /\ futures'[s] = (futures[s] \ {item[s]}) \cup {n}
        /\ work'[s] = [work[s] EXCEPT ![n] = "queued"]
        /\ KeptScan(s) /\ shared'[s] = shared[s] /\ pos'[s] = pos[s]
    BY <1>9 DEF Replaces, Reconciles, MoreSlices
  <2>2. n \in Slices(s) /\ n \in Int /\ item[s] \in futures[s] /\ item[s] \in Slices(s)
    BY <2>1, SliceFacts DEF ScanInv, ScanType, FutureInv
  <2>3. work[s][n] = "none" /\ n \notin futures[s]
    BY <2>2 DEF ScanInv, FutureInv
  <2>4. \A i \in Slices(s) : work'[s][i] = IF i = n THEN "queued" ELSE work[s][i]
    BY <2>1 DEF ScanInv, ScanType
  <2>5. \A i \in Slices(s) : LastPut(s, i)' = LastPut(s, i)
    BY <2>1, <2>3, <2>4 DEF LastPut
  <2>6. ASSUME NEW i \in Slices(s) PROVE MarkerTaken(s, i)' = MarkerTaken(s, i)
    <3>1. i \in Int
      BY DEF Slices
    <3>2. i \in futures[s] => i < n
      BY <2>2, <3>1 DEF ScanInv, FutureInv
    <3>3. CASE i = n
      BY <2>1, <2>2, <3>3 DEF MarkerTaken
    <3>4. CASE i # n
      BY <2>1, <2>2, <2>3, <3>1, <3>2, <3>4 DEF MarkerTaken
    <3>5. QED BY <3>3, <3>4
  <2>7. QED BY <2>1, <2>5, <2>6, QueueKept DEF KeptScan, Streaming
<1>10. ASSUME Drops(s) PROVE QueueInv(s)'
  <2>1. /\ pc[s] = "reconcile" /\ pc'[s] = "get" /\ next_submit'[s] = next_submit[s]
        /\ futures'[s] = futures[s] \ {item[s]} /\ work'[s] = work[s]
        /\ KeptScan(s) /\ shared'[s] = shared[s] /\ pos'[s] = pos[s]
    BY <1>10 DEF Drops, Reconciles
  <2>2. \A i \in Slices(s) : LastPut(s, i)' = LastPut(s, i)
    BY <2>1 DEF LastPut
  <2>3. \A i \in Slices(s) : MarkerTaken(s, i)' = MarkerTaken(s, i)
    BY <2>1 DEF MarkerTaken
  <2>4. QED BY <2>1, <2>2, <2>3, QueueKept DEF KeptScan, Streaming
<1>11. ASSUME EndsLoop(s) PROVE QueueInv(s)'
  BY <1>11 DEF QueueInv, Streaming, EndsLoop
<1>12. ASSUME Returns(s) PROVE QueueInv(s)'
  <2>1. pc'[s] \in Ended
    BY <1>12 DEF Returns, ScanInv, ScanType
  <2>2. QED BY <2>1 DEF QueueInv, Ended, Streaming
<1>13. ASSUME NEW i \in Slices(s), WorksOn(s, i) PROVE QueueInv(s)'
  <2>1. pos[s][i] \in Nat /\ pos[s][i] + 1 \in Nat /\ (pos[s][i] + 1) - 1 = pos[s][i]
    BY DEF ScanInv, ScanType
  <2>2. work[s][i] # "put" => LastPut(s, i) = pos[s][i]
    BY DEF LastPut
  <2>3. CASE pc[s] \notin Streaming
    BY <1>13, <2>3 DEF QueueInv, WorksOn, Works
  <2>4. CASE pc[s] \in Streaming
    <3>1. ~stop[s]
      BY <2>4 DEF ScanInv, WorkerInv
    <3>2. CASE work[s][i] = "put"
      BY <1>13, <3>1, <3>2, NextPut DEF WorksOn
    <3>3. CASE work[s][i] # "put"
      BY <1>13, <2>1, <2>2, <3>1, <3>3, NothingPut DEF WorksOn
    <3>4. QED BY <3>2, <3>3
  <2>5. QED BY <2>3, <2>4
<1>14. ASSUME NEW i \in Slices(s), Starts(s, i) PROVE QueueInv(s)'
  <2>1. pos[s][i] \in Nat
    BY DEF ScanInv, ScanType
  <2>2. LastPut(s, i) = pos[s][i]
    BY <1>14 DEF LastPut, Starts
  <2>3. QED BY <1>14, <2>1, <2>2, NothingPut DEF Starts
<1>15. QED
  BY <1>1, <1>2, <1>3, <1>4, <1>5, <1>6, <1>7, <1>8,
     <1>9, <1>10, <1>11, <1>12, <1>13, <1>14 DEF Kind

-----------------------------------------------------------------------------
(* The queue of the executor.                                              *)

Waiting == {"queued", "cancelled"}
Live == {"fetch", "put", "return"}
WaitersKept(s) ==
    /\ pool' = pool
    /\ \A i \in Slices(s) : work[s][i] \in Waiting => work'[s][i] \in Waiting
    /\ \A i \in Slices(s) : work'[s][i] \in Live => work[s][i] \in Live
PoolChange(s) ==
    WaitersKept(s) \/ FansOut(s) \/ Replaces(s) \/ \E i \in Slices(s) : Starts(s, i)

(* A generator that cancels its futures leaves them in the queue.          *)
LEMMA CancelledWait ==
    ASSUME NEW s \in Scans, NEW held, CancelledIn(s, held), pool' = pool
    PROVE  WaitersKept(s)
  BY DEF CancelledIn, WaitersKept, Waiting, Live

(* A running worker is not in the queue.                                   *)
LEMMA RunningWorks ==
    ASSUME NEW s \in Scans, ScanInv(s), NEW i \in Slices(s), work[s][i] \in Live,
           NEW now, NEW at, NEW put \in BOOLEAN, Works(s, i, now, at, put), pool' = pool
    PROVE  WaitersKept(s)
  BY DEF Works, ScanInv, ScanType, WaitersKept, Waiting, Live

(* Only a submit adds to the queue, and only a start takes from it.        *)
LEMMA PoolChanges ==
    ASSUME NEW s \in Scans, ScanInv(s), Kind(s)
    PROVE  PoolChange(s)
<1>1. ASSUME Opens(s) PROVE PoolChange(s)
  BY <1>1 DEF Opens, KeptWork, Reconciles, WaitersKept, PoolChange
<1>2. ASSUME FansOut(s) PROVE PoolChange(s)
  BY <1>2 DEF PoolChange
<1>3. ASSUME ReadsDirectly(s) PROVE PoolChange(s)
  BY <1>3 DEF ReadsDirectly, KeptWork, Reconciles, WaitersKept, PoolChange
<1>4. ASSUME DirectMoves(s) PROVE PoolChange(s)
  BY <1>4 DEF DirectMoves, KeptWork, Reconciles, WaitersKept, PoolChange
<1>5. ASSUME Moves(s) PROVE PoolChange(s)
  BY <1>5 DEF Moves, KeptWork, Reconciles, WaitersKept, PoolChange
<1>6. ASSUME Stops(s) PROVE PoolChange(s)
  BY <1>6, CancelledWait DEF Stops, PoolChange
<1>7. ASSUME TakesBatch(s) PROVE PoolChange(s)
  BY <1>7 DEF TakesBatch, KeptWork, Reconciles, WaitersKept, PoolChange
<1>8. ASSUME TakesMarker(s) PROVE PoolChange(s)
  BY <1>8 DEF TakesMarker, KeptWork, Reconciles, WaitersKept, PoolChange
<1>9. ASSUME Replaces(s) PROVE PoolChange(s)
  BY <1>9 DEF PoolChange
<1>10. ASSUME Drops(s) PROVE PoolChange(s)
  BY <1>10 DEF Drops, KeptWork, Reconciles, WaitersKept, PoolChange
<1>11. ASSUME EndsLoop(s) PROVE PoolChange(s)
  BY <1>11, CancelledWait DEF EndsLoop, PoolChange
<1>12. ASSUME Returns(s) PROVE PoolChange(s)
  BY <1>12 DEF Returns, KeptWork, Reconciles, WaitersKept, PoolChange
<1>13. ASSUME NEW i \in Slices(s), WorksOn(s, i) PROVE PoolChange(s)
  BY <1>13, RunningWorks DEF WorksOn, Live, PoolChange
<1>14. ASSUME NEW i \in Slices(s), Starts(s, i) PROVE PoolChange(s)
  BY <1>14 DEF PoolChange
<1>15. QED
  BY <1>1, <1>2, <1>3, <1>4, <1>5, <1>6, <1>7, <1>8,
     <1>9, <1>10, <1>11, <1>12, <1>13, <1>14 DEF Kind

(* What the queue holds are workers of the scans.                          *)
LEMMA PoolEntry ==
    ASSUME NEW w \in Workers
    PROVE  \E s \in Scans : \E i \in Slices(s) : w = <<s, i>> /\ w[1] = s /\ w[2] = i
  BY DEF Workers

(* An entry stays in the queue when the worker it stands for still waits.  *)
LEMMA EntryKept ==
    ASSUME StreamInv, NEW s \in Scans, OneScan(s), NEW k \in 1..Len(pool),
           pool[k][1] = s => work'[s][pool[k][2]] \in Waiting
    PROVE  work'[pool[k][1]][pool[k][2]] \in Waiting
<1>1. pool[k] \in Workers
  BY ElementOfSeq DEF StreamInv
<1>2. PICK u \in Scans : \E i \in Slices(u) : pool[k] = <<u, i>> /\ pool[k][1] = u /\ pool[k][2] = i
  BY <1>1, PoolEntry
<1>3. CASE u = s
  BY <1>2, <1>3
<1>4. CASE u # s
  BY <1>2, <1>4 DEF OneScan, Kept, KeptWork, StreamInv, PoolInv, Waiting
<1>5. QED BY <1>3, <1>4

(* The queue after a step that adds nothing and takes nothing.             *)
LEMMA PoolWaits ==
    ASSUME StreamInv, NEW s \in Scans, OneScan(s), WaitersKept(s)
    PROVE  pool' \in Seq(Workers) /\ PoolInv'
<1>1. pool' = pool /\ pool \in Seq(Workers)
  BY DEF WaitersKept, StreamInv
<1>2. ASSUME NEW k \in 1..Len(pool)
      PROVE  work'[pool[k][1]][pool[k][2]] \in Waiting
  <2>1. pool[k] \in Workers
    BY <1>1, ElementOfSeq
  <2>2. PICK u \in Scans : \E i \in Slices(u) : pool[k] = <<u, i>> /\ pool[k][1] = u /\ pool[k][2] = i
    BY <2>1, PoolEntry
  <2>3. pool[k][1] = s => work'[s][pool[k][2]] \in Waiting
    BY <2>2 DEF WaitersKept, StreamInv, PoolInv, Waiting
  <2>4. QED BY <2>3, EntryKept
<1>3. QED BY <1>1, <1>2 DEF StreamInv, PoolInv, Waiting

(* No entry of the queue is a slice that was not submitted.                *)
LEMMA NotQueued ==
    ASSUME StreamInv, NEW s \in Scans, NEW i \in Slices(s), work[s][i] \notin Waiting,
           NEW k \in 1..Len(pool)
    PROVE  pool[k] # <<s, i>>
<1>1. work[pool[k][1]][pool[k][2]] \in Waiting
  BY DEF StreamInv, PoolInv, Waiting
<1>2. SUFFICES ASSUME pool[k] = <<s, i>> PROVE FALSE
  OBVIOUS
<1>3. pool[k][1] = s /\ pool[k][2] = i
  BY <1>2
<1>4. QED BY <1>1, <1>3

(* The queue after the first slices are submitted.                         *)
LEMMA PoolFansOut ==
    ASSUME StreamInv, NEW s \in Scans, OneScan(s), FansOut(s)
    PROVE  pool' \in Seq(Workers) /\ PoolInv'
<1> DEFINE first == [i \in 1..Ahead(s) |-> <<s, i>>]
<1>1. pool \in Seq(Workers) /\ Len(pool) \in Nat /\ Ahead(s) \in Nat
  BY AheadFacts DEF StreamInv
<1>2. \A i \in Slices(s) : work[s][i] = "none"
  BY NoneSubmitted DEF FansOut, StreamInv
<1>3. first \in Seq(Workers) /\ Len(first) = Ahead(s) /\ \A i \in 1..Ahead(s) : first[i] = <<s, i>>
  <2>1. \A i \in 1..Ahead(s) : <<s, i>> \in Workers
    BY AheadFacts DEF Workers
  <2>2. first \in Seq(Workers)
    BY <1>1, <2>1, IsASeq
  <2>3. DOMAIN first = 1..Ahead(s)
    OBVIOUS
  <2>4. Len(first) = Ahead(s)
    BY <1>1, <2>2, <2>3, LenProperties
  <2>5. QED BY <2>2, <2>4
<1>4. pool' = pool \o first
  BY DEF FansOut
<1> HIDE DEF first
<1>5. /\ pool' \in Seq(Workers) /\ Len(pool') = Len(pool) + Ahead(s)
      /\ \A k \in 1..Len(pool) + Ahead(s) :
            pool'[k] = IF k <= Len(pool) THEN pool[k] ELSE first[k - Len(pool)]
  BY ZenonT(40), <1>1, <1>3, <1>4, ConcatProperties
<1>6. ASSUME NEW k \in 1..Len(pool)
      PROVE  pool'[k] = pool[k] /\ pool[k][1] # s
  <2>1. pool'[k] = pool[k]
    BY <1>1, <1>5
  <2>2. pool[k] \in Workers
    BY <1>1, ElementOfSeq
  <2>3. PICK u \in Scans : \E i \in Slices(u) : pool[k] = <<u, i>> /\ pool[k][1] = u /\ pool[k][2] = i
    BY <2>2, PoolEntry
  <2>4. u # s
    BY <1>2, <2>3, NotQueued DEF Waiting
  <2>5. QED BY <2>1, <2>3, <2>4
<1>7. ASSUME NEW k \in 1..Len(pool'), ~(k <= Len(pool))
      PROVE  /\ k - Len(pool) \in 1..Ahead(s) /\ pool'[k] = <<s, k - Len(pool)>>
             /\ pool'[k][1] = s /\ pool'[k][2] = k - Len(pool)
  <2>1. k - Len(pool) \in 1..Ahead(s)
    BY <1>1, <1>5, <1>7
  <2>2. pool'[k] = <<s, k - Len(pool)>>
    BY <1>3, <1>5, <1>7, <2>1
  <2>3. QED BY <2>1, <2>2
<1>8. ASSUME NEW k \in 1..Len(pool')
      PROVE  work'[pool'[k][1]][pool'[k][2]] \in Waiting
  <2>1. CASE k <= Len(pool)
    <3>1. k \in 1..Len(pool)
      BY <1>1, <1>5, <2>1
    <3>2. QED BY <1>6, <3>1, EntryKept
  <2>2. CASE ~(k <= Len(pool))
    <3>1. k - Len(pool) \in Slices(s)
      BY <1>7, <2>2, AheadFacts
    <3>2. work'[s][k - Len(pool)] = "queued"
      BY <1>7, <2>2, <3>1 DEF FansOut
    <3>3. QED BY <1>7, <2>2, <3>2 DEF Waiting
  <2>3. QED BY <2>1, <2>2
<1>9. ASSUME NEW j \in 1..Len(pool'), NEW k \in 1..Len(pool'), j < k
      PROVE  pool'[j] # pool'[k]
  <2>1. j \in Nat /\ k \in Nat /\ j \in 1..Len(pool') /\ (j <= Len(pool) => j \in 1..Len(pool))
        /\ (k <= Len(pool) => k \in 1..Len(pool) /\ j \in 1..Len(pool))
    BY <1>1, <1>5, <1>9
  <2>2. CASE k <= Len(pool)
    BY <1>6, <1>9, <2>1, <2>2 DEF StreamInv, PoolInv
  <2>3. CASE ~(k <= Len(pool)) /\ j <= Len(pool)
    BY <1>6, <1>7, <2>1, <2>3
  <2>4. CASE ~(k <= Len(pool)) /\ ~(j <= Len(pool))
    <3>1. pool'[j][2] = j - Len(pool) /\ pool'[k][2] = k - Len(pool)
      BY <1>7, <2>4
    <3>2. QED BY <1>1, <1>9, <2>1, <3>1
  <2>5. QED BY <2>2, <2>3, <2>4
<1>10. \A j, k \in 1..Len(pool') : j # k => pool'[j] # pool'[k]
  <2>1. \A j \in 1..Len(pool') : j \in Int
    BY <1>1, <1>5
  <2>2. QED BY <1>9, <2>1
<1>11. QED BY <1>5, <1>8, <1>10 DEF PoolInv, Waiting

(* The queue after the next slice is submitted.                            *)
LEMMA PoolReplaces ==
    ASSUME StreamInv, NEW s \in Scans, OneScan(s), Replaces(s)
    PROVE  pool' \in Seq(Workers) /\ PoolInv'
<1> DEFINE n == next_submit[s]
<1>1. pool \in Seq(Workers) /\ Len(pool) \in Nat /\ ScanInv(s)
  BY DEF StreamInv
<1>2. n \in Slices(s) /\ work[s][n] = "none"
  <2>1. /\ n \in 1..(Len(Batches[s]) + 1) /\ n <= Len(Batches[s])
        /\ Len(Batches[s]) \in Nat
    BY <1>1, SliceFacts DEF ScanInv, ScanType, Replaces, MoreSlices
  <2>2. n \in Slices(s) /\ n >= n
    BY <2>1, SliceFacts
  <2>3. QED BY <1>1, <2>2 DEF ScanInv, FutureInv
<1>3. pool' = Append(pool, <<s, n>>) /\ work'[s] = [work[s] EXCEPT ![n] = "queued"]
  BY DEF Replaces
<1>4. \A i \in Slices(s) : work'[s][i] = IF i = n THEN "queued" ELSE work[s][i]
  BY <1>1, <1>3 DEF ScanInv, ScanType
<1> HIDE DEF n
<1>5. /\ pool' \in Seq(Workers) /\ Len(pool') = Len(pool) + 1
      /\ \A k \in 1..Len(pool) : pool'[k] = pool[k]
      /\ pool'[Len(pool) + 1] = <<s, n>>
  <2>1. <<s, n>> \in Workers
    BY <1>2 DEF Workers
  <2>2. QED BY <1>1, <1>3, <2>1, AppendProperties
<1>6. ASSUME NEW k \in 1..Len(pool)
      PROVE  work'[pool[k][1]][pool[k][2]] \in Waiting
  <2>1. pool[k] \in Workers
    BY <1>1, ElementOfSeq
  <2>2. PICK u \in Scans : \E i \in Slices(u) : pool[k] = <<u, i>> /\ pool[k][1] = u /\ pool[k][2] = i
    BY <2>1, PoolEntry
  <2>3. u = s => work'[s][pool[k][2]] \in Waiting
    BY <1>4, <2>2 DEF StreamInv, PoolInv, Waiting
  <2>4. QED BY <2>2, <2>3, EntryKept
<1>7. ASSUME NEW k \in 1..Len(pool')
      PROVE  work'[pool'[k][1]][pool'[k][2]] \in Waiting
  <2>1. CASE k \in 1..Len(pool)
    BY <1>5, <1>6, <2>1
  <2>2. CASE k = Len(pool) + 1
    <3>1. pool'[k][1] = s /\ pool'[k][2] = n
      BY <1>5, <2>2
    <3>2. QED BY <1>2, <1>4, <3>1 DEF Waiting
  <2>3. QED BY <1>1, <1>5, <2>1, <2>2
<1>8. ASSUME NEW j \in 1..Len(pool'), NEW k \in 1..Len(pool'), j < k
      PROVE  pool'[j] # pool'[k]
  <2>1. j \in 1..Len(pool) /\ j # k /\ (k \in 1..Len(pool) \/ k = Len(pool) + 1)
    BY <1>1, <1>5, <1>8
  <2>2. CASE k \in 1..Len(pool)
    BY <1>5, <2>1, <2>2 DEF StreamInv, PoolInv
  <2>3. CASE k = Len(pool) + 1
    BY <1>2, <1>5, <2>1, <2>3, NotQueued DEF Waiting
  <2>4. QED BY <2>1, <2>2, <2>3
<1>9. \A j, k \in 1..Len(pool') : j # k => pool'[j] # pool'[k]
  <2>1. \A j \in 1..Len(pool') : j \in Int
    BY <1>1, <1>5
  <2>2. QED BY <1>8, <2>1
<1>10. QED BY <1>5, <1>7, <1>9 DEF PoolInv, Waiting

(* The queue after its head has started.                                   *)
LEMMA PoolStarts ==
    ASSUME StreamInv, NEW s \in Scans, OneScan(s), NEW i \in Slices(s), Starts(s, i)
    PROVE  pool' \in Seq(Workers) /\ PoolInv'
<1>1. /\ pool \in Seq(Workers) /\ Len(pool) \in Nat /\ ScanInv(s)
      /\ pool # <<>> /\ pool' = Tail(pool) /\ Head(pool) = <<s, i>>
  BY DEF StreamInv, Starts
<1>2. /\ pool' \in Seq(Workers) /\ Len(pool') = Len(pool) - 1 /\ Len(pool) > 0
      /\ \A k \in 1..Len(pool') : pool'[k] = pool[k + 1]
      /\ pool[1] = <<s, i>>
  BY <1>1, PoolHead
<1>3. \A j \in Slices(s) : j # i => work'[s][j] = work[s][j]
  BY <1>1 DEF Starts, Works, ScanInv, ScanType
<1>4. ASSUME NEW k \in 1..Len(pool')
      PROVE  k + 1 \in 1..Len(pool) /\ k + 1 # 1
  BY <1>1, <1>2
<1>5. ASSUME NEW k \in 1..Len(pool')
      PROVE  work'[pool'[k][1]][pool'[k][2]] \in Waiting
  <2> DEFINE m == k + 1
  <2>1. m \in 1..Len(pool) /\ m # 1 /\ pool'[k] = pool[m]
    BY <1>2, <1>4
  <2> HIDE DEF m
  <2>2. pool[m] # <<s, i>>
    BY <1>1, <1>2, <2>1 DEF StreamInv, PoolInv
  <2>3. pool[m] \in Workers
    BY <1>1, <2>1, ElementOfSeq
  <2>4. PICK u \in Scans : \E j \in Slices(u) : pool[m] = <<u, j>> /\ pool[m][1] = u /\ pool[m][2] = j
    BY <2>3, PoolEntry
  <2>5. work[pool[m][1]][pool[m][2]] \in Waiting
    BY <2>1 DEF StreamInv, PoolInv, Waiting
  <2>6. u = s => work'[s][pool[m][2]] \in Waiting
    BY <1>3, <2>2, <2>4, <2>5
  <2>7. QED BY <2>1, <2>4, <2>6, EntryKept
<1>6. ASSUME NEW j \in 1..Len(pool'), NEW k \in 1..Len(pool'), j # k
      PROVE  pool'[j] # pool'[k]
  <2>1. j + 1 # k + 1
    BY <1>1, <1>2, <1>6
  <2>2. QED BY <1>2, <1>4, <2>1 DEF StreamInv, PoolInv
<1>7. QED BY <1>2, <1>5, <1>6 DEF PoolInv, Waiting

-----------------------------------------------------------------------------
(* The threads of the executor.                                            *)

(* Who runs after a step ran before, or is the one that starts.            *)
LEMMA RunningAfter ==
    ASSUME StreamInv, NEW s \in Scans, OneScan(s), NEW New,
           \A i \in Slices(s) : work'[s][i] \in Live => work[s][i] \in Live \/ <<s, i>> \in New
    PROVE  Running' \subseteq Running \cup New
<1>1. ASSUME NEW v \in Running' PROVE v \in Running \cup New
  <2>1. v \in Workers /\ work'[v[1]][v[2]] \in Live
    BY DEF Running, Live
  <2>2. PICK u \in Scans : \E i \in Slices(u) : v = <<u, i>> /\ v[1] = u /\ v[2] = i
    BY <2>1, PoolEntry
  <2>3. PICK i \in Slices(u) : v = <<u, i>> /\ v[1] = u /\ v[2] = i
    BY <2>2
  <2>4. CASE u = s
    <3>1. work[s][i] \in Live \/ <<s, i>> \in New
      BY <2>1, <2>3, <2>4
    <3>2. QED BY <2>1, <2>3, <2>4, <3>1 DEF Running, Live
  <2>5. CASE u # s
    <3>1. work'[u] = work[u]
      BY <2>5 DEF OneScan, Kept, KeptWork
    <3>2. QED BY <2>1, <2>3, <3>1 DEF Running, Live
  <2>6. QED BY <2>4, <2>5
<1>2. QED BY <1>1

(* A step leaves no more workers running than the budget allows.           *)
LEMMA RunningStep ==
    ASSUME StreamInv, NEW s \in Scans, OneScan(s), PoolChange(s)
    PROVE  IsFiniteSet(Running') /\ Cardinality(Running') <= Budget
<1>1. /\ ScanInv(s) /\ IsFiniteSet(Running) /\ Cardinality(Running) <= Budget
      /\ Cardinality(Running) \in Nat /\ Budget \in Nat
  BY SqlStreamAssumption, FS_CardinalityType DEF StreamInv
<1>2. CASE \A i \in Slices(s) : work'[s][i] \in Live => work[s][i] \in Live
  <2>1. Running' \subseteq Running
    <3>1. Running' \subseteq Running \cup {}
      BY <1>2, RunningAfter
    <3>2. QED BY <3>1
  <2>2. /\ IsFiniteSet(Running')
        /\ Cardinality(Running') <= Cardinality(Running)
    BY <1>1, <2>1, FS_Subset
  <2>3. Cardinality(Running') \in Nat
    BY <2>2, FS_CardinalityType
  <2>4. QED BY <1>1, <2>2, <2>3
<1>3. ASSUME NEW i \in Slices(s), Starts(s, i)
      PROVE  IsFiniteSet(Running') /\ Cardinality(Running') <= Budget
  <2> DEFINE Most == Running \cup {<<s, i>>}
  <2>1. \A j \in Slices(s) : j # i => work'[s][j] = work[s][j]
    BY <1>1, <1>3 DEF Starts, Works, ScanInv, ScanType
  <2>2. Running' \subseteq Most
    <3>1. \A j \in Slices(s) : work'[s][j] \in Live => work[s][j] \in Live \/ <<s, j>> \in {<<s, i>>}
      BY <2>1
    <3>2. QED BY <3>1, RunningAfter
  <2>3. /\ IsFiniteSet(Most)
        /\ Cardinality(Most) = IF <<s, i>> \in Running THEN Cardinality(Running)
                               ELSE Cardinality(Running) + 1
    BY <1>1, FS_AddElement
  <2>4. Cardinality(Running) < Budget
    BY <1>3 DEF Starts
  <2>5. Cardinality(Most) \in Nat /\ Cardinality(Most) <= Budget
    BY <1>1, <2>3, <2>4
  <2> HIDE DEF Most
  <2>6. IsFiniteSet(Running') /\ Cardinality(Running') <= Cardinality(Most)
    BY <2>2, <2>3, FS_Subset
  <2>7. Cardinality(Running') \in Nat
    BY <2>6, FS_CardinalityType
  <2>8. QED BY <1>1, <2>5, <2>6, <2>7
<1>4. CASE WaitersKept(s)
  BY <1>2, <1>4 DEF WaitersKept
<1>5. CASE FansOut(s)
  <2>1. \A i \in Slices(s) : work'[s][i] \in Live => work[s][i] \in Live
    BY <1>5 DEF FansOut, Live
  <2>2. QED BY <1>2, <2>1
<1>6. CASE Replaces(s)
  <2>1. \A i \in Slices(s) : work'[s][i] \in Live => work[s][i] \in Live
    BY <1>1, <1>6 DEF Replaces, Live, ScanInv, ScanType
  <2>2. QED BY <1>2, <2>1
<1>7. QED BY <1>3, <1>4, <1>5, <1>6 DEF PoolChange

-----------------------------------------------------------------------------
(* The invariant.                                                          *)

(* StreamInv holds at the start.                                           *)
LEMMA StreamInitInv == Init => StreamInv
<1> SUFFICES ASSUME Init PROVE StreamInv
  OBVIOUS
<1>1. Families
  BY DEF Init, Families, Family
<1>2. ASSUME NEW s \in Scans PROVE ScanInv(s)
  <2>1. /\ pc[s] = "idle" /\ n_rows[s] = Uncapped /\ yielded_rows[s] = 0 /\ outcome[s] = "ok"
        /\ stop[s] = FALSE /\ futures[s] = {} /\ next_submit[s] = 1 /\ item[s] = 0
        /\ shared[s] = <<>>
        /\ sent[s] = [i \in Slices(s) |-> 0] /\ pos[s] = [i \in Slices(s) |-> 0]
        /\ work[s] = [i \in Slices(s) |-> "none"]
    BY DEF Init
  <2>2. Len(Batches[s]) \in Nat /\ K(s) \in Nat
    BY SliceFacts
  <2>3. shared[s] \in Seq(Item(s))
    BY <2>1, EmptySeq
  <2>4. ScanType(s)
    <3>1. /\ sent[s] \in [Slices(s) -> Nat] /\ pos[s] \in [Slices(s) -> Nat]
          /\ work[s] \in [Slices(s) -> {"none", "queued", "cancelled", "fetch", "put", "return",
                                        "finished", "failed", "skipped"}]
      BY <2>1
    <3>2. next_submit[s] \in 1..(Len(Batches[s]) + 1)
      BY <2>1, <2>2
    <3>3. stop[s] \in BOOLEAN /\ item[s] \in Slices(s) \cup {0} /\ futures[s] \in SUBSET Slices(s)
      BY <2>1
    <3>4. QED BY <2>1, <2>3, <3>1, <3>2, <3>3 DEF ScanType, Ended
  <2>5. FutureInv(s)
    BY <2>1, <2>2, FS_EmptySet DEF FutureInv, Ended
  <2>6. WorkerInv(s) /\ QueueInv(s) /\ DirectInv(s) /\ CountInv(s)
    BY <2>1 DEF WorkerInv, QueueInv, DirectInv, CountInv, Streaming
  <2>7. QED BY <2>4, <2>5, <2>6 DEF ScanInv
<1>3. pool \in Seq(Workers) /\ Len(pool) = 0
  BY EmptySeq DEF Init
<1>4. PoolInv
  BY <1>3 DEF PoolInv
<1>5. Running = {}
  <2>1. ASSUME NEW w \in Workers PROVE work[w[1]][w[2]] = "none"
    <3>1. PICK u \in Scans : \E i \in Slices(u) : w = <<u, i>> /\ w[1] = u /\ w[2] = i
      BY PoolEntry
    <3>2. QED BY <3>1 DEF Init
  <2>2. QED BY <2>1 DEF Running
<1>6. IsFiniteSet(Running) /\ Cardinality(Running) <= Budget
  BY <1>5, FS_EmptySet, SqlStreamAssumption
<1>7. QED BY <1>1, <1>2, <1>3, <1>4, <1>6 DEF StreamInv

(* A step keeps StreamInv.                                                 *)
LEMMA StreamStepInv ==
    ASSUME StreamInv, Next
    PROVE  StreamInv'
<1>1. PICK s \in Scans : OneScan(s)
  BY StepKinds
<1>2. ScanInv(s) /\ Kind(s) /\ Families'
  BY <1>1 DEF StreamInv, OneScan
<1>3. ScanInv(s)'
  BY <1>2, TypeStep, FutureStep, WorkerStep, QueueStep, DirectStep, CountStep DEF ScanInv
<1>4. \A u \in Scans : u # s => ScanInv(u)'
  BY <1>1, InvKept DEF OneScan, StreamInv
<1>5. PoolChange(s)
  BY <1>2, PoolChanges
<1>6. pool' \in Seq(Workers) /\ PoolInv'
  BY <1>1, <1>5, PoolWaits, PoolFansOut, PoolReplaces, PoolStarts DEF PoolChange
<1>7. IsFiniteSet(Running') /\ Cardinality(Running') <= Budget
  BY <1>1, <1>5, RunningStep
<1>8. QED BY <1>2, <1>3, <1>4, <1>6, <1>7 DEF StreamInv

(* So does a step that changes nothing.                                    *)
LEMMA StreamStutterInv ==
    ASSUME StreamInv, UNCHANGED vars
    PROVE  StreamInv'
<1>1. Families' /\ pool' = pool /\ \A u \in Scans : Kept(u)
  BY DEF StreamInv, Families, Family, vars, scanVars, futureVars, Kept, KeptScan, KeptFutures,
         KeptWork
<1>2. \A u \in Scans : ScanInv(u)'
  BY <1>1, InvKept DEF StreamInv
<1>3. work' = work
  BY DEF vars
<1>4. PoolInv' /\ Running' = Running
  BY <1>1, <1>3 DEF StreamInv, PoolInv, Running
<1>5. QED BY <1>1, <1>2, <1>4 DEF StreamInv

(* What the generator, the executor and the workers know of each other     *)
(* when any of them takes a step: every live worker belongs to a future    *)
(* that is held, the queue holds what was put and not taken, the marker of *)
(* a slice comes last, and the executor's queue holds no worker twice.     *)
THEOREM StreamInvariant == Spec => []StreamInv
<1>1. StreamInv /\ [Next]_vars => StreamInv'
  BY StreamStepInv, StreamStutterInv
<1>2. QED BY <1>1, StreamInitInv, PTL DEF Spec

(* Every variable has its type.                                            *)
THEOREM TypeCorrect == Spec => []TypeOK
<1>1. ASSUME StreamInv PROVE TypeOK
  <2>1. /\ Families /\ pool \in Seq(Workers)
        /\ \A s \in Scans : ScanType(s)
    BY <1>1 DEF StreamInv, ScanInv
  <2>2. /\ pc \in [Scans -> {"idle", "direct", "direct_yielded", "get", "polled", "yielded",
                             "reconcile", "closing"} \cup Ended]
        /\ n_rows \in [Scans -> Nat \cup {Uncapped}]
        /\ yielded_rows \in [Scans -> Nat]
        /\ outcome \in [Scans -> Ended]
    BY <2>1 DEF Families, Family, ScanType, Streaming
  <2>3. stop \in [Scans -> BOOLEAN]
    BY <2>1 DEF Families, Family, ScanType
  <2>4. QED BY <2>1, <2>2, <2>3 DEF TypeOK, ScanType
<1>2. QED BY <1>1, StreamInvariant, PTL

(* No more workers run than the budget allows, and no more of one scan     *)
(* than max_concurrency, for every number of scans and slices (l.506,      *)
(* l.548-551).                                                             *)
THEOREM SlotsBoundedHolds == Spec => []SlotsBounded
<1>1. ASSUME StreamInv PROVE SlotsBounded
  <2>1. ASSUME NEW s \in Scans PROVE Cardinality(Active(s)) <= K(s)
    <3>1. /\ FutureInv(s) /\ IsFiniteSet(futures[s]) /\ Cardinality(futures[s]) <= K(s)
          /\ K(s) \in Nat
      BY <1>1, SliceFacts DEF StreamInv, ScanInv, FutureInv
    <3>2. Active(s) \subseteq futures[s]
      BY <3>1 DEF FutureInv, Active
    <3>3. /\ Cardinality(Active(s)) <= Cardinality(futures[s]) /\ IsFiniteSet(Active(s))
      BY <3>1, <3>2, FS_Subset
    <3>4. Cardinality(Active(s)) \in Nat /\ Cardinality(futures[s]) \in Nat
      BY <3>1, <3>3, FS_CardinalityType
    <3>5. QED BY <3>1, <3>3, <3>4
  <2>2. QED BY <1>1, <2>1 DEF SlotsBounded, StreamInv
<1>2. QED BY <1>1, StreamInvariant, PTL

(* However a scan ends, none of its workers runs or will run (l.556-566).  *)
THEOREM NoOrphansHolds == Spec => []NoOrphans
<1>1. ASSUME StreamInv PROVE NoOrphans
  <2>1. ASSUME NEW s \in Scans, pc[s] \in Ended
        PROVE  Active(s) = {} /\ \A i \in Slices(s) : work[s][i] # "queued"
    <3>1. \A i \in Slices(s) : work[s][i] \in {"none", "finished", "failed", "skipped"}
      BY <1>1, <2>1 DEF StreamInv, ScanInv, FutureInv
    <3>2. QED BY <3>1 DEF Active
  <2>2. QED BY <2>1 DEF NoOrphans
<1>2. QED BY <1>1, StreamInvariant, PTL

-----------------------------------------------------------------------------
(* The refinement of RowStream.                                            *)

StreamStep(s) == [Stream(s)!StreamNext]_(Stream(s)!streamVars)

(* A scan that starts opens its stream.                                    *)
LEMMA OpenMaps ==
    ASSUME NEW s \in Scans, Status(s) = "idle", n_rows'[s] \in Caps[s],
           Status(s)' \in {"open", "ok", "error"},
           Status(s)' = "ok" => n_rows'[s] = 0 \/ Slices(s) = {},
           sent'[s] = sent[s], yielded_rows'[s] = yielded_rows[s]
    PROVE  StreamStep(s)
<1>1. Stream(s)!Open
  BY DEF Stream!Open
<1>2. QED BY <1>1 DEF StreamStep, Stream!StreamNext

(* Rows of a slice that are yielded are rows of the stream; a batch of     *)
(* none is a stutter.                                                      *)
LEMMA YieldMaps ==
    ASSUME NEW s \in Scans, ScanType(s), NEW i \in Slices(s), NEW n \in Nat,
           Status(s) = "open", Status(s)' = "open", n_rows'[s] = n_rows[s],
           n <= Rows(s, i) - sent[s][i], Rows(s, i) \in Nat,
           n_rows[s] # Uncapped => yielded_rows[s] + n <= n_rows[s],
           sent'[s] = [sent[s] EXCEPT ![i] = @ + n],
           yielded_rows'[s] = yielded_rows[s] + n
    PROVE  StreamStep(s)
<1>1. sent[s] \in [Slices(s) -> Nat] /\ yielded_rows[s] \in Nat
  BY DEF ScanType
<1>2. CASE n = 0
  <2>1. sent'[s] = sent[s] /\ yielded_rows'[s] = yielded_rows[s]
    BY <1>1, <1>2
  <2>2. QED BY <2>1 DEF StreamStep, Stream!streamVars
<1>3. CASE n # 0
  <2>1. n \in 1..(Rows(s, i) - sent[s][i])
    BY <1>1, <1>3
  <2>2. n \in 1..([j \in Slices(s) |-> Rows(s, j)][i] - sent[s][i])
    BY <2>1
  <2>3. Stream(s)!Yield(i)
    BY <2>2 DEF Stream!Yield
  <2>4. QED BY <2>3 DEF StreamStep, Stream!StreamNext
<1>4. QED BY <1>2, <1>3

(* A scan that ends normally is complete.                                  *)
LEMMA FinishMaps ==
    ASSUME NEW s \in Scans, Status(s) = "open", Status(s)' \in {"ok", "error", "closed"},
           Status(s)' = "ok" =>
               yielded_rows[s] = n_rows[s] \/ \A i \in Slices(s) : sent[s][i] = Rows(s, i),
           KeptScan(s)
    PROVE  StreamStep(s)
<1>1. Status(s)' = "ok" => Stream(s)!Complete
  BY DEF Stream!Complete
<1>2. Stream(s)!Finish
  BY <1>1 DEF Stream!Finish, KeptScan
<1>3. QED BY <1>2 DEF StreamStep, Stream!StreamNext

(* What the stream does not see.                                           *)
LEMMA StutterMaps ==
    ASSUME NEW s \in Scans, Status(s)' = Status(s), KeptScan(s)
    PROVE  StreamStep(s)
  BY DEF StreamStep, Stream!streamVars, KeptScan

(* A full scan has yielded n_rows.                                         *)
LEMMA FullIsExact ==
    ASSUME NEW s \in Scans, ScanInv(s), Full(s)
    PROVE  yielded_rows[s] = n_rows[s]
<1>1. /\ n_rows[s] \in Nat /\ yielded_rows[s] \in Nat
      /\ yielded_rows[s] >= n_rows[s] /\ yielded_rows[s] <= n_rows[s]
  BY DEF Full, ScanInv, ScanType, CountInv
<1>2. QED BY <1>1

(* Emitting the next batch of a slice is a step of the stream.             *)
LEMMA EmitMaps ==
    ASSUME NEW s \in Scans, ScanInv(s), NEW i \in Slices(s), NEW b \in 1..Len(Batches[s][i]),
           Emits(s, i, b), sent[s][i] = End(s, i, b - 1), n_rows'[s] = n_rows[s],
           Status(s) = "open", Status(s)' = "open"
    PROVE  StreamStep(s)
<1>1. PICK n \in Nat :
         /\ sent'[s] = [sent[s] EXCEPT ![i] = @ + n]
         /\ yielded_rows'[s] = yielded_rows[s] + n
         /\ n <= End(s, i, b) - End(s, i, b - 1)
         /\ n_rows[s] # Uncapped => yielded_rows[s] + n <= n_rows[s]
         /\ \/ n = End(s, i, b) - End(s, i, b - 1)
            \/ n_rows[s] # Uncapped /\ yielded_rows[s] + n = n_rows[s]
  BY Zenon DEF Emits
<1>2. Len(Batches[s][i]) \in Nat
  BY SliceFacts
<1>3. b \in 0..Len(Batches[s][i]) /\ b - 1 \in 0..Len(Batches[s][i])
  BY <1>2
<1>4. /\ End(s, i, b) \in Nat /\ End(s, i, b - 1) \in Nat /\ End(s, i, b) <= Rows(s, i)
      /\ Rows(s, i) \in Nat
  <2>1. Len(Batches[s][i]) \in 0..Len(Batches[s][i])
    BY <1>2
  <2>2. QED BY <1>3, <2>1, SliceFacts
<1>5. n <= Rows(s, i) - sent[s][i]
  BY <1>1, <1>4
<1>6. ScanType(s)
  BY DEF ScanInv
<1>7. QED BY <1>1, <1>4, <1>5, <1>6, YieldMaps

(* A step of a scan is a step of its stream, or one it does not see.       *)
LEMMA StreamSteps ==
    ASSUME NEW s \in Scans, ScanInv(s), Kind(s)
    PROVE  StreamStep(s)
<1>1. ASSUME Opens(s) PROVE StreamStep(s)
  <2>1. Status(s) = "idle" /\ Status(s)' = IF pc'[s] = "direct" THEN "open" ELSE pc'[s]
    BY <1>1 DEF Opens, Status, Ended
  <2>2. QED BY <1>1, <2>1, OpenMaps DEF Opens
<1>2. ASSUME FansOut(s) PROVE StreamStep(s)
  <2>1. Status(s) = "idle" /\ Status(s)' = "open"
    BY <1>2 DEF FansOut, Status, Ended
  <2>2. QED BY <1>2, <2>1, OpenMaps DEF FansOut
<1>3. ASSUME ReadsDirectly(s) PROVE StreamStep(s)
  <2>1. PICK i \in Slices(s) : pos[s][i] < Len(Batches[s][i]) /\ Emits(s, i, pos[s][i] + 1)
    BY <1>3 DEF ReadsDirectly
  <2>2. /\ pc[s] = "direct" /\ Status(s) = "open" /\ Status(s)' = "open"
        /\ n_rows'[s] = n_rows[s]
    BY <1>3 DEF ReadsDirectly, Status, Ended
  <2>3. /\ pos[s][i] \in Nat /\ Len(Batches[s][i]) \in Nat
        /\ sent[s][i] = End(s, i, pos[s][i])
    <3>1. pos[s][i] \in Nat /\ Len(Batches[s][i]) \in Nat
      BY SliceFacts DEF ScanInv, ScanType
    <3>2. sent[s][i] = End(s, i, pos[s][i])
      BY <2>2 DEF ScanInv, DirectInv
    <3>3. QED BY <3>1, <3>2
  <2>4. pos[s][i] + 1 \in 1..Len(Batches[s][i]) /\ (pos[s][i] + 1) - 1 = pos[s][i]
    BY <2>1, <2>3
  <2>5. sent[s][i] = End(s, i, (pos[s][i] + 1) - 1)
    BY <2>3, <2>4
  <2>6. QED BY <2>1, <2>2, <2>4, <2>5, EmitMaps
<1>4. ASSUME DirectMoves(s) PROVE StreamStep(s)
  <2>1. Status(s) = "open" /\ KeptScan(s)
    BY <1>4 DEF DirectMoves, Status, Ended
  <2>2. CASE pc'[s] = "direct"
    <3>1. Status(s)' = "open"
      BY <2>2 DEF Status, Ended
    <3>2. QED BY <2>1, <3>1, StutterMaps
  <2>3. CASE pc'[s] # "direct"
    <3>1. Status(s)' = pc'[s] /\ pc'[s] \in {"ok", "error", "closed"}
      BY <1>4, <2>3 DEF DirectMoves, Status, Ended
    <3>2. ASSUME pc'[s] = "ok"
          PROVE  yielded_rows[s] = n_rows[s] \/ \A i \in Slices(s) : sent[s][i] = Rows(s, i)
      <4>1. CASE Full(s)
        BY <4>1, FullIsExact
      <4>2. CASE ~Full(s)
        <5>1. pc[s] = "direct" /\ \A i \in Slices(s) : pos[s][i] = Len(Batches[s][i])
          BY <1>4, <3>2, <4>2 DEF DirectMoves
        <5>2. QED BY <5>1 DEF ScanInv, DirectInv, Rows
      <4>3. QED BY <4>1, <4>2
    <3>3. QED BY <2>1, <3>1, <3>2, FinishMaps
  <2>4. QED BY <2>2, <2>3
<1>5. ASSUME Moves(s) PROVE StreamStep(s)
  <2>1. Status(s) = "open" /\ Status(s)' = "open" /\ KeptScan(s)
    BY <1>5 DEF Moves, Reconciles, Status, Ended
  <2>2. QED BY <2>1, StutterMaps
<1>6. ASSUME Stops(s) PROVE StreamStep(s)
  <2>1. Status(s) = "open" /\ Status(s)' = "open" /\ KeptScan(s)
    BY <1>6 DEF Stops, Reconciles, Status, Ended
  <2>2. QED BY <2>1, StutterMaps
<1>7. ASSUME TakesBatch(s) PROVE StreamStep(s)
  <2> DEFINE h == Head(shared[s])
  <2>1. /\ pc[s] = "get" /\ shared[s] # <<>> /\ h.batch \in 1..Len(Batches[s][h.slice])
        /\ Emits(s, h.slice, h.batch) /\ n_rows'[s] = n_rows[s]
        /\ Status(s) = "open" /\ Status(s)' = "open"
    BY <1>7 DEF TakesBatch, Status, Ended
  <2>2. PICK d \in 0..Marker(s, h.slice) : Taken(s, h.slice, d) /\ h.batch = d + 1
    BY <2>1, HeadIsNext
  <2>3. h.slice \in Slices(s)
    BY <2>1, QueueHead
  <2> HIDE DEF h
  <2>4. Len(Batches[s][h.slice]) \in Nat /\ Marker(s, h.slice) \in Nat
    BY <2>3, SliceFacts
  <2>5. d \in Nat /\ d <= Len(Batches[s][h.slice]) /\ h.batch - 1 = d
    BY <2>1, <2>2, <2>4
  <2>6. sent[s][h.slice] = End(s, h.slice, h.batch - 1)
    BY <2>2, <2>4, <2>5 DEF Taken, Smaller
  <2>7. QED BY <2>1, <2>3, <2>6, EmitMaps
<1>8. ASSUME TakesMarker(s) PROVE StreamStep(s)
  <2>1. Status(s) = "open" /\ Status(s)' = "open" /\ KeptScan(s)
    BY <1>8 DEF TakesMarker, Reconciles, Status, Ended
  <2>2. QED BY <2>1, StutterMaps
<1>9. ASSUME Replaces(s) PROVE StreamStep(s)
  <2>1. Status(s) = "open" /\ Status(s)' = "open" /\ KeptScan(s)
    BY <1>9 DEF Replaces, Reconciles, Status, Ended
  <2>2. QED BY <2>1, StutterMaps
<1>10. ASSUME Drops(s) PROVE StreamStep(s)
  <2>1. Status(s) = "open" /\ Status(s)' = "open" /\ KeptScan(s)
    BY <1>10 DEF Drops, Reconciles, Status, Ended
  <2>2. QED BY <2>1, StutterMaps
<1>11. ASSUME EndsLoop(s) PROVE StreamStep(s)
  <2>1. Status(s) = "open" /\ Status(s)' = "open" /\ KeptScan(s)
    BY <1>11 DEF EndsLoop, Reconciles, Status, Ended
  <2>2. QED BY <2>1, StutterMaps
<1>12. ASSUME Returns(s) PROVE StreamStep(s)
  <2>1. Status(s) = "open" /\ Status(s)' = outcome[s] /\ outcome[s] \in Ended
    BY <1>12 DEF Returns, Status, Ended, ScanInv, ScanType
  <2>2. KeptScan(s) /\ (outcome[s] = "ok" =>
           yielded_rows[s] = n_rows[s] \/ \A i \in Slices(s) : sent[s][i] = Rows(s, i))
    BY <1>12 DEF Returns, ScanInv, CountInv
  <2>3. QED BY <2>1, <2>2, FinishMaps DEF Ended
<1>13. ASSUME NEW i \in Slices(s), WorksOn(s, i) PROVE StreamStep(s)
  <2>1. pc'[s] = pc[s] /\ KeptScan(s)
    BY <1>13 DEF WorksOn, Works
  <2>2. QED BY <2>1, StutterMaps DEF Status
<1>14. ASSUME NEW i \in Slices(s), Starts(s, i) PROVE StreamStep(s)
  <2>1. pc'[s] = pc[s] /\ KeptScan(s)
    BY <1>14 DEF Starts, Works
  <2>2. QED BY <2>1, StutterMaps DEF Status
<1>15. QED
  BY <1>1, <1>2, <1>3, <1>4, <1>5, <1>6, <1>7, <1>8,
     <1>9, <1>10, <1>11, <1>12, <1>13, <1>14 DEF Kind

(* Every scan implements RowStream, whatever the others do: it yields each *)
(* row at most once and at most n_rows of them, and ends normally only     *)
(* when nothing is missing (l.540-555).                                    *)
THEOREM RefinesStream == Spec => ImplementsStream
<1>1. ASSUME Init, NEW s \in Scans PROVE Stream(s)!StreamInit
  BY <1>1 DEF Init, Stream!StreamInit, Status
<1>2. ASSUME StreamInv, [Next]_vars, NEW u \in Scans PROVE StreamStep(u)
  <2>1. CASE Next
    <3>1. PICK s \in Scans : OneScan(s)
      BY <1>2, <2>1, StepKinds
    <3>2. CASE u = s
      BY <1>2, <3>1, <3>2, StreamSteps DEF OneScan, StreamInv
    <3>3. CASE u # s
      BY <3>1, <3>3, StutterMaps DEF OneScan, Kept, Status
    <3>4. QED BY <3>2, <3>3
  <2>2. CASE UNCHANGED vars
    BY <2>2, StutterMaps DEF vars, scanVars, KeptScan, Status
  <2>3. QED BY <1>2, <2>1, <2>2
<1>3. StreamInv /\ [Next]_vars =>
         [\A s \in Scans : [Stream(s)!StreamNext]_(Stream(s)!streamVars)]_vars
  BY <1>2 DEF StreamStep
<1>4. Init => \A s \in Scans : Stream(s)!StreamInit
  BY <1>1
<1>5. QED BY <1>3, <1>4, StreamInvariant, PTL DEF Spec, ImplementsStream

=============================================================================
