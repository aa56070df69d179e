-------------------------- MODULE RayFanout_proofs --------------------------
(***************************************************************************)
(* Proofs about RayFanout for every number and size of partitions, every   *)
(* max_concurrency, batch_size and n_rows, in both orders: type            *)
(* correctness, the inductive invariant FanoutInv, the bound on the tasks, *)
(* what is left running, and the refinement of RowStream.                  *)
(***************************************************************************)
EXTENDS RayFanout, FiniteSetTheorems, SequenceTheorems, TLAPS

(* The window holds each task once, none that was not submitted, and not   *)
(* the one taken from it.                                                  *)
Submitted(held, next, taken) ==
    /\ \A k \in 1..Len(held) : held[k] < next /\ held[k] # taken
    /\ \A j, k \in 1..Len(held) : j # k => held[j] # held[k]

(* What still runs is in the window, or was just taken from it.            *)
WindowInv ==
    /\ Submitted(inflight, next_spec, current)
    /\ current < next_spec
    /\ RunningTasks \subseteq ToSet(inflight) \cup {current}
    /\ Len(inflight) <= Window
    /\ current \in RunningTasks => Len(inflight) < Window
    /\ pc \notin {"fetch", "interrupted"} => current \notin RunningTasks
    /\ pc \in Ended => ToSet(inflight) \subseteq cancelled
    /\ pc = "idle" => inflight = <<>> /\ current = 0 /\ next_spec = 1

(* The window is full while there are partitions to submit; in order, the  *)
(* slot of a task that was taken is free until it is fetched, and the      *)
(* window is the range of partitions between the one taken and the next.   *)
FullInv ==
    /\ next_spec <= Len(TaskRows) /\ ~stop /\ pc \in {"loop", "fetch", "yield", "yielded"}
          => Len(inflight) = IF pc = "fetch" /\ ordered THEN Window - 1 ELSE Window
    /\ pc = "fetch" /\ ordered => Len(inflight) < Window
    /\ ordered =>
          /\ current = next_spec - Len(inflight) - 1
          /\ \A k \in 1..Len(inflight) : inflight[k] = current + k

(* rows_yielded is what was yielded and what is prepared, and stop says    *)
(* that it is n_rows.                                                      *)
CountInv ==
    /\ rows_yielded = total + frames
    /\ n_rows # Uncapped => rows_yielded <= n_rows
    /\ stop => n_rows # Uncapped /\ rows_yielded = n_rows
    /\ pc = "idle" => rows_yielded = 0
    /\ pc \in {"idle", "loop", "fetch"} => frames = 0 /\ ~stop
    /\ pc \in {"fetch", "yield", "yielded"} => current \in Specs

(* A task in the window or not submitted has sent nothing, the one taken   *)
(* sends what is prepared, the others have sent everything.                *)
SentInv ==
    /\ \A i \in Specs :
          /\ i >= next_spec \/ i \in ToSet(inflight) => sent[i] = 0
          /\ i < next_spec /\ i \notin ToSet(inflight) /\ i # current => sent[i] = TaskRows[i]
    /\ pc = "fetch" => sent[current] = 0
    /\ pc \in {"yield", "yielded"} => sent[current] + frames <= TaskRows[current]
    /\ pc \in {"yield", "yielded"} /\ ~stop => sent[current] + frames = TaskRows[current]
    /\ pc = "loop" /\ current \in Specs => sent[current] = TaskRows[current]

FanoutInv == WindowInv /\ FullInv /\ CountInv /\ SentInv

-----------------------------------------------------------------------------
(* Facts about sequences without repetition.                               *)

(* A window with one more task at its end.                                 *)
LEMMA AppendFacts ==
    ASSUME NEW s \in Seq(Specs), NEW e \in Specs
    PROVE  /\ Append(s, e) \in Seq(Specs)
           /\ Len(Append(s, e)) = Len(s) + 1
           /\ \A k \in 1..Len(s) : Append(s, e)[k] = s[k]
           /\ Append(s, e)[Len(s) + 1] = e
           /\ ToSet(Append(s, e)) = ToSet(s) \cup {e}
<1>1. /\ Append(s, e) \in Seq(Specs)
      /\ Len(Append(s, e)) = Len(s) + 1
      /\ \A k \in 1..Len(s) : Append(s, e)[k] = s[k]
      /\ Append(s, e)[Len(s) + 1] = e
  BY AppendProperties
<1>2. DOMAIN s = 1..Len(s) /\ DOMAIN Append(s, e) = 1..(Len(s) + 1) /\ Len(s) \in Nat
  BY <1>1, LenProperties
<1>3. ToSet(Append(s, e)) \subseteq ToSet(s) \cup {e}
  BY <1>1, <1>2 DEF ToSet
<1>4. ToSet(s) \subseteq ToSet(Append(s, e))
  BY <1>1, <1>2 DEF ToSet
<1>5. e \in ToSet(Append(s, e))
  BY <1>1, <1>2 DEF ToSet
<1>6. QED BY <1>1, <1>3, <1>4, <1>5

(* A window without its head.                                              *)
LEMMA TailFacts ==
    ASSUME NEW s \in Seq(Specs), s # <<>>
    PROVE  /\ Tail(s) \in Seq(Specs) /\ Head(s) \in Specs
           /\ Len(s) \in Nat /\ Len(s) > 0 /\ Head(s) = s[1]
           /\ Len(Tail(s)) = Len(s) - 1
           /\ \A k \in 1..Len(Tail(s)) : Tail(s)[k] = s[k + 1]
           /\ ToSet(s) = ToSet(Tail(s)) \cup {Head(s)}
<1>1. /\ Tail(s) \in Seq(Specs) /\ Head(s) \in Specs /\ Head(s) = s[1]
      /\ Len(Tail(s)) = Len(s) - 1
      /\ \A k \in 1..Len(Tail(s)) : Tail(s)[k] = s[k + 1]
  BY HeadTailProperties
<1>2. /\ Len(s) \in Nat /\ Len(s) > 0
      /\ DOMAIN s = 1..Len(s) /\ DOMAIN Tail(s) = 1..(Len(s) - 1)
  BY <1>1, LenProperties, EmptySeq
<1>3. ToSet(s) \subseteq ToSet(Tail(s)) \cup {Head(s)}
  <2> SUFFICES ASSUME NEW k \in 1..Len(s), k # 1
               PROVE s[k] \in ToSet(Tail(s))
    BY <1>1, <1>2 DEF ToSet
  <2>1. k - 1 \in DOMAIN Tail(s) /\ s[k] = Tail(s)[k - 1]
    BY <1>1, <1>2
  <2>2. QED BY <2>1 DEF ToSet
<1>4. ToSet(Tail(s)) \subseteq ToSet(s)
  BY <1>1, <1>2 DEF ToSet
<1>5. Head(s) \in ToSet(s)
  BY <1>1, <1>2 DEF ToSet
<1>6. QED BY <1>1, <1>2, <1>3, <1>4, <1>5

(* A window without its n-th task.                                         *)
LEMMA RemoveFacts ==
    ASSUME NEW s \in Seq(Specs), NEW n \in 1..Len(s)
    PROVE  /\ RemoveAt(s, n) \in Seq(Specs)
           /\ Len(s) \in Nat
           /\ Len(RemoveAt(s, n)) = Len(s) - 1
           /\ \A k \in 1..(Len(s) - 1) :
                 RemoveAt(s, n)[k] = s[IF k < n THEN k ELSE k + 1]
           /\ ToSet(s) = ToSet(RemoveAt(s, n)) \cup {s[n]}
<1> DEFINE before == SubSeq(s, 1, n - 1)
           after == SubSeq(s, n + 1, Len(s))
<1>1. Len(s) \in Nat /\ DOMAIN s = 1..Len(s)
  BY LenProperties
<1>2. /\ before \in Seq(Specs) /\ Len(before) = n - 1
      /\ \A k \in 1..(n - 1) : before[k] = s[k]
  BY <1>1, SubSeqProperties
<1>3. /\ after \in Seq(Specs) /\ Len(after) = Len(s) - n
      /\ \A k \in 1..(Len(s) - n) : after[k] = s[n + k]
  <2>1. \A k \in (n + 1)..Len(s) : s[k] \in Specs
    BY <1>1
  <2>2. /\ after \in Seq(Specs)
        /\ Len(after) = IF n + 1 <= Len(s) THEN Len(s) - (n + 1) + 1 ELSE 0
        /\ \A k \in 1..(Len(s) - (n + 1) + 1) : after[k] = s[(n + 1) + k - 1]
    BY <1>1, <2>1, SubSeqProperties
  <2> HIDE DEF after
  <2>3. \A k \in 1..(Len(s) - n) : (n + 1) + k - 1 = n + k
    BY <1>1
  <2>4. 1..(Len(s) - (n + 1) + 1) = 1..(Len(s) - n)
    BY <1>1
  <2>5. \A k \in 1..(Len(s) - n) : after[k] = s[n + k]
    BY <2>2, <2>3, <2>4
  <2>6. Len(after) = Len(s) - n
    <3>1. n \in Int /\ n <= Len(s) /\ Len(s) \in Int
      BY <1>1
    <3>2. Len(after) = IF n + 1 <= Len(s) THEN Len(s) - (n + 1) + 1 ELSE 0
      BY <2>2
    <3>3. (IF n + 1 <= Len(s) THEN Len(s) - (n + 1) + 1 ELSE 0) = Len(s) - n
      BY <3>1
    <3>4. QED BY <3>2, <3>3
  <2>7. QED BY <2>2, <2>5, <2>6
<1> HIDE DEF before, after
<1>4. /\ before \o after \in Seq(Specs)
      /\ Len(before \o after) = Len(s) - 1
      /\ \A k \in 1..(Len(s) - 1) :
            (before \o after)[k] = IF k <= n - 1 THEN before[k] ELSE after[k - (n - 1)]
  <2>1. /\ before \o after \in Seq(Specs)
        /\ Len(before \o after) = Len(before) + Len(after)
        /\ \A k \in 1..(Len(before) + Len(after)) :
              (before \o after)[k] = IF k <= Len(before) THEN before[k]
                                                          ELSE after[k - Len(before)]
    BY <1>2, <1>3, ConcatProperties
  <2>2. Len(before) + Len(after) = Len(s) - 1
    BY <1>1, <1>2, <1>3
  <2>3. QED BY <1>2, <2>1, <2>2
<1>5. RemoveAt(s, n) = before \o after
  BY DEF RemoveAt, before, after
<1>6. ASSUME NEW k \in 1..(Len(s) - 1)
      PROVE RemoveAt(s, n)[k] = s[IF k < n THEN k ELSE k + 1]
  <2>1. CASE k < n
    BY <1>1, <1>2, <1>4, <1>5, <2>1
  <2>2. CASE k >= n
    <3>1. k - (n - 1) \in 1..(Len(s) - n) /\ n + (k - (n - 1)) = k + 1
      BY <1>1, <2>2
    <3>2. after[k - (n - 1)] = s[k + 1]
      BY <1>3, <3>1
    <3>3. QED BY <1>1, <1>4, <1>5, <2>2, <3>2
  <2>3. QED BY <1>1, <2>1, <2>2
<1>7. DOMAIN RemoveAt(s, n) = 1..(Len(s) - 1)
  BY <1>4, <1>5, LenProperties
<1>8. ToSet(RemoveAt(s, n)) \subseteq ToSet(s)
  BY <1>1, <1>6, <1>7 DEF ToSet
<1>9. ToSet(s) \subseteq ToSet(RemoveAt(s, n)) \cup {s[n]}
  <2> SUFFICES ASSUME NEW k \in 1..Len(s), k # n
               PROVE s[k] \in ToSet(RemoveAt(s, n))
    BY <1>1 DEF ToSet
  <2>1. CASE k < n
    <3>1. k \in DOMAIN RemoveAt(s, n) /\ RemoveAt(s, n)[k] = s[k]
      BY <1>1, <1>6, <1>7, <2>1
    <3>2. QED BY <3>1 DEF ToSet
  <2>2. CASE k > n
    <3>1. k - 1 \in DOMAIN RemoveAt(s, n) /\ RemoveAt(s, n)[k - 1] = s[k]
      BY <1>1, <1>6, <1>7, <2>2
    <3>2. QED BY <3>1 DEF ToSet
  <2>3. QED BY <1>1, <2>1, <2>2
<1>10. s[n] \in ToSet(s)
  BY <1>1 DEF ToSet
<1>11. QED BY <1>1, <1>4, <1>5, <1>6, <1>8, <1>9, <1>10

(* A sequence has at most as many members as its length.                   *)
LEMMA ToSetBounded ==
    ASSUME NEW s \in Seq(Specs)
    PROVE  IsFiniteSet(ToSet(s)) /\ Cardinality(ToSet(s)) <= Len(s)
<1>1. Len(s) \in Nat /\ DOMAIN s = 1..Len(s)
  BY LenProperties
<1>2. IsFiniteSet(1..Len(s)) /\ Cardinality(1..Len(s)) = Len(s)
  BY <1>1, FS_Interval
<1> DEFINE f == [k \in 1..Len(s) |-> s[k]]
<1>3. f \in Surjection(1..Len(s), ToSet(s))
  BY <1>1 DEF ToSet, Surjection
<1>4. QED BY <1>2, <1>3, FS_Surjection

(* The window is between nothing and the number of partitions, and empty   *)
(* only if there is none.                                                  *)
LEMMA WindowFacts ==
    /\ Len(TaskRows) \in Nat /\ Window \in Nat /\ Window <= Len(TaskRows)
    /\ Len(TaskRows) > 0 => Window > 0
  BY RayFanoutAssumption, LenProperties DEF Window, Smaller

(* A slot is refilled: the next partition, if there is one, is submitted   *)
(* and put behind the tasks held.                                          *)
LEMMA RefillFacts ==
    ASSUME TypeOK, NEW held \in Seq(Specs), Refill(held), Len(held) < Window,
           NEW taken \in Int, Submitted(held, next_spec, taken), taken < next_spec
    PROVE  /\ inflight' \in Seq(Specs)
           /\ next_spec' \in 1..(Len(TaskRows) + 1)
           /\ task' \in [Specs -> {"none", "running", "done", "failed"}]
           /\ Submitted(inflight', next_spec', taken) /\ taken < next_spec'
           /\ Len(inflight') <= Window
           /\ ToSet(held) \subseteq ToSet(inflight')
           /\ RunningTasks' \subseteq RunningTasks \cup (ToSet(inflight') \ {taken})
           /\ \A i \in ToSet(inflight') : i \in ToSet(held) \/ i = next_spec
           /\ \A i \in Specs : i < next_spec' /\ i >= next_spec => i \in ToSet(inflight')
           /\ next_spec <= Len(TaskRows) =>
                 /\ next_spec' = next_spec + 1
                 /\ Len(inflight') = Len(held) + 1
                 /\ \A k \in 1..Len(held) : inflight'[k] = held[k]
                 /\ inflight'[Len(held) + 1] = next_spec
           /\ next_spec > Len(TaskRows) => next_spec' = next_spec /\ inflight' = held
<1>1. /\ Len(TaskRows) \in Nat /\ Len(held) \in Nat /\ Window \in Nat
      /\ next_spec \in Nat /\ next_spec >= 1 /\ next_spec <= Len(TaskRows) + 1
  BY WindowFacts, LenProperties DEF TypeOK
<1>2. CASE next_spec <= Len(TaskRows)
  <2>1. next_spec \in Specs
    BY <1>1, <1>2 DEF Specs
  <2>2. /\ inflight' = Append(held, next_spec)
        /\ task' = [task EXCEPT ![next_spec] = "running"]
        /\ next_spec' = next_spec + 1
    BY <1>2 DEF Refill
  <2>3. /\ inflight' \in Seq(Specs)
        /\ Len(inflight') = Len(held) + 1
        /\ \A k \in 1..Len(held) : inflight'[k] = held[k]
        /\ inflight'[Len(held) + 1] = next_spec
        /\ ToSet(inflight') = ToSet(held) \cup {next_spec}
    BY <2>1, <2>2, AppendFacts
  <2>4. \A k \in 1..Len(held) : held[k] \in Nat
    <3>1. \A k \in 1..Len(held) : held[k] \in Specs
      BY ElementOfSeq
    <3>2. QED BY <1>1, <3>1 DEF Specs
  <2>5. Submitted(inflight', next_spec', taken)
    <3>1. ASSUME NEW k \in 1..Len(inflight')
          PROVE inflight'[k] < next_spec' /\ inflight'[k] # taken
      <4>1. CASE k \in 1..Len(held)
        BY <1>1, <2>2, <2>3, <2>4, <4>1 DEF Submitted
      <4>2. CASE k = Len(held) + 1
        BY <1>1, <2>2, <2>3, <4>2
      <4>3. QED BY <1>1, <2>3, <4>1, <4>2
    <3>2. ASSUME NEW j \in 1..Len(inflight'), NEW k \in 1..Len(inflight'), j # k
          PROVE inflight'[j] # inflight'[k]
      <4>1. \A m \in 1..Len(held) : inflight'[m] # inflight'[Len(held) + 1]
        BY <1>1, <2>3, <2>4 DEF Submitted
      <4>2. CASE j \in 1..Len(held) /\ k \in 1..Len(held)
        BY <2>3, <3>2, <4>2 DEF Submitted
      <4>3. CASE j = Len(held) + 1
        <5>1. k \in 1..Len(held)
          BY <1>1, <2>3, <3>2, <4>3
        <5>2. QED BY <4>1, <4>3, <5>1
      <4>4. CASE k = Len(held) + 1
        <5>1. j \in 1..Len(held)
          BY <1>1, <2>3, <3>2, <4>4
        <5>2. QED BY <4>1, <4>4, <5>1
      <4>5. QED BY <1>1, <2>3, <4>2, <4>3, <4>4
    <3>3. QED BY <3>1, <3>2 DEF Submitted
  <2>6. taken < next_spec' /\ next_spec # taken
    BY <1>1, <2>2
  <2>7. RunningTasks' \subseteq RunningTasks \cup (ToSet(inflight') \ {taken})
    <3>1. next_spec \in ToSet(inflight') \ {taken}
      BY <2>3, <2>6
    <3>2. \A i \in Specs : i # next_spec => task'[i] = task[i]
      BY <2>2 DEF TypeOK
    <3>3. QED BY <3>1, <3>2 DEF RunningTasks
  <2>8. task' \in [Specs -> {"none", "running", "done", "failed"}]
    BY <2>2 DEF TypeOK
  <2>9. \A i \in Specs : i < next_spec' /\ i >= next_spec => i \in ToSet(inflight')
    <3>1. \A i \in Specs : i < next_spec' /\ i >= next_spec => i = next_spec
      BY <1>1, <2>2 DEF Specs
    <3>2. QED BY <2>3, <3>1
  <2>10. next_spec' \in 1..(Len(TaskRows) + 1) /\ Len(inflight') <= Window
    BY <1>1, <1>2, <2>2, <2>3
  <2>11. QED
    BY <1>1, <1>2, <2>2, <2>3, <2>5, <2>6, <2>7, <2>8, <2>9, <2>10
<1>3. CASE next_spec > Len(TaskRows)
  <2>1. inflight' = held /\ task' = task /\ next_spec' = next_spec
    BY <1>1, <1>3 DEF Refill
  <2>2. RunningTasks' = RunningTasks
    BY <2>1 DEF RunningTasks
  <2>3. \A i \in Specs : ~(i < next_spec' /\ i >= next_spec)
    BY <1>1, <2>1 DEF Specs
  <2>4. Len(inflight') <= Window
    BY <1>1, <2>1
  <2>5. QED BY <1>1, <1>3, <2>1, <2>2, <2>3, <2>4 DEF TypeOK
<1>4. QED BY <1>1, <1>2, <1>3

-----------------------------------------------------------------------------
(* What the steps that move the window do to it.                           *)

(* The members of a window are those of the sequence.                      *)
LEMMA SubmittedMembers ==
    ASSUME NEW held \in Seq(Specs), NEW next, NEW taken, Submitted(held, next, taken)
    PROVE  /\ \A i \in ToSet(held) : i \in Specs /\ i < next /\ i # taken
           /\ taken \notin ToSet(held)
<1>1. DOMAIN held = 1..Len(held)
  BY LenProperties
<1>2. \A k \in 1..Len(held) : held[k] \in Specs
  BY ElementOfSeq
<1>3. QED BY <1>1, <1>2 DEF Submitted, ToSet

(* The head is taken.                                                      *)
LEMMA TakeHeadFacts ==
    ASSUME TypeOK, WindowInv, TakeHead
    PROVE  /\ inflight' \in Seq(Specs) /\ current' \in Specs
           /\ Len(inflight) \in Nat /\ Len(inflight) > 0
           /\ Len(inflight') = Len(inflight) - 1
           /\ current' = inflight[1]
           /\ \A k \in 1..Len(inflight') : inflight'[k] = inflight[k + 1]
           /\ ToSet(inflight) = ToSet(inflight') \cup {current'}
           /\ Submitted(inflight', next_spec, current') /\ current' < next_spec
<1>1. inflight \in Seq(Specs) /\ inflight # <<>>
      /\ inflight' = Tail(inflight) /\ current' = Head(inflight)
  BY DEF TypeOK, TakeHead
<1>2. /\ inflight' \in Seq(Specs) /\ current' \in Specs
      /\ Len(inflight) \in Nat /\ Len(inflight) > 0
      /\ Len(inflight') = Len(inflight) - 1
      /\ current' = inflight[1]
      /\ \A k \in 1..Len(inflight') : inflight'[k] = inflight[k + 1]
      /\ ToSet(inflight) = ToSet(inflight') \cup {current'}
  BY <1>1, TailFacts
<1>3. /\ \A k \in 1..Len(inflight) : inflight[k] < next_spec
      /\ \A j, k \in 1..Len(inflight) : j # k => inflight[j] # inflight[k]
  BY DEF WindowInv, Submitted
<1>4. Submitted(inflight', next_spec, current') /\ current' < next_spec
  <2>1. \A k \in 1..Len(inflight') : k + 1 \in 1..Len(inflight) /\ k + 1 # 1
    BY <1>2
  <2>2. 1 \in 1..Len(inflight)
    BY <1>2
  <2>3. \A j, k \in 1..Len(inflight') : j # k => j + 1 # k + 1
    BY <1>2
  <2>4. QED BY SMTT(30), <1>2, <1>3, <2>1, <2>2, <2>3 DEF Submitted
<1>5. QED BY <1>2, <1>4

(* A finished task is taken and its slot refilled.                         *)
LEMMA TakeReadyFacts ==
    ASSUME TypeOK, WindowInv, TakeReady
    PROVE  /\ current' \in Specs /\ task[current'] # "running" /\ current' < next_spec
           /\ \E held \in Seq(Specs) :
                 /\ Refill(held)
                 /\ Len(inflight) \in Nat /\ Len(inflight) > 0
                 /\ Len(held) = Len(inflight) - 1
                 /\ ToSet(inflight) = ToSet(held) \cup {current'}
                 /\ Submitted(held, next_spec, current')
<1>1. PICK n \in 1..Len(inflight) :
         /\ task[inflight[n]] # "running"
         /\ current' = inflight[n]
         /\ Refill(RemoveAt(inflight, n))
  BY DEF TakeReady
<1> DEFINE held == RemoveAt(inflight, n)
<1>2. inflight \in Seq(Specs)
  BY DEF TypeOK
<1>3. /\ held \in Seq(Specs)
      /\ Len(inflight) \in Nat
      /\ Len(held) = Len(inflight) - 1
      /\ \A k \in 1..(Len(inflight) - 1) : held[k] = inflight[IF k < n THEN k ELSE k + 1]
      /\ ToSet(inflight) = ToSet(held) \cup {inflight[n]}
  BY <1>2, RemoveFacts
<1>4. inflight[n] \in Specs
  BY <1>2, ElementOfSeq
<1>5. Refill(held)
  BY <1>1
<1> HIDE DEF held
<1>6. /\ \A k \in 1..Len(inflight) : inflight[k] < next_spec
      /\ \A j, k \in 1..Len(inflight) : j # k => inflight[j] # inflight[k]
  BY DEF WindowInv, Submitted
<1> DEFINE At(k) == IF k < n THEN k ELSE k + 1
<1>7. \A k \in 1..Len(held) : At(k) \in 1..Len(inflight) /\ At(k) # n
  BY <1>3
<1>8. \A j, k \in 1..Len(held) : j # k => At(j) # At(k)
  BY <1>3
<1>9. \A k \in 1..Len(held) : held[k] = inflight[At(k)]
  BY <1>3
<1> HIDE DEF At
<1>10. Submitted(held, next_spec, current') /\ current' < next_spec
  BY SMTT(30), <1>1, <1>6, <1>7, <1>8, <1>9 DEF Submitted
<1>11. Len(inflight) > 0
  BY <1>3
<1>12. QED BY <1>1, <1>3, <1>4, <1>5, <1>10, <1>11

(* The result of the task taken is prepared; the window moves if the order *)
(* is kept and n_rows is not reached.                                      *)
LEMMA FetchFacts ==
    ASSUME TypeOK, FanoutInv, Fetch
    PROVE  /\ current \in Specs /\ frames' \in Nat /\ frames' <= TaskRows[current]
           /\ TaskRows[current] \in Nat
           /\ ~stop' => frames' = TaskRows[current]
           /\ rows_yielded' = rows_yielded + frames'
           /\ stop' \in BOOLEAN
           /\ n_rows # Uncapped => rows_yielded' <= n_rows
           /\ stop' => n_rows # Uncapped /\ rows_yielded' = n_rows
           /\ IF ordered /\ ~stop' THEN Refill(inflight)
              ELSE UNCHANGED <<inflight, task, next_spec>>
           /\ ~ordered \/ Len(inflight) < Window
<1>1. current \in Specs /\ rows_yielded \in Nat /\ (n_rows # Uncapped => n_rows \in Nat)
  BY DEF TypeOK, FanoutInv, CountInv, Fetch
<1>2. TaskRows[current] \in Nat
  BY <1>1, RayFanoutAssumption, ElementOfSeq DEF Specs
<1>3. n_rows # Uncapped => n_rows - rows_yielded \in Nat
  BY <1>1 DEF FanoutInv, CountInv
<1>4. CASE n_rows # Uncapped /\ TaskRows[current] >= Remaining
  <2>1. /\ frames' = n_rows - rows_yielded /\ stop' = TRUE
        /\ rows_yielded' = rows_yielded + (n_rows - rows_yielded)
        /\ UNCHANGED <<inflight, task, next_spec>>
    BY <1>4 DEF Fetch, Remaining
  <2>2. QED BY <1>1, <1>2, <1>3, <1>4, <2>1 DEF Remaining, FanoutInv, FullInv, Fetch
<1>5. CASE ~(n_rows # Uncapped /\ TaskRows[current] >= Remaining)
  <2>1. /\ frames' = TaskRows[current] /\ stop' = FALSE
        /\ rows_yielded' = rows_yielded + TaskRows[current]
        /\ IF ordered THEN Refill(inflight) ELSE UNCHANGED <<inflight, task, next_spec>>
    BY <1>5 DEF Fetch
  <2>2. n_rows # Uncapped => rows_yielded' <= n_rows
    BY <1>1, <1>2, <1>3, <1>5, <2>1 DEF Remaining
  <2>3. QED BY <1>1, <1>2, <2>1, <2>2 DEF FanoutInv, FullInv, Fetch
<1>6. QED BY <1>4, <1>5

(* What the refill of Fetch does to the window.                            *)
LEMMA FetchRefill ==
    ASSUME TypeOK, FanoutInv, Fetch, ordered, ~stop'
    PROVE  /\ Refill(inflight) /\ Len(inflight) < Window /\ current \in Int
           /\ inflight \in Seq(Specs)
           /\ Submitted(inflight, next_spec, current) /\ current < next_spec
<1>1. Refill(inflight) /\ Len(inflight) < Window /\ current \in Specs
  BY FetchFacts, Zenon
<1>2. current \in Int
  BY <1>1 DEF Specs
<1>3. QED BY <1>1, <1>2 DEF TypeOK, FanoutInv, WindowInv

-----------------------------------------------------------------------------
(* A task that finished is taken: the window after its refill.             *)
LEMMA TakenRefilled ==
    ASSUME TypeOK, WindowInv, TakeReady
    PROVE  /\ current' \in Specs /\ task[current'] # "running" /\ current' < next_spec'
           /\ next_spec' >= next_spec
           /\ inflight' \in Seq(Specs)
           /\ next_spec' \in 1..(Len(TaskRows) + 1)
           /\ task' \in [Specs -> {"none", "running", "done", "failed"}]
           /\ Submitted(inflight', next_spec', current')
           /\ Len(inflight') <= Window
           /\ ToSet(inflight) \subseteq ToSet(inflight') \cup {current'}
           /\ RunningTasks' \subseteq RunningTasks \cup (ToSet(inflight') \ {current'})
           /\ \A i \in ToSet(inflight') : i \in ToSet(inflight) \/ i = next_spec
           /\ \A i \in Specs : i < next_spec' /\ i >= next_spec => i \in ToSet(inflight')
           /\ current' \in ToSet(inflight)
           /\ next_spec <= Len(TaskRows) => Len(inflight') = Len(inflight)
           /\ next_spec' <= Len(TaskRows) => next_spec <= Len(TaskRows)
<1>1. PICK held \in Seq(Specs) :
         /\ Refill(held)
         /\ Len(inflight) \in Nat /\ Len(inflight) > 0
         /\ Len(held) = Len(inflight) - 1
         /\ ToSet(inflight) = ToSet(held) \cup {current'}
         /\ Submitted(held, next_spec, current')
  BY TakeReadyFacts
<1>2. current' \in Specs /\ task[current'] # "running" /\ current' < next_spec
  BY TakeReadyFacts
<1>3. current' \in Int /\ Len(held) < Window /\ next_spec \in Int
  BY <1>1, <1>2, WindowFacts DEF Specs, WindowInv, TypeOK
<1>4. /\ inflight' \in Seq(Specs)
      /\ next_spec' \in 1..(Len(TaskRows) + 1)
      /\ task' \in [Specs -> {"none", "running", "done", "failed"}]
      /\ Submitted(inflight', next_spec', current') /\ current' < next_spec'
      /\ Len(inflight') <= Window
      /\ ToSet(held) \subseteq ToSet(inflight')
      /\ RunningTasks' \subseteq RunningTasks \cup (ToSet(inflight') \ {current'})
      /\ \A i \in ToSet(inflight') : i \in ToSet(held) \/ i = next_spec
      /\ \A i \in Specs : i < next_spec' /\ i >= next_spec => i \in ToSet(inflight')
      /\ next_spec <= Len(TaskRows) =>
            next_spec' = next_spec + 1 /\ Len(inflight') = Len(held) + 1
      /\ next_spec > Len(TaskRows) => next_spec' = next_spec
  BY <1>1, <1>2, <1>3, RefillFacts
<1>5. /\ next_spec' >= next_spec
      /\ next_spec <= Len(TaskRows) => Len(inflight') = Len(inflight)
      /\ next_spec' <= Len(TaskRows) => next_spec <= Len(TaskRows)
  BY <1>1, <1>3, <1>4, WindowFacts
<1>6. /\ ToSet(inflight) \subseteq ToSet(inflight') \cup {current'}
      /\ \A i \in ToSet(inflight') : i \in ToSet(inflight) \/ i = next_spec
      /\ current' \in ToSet(inflight)
  BY <1>1, <1>4
<1>7. QED BY <1>2, <1>4, <1>5, <1>6

(* The window after Fetch.                                                 *)
LEMMA FetchMoves ==
    ASSUME TypeOK, FanoutInv, Fetch
    PROVE  /\ inflight' \in Seq(Specs)
           /\ next_spec' \in 1..(Len(TaskRows) + 1)
           /\ next_spec' >= next_spec
           /\ task' \in [Specs -> {"none", "running", "done", "failed"}]
           /\ Submitted(inflight', next_spec', current) /\ current < next_spec'
           /\ Len(inflight') <= Window
           /\ ToSet(inflight) \subseteq ToSet(inflight')
           /\ RunningTasks' \subseteq RunningTasks \cup (ToSet(inflight') \ {current})
           /\ \A i \in ToSet(inflight') : i \in ToSet(inflight) \/ i = next_spec
           /\ \A i \in Specs : i < next_spec' /\ i >= next_spec => i \in ToSet(inflight')
<1>1. next_spec \in Int
  BY DEF TypeOK
<1>2. CASE ordered /\ ~stop'
  <2>1. /\ inflight' \in Seq(Specs)
        /\ next_spec' \in 1..(Len(TaskRows) + 1)
        /\ task' \in [Specs -> {"none", "running", "done", "failed"}]
        /\ Submitted(inflight', next_spec', current) /\ current < next_spec'
        /\ Len(inflight') <= Window
        /\ ToSet(inflight) \subseteq ToSet(inflight')
        /\ RunningTasks' \subseteq RunningTasks \cup (ToSet(inflight') \ {current})
        /\ \A i \in ToSet(inflight') : i \in ToSet(inflight) \/ i = next_spec
        /\ \A i \in Specs : i < next_spec' /\ i >= next_spec => i \in ToSet(inflight')
        /\ next_spec <= Len(TaskRows) => next_spec' = next_spec + 1
        /\ next_spec > Len(TaskRows) => next_spec' = next_spec
    BY <1>2, FetchRefill, RefillFacts
  <2>2. next_spec' >= next_spec
    BY <1>1, <2>1, WindowFacts
  <2>3. QED BY <2>1, <2>2
<1>3. CASE ~(ordered /\ ~stop')
  <2>1. inflight' = inflight /\ task' = task /\ next_spec' = next_spec
    BY <1>3, FetchFacts
  <2>2. RunningTasks' = RunningTasks
    BY <2>1 DEF RunningTasks
  <2>3. \A i \in Specs : ~(i < next_spec' /\ i >= next_spec)
    BY <1>1, <2>1 DEF Specs
  <2>4. QED BY <1>1, <2>1, <2>2, <2>3 DEF TypeOK, FanoutInv, WindowInv
<1>4. QED BY <1>2, <1>3

(* A frame of n of the rows prepared is yielded.                           *)
LEMMA YieldFacts ==
    ASSUME TypeOK, FanoutInv, YieldFrame
    PROVE  \E n \in Nat :
              /\ frames' \in Nat /\ total' \in Nat /\ sent' \in [Specs -> Nat]
              /\ frames = frames' + n
              /\ total' = total + n
              /\ sent' = [sent EXCEPT ![current] = @ + n]
              /\ current \in Specs
<1> DEFINE n == IF BatchSize = 0 THEN frames ELSE Smaller(BatchSize, frames)
<1>1. n \in Nat /\ n <= frames /\ frames \in Nat
  BY RayFanoutAssumption DEF TypeOK, Smaller
<1>2. /\ frames' = frames - n /\ total' = total + n
      /\ sent' = [sent EXCEPT ![current] = @ + n]
  BY DEF YieldFrame
<1> HIDE DEF n
<1>3. current \in Specs
  BY DEF FanoutInv, CountInv, YieldFrame
<1>4. /\ frames' \in Nat /\ total' \in Nat /\ frames = frames' + n
      /\ sent' \in [Specs -> Nat]
  BY <1>1, <1>2, <1>3 DEF TypeOK
<1>5. QED BY <1>1, <1>2, <1>3, <1>4

(* What is cancelled are tasks.                                            *)
LEMMA CancelTyped == TypeOK /\ CancelInflight => cancelled' \in SUBSET Specs
<1> SUFFICES ASSUME TypeOK, CancelInflight PROVE cancelled' \in SUBSET Specs
  OBVIOUS
<1>1. DOMAIN inflight = 1..Len(inflight) /\ \A k \in 1..Len(inflight) : inflight[k] \in Specs
  BY LenProperties, ElementOfSeq DEF TypeOK
<1>2. QED BY <1>1 DEF TypeOK, CancelInflight, ToSet

(* A step keeps the types.                                                 *)
LEMMA TypeStep == TypeOK /\ FanoutInv /\ [Next]_vars => TypeOK'
<1> SUFFICES ASSUME TypeOK, FanoutInv, [Next]_vars PROVE TypeOK'
  OBVIOUS
<1>1. ASSUME NEW i \in Specs, TaskEnds(i) PROVE TypeOK'
  BY <1>1 DEF TypeOK, TaskEnds, clientVars
<1>2. ASSUME OpenRefused PROVE TypeOK'
  BY <1>2, RayFanoutAssumption DEF TypeOK, OpenRefused, Ended
<1>3. ASSUME Open PROVE TypeOK'
  <2>1. inflight' \in Seq(Specs)
    <3>1. \A k \in 1..Window : k \in 1..Len(TaskRows)
      BY WindowFacts
    <3>2. inflight' = [k \in 1..Window |-> k] /\ Window \in Nat
      BY <1>3, WindowFacts DEF Open
    <3>3. [k \in 1..Window |-> k] \in Seq(Specs)
      BY <3>1, <3>2, IsASeq DEF Specs
    <3>4. QED BY <3>2, <3>3
  <2>2. next_spec' \in 1..(Len(TaskRows) + 1)
    BY <1>3, WindowFacts DEF Open
  <2>3. task' \in [Specs -> {"none", "running", "done", "failed"}]
    BY <1>3 DEF Open
  <2>4. n_rows' \in Nat \cup {Uncapped}
    BY <1>3, RayFanoutAssumption DEF Open
  <2>5. QED BY <1>3, <2>1, <2>2, <2>3, <2>4 DEF TypeOK, Open
<1>4. ASSUME TakeHead PROVE TypeOK'
  <2>1. inflight' \in Seq(Specs) /\ current' \in Specs
    BY <1>4, TakeHeadFacts DEF FanoutInv
  <2>2. QED BY <1>4, <2>1 DEF TypeOK, TakeHead
<1>5. ASSUME TakeReady PROVE TypeOK'
  <2>1. /\ inflight' \in Seq(Specs)
        /\ next_spec' \in 1..(Len(TaskRows) + 1)
        /\ task' \in [Specs -> {"none", "running", "done", "failed"}]
    BY <1>5, TakenRefilled DEF FanoutInv
  <2>2. current' \in Specs
    BY <1>5, TakenRefilled DEF FanoutInv
  <2>3. QED BY <1>5, <2>1, <2>2 DEF TypeOK, TakeReady
<1>6. ASSUME Exhausted PROVE TypeOK'
  BY <1>6, CancelTyped DEF TypeOK, Exhausted, Exit, Ended, clientVars
<1>7. ASSUME Fetch PROVE TypeOK'
  <2>1. rows_yielded' \in Nat /\ frames' \in Nat /\ stop' \in BOOLEAN
    BY <1>7, FetchFacts DEF TypeOK
  <2>2. /\ inflight' \in Seq(Specs)
        /\ next_spec' \in 1..(Len(TaskRows) + 1)
        /\ task' \in [Specs -> {"none", "running", "done", "failed"}]
    BY <1>7, FetchMoves
  <2>3. QED BY <1>7, <2>1, <2>2 DEF TypeOK, Fetch
<1>8. ASSUME FetchNothing PROVE TypeOK'
  BY <1>8, CancelTyped DEF TypeOK, FetchNothing, Exit, Ended
<1>9. ASSUME FetchFails PROVE TypeOK'
  BY <1>9, CancelTyped DEF TypeOK, FetchFails, Exit, Ended, clientVars
<1>10. ASSUME YieldFrame PROVE TypeOK'
  <2>1. /\ frames' \in Nat /\ total' \in Nat
        /\ sent' \in [Specs -> Nat]
    BY <1>10, YieldFacts
  <2>2. QED BY <1>10, <2>1 DEF TypeOK, YieldFrame
<1>11. ASSUME Pull PROVE TypeOK'
  BY <1>11, CancelTyped DEF TypeOK, Pull, Exit, Ended, clientVars
<1>12. ASSUME Close PROVE TypeOK'
  BY <1>12, CancelTyped DEF TypeOK, Close, Exit, Ended, clientVars
<1>13. ASSUME Interrupt PROVE TypeOK'
  BY <1>13, CancelTyped DEF TypeOK, Interrupt, Exit, Ended, clientVars
<1>14. CASE UNCHANGED vars
  BY <1>14 DEF TypeOK, vars, clientVars
<1>15. QED
  BY <1>1, <1>2, <1>3, <1>4, <1>5, <1>6, <1>7, <1>8, <1>9, <1>10,
     <1>11, <1>12, <1>13, <1>14 DEF Next

(* A step that leaves the window alone and starts nothing.                 *)
LEMMA WindowKept ==
    ASSUME TypeOK, WindowInv, UNCHANGED <<inflight, next_spec, current>>,
           RunningTasks' \subseteq RunningTasks,
           pc' \notin {"fetch", "interrupted"} => current \notin RunningTasks',
           pc' \in Ended => ToSet(inflight) \subseteq cancelled',
           pc' # "idle"
    PROVE  WindowInv'
<1>1. Window' = Window
  BY DEF Window, Smaller
<1>2. Submitted(inflight, next_spec, current)' /\ ToSet(inflight)' = ToSet(inflight)
  BY DEF WindowInv, Submitted, ToSet
<1>3. (pc \in Ended)' = (pc' \in Ended)
  BY DEF Ended
<1>4. QED BY <1>1, <1>2, <1>3 DEF WindowInv

(* A step keeps WindowInv.                                                 *)
LEMMA WindowStep == TypeOK /\ FanoutInv /\ [Next]_vars => WindowInv'
<1> SUFFICES ASSUME TypeOK, FanoutInv, [Next]_vars PROVE WindowInv'
  OBVIOUS
<1>1. ASSUME NEW i \in Specs, TaskEnds(i) PROVE WindowInv'
  <2>1. RunningTasks' \subseteq RunningTasks
    BY <1>1 DEF TaskEnds, RunningTasks, TypeOK
  <2>2. UNCHANGED <<pc, inflight, next_spec, cancelled, current>>
    BY <1>1 DEF TaskEnds, clientVars
  <2>3. CASE pc = "idle"
    <3>1. current \notin RunningTasks'
      BY <2>1, <2>3 DEF FanoutInv, WindowInv
    <3>2. QED BY <2>1, <2>2, <2>3, <3>1 DEF FanoutInv, WindowInv, Submitted, Window, Smaller, Ended, ToSet
  <2>4. CASE pc # "idle"
    BY <2>1, <2>2, <2>4, WindowKept DEF FanoutInv, WindowInv
  <2>5. QED BY <2>3, <2>4
<1>2. ASSUME OpenRefused PROVE WindowInv'
  <2>1. RunningTasks' = RunningTasks /\ UNCHANGED <<inflight, next_spec, current>>
    BY <1>2 DEF OpenRefused, RunningTasks
  <2>2. current \notin RunningTasks /\ ToSet(inflight) = {}
    BY <1>2 DEF OpenRefused, FanoutInv, WindowInv, ToSet
  <2>3. QED BY <1>2, <2>1, <2>2, WindowKept DEF OpenRefused, FanoutInv
<1>3. ASSUME Open PROVE WindowInv'
  <2>1. /\ pc = "idle" /\ pc' = "loop" /\ current' = 0 /\ current = 0
        /\ inflight' = [k \in 1..Window |-> k] /\ next_spec' = Window + 1
        /\ task' = [i \in Specs |-> IF i <= Window THEN "running" ELSE "none"]
    BY <1>3 DEF Open, FanoutInv, WindowInv
  <2>2. Window \in Nat /\ Window' = Window /\ Len(inflight') = Window
    BY <2>1, WindowFacts DEF Window, Smaller
  <2>3. ToSet(inflight') = 1..Window
    BY <2>1 DEF ToSet
  <2>4. RunningTasks' \subseteq ToSet(inflight')
    BY <2>1, <2>2, <2>3 DEF RunningTasks, Specs
  <2>5. Submitted(inflight, next_spec, current)'
    BY <2>1, <2>2 DEF Submitted
  <2>6. current' \notin RunningTasks'
    BY <2>1 DEF RunningTasks, Specs
  <2>7. QED BY <2>1, <2>2, <2>4, <2>5, <2>6 DEF WindowInv, Ended
<1>4. ASSUME TakeHead PROVE WindowInv'
  <2>1. RunningTasks' = RunningTasks /\ next_spec' = next_spec /\ pc' = "fetch"
    BY <1>4 DEF TakeHead, RunningTasks
  <2>2. /\ Len(inflight) \in Nat /\ Len(inflight') = Len(inflight) - 1
        /\ ToSet(inflight) = ToSet(inflight') \cup {current'}
        /\ Submitted(inflight', next_spec, current') /\ current' < next_spec
    BY <1>4, TakeHeadFacts DEF FanoutInv
  <2>3. pc = "loop" /\ current \notin RunningTasks /\ Len(inflight) <= Window
    BY <1>4 DEF TakeHead, FanoutInv, WindowInv
  <2>4. Window' = Window /\ Window \in Nat
    BY WindowFacts DEF Window, Smaller
  <2>5. Len(inflight') < Window'
    BY <2>2, <2>3, <2>4
  <2>6. RunningTasks' \subseteq ToSet(inflight') \cup {current'}
    BY <2>1, <2>2, <2>3 DEF FanoutInv, WindowInv
  <2>7. Len(inflight') <= Window'
    BY <2>2, <2>4, <2>5
  <2>8. QED BY <2>1, <2>2, <2>5, <2>6, <2>7 DEF WindowInv, Submitted, Ended
<1>5. ASSUME TakeReady PROVE WindowInv'
  <2>1. /\ task[current'] # "running" /\ current' < next_spec'
        /\ Submitted(inflight', next_spec', current')
        /\ Len(inflight') <= Window
        /\ ToSet(inflight) \subseteq ToSet(inflight') \cup {current'}
        /\ RunningTasks' \subseteq RunningTasks \cup (ToSet(inflight') \ {current'})
    BY <1>5, TakenRefilled DEF FanoutInv
  <2>2. pc' = "fetch" /\ current \notin RunningTasks
    BY <1>5 DEF TakeReady, FanoutInv, WindowInv
  <2>3. current' \notin RunningTasks'
    BY <2>1 DEF RunningTasks
  <2>4. RunningTasks' \subseteq ToSet(inflight') \cup {current'}
    BY <2>1, <2>2 DEF FanoutInv, WindowInv
  <2>5. Window' = Window
    BY DEF Window, Smaller
  <2>6. QED BY <2>1, <2>2, <2>3, <2>4, <2>5 DEF WindowInv, Submitted, Ended
<1>6. ASSUME Exhausted PROVE WindowInv'
  <2>1. RunningTasks' = RunningTasks /\ UNCHANGED <<inflight, next_spec, current>>
    BY <1>6 DEF Exhausted, Exit, RunningTasks, clientVars
  <2>2. current \notin RunningTasks
    BY <1>6 DEF Exhausted, RunningTasks, FanoutInv, WindowInv
  <2>3. pc' # "idle" /\ (pc' \in Ended => ToSet(inflight) \subseteq cancelled')
    BY <1>6 DEF Exhausted, Exit, CancelInflight, Ended
  <2>4. QED BY <2>1, <2>2, <2>3, WindowKept DEF FanoutInv
<1>7. ASSUME Fetch PROVE WindowInv'
  <2>1. /\ Submitted(inflight', next_spec', current) /\ current < next_spec'
        /\ Len(inflight') <= Window
        /\ ToSet(inflight) \subseteq ToSet(inflight')
        /\ RunningTasks' \subseteq RunningTasks \cup (ToSet(inflight') \ {current})
    BY <1>7, FetchMoves
  <2>2. pc' = "yield" /\ current' = current /\ current \notin RunningTasks
    BY <1>7 DEF Fetch, RunningTasks
  <2>3. RunningTasks' \subseteq ToSet(inflight') \cup {current'} /\ current' \notin RunningTasks'
    BY <2>1, <2>2 DEF FanoutInv, WindowInv
  <2>4. Window' = Window
    BY DEF Window, Smaller
  <2>5. QED BY <2>1, <2>2, <2>3, <2>4 DEF WindowInv, Submitted, Ended
<1>8. ASSUME FetchNothing PROVE WindowInv'
  <2>1. RunningTasks' = RunningTasks /\ UNCHANGED <<inflight, next_spec, current>>
    BY <1>8 DEF FetchNothing, Exit, RunningTasks, clientVars
  <2>2. current \notin RunningTasks
    BY <1>8 DEF FetchNothing, RunningTasks, FanoutInv, WindowInv
  <2>3. pc' # "idle" /\ (pc' \in Ended => ToSet(inflight) \subseteq cancelled')
    BY <1>8 DEF FetchNothing, Exit, CancelInflight, Ended
  <2>4. QED BY <2>1, <2>2, <2>3, WindowKept DEF FanoutInv
<1>9. ASSUME FetchFails PROVE WindowInv'
  <2>1. RunningTasks' = RunningTasks /\ UNCHANGED <<inflight, next_spec, current>>
    BY <1>9 DEF FetchFails, Exit, RunningTasks, clientVars
  <2>2. current \notin RunningTasks
    BY <1>9 DEF FetchFails, RunningTasks, FanoutInv, WindowInv
  <2>3. pc' # "idle" /\ (pc' \in Ended => ToSet(inflight) \subseteq cancelled')
    BY <1>9 DEF FetchFails, Exit, CancelInflight, Ended
  <2>4. QED BY <2>1, <2>2, <2>3, WindowKept DEF FanoutInv
<1>10. ASSUME YieldFrame PROVE WindowInv'
  <2>1. RunningTasks' = RunningTasks /\ UNCHANGED <<inflight, next_spec, current>>
    BY <1>10 DEF YieldFrame, Exit, RunningTasks, clientVars
  <2>2. current \notin RunningTasks
    BY <1>10 DEF YieldFrame, RunningTasks, FanoutInv, WindowInv
  <2>3. pc' # "idle" /\ (pc' \in Ended => ToSet(inflight) \subseteq cancelled')
    BY <1>10 DEF YieldFrame, Exit, CancelInflight, Ended
  <2>4. QED BY <2>1, <2>2, <2>3, WindowKept DEF FanoutInv
<1>11. ASSUME Pull PROVE WindowInv'
  <2>1. RunningTasks' = RunningTasks /\ UNCHANGED <<inflight, next_spec, current>>
    BY <1>11 DEF Pull, Exit, RunningTasks, clientVars
  <2>2. current \notin RunningTasks
    BY <1>11 DEF Pull, RunningTasks, FanoutInv, WindowInv
  <2>3. pc' # "idle" /\ (pc' \in Ended => ToSet(inflight) \subseteq cancelled')
    BY <1>11 DEF Pull, Exit, CancelInflight, Ended
  <2>4. QED BY <2>1, <2>2, <2>3, WindowKept DEF FanoutInv
<1>12. ASSUME Close PROVE WindowInv'
  <2>1. RunningTasks' = RunningTasks /\ UNCHANGED <<inflight, next_spec, current>>
    BY <1>12 DEF Close, Exit, RunningTasks, clientVars
  <2>2. current \notin RunningTasks
    BY <1>12 DEF Close, RunningTasks, FanoutInv, WindowInv
  <2>3. pc' # "idle" /\ (pc' \in Ended => ToSet(inflight) \subseteq cancelled')
    BY <1>12 DEF Close, Exit, CancelInflight, Ended
  <2>4. QED BY <2>1, <2>2, <2>3, WindowKept DEF FanoutInv
<1>13. ASSUME Interrupt PROVE WindowInv'
  <2>1. RunningTasks' = RunningTasks /\ UNCHANGED <<inflight, next_spec, current>>
    BY <1>13 DEF Interrupt, Exit, RunningTasks, clientVars
  <2>2. pc' = "interrupted" /\ ToSet(inflight) \subseteq cancelled'
    BY <1>13 DEF Interrupt, Exit, CancelInflight
  <2>3. QED BY <2>1, <2>2, WindowKept DEF FanoutInv
<1>14. CASE UNCHANGED vars
  BY <1>14 DEF FanoutInv, WindowInv, RunningTasks, Submitted, Window, Smaller, Ended, ToSet, vars,
             clientVars
<1>15. QED
  BY <1>1, <1>2, <1>3, <1>4, <1>5, <1>6, <1>7, <1>8, <1>9, <1>10,
     <1>11, <1>12, <1>13, <1>14 DEF Next

(* A step keeps CountInv.                                                  *)
LEMMA CountStep == TypeOK /\ FanoutInv /\ [Next]_vars => CountInv'
<1> SUFFICES ASSUME TypeOK, FanoutInv, [Next]_vars PROVE CountInv'
  OBVIOUS
<1>1. ASSUME NEW i \in Specs, TaskEnds(i) PROVE CountInv'
  BY <1>1 DEF FanoutInv, CountInv, TaskEnds, clientVars
<1>2. ASSUME OpenRefused PROVE CountInv'
  <2>1. rows_yielded = 0 /\ ~stop
    BY <1>2 DEF OpenRefused, FanoutInv, CountInv
  <2>2. n_rows' # Uncapped => n_rows' \in Nat
    BY <1>2, RayFanoutAssumption DEF OpenRefused
  <2>3. QED BY <1>2, <2>1, <2>2 DEF OpenRefused, FanoutInv, CountInv
<1>3. ASSUME Open PROVE CountInv'
  <2>1. rows_yielded = 0 /\ ~stop
    BY <1>3 DEF Open, FanoutInv, CountInv
  <2>2. n_rows' # Uncapped => n_rows' \in Nat
    BY <1>3, RayFanoutAssumption DEF Open
  <2>3. QED BY <1>3, <2>1, <2>2 DEF Open, FanoutInv, CountInv
<1>4. ASSUME TakeHead PROVE CountInv'
  <2>1. current' \in Specs
    BY <1>4, TakeHeadFacts DEF FanoutInv
  <2>2. QED BY <1>4, <2>1 DEF TakeHead, FanoutInv, CountInv
<1>5. ASSUME TakeReady PROVE CountInv'
  <2>1. current' \in Specs
    BY <1>5, TakenRefilled DEF FanoutInv
  <2>2. QED BY <1>5, <2>1 DEF TakeReady, FanoutInv, CountInv
<1>6. ASSUME Exhausted PROVE CountInv'
  BY <1>6 DEF Exhausted, Exit, FanoutInv, CountInv, clientVars
<1>7. ASSUME Fetch PROVE CountInv'
  <2>1. /\ current \in Specs /\ rows_yielded' = rows_yielded + frames'
        /\ n_rows # Uncapped => rows_yielded' <= n_rows
        /\ stop' => n_rows # Uncapped /\ rows_yielded' = n_rows
    BY <1>7, FetchFacts
  <2>2. total = rows_yielded /\ total' = total
    BY <1>7 DEF Fetch, FanoutInv, CountInv, TypeOK
  <2>3. pc' = "yield" /\ current' = current /\ n_rows' = n_rows
    BY <1>7 DEF Fetch
  <2>4. QED BY <2>1, <2>2, <2>3 DEF CountInv
<1>8. ASSUME FetchNothing PROVE CountInv'
  <2>1. n_rows = 0 /\ n_rows # Uncapped /\ rows_yielded = 0
    BY <1>8, RayFanoutAssumption DEF FetchNothing, FanoutInv, CountInv, TypeOK
  <2>2. QED BY <1>8, <2>1 DEF FetchNothing, Exit, FanoutInv, CountInv
<1>9. ASSUME FetchFails PROVE CountInv'
  BY <1>9 DEF FetchFails, Exit, FanoutInv, CountInv, clientVars
<1>10. ASSUME YieldFrame PROVE CountInv'
  <2>1. PICK n \in Nat : frames = frames' + n /\ total' = total + n /\ frames' \in Nat
    BY <1>10, YieldFacts
  <2>2. rows_yielded = total' + frames'
    BY <2>1 DEF FanoutInv, CountInv, TypeOK
  <2>3. QED BY <1>10, <2>2 DEF YieldFrame, FanoutInv, CountInv
<1>11. ASSUME Pull PROVE CountInv'
  BY <1>11 DEF Pull, Exit, FanoutInv, CountInv, clientVars
<1>12. ASSUME Close PROVE CountInv'
  BY <1>12 DEF Close, Exit, FanoutInv, CountInv, clientVars
<1>13. ASSUME Interrupt PROVE CountInv'
  BY <1>13 DEF Interrupt, Exit, FanoutInv, CountInv, clientVars
<1>14. CASE UNCHANGED vars
  BY <1>14 DEF FanoutInv, CountInv, vars, clientVars
<1>15. QED
  BY <1>1, <1>2, <1>3, <1>4, <1>5, <1>6, <1>7, <1>8, <1>9, <1>10,
     <1>11, <1>12, <1>13, <1>14 DEF Next

(* A step keeps FullInv.                                                   *)
LEMMA FullStep == TypeOK /\ FanoutInv /\ [Next]_vars => FullInv'
<1> SUFFICES ASSUME TypeOK, FanoutInv, [Next]_vars PROVE FullInv'
  OBVIOUS
<1>1. ASSUME NEW i \in Specs, TaskEnds(i) PROVE FullInv'
  BY <1>1 DEF FanoutInv, FullInv, TaskEnds, clientVars, Window, Smaller
<1>2. ASSUME OpenRefused PROVE FullInv'
  BY <1>2 DEF OpenRefused, FanoutInv, FullInv, Window, Smaller
<1>3. ASSUME Open PROVE FullInv'
  <2>1. /\ pc' = "loop" /\ current' = 0 /\ Window' = Window
        /\ inflight' = [k \in 1..Window |-> k] /\ next_spec' = Window + 1
    BY <1>3 DEF Open, FanoutInv, WindowInv, Window, Smaller
  <2>2. Window \in Nat /\ Len(inflight') = Window
    BY <2>1, WindowFacts
  <2>3. QED BY <2>1, <2>2 DEF FullInv
<1>4. ASSUME TakeHead PROVE FullInv'
  <2>1. /\ Len(inflight) \in Nat /\ Len(inflight') = Len(inflight) - 1
        /\ Len(inflight) > 0 /\ current' = inflight[1]
        /\ \A k \in 1..Len(inflight') : inflight'[k] = inflight[k + 1]
    BY <1>4, TakeHeadFacts DEF FanoutInv
  <2>2. /\ pc = "loop" /\ pc' = "fetch" /\ ordered /\ ordered' = ordered /\ stop' = stop
        /\ next_spec' = next_spec /\ next_spec \in Int
    BY <1>4 DEF TakeHead, TypeOK
  <2>3. Window' = Window /\ Window \in Nat /\ Len(inflight) <= Window
    BY WindowFacts DEF FanoutInv, WindowInv, Window, Smaller
  <2>4. /\ current = next_spec - Len(inflight) - 1
        /\ \A k \in 1..Len(inflight) : inflight[k] = current + k
    BY <2>2 DEF FanoutInv, FullInv
  <2>5. next_spec <= Len(TaskRows) /\ ~stop => Len(inflight) = Window
    BY <2>2 DEF FanoutInv, FullInv
  <2>6. current' = current + 1 /\ current' = next_spec - Len(inflight') - 1
    BY <2>1, <2>2, <2>4
  <2>7. \A k \in 1..Len(inflight') : inflight'[k] = current' + k
    BY <2>1, <2>2, <2>4, <2>6
  <2>8. Len(inflight') < Window /\ (Len(inflight) = Window => Len(inflight') = Window - 1)
    BY <2>1, <2>3
  <2>9. QED BY <2>2, <2>3, <2>5, <2>6, <2>7, <2>8 DEF FullInv
<1>5. ASSUME TakeReady PROVE FullInv'
  <2>1. /\ pc = "loop" /\ pc' = "fetch" /\ ~ordered /\ ordered' = ordered /\ stop' = stop
    BY <1>5 DEF TakeReady
  <2>2. /\ next_spec <= Len(TaskRows) => Len(inflight') = Len(inflight)
        /\ next_spec' <= Len(TaskRows) => next_spec <= Len(TaskRows)
    BY <1>5, TakenRefilled DEF FanoutInv
  <2>3. Window' = Window
    BY DEF Window, Smaller
  <2>4. QED BY <2>1, <2>2, <2>3 DEF FanoutInv, FullInv
<1>6. ASSUME Exhausted PROVE FullInv'
  BY <1>6 DEF Exhausted, Exit, FanoutInv, FullInv, clientVars, Window, Smaller
<1>7. ASSUME Fetch PROVE FullInv'
  <2>1. /\ pc = "fetch" /\ pc' = "yield" /\ ordered' = ordered /\ current' = current /\ ~stop
    BY <1>7 DEF Fetch, FanoutInv, CountInv
  <2>2. Window' = Window /\ Window \in Nat
    BY WindowFacts DEF Window, Smaller
  <2>3. CASE ordered /\ ~stop'
    <3>1. /\ Len(inflight) \in Nat /\ next_spec \in Int
          /\ next_spec <= Len(TaskRows) => Len(inflight) = Window - 1
          /\ current = next_spec - Len(inflight) - 1
          /\ \A k \in 1..Len(inflight) : inflight[k] = current + k
      BY <2>1, <2>3, LenProperties DEF FanoutInv, FullInv, TypeOK
    <3>2. CASE next_spec <= Len(TaskRows)
      <4>1. /\ next_spec' = next_spec + 1
            /\ Len(inflight') = Len(inflight) + 1
            /\ \A k \in 1..Len(inflight) : inflight'[k] = inflight[k]
            /\ inflight'[Len(inflight) + 1] = next_spec
        BY <1>7, <2>3, <3>2, FetchRefill, RefillFacts
      <4>2. Len(inflight') = Window /\ current = next_spec' - Len(inflight') - 1
        BY <2>2, <3>1, <3>2, <4>1
      <4>3. \A k \in 1..Len(inflight') : inflight'[k] = current + k
        <5>1. inflight'[Len(inflight) + 1] = current + (Len(inflight) + 1)
          BY <3>1, <4>1
        <5>2. QED BY <3>1, <4>1, <5>1
      <4>4. QED BY <2>1, <2>2, <4>2, <4>3 DEF FullInv
    <3>3. CASE next_spec > Len(TaskRows)
      <4>1. next_spec' = next_spec /\ inflight' = inflight
        BY <1>7, <2>3, <3>3, FetchRefill, RefillFacts
      <4>2. ~(next_spec' <= Len(TaskRows))
        BY <3>1, <3>3, <4>1, WindowFacts
      <4>3. QED BY <2>1, <3>1, <4>1, <4>2 DEF FullInv
    <3>4. QED BY <3>1, <3>2, <3>3, WindowFacts
  <2>4. CASE ~(ordered /\ ~stop')
    <3>1. inflight' = inflight /\ next_spec' = next_spec
      BY <1>7, <2>4, FetchFacts
    <3>2. QED BY <2>1, <2>2, <2>4, <3>1 DEF FanoutInv, FullInv
  <2>5. QED BY <2>3, <2>4
<1>8. ASSUME FetchNothing PROVE FullInv'
  BY <1>8 DEF FetchNothing, Exit, FanoutInv, FullInv, Window, Smaller
<1>9. ASSUME FetchFails PROVE FullInv'
  BY <1>9 DEF FetchFails, Exit, FanoutInv, FullInv, clientVars, Window, Smaller
<1>10. ASSUME YieldFrame PROVE FullInv'
  BY <1>10 DEF YieldFrame, FanoutInv, FullInv, Window, Smaller
<1>11. ASSUME Pull PROVE FullInv'
  BY <1>11 DEF Pull, Exit, FanoutInv, FullInv, clientVars, Window, Smaller
<1>12. ASSUME Close PROVE FullInv'
  BY <1>12 DEF Close, Exit, FanoutInv, FullInv, clientVars, Window, Smaller
<1>13. ASSUME Interrupt PROVE FullInv'
  BY <1>13 DEF Interrupt, Exit, FanoutInv, FullInv, clientVars, Window, Smaller
<1>14. CASE UNCHANGED vars
  BY <1>14 DEF FanoutInv, FullInv, vars, clientVars, Window, Smaller
<1>15. QED
  BY <1>1, <1>2, <1>3, <1>4, <1>5, <1>6, <1>7, <1>8, <1>9, <1>10,
     <1>11, <1>12, <1>13, <1>14 DEF Next

(* A step keeps SentInv.                                                   *)
LEMMA SentStep == TypeOK /\ FanoutInv /\ [Next]_vars => SentInv'
<1> SUFFICES ASSUME TypeOK, FanoutInv, [Next]_vars PROVE SentInv'
  OBVIOUS
<1>1. ASSUME NEW i \in Specs, TaskEnds(i) PROVE SentInv'
  BY <1>1 DEF FanoutInv, SentInv, TaskEnds, clientVars
<1>2. ASSUME OpenRefused PROVE SentInv'
  BY <1>2 DEF OpenRefused, FanoutInv, SentInv
<1>3. ASSUME Open PROVE SentInv'
  <2>1. next_spec = 1 /\ current = 0 /\ sent' = sent /\ current' = current /\ pc' = "loop"
    BY <1>3 DEF Open, FanoutInv, WindowInv
  <2>2. \A i \in Specs : sent[i] = 0
    BY <2>1 DEF FanoutInv, SentInv, Specs
  <2>3. inflight' = [k \in 1..Window |-> k] /\ next_spec' = Window + 1 /\ Window \in Nat
    BY <1>3, WindowFacts DEF Open
  <2>4. \A i \in Specs : i < next_spec' => i \in ToSet(inflight')
    BY <2>3 DEF Specs, ToSet
  <2>5. current' \notin Specs
    BY <2>1 DEF Specs
  <2>6. QED BY <2>1, <2>2, <2>4, <2>5 DEF SentInv
<1>4. ASSUME TakeHead PROVE SentInv'
  <2>1. /\ pc = "loop" /\ pc' = "fetch" /\ sent' = sent /\ next_spec' = next_spec
        /\ ToSet(inflight) = ToSet(inflight') \cup {current'} /\ current' \in Specs
    BY <1>4, TakeHeadFacts DEF TakeHead, FanoutInv
  <2>2. /\ \A i \in Specs : i >= next_spec \/ i \in ToSet(inflight) => sent[i] = 0
        /\ \A i \in Specs : i < next_spec /\ i \notin ToSet(inflight) => sent[i] = TaskRows[i]
    BY <2>1 DEF FanoutInv, SentInv
  <2>3. QED BY <2>1, <2>2 DEF SentInv
<1>5. ASSUME TakeReady PROVE SentInv'
  <2>1. /\ current' \in Specs /\ current' \in ToSet(inflight)
        /\ next_spec' >= next_spec /\ next_spec' \in Int
        /\ ToSet(inflight) \subseteq ToSet(inflight') \cup {current'}
        /\ \A i \in ToSet(inflight') : i \in ToSet(inflight) \/ i = next_spec
        /\ \A i \in Specs : i < next_spec' /\ i >= next_spec => i \in ToSet(inflight')
    BY <1>5, TakenRefilled DEF FanoutInv
  <2>2. pc = "loop" /\ pc' = "fetch" /\ sent' = sent /\ next_spec \in Int
    BY <1>5 DEF TakeReady, TypeOK
  <2>3. /\ \A i \in Specs : i >= next_spec \/ i \in ToSet(inflight) => sent[i] = 0
        /\ \A i \in Specs : i < next_spec /\ i \notin ToSet(inflight) => sent[i] = TaskRows[i]
    BY <2>2 DEF FanoutInv, SentInv
  <2>4. \A i \in Specs : i >= next_spec' \/ i \in ToSet(inflight') => sent[i] = 0
    BY <2>1, <2>2, <2>3 DEF Specs
  <2>5. \A i \in Specs : i < next_spec' /\ i \notin ToSet(inflight') /\ i # current'
                            => sent[i] = TaskRows[i]
    BY <2>1, <2>2, <2>3 DEF Specs
  <2>6. QED BY <2>1, <2>2, <2>3, <2>4, <2>5 DEF SentInv
<1>6. ASSUME Exhausted PROVE SentInv'
  BY <1>6 DEF Exhausted, Exit, FanoutInv, SentInv, clientVars
<1>7. ASSUME Fetch PROVE SentInv'
  <2>1. /\ next_spec' >= next_spec /\ next_spec' \in Int
        /\ ToSet(inflight) \subseteq ToSet(inflight')
        /\ \A i \in ToSet(inflight') : i \in ToSet(inflight) \/ i = next_spec
        /\ \A i \in Specs : i < next_spec' /\ i >= next_spec => i \in ToSet(inflight')
    BY <1>7, FetchMoves
  <2>2. /\ pc = "fetch" /\ pc' = "yield" /\ sent' = sent /\ current' = current
        /\ next_spec \in Int
    BY <1>7 DEF Fetch, TypeOK
  <2>3. /\ current \in Specs /\ frames' \in Nat /\ frames' <= TaskRows[current]
        /\ TaskRows[current] \in Nat /\ (~stop' => frames' = TaskRows[current])
    BY <1>7, FetchFacts
  <2>4. sent[current] = 0
    BY <2>2 DEF FanoutInv, SentInv
  <2>5. \A i \in Specs : i >= next_spec' \/ i \in ToSet(inflight') => sent[i] = 0
    BY <2>1, <2>2 DEF Specs, FanoutInv, SentInv
  <2>6. \A i \in Specs : i < next_spec' /\ i \notin ToSet(inflight') /\ i # current
                            => sent[i] = TaskRows[i]
    BY <2>1, <2>2 DEF Specs, FanoutInv, SentInv
  <2>7. QED BY <2>2, <2>3, <2>4, <2>5, <2>6 DEF SentInv
<1>8. ASSUME FetchNothing PROVE SentInv'
  BY <1>8 DEF FetchNothing, Exit, FanoutInv, SentInv
<1>9. ASSUME FetchFails PROVE SentInv'
  BY <1>9 DEF FetchFails, Exit, FanoutInv, SentInv, clientVars
<1>10. ASSUME YieldFrame PROVE SentInv'
  <2>1. PICK n \in Nat : /\ frames' \in Nat /\ frames = frames' + n
                        /\ sent' = [sent EXCEPT ![current] = @ + n]
                        /\ current \in Specs
    BY <1>10, YieldFacts
  <2>2. pc = "yield" /\ pc' = "yielded" /\ UNCHANGED <<inflight, next_spec, current, stop>>
    BY <1>10 DEF YieldFrame
  <2>3. current \notin ToSet(inflight) /\ ~(current >= next_spec)
    BY <2>1, SubmittedMembers DEF FanoutInv, WindowInv, TypeOK, Specs
  <2>4. sent'[current] = sent[current] + n /\ \A i \in Specs : i # current => sent'[i] = sent[i]
    BY <2>1 DEF TypeOK
  <2>5. sent'[current] + frames' = sent[current] + frames
    BY <2>1, <2>4 DEF TypeOK
  <2>6. /\ sent[current] + frames <= TaskRows[current]
        /\ ~stop => sent[current] + frames = TaskRows[current]
    BY <2>2 DEF FanoutInv, SentInv
  <2>7. \A i \in Specs :
           /\ i >= next_spec \/ i \in ToSet(inflight) => sent'[i] = 0
           /\ i < next_spec /\ i \notin ToSet(inflight) /\ i # current => sent'[i] = TaskRows[i]
    BY <2>3, <2>4 DEF FanoutInv, SentInv
  <2>8. QED BY <2>2, <2>5, <2>6, <2>7 DEF SentInv
<1>11. ASSUME Pull PROVE SentInv'
  <2>1. /\ pc = "yielded" /\ UNCHANGED <<inflight, next_spec, sent, frames, stop, current>>
        /\ \/ pc' = "yield" \/ pc' = "ok"
           \/ pc' = "loop" /\ frames = 0 /\ ~stop
    BY <1>11 DEF Pull, Exit, clientVars
  <2>2. current \in Specs /\ sent[current] \in Nat
    BY <2>1 DEF FanoutInv, CountInv, TypeOK
  <2>3. frames = 0 /\ ~stop => sent[current] = TaskRows[current]
    BY <2>1, <2>2 DEF FanoutInv, SentInv
  <2>4. QED BY <2>1, <2>2, <2>3 DEF FanoutInv, SentInv
<1>12. ASSUME Close PROVE SentInv'
  BY <1>12 DEF Close, Exit, FanoutInv, SentInv, clientVars
<1>13. ASSUME Interrupt PROVE SentInv'
  BY <1>13 DEF Interrupt, Exit, FanoutInv, SentInv, clientVars
<1>14. CASE UNCHANGED vars
  BY <1>14 DEF FanoutInv, SentInv, vars, clientVars
<1>15. QED
  BY <1>1, <1>2, <1>3, <1>4, <1>5, <1>6, <1>7, <1>8, <1>9, <1>10,
     <1>11, <1>12, <1>13, <1>14 DEF Next

-----------------------------------------------------------------------------
(* The theorems.                                                           *)

(* The initial states are in the invariant.                                *)
LEMMA InitInv == Init => TypeOK /\ FanoutInv
<1> SUFFICES ASSUME Init PROVE TypeOK /\ FanoutInv
  OBVIOUS
<1>1. TypeOK
  <2>1. /\ inflight \in Seq(Specs) /\ next_spec \in 1..(Len(TaskRows) + 1)
        /\ cancelled \in SUBSET Specs /\ current \in Specs \cup {0}
    BY WindowFacts, EmptySeq DEF Init
  <2>2. /\ task \in [Specs -> {"none", "running", "done", "failed"}]
        /\ sent \in [Specs -> Nat]
    BY DEF Init
  <2>3. QED BY <2>1, <2>2 DEF Init, TypeOK
<1>2. Len(inflight) = 0 /\ ToSet(inflight) = {} /\ RunningTasks = {} /\ Window \in Nat
  BY WindowFacts DEF Init, ToSet, RunningTasks
<1>3. WindowInv
  BY <1>2 DEF Init, WindowInv, Submitted, Ended
<1>4. FullInv
  <2>1. pc = "idle" /\ current = 0 /\ next_spec = 1
    BY DEF Init
  <2>2. QED BY <1>2, <2>1 DEF FullInv
<1>5. CountInv
  BY RayFanoutAssumption DEF Init, CountInv
<1>6. SentInv
  BY <1>2 DEF Init, SentInv, Specs
<1>7. QED BY <1>1, <1>3, <1>4, <1>5, <1>6 DEF FanoutInv

(* The variables keep their types, and the generator its window, its counts *)
(* and the rows it has sent in step (type invariant and inductive invariant *)
(* of execute_on_ray).                                                     *)
THEOREM FanoutInvariant == Spec => [](TypeOK /\ FanoutInv)
<1>1. Init => TypeOK /\ FanoutInv
  BY InitInv
<1>2. (TypeOK /\ FanoutInv) /\ [Next]_vars => (TypeOK /\ FanoutInv)'
  BY TypeStep, WindowStep, FullStep, CountStep, SentStep DEF FanoutInv
<1>3. QED BY <1>1, <1>2, PTL DEF Spec

(* max_concurrency caps the tasks that run, in both orders.                *)
THEOREM TasksBoundedHolds == Spec => []TasksBounded
<1>1. TypeOK /\ FanoutInv => TasksBounded
  <2> SUFFICES ASSUME TypeOK, FanoutInv PROVE TasksBounded
    OBVIOUS
  <2>1. /\ IsFiniteSet(ToSet(inflight)) /\ Cardinality(ToSet(inflight)) <= Len(inflight)
        /\ Len(inflight) \in Nat
    BY ToSetBounded, LenProperties DEF TypeOK
  <2>2. Window \in Nat /\ Len(inflight) <= Window
    BY WindowFacts DEF FanoutInv, WindowInv
  <2>3. CASE current \in RunningTasks
    <3>1. Len(inflight) < Window /\ RunningTasks \subseteq ToSet(inflight) \cup {current}
      BY <2>3 DEF FanoutInv, WindowInv
    <3>2. /\ IsFiniteSet(ToSet(inflight) \cup {current})
          /\ Cardinality(ToSet(inflight) \cup {current}) <= Len(inflight) + 1
      BY SMTT(30), <2>1, FS_AddElement, FS_CardinalityType
    <3>3. /\ IsFiniteSet(RunningTasks)
          /\ Cardinality(RunningTasks) <= Cardinality(ToSet(inflight) \cup {current})
      BY <3>1, <3>2, FS_Subset
    <3>4. Cardinality(RunningTasks) \in Nat /\ Cardinality(ToSet(inflight) \cup {current}) \in Nat
      BY <3>2, <3>3, FS_CardinalityType
    <3>5. QED BY <2>1, <2>2, <3>1, <3>2, <3>3, <3>4 DEF TasksBounded
  <2>4. CASE current \notin RunningTasks
    <3>1. RunningTasks \subseteq ToSet(inflight)
      BY <2>4 DEF FanoutInv, WindowInv
    <3>2. /\ IsFiniteSet(RunningTasks)
          /\ Cardinality(RunningTasks) <= Cardinality(ToSet(inflight))
      BY <2>1, <3>1, FS_Subset
    <3>3. Cardinality(RunningTasks) \in Nat /\ Cardinality(ToSet(inflight)) \in Nat
      BY <2>1, <3>2, FS_CardinalityType
    <3>4. QED BY <2>1, <2>2, <3>2, <3>3 DEF TasksBounded
  <2>5. QED BY <2>3, <2>4
<1>2. QED BY <1>1, FanoutInvariant, PTL

(* However the generator ends, what still runs was cancelled, except the   *)
(* task an interrupt was waiting for.                                      *)
THEOREM NothingLeftRunningHolds == Spec => []NothingLeftRunning
<1>1. TypeOK /\ FanoutInv => NothingLeftRunning
  BY DEF FanoutInv, WindowInv, NothingLeftRunning, Ended
<1>2. QED BY <1>1, FanoutInvariant, PTL

-----------------------------------------------------------------------------
(* The refinement of RowStream.                                            *)

(* A step that leaves pc alone leaves the status of the stream alone.      *)
LEMMA SameStatus == UNCHANGED pc => UNCHANGED Status
  BY DEF Status

(* With nothing in flight the window was never short of a partition to     *)
(* submit: there is none left.                                             *)
LEMMA AllSent ==
    ASSUME TypeOK, FanoutInv, Exhausted
    PROVE  \A i \in Specs : sent[i] = TaskRows[i]
<1>1. pc = "loop" /\ inflight = <<>> /\ Len(inflight) = 0 /\ ToSet(inflight) = {} /\ ~stop
  BY DEF Exhausted, ToSet, FanoutInv, CountInv
<1>2. Len(TaskRows) \in Nat /\ next_spec \in 1..(Len(TaskRows) + 1)
  BY WindowFacts DEF TypeOK
<1>3. next_spec = Len(TaskRows) + 1
  <2>1. next_spec <= Len(TaskRows) => Len(inflight) = Window /\ Window > 0
    BY <1>1, <1>2, WindowFacts DEF FanoutInv, FullInv
  <2>2. QED BY <1>1, <1>2, <2>1
<1>4. \A i \in Specs : i < next_spec /\ i \notin ToSet(inflight)
  BY <1>1, <1>2, <1>3 DEF Specs
<1>5. QED BY <1>1, <1>4 DEF FanoutInv, SentInv

(* In order, every partition before the one taken was sent.                *)
LEMMA EarlierSent ==
    ASSUME TypeOK, FanoutInv, ordered, current \in Specs
    PROVE  \A j \in Specs : j < current => sent[j] = TaskRows[j]
<1> SUFFICES ASSUME NEW j \in Specs, j < current PROVE sent[j] = TaskRows[j]
  OBVIOUS
<1>1. j \in Int /\ current \in Int /\ next_spec \in Int /\ current < next_spec
  BY DEF Specs, TypeOK, FanoutInv, WindowInv
<1>2. \A k \in 1..Len(inflight) : inflight[k] = current + k /\ j # current + k
  BY <1>1, LenProperties DEF FanoutInv, FullInv, TypeOK
<1>3. j \notin ToSet(inflight)
  BY <1>2, LenProperties DEF ToSet, TypeOK
<1>4. j < next_spec /\ j # current
  BY <1>1
<1>5. QED BY <1>3, <1>4 DEF FanoutInv, SentInv

(* A step of the generator is one of the stream, or none.                  *)
LEMMA StreamStep == TypeOK /\ FanoutInv /\ [Next]_vars => [Stream!StreamNext]_(Stream!streamVars)
<1> SUFFICES ASSUME TypeOK, FanoutInv, [Next]_vars PROVE [Stream!StreamNext]_(Stream!streamVars)
  OBVIOUS
<1>1. ASSUME NEW i \in Specs, TaskEnds(i) PROVE [Stream!StreamNext]_(Stream!streamVars)
  <2>1. UNCHANGED <<pc, ordered, n_rows, sent, total>>
    BY <1>1 DEF TaskEnds, clientVars
  <2>2. QED BY <2>1, SameStatus DEF Stream!streamVars
<1>2. ASSUME OpenRefused PROVE [Stream!StreamNext]_(Stream!streamVars)
  <2>1. Status = "idle" /\ Status' = "error"
    BY <1>2 DEF OpenRefused, Status
  <2>2. n_rows' \in Caps /\ UNCHANGED <<ordered, sent, total>>
    BY <1>2 DEF OpenRefused
  <2>3. Stream!Open
    BY <2>1, <2>2 DEF Stream!Open
  <2>4. QED BY <2>3 DEF Stream!StreamNext
<1>3. ASSUME Open PROVE [Stream!StreamNext]_(Stream!streamVars)
  <2>1. Status = "idle" /\ Status' = "open"
    BY <1>3 DEF Open, Status
  <2>2. n_rows' \in Caps /\ UNCHANGED <<ordered, sent, total>>
    BY <1>3 DEF Open
  <2>3. Stream!Open
    BY <2>1, <2>2 DEF Stream!Open
  <2>4. QED BY <2>3 DEF Stream!StreamNext
<1>4. ASSUME TakeHead PROVE [Stream!StreamNext]_(Stream!streamVars)
  <2>1. Status = "open" /\ Status' = "open"
    BY <1>4 DEF TakeHead, Status
  <2>2. UNCHANGED <<ordered, n_rows, sent, total>>
    BY <1>4 DEF TakeHead
  <2>3. QED BY <2>1, <2>2 DEF Stream!streamVars
<1>5. ASSUME TakeReady PROVE [Stream!StreamNext]_(Stream!streamVars)
  <2>1. Status = "open" /\ Status' = "open"
    BY <1>5 DEF TakeReady, Status
  <2>2. UNCHANGED <<ordered, n_rows, sent, total>>
    BY <1>5 DEF TakeReady
  <2>3. QED BY <2>1, <2>2 DEF Stream!streamVars
<1>6. ASSUME Exhausted PROVE [Stream!StreamNext]_(Stream!streamVars)
  <2>1. Status = "open" /\ Status' = "ok"
    BY <1>6 DEF Exhausted, Exit, Status
  <2>2. UNCHANGED <<ordered, n_rows, sent, total>>
    BY <1>6 DEF Exhausted, clientVars
  <2>3. \A i \in Specs : sent[i] = TaskRows[i]
    BY <1>6, AllSent
  <2>4. Stream!Finish
    BY <2>1, <2>2, <2>3 DEF Stream!Finish, Stream!Complete
  <2>5. QED BY <2>4 DEF Stream!StreamNext
<1>7. ASSUME Fetch PROVE [Stream!StreamNext]_(Stream!streamVars)
  <2>1. Status = "open" /\ Status' = "open"
    BY <1>7 DEF Fetch, Status
  <2>2. UNCHANGED <<ordered, n_rows, sent, total>>
    BY <1>7 DEF Fetch
  <2>3. QED BY <2>1, <2>2 DEF Stream!streamVars
<1>8. ASSUME FetchNothing PROVE [Stream!StreamNext]_(Stream!streamVars)
  <2>1. Status = "open" /\ Status' = "ok"
    BY <1>8 DEF FetchNothing, Exit, Status
  <2>2. UNCHANGED <<ordered, n_rows, sent, total>>
    BY <1>8 DEF FetchNothing
  <2>3. n_rows = 0 /\ n_rows # Uncapped /\ rows_yielded <= 0 /\ rows_yielded = total + frames
    BY <1>8, RayFanoutAssumption DEF FetchNothing, FanoutInv, CountInv
  <2>4. total = n_rows
    BY <2>3 DEF TypeOK
  <2>5. Stream!Finish
    BY <2>1, <2>2, <2>4 DEF Stream!Finish, Stream!Complete
  <2>6. QED BY <2>5 DEF Stream!StreamNext
<1>9. ASSUME FetchFails PROVE [Stream!StreamNext]_(Stream!streamVars)
  <2>1. Status = "open" /\ Status' = "error"
    BY <1>9 DEF FetchFails, Exit, Status
  <2>2. UNCHANGED <<ordered, n_rows, sent, total>>
    BY <1>9 DEF FetchFails, clientVars
  <2>3. Stream!Finish
    BY <2>1, <2>2 DEF Stream!Finish
  <2>4. QED BY <2>3 DEF Stream!StreamNext
<1>10. ASSUME YieldFrame PROVE [Stream!StreamNext]_(Stream!streamVars)
  <2>1. PICK n \in Nat : /\ frames' \in Nat /\ frames = frames' + n
                        /\ total' = total + n
                        /\ sent' = [sent EXCEPT ![current] = @ + n]
                        /\ current \in Specs
    BY <1>10, YieldFacts
  <2>2. Status = "open" /\ Status' = "open" /\ pc = "yield" /\ UNCHANGED <<ordered, n_rows>>
    BY <1>10 DEF YieldFrame, Status
  <2>3. CASE n = 0
    <3>1. total' = total /\ sent' = sent
      BY <2>1, <2>3 DEF TypeOK
    <3>2. QED BY <2>2, <3>1 DEF Stream!streamVars
  <2>4. CASE n # 0
    <3>1. n \in 1..(TaskRows[current] - sent[current])
      <4>1. sent[current] + frames <= TaskRows[current] /\ sent[current] \in Nat
        BY <2>1, <2>2 DEF FanoutInv, SentInv, TypeOK
      <4>2. TaskRows[current] \in Nat
        BY <2>1, RayFanoutAssumption, ElementOfSeq DEF Specs
      <4>3. QED BY <2>1, <2>4, <4>1, <4>2
    <3>2. n_rows # Uncapped => total + n <= n_rows
      <4>1. rows_yielded = total + frames /\ (n_rows # Uncapped => rows_yielded <= n_rows)
        BY DEF FanoutInv, CountInv
      <4>2. total \in Nat /\ (n_rows # Uncapped => n_rows \in Nat)
        BY DEF TypeOK
      <4>3. QED BY <2>1, <4>1, <4>2
    <3>3. ordered => \A j \in Specs : j < current => sent[j] = TaskRows[j]
      BY <2>1, EarlierSent
    <3>4. Stream!Yield(current)
      BY <2>1, <2>2, <3>1, <3>2, <3>3 DEF Stream!Yield
    <3>5. QED BY <2>1, <3>4 DEF Stream!StreamNext
  <2>5. QED BY <2>3, <2>4
<1>11. ASSUME Pull PROVE [Stream!StreamNext]_(Stream!streamVars)
  <2>1. UNCHANGED <<ordered, n_rows, sent, total>> /\ Status = "open"
    BY <1>11 DEF Pull, Status, clientVars
  <2>2. CASE pc' \in {"yield", "loop"}
    <3>1. Status' = "open"
      BY <2>2 DEF Status
    <3>2. QED BY <2>1, <3>1 DEF Stream!streamVars
  <2>3. CASE frames = 0 /\ stop /\ Exit("ok")
    <3>1. Status' = "ok"
      BY <2>3 DEF Exit, Status
    <3>2. total = n_rows
      BY <2>3 DEF FanoutInv, CountInv, TypeOK
    <3>3. Stream!Finish
      BY <2>1, <3>1, <3>2 DEF Stream!Finish, Stream!Complete
    <3>4. QED BY <3>3 DEF Stream!StreamNext
  <2>4. QED BY <1>11, <2>2, <2>3 DEF Pull
<1>12. ASSUME Close PROVE [Stream!StreamNext]_(Stream!streamVars)
  <2>1. Status = "open" /\ Status' = "closed"
    BY <1>12 DEF Close, Exit, Status
  <2>2. UNCHANGED <<ordered, n_rows, sent, total>>
    BY <1>12 DEF Close, clientVars
  <2>3. Stream!Finish
    BY <2>1, <2>2 DEF Stream!Finish
  <2>4. QED BY <2>3 DEF Stream!StreamNext
<1>13. ASSUME Interrupt PROVE [Stream!StreamNext]_(Stream!streamVars)
  <2>1. Status = "open" /\ Status' = "error"
    BY <1>13 DEF Interrupt, Exit, Status
  <2>2. UNCHANGED <<ordered, n_rows, sent, total>>
    BY <1>13 DEF Interrupt, clientVars
  <2>3. Stream!Finish
    BY <2>1, <2>2 DEF Stream!Finish
  <2>4. QED BY <2>3 DEF Stream!StreamNext
<1>14. CASE UNCHANGED vars
  <2>1. UNCHANGED <<pc, ordered, n_rows, sent, total>>
    BY <1>14 DEF vars, clientVars
  <2>2. QED BY <2>1, SameStatus DEF Stream!streamVars
<1>15. QED
  BY <1>1, <1>2, <1>3, <1>4, <1>5, <1>6, <1>7, <1>8, <1>9, <1>10,
     <1>11, <1>12, <1>13, <1>14 DEF Next

(* execute_on_ray implements RowStream: each row once, at most n_rows, in  *)
(* order where that is kept, and a normal end only when nothing is missing. *)
THEOREM RefinesStream == Spec => ImplementsStream
<1>1. Init => Stream!StreamInit
  BY RayFanoutAssumption DEF Init, Stream!StreamInit, Status
<1>2. TypeOK /\ FanoutInv /\ [Next]_vars => [Stream!StreamNext]_(Stream!streamVars)
  BY StreamStep
<1>3. Spec => Stream!StreamSpec
  BY <1>1, <1>2, FanoutInvariant, PTL DEF Spec, Stream!StreamSpec
<1>4. QED BY <1>3 DEF ImplementsStream

=============================================================================
