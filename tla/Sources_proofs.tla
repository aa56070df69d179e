--------------------------- MODULE Sources_proofs ---------------------------
(***************************************************************************)
(* Proofs about the sources of frames: about SourceStack, for every set of *)
(* executions and of span parents, about DeltaTable, for every set of      *)
(* sinks, of frames and of units, about Joins, for every pair of frames    *)
(* and set of asks, about Reshapes, for every frame and set of asks, about *)
(* Combine, for every frame, set of specifications and predicate, and      *)
(* about Exclusion, for every list of columns and set of partitions: the   *)
(* types, the inductive invariants StackInv, DeltaInv, JoinInv, ShapeInv,  *)
(* CombineInv and ExclusionInv, and the properties the modules state.      *)
(***************************************************************************)
EXTENDS SourceStack, DeltaTable, Joins, Reshapes, Combine, Exclusion,
        FiniteSetTheorems, SequenceTheorems, WellFoundedInduction, TLAPS

(* The layers of an execution.                                             *)
Outcomes == {"exhausted", "error", "closed", "never"}
Observed == [outcome : Outcomes, batches : Nat, parent : Parents \cup {NoParent}]
Layers == [
    pc : {"new", "unstarted", "primed", "pulling", "open", "over"},
    wrapped : BOOLEAN, profiled : BOOLEAN,
    inner : {"none", "live", "ended", "failed"},
    batches : Nat, spans : Seq(Observed), closes : Nat,
    saw : {"nothing", "end", "cleanup", "error", "closed"},
    under : Parents \cup {NoParent}]

Outcome(s) ==
    CASE s.inner = "ended" -> "exhausted" [] s.inner = "failed" -> "error"
      [] s.inner = "live" -> "closed" [] s.inner = "none" -> "never"

(* Before it is over an execution has emitted nothing, closed nothing and   *)
(* shown nothing; until its source has made an iterator it has no batch.    *)
StackSound(s) ==
    /\ s.pc # "over" => s.spans = <<>> /\ s.closes = 0 /\ s.saw = "nothing"
    /\ s.pc = "new" => ~s.profiled /\ ~s.wrapped
    /\ s.pc \in {"new", "unstarted"} => s.inner = "none" /\ s.batches = 0
    /\ s.pc \in {"primed", "pulling", "open"} => s.inner = "live"
    /\ s.pc = "over" =>
          /\ Surfaces(s)
          /\ s.spans = IF s.profiled /\ s.inner # "none"
                       THEN <<[outcome |-> Outcome(s), batches |-> s.batches, parent |-> s.under]>>
                       ELSE <<>>

StackTyped ==
    stacks \in [Executions -> Layers] /\ spanParent \in Parents \cup {NoParent}
StackInv == StackTyped /\ \A e \in Executions : StackSound(stacks[e])

(* A new execution.                                                        *)
LEMMA NewStackSound == NewStack \in Layers /\ StackSound(NewStack)
<1>1. NewStack \in Layers
  BY EmptySeq DEF NewStack, Layers
<1>2. StackSound(NewStack)
  BY DEF NewStack, StackSound
<1>3. QED BY <1>1, <1>2

(* The end of an execution that had emitted nothing: one span if it was    *)
(* profiled.                                                               *)
LEMMA OverFields ==
    ASSUME StackTyped, NEW s \in Layers, s.spans = <<>>,
           NEW inner \in {"live", "ended", "failed"}, NEW outcome \in Outcomes,
           NEW saw \in {"end", "cleanup", "error", "closed"},
           NEW t, t = Over(s, inner, outcome, saw)
    PROVE  /\ t \in Layers
           /\ t.pc = "over" /\ t.inner = inner /\ t.saw = saw /\ t.under = spanParent
           /\ t.profiled = s.profiled /\ t.batches = s.batches /\ t.closes = s.closes
           /\ t.spans = IF s.profiled
                        THEN <<[outcome |-> outcome, batches |-> s.batches, parent |-> spanParent]>>
                        ELSE <<>>
<1> DEFINE span == [outcome |-> outcome, batches |-> s.batches, parent |-> spanParent]
<1>1. span \in Observed /\ s.batches \in Nat /\ spanParent \in Parents \cup {NoParent}
  BY DEF Observed, Layers, StackTyped
<1>2. <<span>> \in Seq(Observed) /\ <<>> \in Seq(Observed)
  BY <1>1
<1>3. /\ Span(s, outcome) = IF s.profiled THEN <<span>> ELSE <<>>
      /\ Span(s, outcome) \in Seq(Observed)
  BY <1>2 DEF Span
<1>4. <<>> \o Span(s, outcome) = Span(s, outcome)
  BY <1>3, ConcatEmptySeq
<1>5. t = [s EXCEPT !.pc = "over", !.inner = inner, !.spans = Span(s, outcome), !.saw = saw,
                    !.under = spanParent]
  BY <1>4 DEF Over
<1> HIDE DEF span
<1>6. t \in Layers
  BY <1>1, <1>3, <1>5 DEF Layers
<1>7. /\ t.pc = "over" /\ t.inner = inner /\ t.saw = saw /\ t.under = spanParent
      /\ t.spans = Span(s, outcome)
  BY <1>5 DEF Layers
<1>8. t.profiled = s.profiled /\ t.batches = s.batches /\ t.closes = s.closes
  BY <1>5 DEF Layers
<1>9. QED BY <1>3, <1>6, <1>7, <1>8 DEF span

-----------------------------------------------------------------------------
(* Each action leaves the execution it is of sound.                        *)

(* Only execution e changes.                                               *)
LEMMA OneStack ==
    ASSUME StackInv, NEW e \in Executions, NEW t \in Layers, StackSound(t),
           stacks' = [stacks EXCEPT ![e] = t], spanParent' = spanParent
    PROVE  StackInv'
<1>1. stacks \in [Executions -> Layers]
  BY DEF StackInv, StackTyped
<1>2. stacks' \in [Executions -> Layers]
  BY <1>1
<1>3. \A f \in Executions : stacks'[f] = IF f = e THEN t ELSE stacks[f]
  BY <1>1
<1>4. QED BY <1>2, <1>3 DEF StackInv, StackTyped

(* A source that makes its iterator, or fails at once.                     *)
LEMMA MakesSound ==
    ASSUME StackTyped, NEW s \in Layers, s.inner = "none", s.batches = 0, s.spans = <<>>,
           s.closes = 0, s.saw = "nothing", s.pc \in {"new", "unstarted"},
           NEW pc \in {"primed", "pulling"}, NEW t \in Makes(s, pc)
    PROVE  t \in Layers /\ StackSound(t)
<1>1. CASE t = [s EXCEPT !.pc = pc, !.inner = "live"]
  <2>1. t \in Layers
    BY <1>1 DEF Layers
  <2>2. /\ t.pc = pc /\ t.inner = "live" /\ t.spans = <<>> /\ t.closes = 0
        /\ t.saw = "nothing"
    BY <1>1 DEF Layers
  <2>3. QED BY <2>1, <2>2 DEF StackSound
<1>2. CASE t = Over(s, "failed", "error", "error")
  <2>1. /\ t \in Layers /\ t.pc = "over" /\ t.inner = "failed" /\ t.saw = "error"
        /\ t.under = spanParent /\ t.profiled = s.profiled /\ t.batches = 0 /\ t.closes = 0
        /\ t.spans = IF s.profiled
                     THEN <<[outcome |-> "error", batches |-> 0, parent |-> spanParent]>>
                     ELSE <<>>
    <3>1. "error" \in Outcomes
      BY DEF Outcomes
    <3>2. QED BY <1>2, <3>1, OverFields
  <2>2. Surfaces(t)
    BY <2>1 DEF Surfaces
  <2>3. Outcome(t) = "error"
    BY <2>1 DEF Outcome
  <2>4. QED BY <2>1, <2>2, <2>3 DEF StackSound
<1>3. QED BY <1>1, <1>2 DEF Makes

(* What the query sees of an execution ends with it.                       *)
LEMMA EndSound ==
    ASSUME StackTyped, NEW s \in Layers, StackSound(s), s.pc \in {"primed", "pulling", "open"},
           NEW saw, NEW t \in Layers,
           NEW inner \in {"live", "ended", "failed"},
           t.pc = "over", t.inner = inner, t.saw = saw, t.profiled = s.profiled,
           t.batches = s.batches, t.under = spanParent,
           t.spans = IF s.profiled
                     THEN <<[outcome |-> Outcome(t), batches |-> s.batches, parent |-> spanParent]>>
                     ELSE <<>>,
           inner = "failed" <=> saw = "error",
           inner = "ended" => saw \in {"end", "cleanup"},
           s.profiled /\ inner = "live" => saw = "closed",
           s.profiled => t.closes = 1
    PROVE  StackSound(t)
<1>1. Surfaces(t)
  BY DEF Surfaces
<1>2. QED BY <1>1 DEF StackSound

(* The close of the inner iterator is counted.                             *)
LEMMA ClosedFields ==
    ASSUME NEW s \in Layers
    PROVE  /\ Closed(s) \in Layers /\ Closed(s).closes = s.closes + 1
           /\ Closed(s).pc = s.pc /\ Closed(s).inner = s.inner /\ Closed(s).saw = s.saw
           /\ Closed(s).profiled = s.profiled /\ Closed(s).batches = s.batches
           /\ Closed(s).under = s.under /\ Closed(s).spans = s.spans
  BY DEF Closed, Layers

(* A call of the source makes a sound execution.                            *)
LEMMA CallSound ==
    ASSUME StackInv, NEW e \in Executions, CallSource(e)
    PROVE  StackInv'
<1>1. stacks[e] \in Layers /\ StackSound(stacks[e]) /\ StackTyped
  BY DEF StackInv, StackTyped
<1>2. PICK profiled \in BOOLEAN :
         LET s == [stacks[e] EXCEPT !.profiled = profiled]
         IN \E t \in {[s EXCEPT !.wrapped = TRUE, !.pc = "unstarted"]} \union Makes(s, "primed") :
                stacks' = [stacks EXCEPT ![e] = t]
  BY DEF CallSource
<1> DEFINE s == [stacks[e] EXCEPT !.profiled = profiled]
<1>3. /\ s \in Layers /\ s.pc = "new" /\ s.inner = "none" /\ s.batches = 0 /\ s.spans = <<>>
      /\ s.closes = 0 /\ s.saw = "nothing"
  BY <1>1 DEF CallSource, StackSound, Layers
<1>4. PICK t \in {[s EXCEPT !.wrapped = TRUE, !.pc = "unstarted"]} \union Makes(s, "primed") :
         stacks' = [stacks EXCEPT ![e] = t]
  BY <1>2
<1> HIDE DEF s
<1>5. t \in Layers /\ StackSound(t)
  <2>1. CASE t = [s EXCEPT !.wrapped = TRUE, !.pc = "unstarted"]
    <3>1. t \in Layers
      BY <1>3, <2>1 DEF Layers
    <3>2. /\ t.pc = "unstarted" /\ t.inner = "none" /\ t.batches = 0 /\ t.spans = <<>>
          /\ t.closes = 0 /\ t.saw = "nothing"
      BY <1>3, <2>1 DEF Layers
    <3>3. QED BY <3>1, <3>2 DEF StackSound
  <2>2. CASE t \in Makes(s, "primed")
    BY <1>1, <1>3, <2>2, MakesSound
  <2>3. QED BY <1>4, <2>1, <2>2
<1>6. QED BY <1>4, <1>5, OneStack DEF CallSource

(* A pull keeps the layers sound.                                           *)
LEMMA PullSound ==
    ASSUME StackInv, NEW e \in Executions, PullSource(e)
    PROVE  StackInv'
<1>1. stacks[e] \in Layers /\ StackSound(stacks[e]) /\ StackTyped
  BY DEF StackInv, StackTyped
<1>2. PICK t \in IF stacks[e].pc = "unstarted" THEN Makes(stacks[e], "pulling")
                 ELSE {[stacks[e] EXCEPT !.pc = "pulling"]} :
         stacks' = [stacks EXCEPT ![e] = t]
  BY DEF PullSource
<1>3. t \in Layers /\ StackSound(t)
  <2>1. CASE stacks[e].pc = "unstarted"
    BY <1>1, <1>2, <2>1, MakesSound DEF StackSound
  <2>2. CASE stacks[e].pc # "unstarted"
    <3>1. t = [stacks[e] EXCEPT !.pc = "pulling"]
      BY <1>2, <2>2
    <3>2. t \in Layers
      BY <1>1, <3>1 DEF Layers
    <3>3. /\ t.pc = "pulling" /\ t.inner = "live" /\ t.spans = <<>> /\ t.closes = 0
          /\ t.saw = "nothing"
      BY <1>1, <2>2, <3>1 DEF Layers, PullSource, StackSound
    <3>4. QED BY <3>2, <3>3 DEF StackSound
  <2>3. QED BY <2>1, <2>2
<1>4. QED BY <1>2, <1>3, OneStack DEF PullSource

(* A batch that is yielded keeps the layers sound.                          *)
LEMMA YieldSound ==
    ASSUME StackInv, NEW e \in Executions, YieldBatch(e)
    PROVE  StackInv'
<1>1. stacks[e] \in Layers /\ StackSound(stacks[e]) /\ stacks \in [Executions -> Layers]
  BY DEF StackInv, StackTyped
<1>2. stacks' \in [Executions -> Layers]
  BY <1>1 DEF YieldBatch, Layers
<1>3. /\ stacks'[e].pc = "open" /\ stacks'[e].inner = stacks[e].inner
      /\ stacks'[e].spans = stacks[e].spans /\ stacks'[e].closes = stacks[e].closes
      /\ stacks'[e].saw = stacks[e].saw
  BY <1>1 DEF YieldBatch, Layers
<1>4. stacks[e].inner = "live" /\ stacks[e].spans = <<>> /\ stacks[e].closes = 0
      /\ stacks[e].saw = "nothing"
  BY <1>1 DEF YieldBatch, StackSound
<1>5. StackSound(stacks'[e])
  BY <1>3, <1>4 DEF StackSound
<1>6. \A f \in Executions : f # e => stacks'[f] = stacks[f]
  BY <1>1 DEF YieldBatch
<1>7. QED BY <1>2, <1>5, <1>6 DEF StackInv, StackTyped, YieldBatch

(* The end of the stream, or its failure.                                  *)
LEMMA PulledSound ==
    ASSUME StackInv, NEW e \in Executions, stacks[e].pc = "pulling",
           NEW inner \in {"ended", "failed"}, NEW outcome,
           outcome = IF inner = "ended" THEN "exhausted" ELSE "error",
           NEW saw \in {"end", "cleanup", "error"},
           inner = "failed" <=> saw = "error", NEW over,
           over = Over(stacks[e], inner, outcome, saw),
           stacks' = [stacks EXCEPT ![e] = IF stacks[e].profiled THEN Closed(over) ELSE over],
           spanParent' = spanParent
    PROVE  StackInv'
<1> DEFINE s == stacks[e]
           t == IF s.profiled THEN Closed(over) ELSE over
<1>1. /\ s \in Layers /\ StackSound(s) /\ StackTyped
      /\ s.spans = <<>> /\ s.closes = 0
  BY DEF StackInv, StackTyped, StackSound
<1> HIDE DEF s
<1>2. outcome \in Outcomes /\ over = Over(s, inner, outcome, saw)
  BY DEF Outcomes, s
<1>3. /\ over \in Layers
      /\ over.pc = "over" /\ over.inner = inner /\ over.saw = saw /\ over.under = spanParent
      /\ over.profiled = s.profiled /\ over.batches = s.batches /\ over.closes = 0
      /\ over.spans = IF s.profiled
                      THEN <<[outcome |-> outcome, batches |-> s.batches, parent |-> spanParent]>>
                      ELSE <<>>
  BY <1>1, <1>2, OverFields
<1>4. /\ t \in Layers /\ t.pc = "over" /\ t.inner = inner /\ t.saw = saw
      /\ t.under = spanParent /\ t.profiled = s.profiled /\ t.batches = s.batches
      /\ s.profiled => t.closes = 1
      /\ t.spans = IF s.profiled
                   THEN <<[outcome |-> outcome, batches |-> s.batches, parent |-> spanParent]>>
                   ELSE <<>>
  BY <1>3, ClosedFields
<1> HIDE DEF t
<1>5. Outcome(t) = outcome
  BY <1>4 DEF Outcome
<1>6. s.pc = "pulling"
  BY DEF s
<1>7. StackSound(t)
  BY <1>1, <1>4, <1>5, <1>6, EndSound
<1>8. stacks' = [stacks EXCEPT ![e] = t]
  BY DEF t, s
<1>9. QED BY <1>4, <1>7, <1>8, OneStack

(* An execution that is exhausted is observed and closed.                   *)
LEMMA EndsSound ==
    ASSUME StackInv, NEW e \in Executions, EndSource(e)
    PROVE  StackInv'
<1>1. PICK saw \in {"end"} \union (IF stacks[e].profiled THEN {"cleanup"} ELSE {}) :
         LET over == Over(stacks[e], "ended", "exhausted", saw)
         IN stacks' = [stacks EXCEPT ![e] = IF stacks[e].profiled THEN Closed(over) ELSE over]
  BY DEF EndSource
<1>2. stacks[e].pc = "pulling" /\ spanParent' = spanParent /\ saw \in {"end", "cleanup"}
  BY DEF EndSource
<1>3. QED BY <1>1, <1>2, PulledSound

(* An execution whose source fails is observed and closed.                  *)
LEMMA FailSound ==
    ASSUME StackInv, NEW e \in Executions, FailSource(e)
    PROVE  StackInv'
<1> DEFINE over == Over(stacks[e], "failed", "error", "error")
<1>1. /\ stacks[e].pc = "pulling" /\ spanParent' = spanParent
      /\ stacks' = [stacks EXCEPT ![e] = IF stacks[e].profiled THEN Closed(over) ELSE over]
  BY DEF FailSource
<1> HIDE DEF over
<1>2. over = Over(stacks[e], "failed", "error", "error")
  BY DEF over
<1>3. QED BY <1>1, <1>2, PulledSound

(* Closing an execution, at any suspension point.                           *)
LEMMA CloseSound ==
    ASSUME StackInv, NEW e \in Executions, CloseSource(e)
    PROVE  StackInv'
<1> DEFINE s == stacks[e]
<1>1. /\ s \in Layers /\ StackSound(s) /\ StackTyped /\ spanParent' = spanParent
      /\ s.pc # "over" => s.spans = <<>> /\ s.closes = 0
  BY DEF StackInv, StackTyped, StackSound, CloseSource
<1>2. CASE s.pc = "unstarted" /\ stacks' = [stacks EXCEPT ![e] = [s EXCEPT !.pc = "over", !.saw = "closed"]]
  <2> DEFINE t == [s EXCEPT !.pc = "over", !.saw = "closed"]
  <2>1. t \in Layers
    BY <1>1 DEF Layers
  <2>2. /\ t.pc = "over" /\ t.saw = "closed" /\ t.inner = "none" /\ t.batches = 0
        /\ t.spans = <<>>
    BY <1>1, <1>2 DEF Layers, StackSound
  <2>3. stacks' = [stacks EXCEPT ![e] = t]
    BY <1>2
  <2> HIDE DEF t
  <2>4. StackSound(t)
    BY <2>2 DEF StackSound, Surfaces
  <2>5. QED BY <1>1, <2>1, <2>3, <2>4, OneStack
<1>3. ASSUME s.pc \in {"primed", "open"},
             NEW saw \in {"closed"} \union (IF s.profiled THEN {} ELSE {"cleanup"}),
             stacks' = [stacks EXCEPT ![e] = Closed(Over(s, "live", "closed", saw))]
      PROVE  StackInv'
  <2> HIDE DEF s
  <2> DEFINE over == Over(s, "live", "closed", saw)
             t == Closed(over)
  <2>1. "closed" \in Outcomes /\ saw \in {"closed", "cleanup"} /\ (s.profiled => saw = "closed")
    BY <1>3 DEF Outcomes
  <2>2. /\ over \in Layers
        /\ over.pc = "over" /\ over.inner = "live" /\ over.saw = saw /\ over.under = spanParent
        /\ over.profiled = s.profiled /\ over.batches = s.batches /\ over.closes = 0
        /\ over.spans = IF s.profiled
                        THEN <<[outcome |-> "closed", batches |-> s.batches, parent |-> spanParent]>>
                        ELSE <<>>
    BY <1>1, <1>3, <2>1, OverFields
  <2> HIDE DEF over
  <2>3. /\ t \in Layers /\ t.pc = "over" /\ t.inner = "live" /\ t.saw = saw
        /\ t.under = spanParent /\ t.profiled = s.profiled /\ t.batches = s.batches
        /\ t.closes = 1
        /\ t.spans = IF s.profiled
                     THEN <<[outcome |-> "closed", batches |-> s.batches, parent |-> spanParent]>>
                     ELSE <<>>
    BY <2>2, ClosedFields
  <2>4. stacks' = [stacks EXCEPT ![e] = t]
    BY <1>3 DEF over
  <2> HIDE DEF t
  <2>5. Outcome(t) = "closed"
    BY <2>3 DEF Outcome
  <2>6. StackSound(t)
    BY <1>1, <1>3, <2>1, <2>3, <2>5, EndSound
  <2>7. QED BY <1>1, <2>3, <2>4, <2>6, OneStack
<1>4. QED BY <1>2, <1>3 DEF CloseSource

(* The parent that is published does not touch what has been emitted.      *)
LEMMA ParentSound ==
    ASSUME StackInv, NEW q \in Parents, SetParent(q)
    PROVE  StackInv'
  BY DEF StackInv, StackTyped, SetParent

(* A step of the layers keeps StackInv.                                     *)
LEMMA StackStep == StackInv /\ [StackNext]_stackVars => StackInv'
<1> SUFFICES ASSUME StackInv, [StackNext]_stackVars PROVE StackInv'
  OBVIOUS
<1>1. CASE StackNext
  BY <1>1, ParentSound, CallSound, PullSound, YieldSound, EndsSound, FailSound, CloseSound
  DEF StackNext
<1>2. CASE UNCHANGED stackVars
  BY <1>2 DEF StackInv, StackTyped, stackVars
<1>3. QED BY <1>1, <1>2

(* However the executions of several scans interleave with the parents     *)
(* that are published, and wherever each fails or is closed, what it shows *)
(* its query and the span it emits are those of its source                 *)
(* (profiling.py:153-169, 172-246).                                        *)
THEOREM ExecutionsObservedHolds == StackSpec => []ExecutionsObserved
<1>1. StackInit => StackInv
  BY NewStackSound DEF StackInit, StackInv, StackTyped
<1>2. StackInv => ExecutionsObserved
  <2> SUFFICES ASSUME StackInv, NEW e \in Executions
               PROVE  LET s == stacks[e]
                      IN /\ s.pc = "over" => Surfaces(s)
                         /\ s.spans = IF s.pc = "over" /\ s.profiled /\ s.inner # "none"
                                      THEN <<[outcome |-> Outcome(s), batches |-> s.batches,
                                              parent |-> s.under]>>
                                      ELSE <<>>
    BY DEF ExecutionsObserved, Outcome
  <2>1. QED BY DEF StackInv, StackSound
<1>3. QED BY <1>1, <1>2, StackStep, PTL DEF StackSpec

-----------------------------------------------------------------------------
(* The Delta table.                                                        *)

Writer == [
    pc : {"idle", "writing", "done", "failed"}, mode : Modes \cup {"none"}, stream : BOOLEAN,
    next : Nat \ {0}, found : BOOLEAN]
Units == {Plain} \cup {Unit[w] : w \in Sinks}
Version == [chunks : SUBSET (Sinks \X Nat), asIs : BOOLEAN, mapping : Units]

Scanner == [
    pc : {"idle", "made"}, asked : {Latest} \cup Nat, timed : BOOLEAN,
    opens : {Latest} \cup Nat, mapping : Units, made : Nat, at : Nat, read : SUBSET (Sinks \X Nat), collects : Nat]

(* The chunks of the frame of w among those of a version.                  *)
Seen(chunks, w) == {m \in 1..Chunks[w] : <<w, m>> \in chunks}
Ignored(w) == sinks[w].mode = "ignore" /\ sinks[w].found

(* A sink has written its chunks before next, one commit all of them, and  *)
(* in mode "error" it has created the table.                               *)
SinkSound(w) ==
    /\ sinks[w].next \in 1..(Chunks[w] + 1)
    /\ sinks[w].pc = "idle" => sinks[w].next = 1 /\ sinks[w].mode = "none"
    /\ sinks[w].pc = "writing" => sinks[w].next <= Chunks[w]
    /\ sinks[w].pc = "done" => sinks[w].next = Chunks[w] + 1
    /\ OneCommit(w) => sinks[w].next \in {1, Chunks[w] + 1}
    /\ sinks[w].next > 1 => Exists
    /\ sinks[w].mode = "error" /\ sinks[w].next > 1 => Seen(Content(1), w) # {}

(* A version shows of the frame of w what was written before it, and the   *)
(* last version all that was.                                              *)
VersionSound(k, w) ==
    LET seen == Seen(Content(k), w)
    IN /\ seen \subseteq 1..(sinks[w].next - 1)
       /\ sinks[w].mode = "overwrite" => seen \in {{}, 1..Chunks[w]}
       /\ ~Ignored(w) /\ ~OverwrittenBy(w) =>
             /\ \E n \in 0..Chunks[w] : seen = 1..n
             /\ k = Len(versions) => seen = 1..(sinks[w].next - 1)

(* Every version has the description of the first, and every chunk in it   *)
(* a unit if that description names one.                                   *)
VersionDecodes(v) ==
    /\ v.asIs <=> v.mapping = Plain
    /\ v.mapping = versions[1].mapping
    /\ \A c \in v.chunks : Unit[c[1]] = Plain <=> v.mapping = Plain

(* That description is of a sink of the first version.                     *)
TableCreated == Exists => \E u \in Sinks : Seen(Content(1), u) # {} /\ versions[1].mapping = Unit[u]

(* A scan has the description of the table, and its last collect the       *)
(* content of a version, which was asked for or is no older than the scan. *)
AskedOrNew(s) ==
    \/ s.asked # Latest /\ s.at = s.asked
    \/ (s.asked = Latest \/ s.timed) /\ s.at >= s.made
Opens(s, n) ==
    /\ s.opens \in {Latest} \cup (1..n)
    /\ s.opens = s.asked \/ (s.timed /\ s.opens = Latest)
ScanSound ==
    /\ scan.pc = "idle" => scan.collects = 0
    /\ scan.pc = "made" =>
          /\ Exists /\ scan.mapping = versions[1].mapping
          /\ scan.made <= Len(versions) /\ Opens(scan, Len(versions))
    /\ scan.collects > 0 =>
          /\ scan.at \in 1..Len(versions) /\ scan.read = Content(scan.at)
          /\ AskedOrNew(scan)

DeltaTyped ==
    /\ versions \in Seq(Version) /\ sinks \in [Sinks -> Writer]
    /\ scan \in Scanner
DeltaInv ==
    /\ DeltaTyped
    /\ \A w \in Sinks : SinkSound(w)
    /\ \A k \in 1..Len(versions) : VersionDecodes(versions[k])
    /\ TableCreated
    /\ \A k \in 1..Len(versions), w \in Sinks : VersionSound(k, w)
    /\ ScanSound

(* What the properties call visible.                                       *)
LEMMA VisibleIsSeen ==
    ASSUME NEW k, NEW w \in Sinks
    PROVE  Visible(k, w) = Seen(Content(k), w)
<1>1. ASSUME NEW m PROVE m \in Visible(k, w) <=> m \in Seen(Content(k), w)
  <2>1. m \in Visible(k, w) => m \in Seen(Content(k), w)
    <3> SUFFICES ASSUME m \in Visible(k, w) PROVE m \in Seen(Content(k), w)
      OBVIOUS
    <3>1. PICK c \in Content(k) \intersect ({w} \X (1..Chunks[w])) : m = c[2]
      BY DEF Visible, ChunksOf
    <3>2. c = <<w, m>> /\ m \in 1..Chunks[w]
      BY <3>1
    <3>3. QED BY <3>1, <3>2 DEF Seen
  <2>2. m \in Seen(Content(k), w) => m \in Visible(k, w)
    <3> SUFFICES ASSUME m \in Seen(Content(k), w) PROVE m \in Visible(k, w)
      OBVIOUS
    <3>1. <<w, m>> \in Content(k) \intersect ({w} \X (1..Chunks[w])) /\ <<w, m>>[2] = m
      BY DEF Seen
    <3>2. QED BY <3>1 DEF Visible, ChunksOf
  <2>3. QED BY <2>1, <2>2
<1>2. QED BY <1>1

(* The entries of the table.                                               *)
LEMMA VersionFacts ==
    ASSUME DeltaTyped
    PROVE  /\ Len(versions) \in Nat /\ (Exists <=> Len(versions) > 0)
           /\ \A k \in 1..Len(versions) :
                 /\ versions[k] \in Version /\ Content(k) \subseteq Sinks \X Nat
                 /\ Content(k) = versions[k].chunks
           /\ Exists => Len(versions) \in 1..Len(versions) /\ 1 \in 1..Len(versions)
<1>1. versions \in Seq(Version)
  BY DEF DeltaTyped
<1>2. Len(versions) \in Nat /\ (versions # <<>> <=> Len(versions) > 0)
  BY <1>1, EmptySeq
<1>3. \A k \in 1..Len(versions) : versions[k] \in Version
  BY <1>1, ElementOfSeq
<1>4. QED BY <1>2, <1>3 DEF Exists, Content, Version

(* A frame has at least one chunk.                                          *)
LEMMA ChunkCount == \A w \in Sinks : Chunks[w] \in Nat \ {0}
  BY DeltaAssumption

(* An overwrite that has begun stays one.                                  *)
LEMMA OverwrittenKept ==
    ASSUME \A v \in Sinks : sinks[v].next > 1 =>
               sinks'[v].mode = sinks[v].mode /\ sinks'[v].next > 1
    PROVE  \A u \in Sinks : OverwrittenBy(u) => OverwrittenBy(u)'
  BY DEF OverwrittenBy

(* A version that stays says the same of a sink that does.                 *)
LEMMA VersionKept ==
    ASSUME NEW k, NEW u \in Sinks, VersionSound(k, u), Content(k)' = Content(k),
           sinks'[u].next = sinks[u].next, sinks'[u].mode = sinks[u].mode,
           Ignored(u) => Ignored(u)', OverwrittenBy(u) => OverwrittenBy(u)',
           k = Len(versions)' => k = Len(versions)
    PROVE  VersionSound(k, u)'
  BY DEF VersionSound

(* A sink that stays is sound when the first version stays.                *)
LEMMA SinkKept ==
    ASSUME NEW u \in Sinks, SinkSound(u), sinks'[u] = sinks[u],
           Exists => Exists' /\ Content(1)' = Content(1)
    PROVE  SinkSound(u)'
  BY DEF SinkSound, OneCommit

(* What does not touch the table leaves it decoded.                        *)
LEMMA TableKept ==
    ASSUME DeltaInv, versions' = versions
    PROVE  /\ \A k \in 1..Len(versions)' : VersionDecodes(versions[k])'
           /\ TableCreated'
           /\ \A k : Content(k)' = Content(k)
           /\ Len(versions)' = Len(versions) /\ (Exists' <=> Exists)
           /\ scan' = scan => ScanSound'
<1>1. TableCreated'
  BY DEF DeltaInv, TableCreated, Content, Exists, Seen
<1>2. QED BY <1>1 DEF DeltaInv, VersionDecodes, Content, Exists, ScanSound, Opens, AskedOrNew

-----------------------------------------------------------------------------
(* A sink begins, or fails.                                                *)
LEMMA SinkDeltaSound ==
    ASSUME DeltaInv, NEW w \in Sinks, SinkDelta(w)
    PROVE  DeltaInv'
<1>1. /\ sinks \in [Sinks -> Writer] /\ versions' = versions /\ scan' = scan
      /\ sinks[w].pc = "idle" /\ sinks[w].next = 1 /\ SinkSound(w)
  BY DEF DeltaInv, DeltaTyped, SinkDelta, SinkSound
<1>2. PICK mode \in Modes, stream \in BOOLEAN :
         sinks' = [sinks EXCEPT ![w].pc = "writing", ![w].mode = mode, ![w].stream = stream]
  BY DEF SinkDelta
<1>3. /\ sinks' \in [Sinks -> Writer] /\ \A u \in Sinks : u # w => sinks'[u] = sinks[u]
      /\ sinks'[w].pc = "writing" /\ sinks'[w].next = sinks[w].next
  <2>1. sinks' \in [Sinks -> Writer]
    <3>1. sinks' = [sinks EXCEPT ![w] = [sinks[w] EXCEPT !.pc = "writing", !.mode = mode,
                                                          !.stream = stream]]
      BY <1>1, <1>2
    <3>2. PICK s \in Writer : s = sinks[w]
      BY <1>1
    <3>3. [s EXCEPT !.pc = "writing", !.mode = mode, !.stream = stream] \in Writer
      BY DEF Writer
    <3>4. QED BY <1>1, <3>1, <3>2, <3>3
  <2>2. \A u \in Sinks : u # w => sinks'[u] = sinks[u]
    BY <1>1, <1>2
  <2>3. sinks'[w].pc = "writing" /\ sinks'[w].next = sinks[w].next
    BY <1>1, <1>2 DEF Writer
  <2>4. QED BY <2>1, <2>2, <2>3
<1>4. SinkSound(w)'
  <2>1. Chunks[w] \in Nat \ {0}
    BY ChunkCount
  <2>2. QED BY <1>1, <1>3, <2>1 DEF SinkSound
<1>5. \A u \in Sinks : SinkSound(u)'
  <2>1. Exists => Exists' /\ Content(1)' = Content(1)
    BY <1>1, TableKept
  <2>2. QED BY <1>3, <1>4, <2>1, SinkKept DEF DeltaInv
<1>6. \A u \in Sinks : OverwrittenBy(u) => OverwrittenBy(u)'
  <2>1. \A v \in Sinks : sinks[v].next > 1 =>
           sinks'[v].mode = sinks[v].mode /\ sinks'[v].next > 1
    BY <1>1, <1>3
  <2>2. QED BY <2>1, OverwrittenKept
<1>7. ASSUME NEW k \in 1..Len(versions), NEW u \in Sinks PROVE VersionSound(k, u)'
  <2>1. VersionSound(k, u) /\ Content(k)' = Content(k) /\ Len(versions)' = Len(versions)
    BY <1>1, TableKept DEF DeltaInv
  <2>2. CASE u # w
    <3>1. sinks'[u] = sinks[u]
      BY <1>3, <2>2
    <3>2. Ignored(u) => Ignored(u)'
      BY <3>1 DEF Ignored
    <3>3. QED BY <1>6, <2>1, <3>1, <3>2, VersionKept
  <2>3. CASE u = w
    <3>1. Seen(Content(k), w) = {}
      BY <1>1, <2>1, <2>3 DEF VersionSound
    <3>2. Seen(Content(k), w)' = {} /\ sinks'[w].next - 1 = 0 /\ 1..0 = {} /\ 0 \in 0..Chunks[w]
      BY <1>1, <1>3, <2>1, <3>1, ChunkCount DEF Seen
    <3>3. QED BY <2>3, <3>2 DEF VersionSound
  <2>4. QED BY <2>2, <2>3
<1>8. DeltaTyped'
  BY <1>1, <1>3 DEF DeltaInv, DeltaTyped
<1>9. QED BY <1>1, <1>5, <1>7, <1>8, TableKept DEF DeltaInv

(* A sink that fails between two commits.                                   *)
LEMMA SinkRaisesSound ==
    ASSUME DeltaInv, NEW w \in Sinks, SinkRaises(w)
    PROVE  DeltaInv'
<1>1. /\ sinks \in [Sinks -> Writer] /\ versions' = versions /\ scan' = scan
      /\ sinks[w].pc = "writing" /\ SinkSound(w)
  BY DEF DeltaInv, DeltaTyped, SinkRaises
<1>2. /\ sinks' \in [Sinks -> Writer] /\ \A u \in Sinks : u # w => sinks'[u] = sinks[u]
      /\ sinks'[w].pc = "failed" /\ sinks'[w].next = sinks[w].next
      /\ sinks'[w].mode = sinks[w].mode /\ sinks'[w].stream = sinks[w].stream
      /\ sinks[w].found => sinks'[w].found
  BY ZenonT(40), <1>1 DEF SinkRaises, Writer
<1>3. Exists => Exists' /\ Content(1)' = Content(1)
  BY <1>1, TableKept
<1>4. SinkSound(w)'
  BY <1>1, <1>2, <1>3 DEF SinkSound, OneCommit
<1>5. \A u \in Sinks : SinkSound(u)'
  BY <1>2, <1>3, <1>4, SinkKept DEF DeltaInv
<1>6. \A u \in Sinks : OverwrittenBy(u) => OverwrittenBy(u)'
  <2>1. \A v \in Sinks : sinks[v].next > 1 =>
           sinks'[v].mode = sinks[v].mode /\ sinks'[v].next > 1
    BY <1>2
  <2>2. QED BY <2>1, OverwrittenKept
<1>7. ASSUME NEW k \in 1..Len(versions), NEW u \in Sinks PROVE VersionSound(k, u)'
  <2>1. VersionSound(k, u) /\ Content(k)' = Content(k) /\ Len(versions)' = Len(versions)
    BY <1>1, TableKept DEF DeltaInv
  <2>2. sinks'[u].next = sinks[u].next /\ sinks'[u].mode = sinks[u].mode
    BY <1>2
  <2>3. Ignored(u) => Ignored(u)'
    BY <1>2 DEF Ignored
  <2>4. QED BY <1>6, <2>1, <2>2, <2>3, VersionKept
<1>8. DeltaTyped'
  BY <1>1, <1>2 DEF DeltaInv, DeltaTyped
<1>9. QED BY <1>1, <1>5, <1>7, <1>8, TableKept DEF DeltaInv

-----------------------------------------------------------------------------
(* A sink commits.                                                         *)

NextAfter(w) == IF OneCommit(w) THEN Chunks[w] + 1 ELSE sinks[w].next + 1

(* A commit takes its sink to the chunks after it.                          *)
LEMMA WriteSinks ==
    ASSUME DeltaInv, NEW w \in Sinks, WriteDelta(w)
    PROVE  /\ sinks' \in [Sinks -> Writer] /\ \A u \in Sinks : u # w => sinks'[u] = sinks[u]
           /\ sinks'[w].mode = sinks[w].mode /\ sinks'[w].stream = sinks[w].stream
           /\ sinks'[w].next = NextAfter(w)
           /\ sinks'[w].found <=> sinks[w].found \/ (First(w) /\ Exists)
           /\ sinks'[w].pc = IF NextAfter(w) > Chunks[w] THEN "done" ELSE "writing"
           /\ NextAfter(w) \in 2..(Chunks[w] + 1) /\ sinks[w].next < NextAfter(w)
           /\ sinks[w].next <= Chunks[w]
<1>1. /\ sinks \in [Sinks -> Writer] /\ Chunks[w] \in Nat \ {0} /\ sinks[w].next \in Nat \ {0}
      /\ sinks[w].next <= Chunks[w]
  <2>1. sinks \in [Sinks -> Writer] /\ SinkSound(w) /\ sinks[w].pc = "writing"
    BY DEF DeltaInv, DeltaTyped, WriteDelta
  <2>2. sinks[w].next \in Nat \ {0}
    BY <2>1 DEF Writer
  <2>3. QED BY <2>1, <2>2, ChunkCount DEF SinkSound
<1> DEFINE found == sinks[w].found \/ (First(w) /\ Exists)
           pc == IF NextAfter(w) > Chunks[w] THEN "done" ELSE "writing"
<1>2. sinks' = [sinks EXCEPT ![w].next = NextAfter(w), ![w].found = found, ![w].pc = pc]
  BY DEF WriteDelta, NextAfter
<1>3. found \in BOOLEAN /\ pc \in {"done", "writing"}
  BY <1>1 DEF Writer
<1>4. NextAfter(w) \in 2..(Chunks[w] + 1) /\ sinks[w].next < NextAfter(w)
  BY <1>1 DEF NextAfter
<1> HIDE DEF found, pc
<1>5. PICK s \in Writer : s = sinks[w]
  BY <1>1
<1> DEFINE t == [s EXCEPT !.next = NextAfter(w), !.found = found, !.pc = pc]
<1>6. sinks' = [sinks EXCEPT ![w] = t]
  BY <1>1, <1>2, <1>5
<1>7. NextAfter(w) \in Nat \ {0}
  BY <1>1, <1>4
<1>8. t \in Writer
  BY <1>3, <1>7 DEF Writer
<1>9. t.next = NextAfter(w) /\ t.found = found /\ t.pc = pc /\ t.mode = s.mode /\ t.stream = s.stream
  BY DEF Writer
<1> HIDE DEF t
<1>10. sinks' \in [Sinks -> Writer] /\ \A u \in Sinks : u # w => sinks'[u] = sinks[u]
  BY <1>1, <1>6, <1>8
<1>11. sinks'[w] = t
  BY <1>1, <1>6
<1>12. sinks'[w].found = found
  BY <1>9, <1>11
<1>13. sinks'[w].found <=> sinks[w].found \/ (First(w) /\ Exists)
  BY <1>12 DEF found
<1>14. QED BY <1>1, <1>4, <1>5, <1>9, <1>10, <1>11, <1>13 DEF pc

(* A table that is not there is created, one that is ignored stays, and    *)
(* any other gets one version more.                                        *)
Creates(w) ==
    /\ ~Exists /\ First(w)
    /\ versions' = <<[chunks |-> Batch(w), asIs |-> StoredAsIs(w), mapping |-> Description(w)]>>
Ignores(w) == Exists /\ First(w) /\ sinks[w].mode = "ignore" /\ versions' = versions
KeptChunks(w) == IF WriteMode(w) = "overwrite" THEN {} ELSE Current.chunks
Commits(w) ==
    /\ Exists /\ WriteMode(w) # "error"
    /\ Current.asIs <=> StoredAsIs(w)
    /\ \E v \in Version :
          /\ versions' = Append(versions, v)
          /\ v.chunks = KeptChunks(w) \cup Batch(w)
          /\ v.asIs = Current.asIs /\ v.mapping = Current.mapping

(* A commit has all chunks of its sink, or the next one.                    *)
LEMMA BatchTyped ==
    ASSUME DeltaInv, NEW w \in Sinks, WriteDelta(w)
    PROVE  /\ Batch(w) \subseteq {w} \X (1..Chunks[w])
           /\ Batch(w) \in SUBSET (Sinks \X Nat)
           /\ \A m \in 1..Chunks[w] : <<w, m>> \in Batch(w) <=> OneCommit(w) \/ m = sinks[w].next
<1>1. sinks[w].next \in Nat \ {0} /\ Chunks[w] \in Nat /\ sinks[w].next <= Chunks[w]
  BY WriteSinks, ChunkCount DEF DeltaInv, DeltaTyped, Writer
<1>2. sinks[w].next \in 1..Chunks[w]
  BY <1>1
<1>3. QED BY <1>1, <1>2 DEF Batch, ChunksOf

(* A commit creates the table, is ignored, or adds a version.               *)
LEMMA WriteVersions ==
    ASSUME DeltaInv, NEW w \in Sinks, WriteDelta(w)
    PROVE  Creates(w) \/ Ignores(w) \/ Commits(w)
<1>1. SinkSound(w) /\ ~Refuses(w) /\ versions' = Committed(w) /\ sinks[w].next \in Nat \ {0}
  BY DEF DeltaInv, DeltaTyped, WriteDelta, Writer
<1>2. CASE ~Exists
  <2>1. First(w)
    BY <1>1, <1>2 DEF SinkSound, First
  <2>2. QED BY <1>1, <1>2, <2>1 DEF Committed, Creates
<1>3. CASE Exists /\ WriteMode(w) = "ignore"
  BY <1>1, <1>3 DEF Committed, Ignores, WriteMode
<1>4. CASE Exists /\ WriteMode(w) # "ignore"
  <2>1. WriteMode(w) # "error" /\ Current.asIs = StoredAsIs(w)
    BY <1>1, <1>4 DEF Refuses
  <2>2. Current \in Version
    BY <1>4, VersionFacts DEF DeltaInv, Current
  <2>3. PICK cur \in Version : cur = Current
    BY <2>2
  <2> DEFINE v == [cur EXCEPT !.chunks = KeptChunks(w) \cup Batch(w)]
  <2>4. KeptChunks(w) \cup Batch(w) \in SUBSET (Sinks \X Nat)
    BY <2>2, BatchTyped DEF KeptChunks, Version
  <2>5. v \in Version
    BY <2>4 DEF Version
  <2>6. v.chunks = KeptChunks(w) \cup Batch(w) /\ v.asIs = cur.asIs /\ v.mapping = cur.mapping
    BY DEF Version
  <2>7. versions' = Append(versions, v)
    BY <1>1, <1>4, <2>3 DEF Committed, KeptChunks
  <2> HIDE DEF v
  <2>8. Current.asIs <=> StoredAsIs(w)
    BY <2>1
  <2>9. QED BY <1>4, <2>1, <2>3, <2>5, <2>6, <2>7, <2>8 DEF Commits
<1>5. QED BY <1>2, <1>3, <1>4

(* What a commit changes of the sinks.                                     *)
LEMMA WriteOthers ==
    ASSUME DeltaInv, NEW w \in Sinks, WriteDelta(w), NEW u \in Sinks
    PROVE  /\ OverwrittenBy(u) => OverwrittenBy(u)'
           /\ u # w /\ sinks[w].mode = "overwrite" => OverwrittenBy(u)'
           /\ u # w => (OverwrittenBy(u)' /\ sinks[w].mode # "overwrite" => OverwrittenBy(u))
           /\ Ignored(u) => Ignored(u)'
           /\ u # w => (Ignored(u)' <=> Ignored(u))
           /\ OverwrittenBy(w)' <=> OverwrittenBy(w)
<1>1. /\ \A v \in Sinks : v # w => sinks'[v] = sinks[v]
      /\ sinks'[w].mode = sinks[w].mode /\ sinks'[w].next > 1
      /\ sinks[w].found => sinks'[w].found
  BY WriteSinks
<1>2. Ignored(u) => Ignored(u)'
  BY <1>1 DEF Ignored
<1>3. u # w => (Ignored(u)' <=> Ignored(u))
  BY <1>1 DEF Ignored
<1>4. OverwrittenBy(u) => OverwrittenBy(u)'
  BY <1>1, OverwrittenKept
<1>5. u # w /\ sinks[w].mode = "overwrite" => OverwrittenBy(u)'
  BY <1>1 DEF OverwrittenBy
<1>6. u # w => (OverwrittenBy(u)' /\ sinks[w].mode # "overwrite" => OverwrittenBy(u))
  BY <1>1 DEF OverwrittenBy
<1>7. OverwrittenBy(w)' <=> OverwrittenBy(w)
  BY <1>1 DEF OverwrittenBy
<1>8. QED BY <1>2, <1>3, <1>4, <1>5, <1>6, <1>7

(* The sink that commits stays sound.                                      *)
LEMMA WrittenSound ==
    ASSUME DeltaInv, NEW w \in Sinks, WriteDelta(w), Exists',
           sinks[w].mode = "error" => Seen(Content(1), w)' # {}
    PROVE  SinkSound(w)'
<1>1. /\ sinks'[w].mode = sinks[w].mode /\ sinks'[w].stream = sinks[w].stream
      /\ sinks'[w].next = NextAfter(w) /\ NextAfter(w) \in 2..(Chunks[w] + 1)
      /\ sinks'[w].pc = IF NextAfter(w) > Chunks[w] THEN "done" ELSE "writing"
      /\ Chunks[w] \in Nat \ {0}
  BY WriteSinks, ChunkCount
<1>2. OneCommit(w)' <=> OneCommit(w)
  BY <1>1 DEF OneCommit
<1>3. sinks'[w].next \in 1..(Chunks[w] + 1) /\ sinks'[w].pc # "idle"
  BY <1>1
<1>4. sinks'[w].pc = "writing" => sinks'[w].next <= Chunks[w]
  BY <1>1
<1>5. sinks'[w].pc = "done" => sinks'[w].next = Chunks[w] + 1
  BY <1>1
<1>6. OneCommit(w)' => sinks'[w].next \in {1, Chunks[w] + 1}
  BY <1>1, <1>2 DEF NextAfter
<1>7. QED BY <1>1, <1>3, <1>4, <1>5, <1>6 DEF SinkSound

(* The first commit makes the table.                                       *)
LEMMA CreatesSound ==
    ASSUME DeltaInv, NEW w \in Sinks, WriteDelta(w), Creates(w)
    PROVE  DeltaInv'
<1> DEFINE v == [chunks |-> Batch(w), asIs |-> StoredAsIs(w), mapping |-> Description(w)]
<1>1. /\ versions' = <<v>> /\ scan' = scan /\ ~Exists /\ sinks[w].next = 1
      /\ v \in Version
  <2>1. StoredAsIs(w) \in BOOLEAN /\ Description(w) \in Units
    BY DEF StoredAsIs, Description, Units
  <2>2. v \in Version
    BY <2>1, BatchTyped DEF Version
  <2>3. QED BY <2>2 DEF Creates, WriteDelta, First
<1>2. v.chunks = Batch(w) /\ (v.asIs <=> Unit[w] = Plain) /\ v.mapping = Unit[w]
  <2>1. v.chunks = Batch(w) /\ v.asIs = StoredAsIs(w) /\ v.mapping = Description(w)
    OBVIOUS
  <2>2. QED BY <1>1, <2>1 DEF StoredAsIs, Description, First
<1> HIDE DEF v
<1>3. /\ versions' \in Seq(Version) /\ Len(versions') = 1 /\ versions'[1] = v
      /\ Exists' /\ Content(1)' = Batch(w)
  BY <1>1, <1>2 DEF Exists, Content
<1>4. /\ sinks' \in [Sinks -> Writer] /\ \A u \in Sinks : u # w => sinks'[u] = sinks[u]
      /\ sinks'[w].next = NextAfter(w) /\ Chunks[w] \in Nat \ {0}
      /\ \A m \in 1..Chunks[w] : <<w, m>> \in Batch(w) <=> OneCommit(w) \/ m = 1
      /\ Batch(w) \subseteq {w} \X (1..Chunks[w])
  BY <1>1, WriteSinks, BatchTyped, ChunkCount
<1>5. Seen(Content(1), w)' = IF OneCommit(w) THEN 1..Chunks[w] ELSE {1}
  <2>1. Seen(Batch(w), w) = IF OneCommit(w) THEN 1..Chunks[w] ELSE {1}
    <3>1. 1 \in 1..Chunks[w]
      BY <1>4
    <3>2. QED BY <1>4, <3>1 DEF Seen
  <2>2. Seen(Content(1), w)' = Seen(Batch(w), w)
    BY <1>3 DEF Seen
  <2>3. QED BY <2>1, <2>2
<1>6. \A u \in Sinks : SinkSound(u)'
  <2>1. Seen(Content(1), w)' # {}
    <3>1. 1 \in 1..Chunks[w]
      BY <1>4
    <3>2. QED BY <1>5, <3>1
  <2>2. SinkSound(w)'
    BY <1>3, <2>1, WrittenSound
  <2>3. QED BY <1>1, <1>4, <2>2, SinkKept DEF DeltaInv
<1>7. VersionSound(1, w)'
  <2>1. Seen(Content(1), w)' = 1..(NextAfter(w) - 1)
    <3>1. CASE OneCommit(w)
      <4>1. NextAfter(w) - 1 = Chunks[w]
        BY <1>4, <3>1 DEF NextAfter
      <4>2. QED BY <1>5, <3>1, <4>1
    <3>2. CASE ~OneCommit(w)
      <4>1. NextAfter(w) - 1 = 1
        BY <1>1, <3>2 DEF NextAfter
      <4>2. QED BY <1>5, <3>2, <4>1
    <3>3. QED BY <3>1, <3>2
  <2>2. NextAfter(w) - 1 \in 0..Chunks[w]
    <3>1. NextAfter(w) \in 2..(Chunks[w] + 1)
      BY WriteSinks
    <3>2. QED BY <1>4, <3>1
  <2>3. sinks'[w].mode = "overwrite" => Seen(Content(1), w)' = 1..Chunks[w]
    <3>1. sinks'[w].mode = sinks[w].mode
      BY WriteSinks
    <3>2. QED BY <1>5, <3>1 DEF OneCommit
  <2>4. QED BY <1>4, <2>1, <2>2, <2>3 DEF VersionSound
<1>8. ASSUME NEW u \in Sinks, u # w PROVE VersionSound(1, u)'
  <2>1. Seen(Content(1), u)' = {}
    <3>1. \A m : <<u, m>> \notin Batch(w)
      BY <1>4, <1>8
    <3>2. QED BY <1>3, <3>1 DEF Seen
  <2>2. sinks'[u].next = 1
    <3>1. SinkSound(u) /\ sinks[u].next \in Nat \ {0}
      BY DEF DeltaInv, DeltaTyped, Writer
    <3>2. QED BY <1>1, <1>4, <1>8, <3>1 DEF SinkSound
  <2>3. 1..0 = {} /\ 0 \in 0..Chunks[u] /\ sinks'[u].next - 1 = 0
    BY <2>2, ChunkCount
  <2>4. QED BY <2>1, <2>3 DEF VersionSound
<1>9. VersionDecodes(versions[1])'
  <2>1. \A c \in versions'[1].chunks : Unit[c[1]] = Plain <=> versions'[1].mapping = Plain
    BY <1>2, <1>3, <1>4
  <2>2. versions'[1].asIs <=> versions'[1].mapping = Plain
    BY <1>2, <1>3
  <2>3. QED BY <2>1, <2>2 DEF VersionDecodes
<1>10. ScanSound'
  <2>1. scan.pc = "idle" /\ scan.collects = 0
    BY <1>1 DEF DeltaInv, DeltaTyped, ScanSound, Scanner
  <2>2. QED BY <1>1, <2>1 DEF ScanSound
<1>11. \A k \in 1..Len(versions') : k = 1
  BY <1>3
<1>12. DeltaTyped'
  BY <1>1, <1>3, <1>4 DEF DeltaInv, DeltaTyped
<1>13. \A k \in 1..Len(versions') : VersionDecodes(versions[k])'
  BY <1>9, <1>11
<1>14. TableCreated'
  <2>1. 1 \in 1..Chunks[w]
    BY <1>4
  <2>2. Seen(Content(1), w)' # {}
    BY <1>5, <2>1
  <2>3. QED BY <1>2, <1>3, <2>2 DEF TableCreated
<1>15. QED BY <1>6, <1>7, <1>8, <1>10, <1>11, <1>12, <1>13, <1>14 DEF DeltaInv

(* A sink that ignores the table it found.                                 *)
LEMMA IgnoresSound ==
    ASSUME DeltaInv, NEW w \in Sinks, WriteDelta(w), Ignores(w)
    PROVE  DeltaInv'
<1>1. /\ versions' = versions /\ scan' = scan /\ Exists /\ sinks[w].mode = "ignore"
      /\ sinks' \in [Sinks -> Writer] /\ \A u \in Sinks : u # w => sinks'[u] = sinks[u]
      /\ sinks'[w].mode = "ignore" /\ sinks'[w].found
      /\ sinks'[w].next = NextAfter(w) /\ sinks[w].next < NextAfter(w)
      /\ NextAfter(w) \in 2..(Chunks[w] + 1) /\ sinks[w].next \in Nat
  BY WriteSinks DEF Ignores, WriteDelta, DeltaInv, DeltaTyped, Writer
<1>2. Exists' /\ Len(versions)' = Len(versions) /\ \A k : Content(k)' = Content(k)
  BY <1>1, TableKept
<1>3. \A u \in Sinks : SinkSound(u)'
  BY <1>1, <1>2, SinkKept, WrittenSound DEF DeltaInv
<1>4. ASSUME NEW k \in 1..Len(versions), NEW u \in Sinks PROVE VersionSound(k, u)'
  <2>1. VersionSound(k, u)
    BY DEF DeltaInv
  <2>2. CASE u # w
    BY <1>1, <1>2, <2>1, <2>2, VersionKept, WriteOthers
  <2>3. CASE u = w
    <3>1. Ignored(w)'
      BY <1>1 DEF Ignored
    <3>2. Seen(Content(k), w)' \subseteq 1..(sinks[w].next - 1)
      BY <1>2, <2>1, <2>3 DEF VersionSound, Seen
    <3>3. 1..(sinks[w].next - 1) \subseteq 1..(sinks'[w].next - 1)
      BY <1>1
    <3>4. QED BY <1>1, <2>3, <3>1, <3>2, <3>3 DEF VersionSound
  <2>4. QED BY <2>2, <2>3
<1>5. DeltaTyped'
  BY <1>1 DEF DeltaInv, DeltaTyped
<1>6. QED BY <1>1, <1>3, <1>4, <1>5, TableKept DEF DeltaInv

(* A commit to the table that was found.                                   *)
LEMMA CommitsSound ==
    ASSUME DeltaInv, NEW w \in Sinks, WriteDelta(w), Commits(w)
    PROVE  DeltaInv'
<1>0. PICK n \in Nat : n = Len(versions)
  BY VersionFacts DEF DeltaInv
<1>1. PICK v \in Version :
         /\ versions' = Append(versions, v)
         /\ v.chunks = KeptChunks(w) \cup Batch(w)
         /\ v.asIs = Current.asIs /\ v.mapping = Current.mapping
  BY DEF Commits
<1>2. /\ versions \in Seq(Version) /\ n \in 1..n /\ 1 \in 1..n /\ n \in Nat /\ n > 0
      /\ Current = versions[n] /\ Current \in Version /\ scan' = scan
  BY <1>0, VersionFacts DEF DeltaInv, DeltaTyped, Commits, Current, WriteDelta
<1>3. /\ versions' \in Seq(Version) /\ Len(versions') = n + 1 /\ Exists'
      /\ \A k \in 1..n : versions'[k] = versions[k]
      /\ versions'[n + 1] = v
  <2>1. /\ versions' \in Seq(Version) /\ Len(versions') = n + 1 /\ versions' # <<>>
        /\ \A k \in 1..n : versions'[k] = versions[k]
        /\ versions'[n + 1] = v
    BY <1>0, <1>1, <1>2, AppendProperties
  <2>2. QED BY <2>1 DEF Exists
<1>4. /\ \A k \in 1..n : Content(k)' = Content(k)
      /\ Content(n + 1)' = KeptChunks(w) \cup Batch(w)
  BY <1>1, <1>3 DEF Content
<1>5. /\ sinks' \in [Sinks -> Writer] /\ \A u \in Sinks : u # w => sinks'[u] = sinks[u]
      /\ sinks'[w].mode = sinks[w].mode
      /\ sinks'[w].next = NextAfter(w) /\ sinks[w].next < NextAfter(w)
      /\ NextAfter(w) \in 2..(Chunks[w] + 1) /\ Chunks[w] \in Nat \ {0}
      /\ sinks[w].next \in Nat \ {0} /\ sinks[w].next <= Chunks[w]
      /\ \A m \in 1..Chunks[w] : <<w, m>> \in Batch(w) <=> OneCommit(w) \/ m = sinks[w].next
      /\ Batch(w) \subseteq {w} \X (1..Chunks[w])
  BY WriteSinks, BatchTyped, ChunkCount DEF DeltaInv, DeltaTyped, Writer
<1>6. \A u \in Sinks : SinkSound(u)'
  <2>1. ASSUME sinks[w].mode = "error" PROVE Seen(Content(1), w)' # {}
    <3>1. sinks[w].next # 1
      BY <2>1 DEF Commits, WriteMode, First
    <3>2. sinks[w].next > 1
      BY <1>5, <3>1
    <3>3. Seen(Content(1), w) # {}
      BY <2>1, <3>2 DEF DeltaInv, SinkSound
    <3>4. QED BY <1>2, <1>4, <3>3 DEF Seen
  <2>2. SinkSound(w)'
    BY <1>3, <2>1, WrittenSound
  <2>3. QED BY <1>2, <1>3, <1>4, <1>5, <2>2, SinkKept DEF DeltaInv
<1>7. ASSUME NEW k \in 1..n, NEW u \in Sinks PROVE VersionSound(k, u)'
  <2>1. VersionSound(k, u) /\ Content(k)' = Content(k) /\ k # n + 1
    BY <1>0, <1>2, <1>4 DEF DeltaInv
  <2>2. CASE u # w
    BY <1>3, <1>5, <2>1, <2>2, VersionKept, WriteOthers
  <2>3. CASE u = w
    <3>1. /\ Seen(Content(k), w)' = Seen(Content(k), w)
          /\ 1..(sinks[w].next - 1) \subseteq 1..(sinks'[w].next - 1)
      BY <1>5, <2>1 DEF Seen
    <3>2. Ignored(w) => Ignored(w)'
      BY WriteOthers
    <3>3. OverwrittenBy(w) => OverwrittenBy(w)'
      BY WriteOthers
    <3>4. QED BY <1>3, <1>5, <2>1, <2>3, <3>1, <3>2, <3>3 DEF VersionSound
  <2>4. QED BY <2>2, <2>3
<1>8. ASSUME NEW u \in Sinks, u # w PROVE VersionSound(n + 1, u)'
  <2>1. VersionSound(n, u) /\ Content(n) = Current.chunks
    BY <1>0, <1>2 DEF DeltaInv, Content
  <2>2. Seen(Content(n + 1), u)' = Seen(KeptChunks(w), u)
    <3>1. \A m : <<u, m>> \notin Batch(w)
      BY <1>5, <1>8
    <3>2. QED BY <1>4, <3>1 DEF Seen
  <2>3. sinks'[u] = sinks[u] /\ Len(versions)' = n + 1 /\ n = Len(versions)
    BY <1>0, <1>3, <1>5, <1>8
  <2>4. CASE WriteMode(w) = "overwrite"
    <3>1. Seen(Content(n + 1), u)' = {}
      BY <2>2, <2>4 DEF KeptChunks, Seen
    <3>2. OverwrittenBy(u)'
      <4>1. sinks[w].mode = "overwrite"
        BY <2>4 DEF WriteMode
      <4>2. QED BY <1>8, <4>1, WriteOthers
    <3>3. QED BY <3>1, <3>2 DEF VersionSound
  <2>5. CASE WriteMode(w) # "overwrite"
    <3>1. Seen(Content(n + 1), u)' = Seen(Content(n), u)
      BY <2>1, <2>2, <2>5 DEF KeptChunks
    <3>2. OverwrittenBy(u) => OverwrittenBy(u)'
      BY WriteOthers
    <3>3. Ignored(u) => Ignored(u)'
      BY WriteOthers
    <3>4. QED BY <2>1, <2>3, <3>1, <3>2, <3>3 DEF VersionSound
  <2>6. QED BY <2>4, <2>5
<1>9. VersionSound(n + 1, w)'
  <2> DEFINE seen == Seen(Content(n + 1), w)'
  <2>1. VersionSound(n, w) /\ Content(n) = Current.chunks /\ n = Len(versions)
    BY <1>0, <1>2 DEF DeltaInv, Content
  <2>2. seen = {m \in 1..Chunks[w] : <<w, m>> \in KeptChunks(w) \/ OneCommit(w) \/ m = sinks[w].next}
    BY <1>4, <1>5 DEF Seen
  <2> HIDE DEF seen
  <2>3. Len(versions)' = n + 1 /\ (Ignored(w) => Ignored(w)') /\ (OverwrittenBy(w) => OverwrittenBy(w)')
    BY <1>3, WriteOthers
  <2>4. CASE OneCommit(w)
    <3>1. seen = 1..Chunks[w] /\ sinks'[w].next - 1 = Chunks[w]
      BY <1>5, <2>2, <2>4 DEF NextAfter
    <3>2. Chunks[w] \in 0..Chunks[w]
      BY <1>5
    <3>3. QED BY <3>1, <3>2 DEF VersionSound, seen
  <2>5. CASE ~OneCommit(w)
    <3>1. sinks[w].mode # "overwrite" /\ WriteMode(w) # "overwrite" /\ KeptChunks(w) = Content(n)
      BY <2>1, <2>5 DEF OneCommit, WriteMode, KeptChunks
    <3>2. seen = Seen(Content(n), w) \cup {sinks[w].next} /\ sinks'[w].next - 1 = sinks[w].next
      BY <1>5, <2>2, <2>5, <3>1 DEF NextAfter, Seen
    <3>3. seen \subseteq 1..(sinks'[w].next - 1)
      BY <1>5, <2>1, <3>2 DEF VersionSound
    <3>4. ASSUME ~Ignored(w)', ~OverwrittenBy(w)' PROVE seen = 1..(sinks'[w].next - 1)
      <4>1. Seen(Content(n), w) = 1..(sinks[w].next - 1)
        BY <2>1, <2>3, <3>4 DEF VersionSound
      <4>2. QED BY <1>5, <3>2, <4>1
    <3>5. sinks'[w].next - 1 \in 0..Chunks[w]
      BY <1>5, <3>2
    <3>6. QED BY <1>5, <3>1, <3>3, <3>4, <3>5 DEF VersionSound, seen
  <2>6. QED BY <2>4, <2>5
<1>10. ASSUME NEW k \in 1..n PROVE VersionDecodes(versions[k])'
  BY <1>0, <1>2, <1>3 DEF DeltaInv, VersionDecodes
<1>11. VersionDecodes(versions[n + 1])'
  <2>1. VersionDecodes(Current)
    BY <1>0, <1>2 DEF DeltaInv
  <2>2. Unit[w] = Plain <=> Current.mapping = Plain
    BY <2>1 DEF Commits, StoredAsIs, VersionDecodes
  <2>3. \A c \in Batch(w) : Unit[c[1]] = Plain <=> Current.mapping = Plain
    BY <1>5, <2>2
  <2>4. \A c \in KeptChunks(w) : Unit[c[1]] = Plain <=> Current.mapping = Plain
    BY <2>1 DEF KeptChunks, VersionDecodes
  <2>5. Current.mapping = versions'[1].mapping
    BY <1>2, <1>3, <2>1 DEF VersionDecodes
  <2>6. v.asIs <=> v.mapping = Plain
    BY <1>1, <2>1 DEF VersionDecodes
  <2>7. QED BY <1>1, <1>3, <2>3, <2>4, <2>5, <2>6 DEF VersionDecodes
<1>12. ScanSound'
  <2>1. /\ ScanSound /\ scan \in Scanner /\ Len(versions)' = n + 1 /\ n = Len(versions)
    BY <1>0, <1>3 DEF DeltaInv, DeltaTyped
  <2>2. versions'[1].mapping = versions[1].mapping
    BY <1>2, <1>3
  <2>3. scan.made \in Nat /\ 1..n \subseteq 1..(n + 1)
    BY <1>2, <2>1 DEF Scanner
  <2>4. scan'.pc = "made" =>
          /\ Exists' /\ scan'.mapping = versions'[1].mapping
          /\ scan'.made <= Len(versions') /\ Opens(scan', Len(versions'))
    BY <1>2, <1>3, <2>1, <2>2, <2>3 DEF ScanSound, Opens
  <2>5. scan'.collects > 0 =>
          /\ scan'.at \in 1..Len(versions') /\ scan'.read = Content(scan.at)'
          /\ AskedOrNew(scan')
    BY <1>2, <1>4, <2>1, <2>3 DEF ScanSound
  <2>6. AskedOrNew(scan') <=> AskedOrNew(scan)'
    BY DEF AskedOrNew
  <2>7. Opens(scan', Len(versions')) <=> Opens(scan, Len(versions))'
    BY DEF Opens
  <2>8. QED BY <1>2, <2>1, <2>4, <2>5, <2>6, <2>7 DEF ScanSound
<1>13. DeltaTyped'
  BY <1>2, <1>3, <1>5 DEF DeltaInv, DeltaTyped
<1>14. \A k \in 1..Len(versions') : k \in 1..n \/ k = n + 1
  BY <1>2, <1>3
<1>15. \A k \in 1..Len(versions') : VersionDecodes(versions[k])'
  BY <1>10, <1>11, <1>14
<1>16. \A k \in 1..Len(versions'), u \in Sinks : VersionSound(k, u)'
  BY <1>7, <1>8, <1>9, <1>14
<1>17. TableCreated'
  <2>1. Exists /\ versions'[1] = versions[1] /\ Content(1)' = Content(1)
    BY <1>2, <1>3, <1>4 DEF Commits
  <2>2. QED BY <2>1 DEF DeltaInv, TableCreated, Seen
<1>18. QED BY <1>6, <1>12, <1>13, <1>15, <1>16, <1>17 DEF DeltaInv

(* A commit keeps DeltaInv.                                                 *)
LEMMA WriteDeltaSound ==
    ASSUME DeltaInv, NEW w \in Sinks, WriteDelta(w)
    PROVE  DeltaInv'
  BY WriteVersions, CreatesSound, IgnoresSound, CommitsSound

-----------------------------------------------------------------------------
(* A scan leaves the table and the sinks alone.                            *)
LEMMA ScanOnly ==
    ASSUME DeltaInv, UNCHANGED <<versions, sinks>>, scan' \in Scanner, ScanSound'
    PROVE  DeltaInv'
<1>1. \A w \in Sinks : SinkSound(w)'
  BY TableKept, SinkKept DEF DeltaInv
<1>2. \A k \in 1..Len(versions), w \in Sinks : VersionSound(k, w)'
  <2> SUFFICES ASSUME NEW k \in 1..Len(versions), NEW w \in Sinks
               PROVE  VersionSound(k, w)'
    OBVIOUS
  <2>1. VersionSound(k, w) /\ Content(k)' = Content(k)
    BY TableKept DEF DeltaInv
  <2>2. Ignored(w) => Ignored(w)'
    BY DEF Ignored
  <2>3. OverwrittenBy(w) => OverwrittenBy(w)'
    BY DEF OverwrittenBy
  <2>4. QED BY <2>1, <2>2, <2>3, VersionKept
<1>3. DeltaTyped'
  BY DEF DeltaInv, DeltaTyped
<1>4. QED BY <1>1, <1>2, <1>3, TableKept DEF DeltaInv

(* A scan is made: every version it could take the description of has that *)
(* of the first.                                                           *)
LEMMA ScanDeltaSound ==
    ASSUME DeltaInv, ScanDelta
    PROVE  DeltaInv'
<1>1. PICK n \in Nat : n = Len(versions)
  BY VersionFacts DEF DeltaInv
<1>2. /\ Exists /\ n \in 1..n /\ scan \in Scanner /\ scan.pc = "idle" /\ scan.collects = 0
      /\ versions' = versions /\ sinks' = sinks /\ versions \in Seq(Version)
      /\ \A k \in 1..n : versions[k] \in Version /\ versions[k].mapping = versions[1].mapping
  BY <1>1, VersionFacts DEF DeltaInv, DeltaTyped, ScanSound, ScanDelta, VersionDecodes
<1>3. PICK asked \in {Latest} \union (1..n), timed \in BOOLEAN, pushdown \in BOOLEAN :
         /\ timed => asked # Latest
         /\ LET int == IF timed THEN Latest ELSE asked
            IN scan' = [scan EXCEPT !.pc = "made", !.asked = asked, !.timed = timed,
                            !.opens = IF pushdown THEN int ELSE asked,
                            !.mapping = versions[VersionOf(int)].mapping, !.made = n]
  <2>1. DOMAIN versions = 1..n
    BY <1>1, <1>2
  <2>2. QED BY <1>1, <2>1 DEF ScanDelta
<1>4. PICK m \in Units : m = versions[1].mapping
  BY <1>2 DEF Version
<1>5. PICK int \in {Latest} \cup (1..n) : int = IF timed THEN Latest ELSE asked
  OBVIOUS
<1>6. PICK opens \in {Latest} \cup (1..n) : opens = IF pushdown THEN int ELSE asked
  OBVIOUS
<1>7. versions[VersionOf(int)].mapping = m
  <2>1. VersionOf(int) \in 1..n
    BY <1>1, <1>2 DEF VersionOf
  <2>2. QED BY <1>2, <1>4, <2>1
<1>8. PICK s \in Scanner : s = scan
  BY <1>2
<1> DEFINE t == [s EXCEPT !.pc = "made", !.asked = asked, !.timed = timed, !.opens = opens,
                          !.mapping = m, !.made = n]
<1>9. scan' = t
  BY <1>3, <1>5, <1>6, <1>7, <1>8
<1>10. asked \in {Latest} \cup Nat /\ opens \in {Latest} \cup Nat /\ "made" \in {"idle", "made"}
  OBVIOUS
<1>11. t \in Scanner
  BY <1>10 DEF Scanner
<1>12. /\ t.pc = "made" /\ t.asked = asked /\ t.timed = timed /\ t.opens = opens
       /\ t.made = n /\ t.mapping = m /\ t.collects = s.collects
  BY DEF Scanner
<1> HIDE DEF t
<1>13. ScanSound'
  <2>1. scan'.pc = "made" /\ scan'.collects = 0 /\ Exists' /\ Len(versions') = n
    BY <1>1, <1>2, <1>8, <1>9, <1>12 DEF Exists
  <2>2. scan'.mapping = versions'[1].mapping /\ scan'.made <= n
    BY <1>2, <1>4, <1>9, <1>12
  <2>3. opens = asked \/ (timed /\ opens = Latest)
    BY <1>5, <1>6
  <2>4. Opens(scan, Len(versions))'
    BY <1>9, <1>12, <2>1, <2>3 DEF Opens
  <2>5. QED BY <2>1, <2>2, <2>4 DEF ScanSound
<1>14. QED BY <1>2, <1>9, <1>11, <1>13, ScanOnly

(* A collect reads a version that is there.                                *)
LEMMA CollectDeltaSound ==
    ASSUME DeltaInv, CollectDelta
    PROVE  DeltaInv'
<1>1. PICK n \in Nat : n = Len(versions)
  BY VersionFacts DEF DeltaInv
<1>2. /\ Exists /\ n \in 1..n /\ scan \in Scanner /\ scan.pc = "made" /\ ScanSound
      /\ versions' = versions /\ sinks' = sinks /\ scan.made <= n
      /\ scan.opens \in {Latest} \cup (1..n)
      /\ scan.opens = scan.asked \/ (scan.timed /\ scan.opens = Latest)
  BY <1>1, VersionFacts DEF DeltaInv, DeltaTyped, ScanSound, Opens, CollectDelta
<1>3. PICK at \in 1..n : at = CollectVersion
  BY <1>1, <1>2 DEF CollectVersion, VersionOf
<1>4. PICK chunks \in SUBSET (Sinks \X Nat) : chunks = Content(at)
  BY <1>1, <1>3, VersionFacts DEF DeltaInv
<1>5. PICK s \in Scanner : s = scan
  BY <1>2
<1> DEFINE t == [s EXCEPT !.collects = s.collects + 1, !.at = at, !.read = chunks]
<1>6. scan' = t
  BY <1>3, <1>4, <1>5 DEF CollectDelta
<1>7. s.collects \in Nat /\ s.collects + 1 \in Nat /\ s.collects + 1 > 0 /\ at \in Nat
  BY DEF Scanner
<1>8. t \in Scanner
  BY <1>7 DEF Scanner
<1>9. /\ t.pc = s.pc /\ t.asked = s.asked /\ t.timed = s.timed /\ t.opens = s.opens
      /\ t.made = s.made /\ t.mapping = s.mapping /\ t.at = at /\ t.read = chunks
  BY DEF Scanner
<1> HIDE DEF t
<1>10. ScanSound'
  <2>1. Exists' /\ Len(versions') = n /\ Content(at)' = Content(at)
    BY <1>1, <1>2 DEF Exists, Content
  <2>2. scan'.pc = "made" /\ scan'.mapping = versions'[1].mapping /\ scan'.made <= n
    BY <1>2, <1>5, <1>6, <1>9 DEF ScanSound
  <2>3. /\ scan'.asked = scan.asked /\ scan'.timed = scan.timed /\ scan'.opens = scan.opens
        /\ scan'.made = scan.made /\ scan.made \in Nat
    BY <1>2, <1>5, <1>6, <1>9 DEF Scanner
  <2>4. Opens(scan, Len(versions))'
    BY <1>2, <2>1, <2>3 DEF Opens
  <2>5. scan'.at = at /\ scan'.read = Content(at)'
    BY <1>4, <1>6, <1>9, <2>1
  <2>6. AskedOrNew(scan)'
    <3>1. CASE scan.opens = Latest
      <4>1. at = n
        BY <1>1, <1>3, <3>1 DEF CollectVersion, VersionOf
      <4>2. scan.asked = Latest \/ scan.timed
        BY <1>2, <3>1
      <4>3. QED BY <1>2, <2>3, <2>5, <4>1, <4>2 DEF AskedOrNew
    <3>2. CASE scan.opens # Latest
      <4>1. at = scan.asked /\ scan.asked # Latest
        BY <1>2, <1>3, <3>2 DEF CollectVersion, VersionOf
      <4>2. QED BY <2>3, <2>5, <4>1 DEF AskedOrNew
    <3>3. QED BY <3>1, <3>2
  <2>7. scan'.at \in 1..Len(versions') /\ scan'.read = Content(scan.at)'
    BY <2>1, <2>5
  <2>8. scan'.made <= Len(versions')
    BY <2>1, <2>2
  <2>9. QED BY <2>1, <2>2, <2>4, <2>6, <2>7, <2>8 DEF ScanSound
<1>11. QED BY <1>2, <1>6, <1>8, <1>10, ScanOnly

(* There is no version at first, and no sink has written.                  *)
LEMMA DeltaInitial ==
    ASSUME DeltaInit
    PROVE  DeltaInv
<1>1. versions = <<>> /\ versions \in Seq(Version) /\ Len(versions) = 0 /\ ~Exists
  BY DEF DeltaInit, Exists
<1>2. sinks \in [Sinks -> Writer]
  BY DEF DeltaInit, Writer
<1>3. scan \in Scanner
  BY DEF DeltaInit, Scanner, Units
<1>4. ASSUME NEW w \in Sinks PROVE SinkSound(w)
  <2>1. /\ sinks[w].next = 1 /\ sinks[w].pc = "idle" /\ sinks[w].mode = "none"
        /\ Chunks[w] \in Nat \ {0}
    BY ChunkCount DEF DeltaInit
  <2>2. QED BY <2>1 DEF SinkSound
<1>5. ScanSound
  BY DEF DeltaInit, ScanSound
<1>6. \A k : k \notin 1..Len(versions)
  BY <1>1
<1>7. QED BY <1>1, <1>2, <1>3, <1>4, <1>5, <1>6 DEF DeltaInv, DeltaTyped, TableCreated

(* A step keeps DeltaInv.                                                   *)
LEMMA DeltaStep ==
    ASSUME DeltaInv, [DeltaNext]_deltaVars
    PROVE  DeltaInv'
<1>1. ASSUME NEW w \in Sinks, SinkDelta(w) PROVE DeltaInv'
  BY <1>1, SinkDeltaSound
<1>2. ASSUME NEW w \in Sinks, WriteDelta(w) PROVE DeltaInv'
  BY <1>2, WriteDeltaSound
<1>3. ASSUME NEW w \in Sinks, SinkRaises(w) PROVE DeltaInv'
  BY <1>3, SinkRaisesSound
<1>4. CASE ScanDelta
  BY <1>4, ScanDeltaSound
<1>5. CASE CollectDelta
  BY <1>5, CollectDeltaSound
<1>6. CASE UNCHANGED deltaVars
  <2>1. UNCHANGED <<versions, sinks>> /\ scan' = scan
    BY <1>6 DEF deltaVars
  <2>2. scan' \in Scanner /\ ScanSound'
    BY <2>1, TableKept DEF DeltaInv, DeltaTyped
  <2>3. QED BY <2>1, <2>2, ScanOnly
<1>7. QED BY <1>1, <1>2, <1>3, <1>4, <1>5, <1>6 DEF DeltaNext

(* The sinks, the table and the scan stay as DeltaInv has them             *)
(* (delta_io.py:496-577, 694-785).                                         *)
THEOREM DeltaInvariant == DeltaSpec => []DeltaInv
<1>1. DeltaInit => DeltaInv
  BY DeltaInitial
<1>2. DeltaInv /\ [DeltaNext]_deltaVars => DeltaInv'
  BY DeltaStep
<1>3. QED BY <1>1, <1>2, PTL DEF DeltaSpec

(* The number of the chunks a prefix has.                                  *)
LEMMA PrefixCount == \A n \in Nat : 1..n = 1..Cardinality(1..n)
<1>1. ASSUME NEW n \in Nat PROVE Cardinality(1..n) = n
  <2>1. Cardinality(1..n) = IF 1 > n THEN 0 ELSE n - 1 + 1
    BY FS_Interval
  <2>2. QED BY <2>1
<1>2. QED BY <1>1

(* However sinks interleave, fail and overwrite, no version shows a later  *)
(* chunk of a frame without the earlier ones, none a part of an overwrite, *)
(* and a sink that is done has all of its frame in the last version        *)
(* (delta_io.py:496-577).                                                  *)
THEOREM SinksShowPrefixesHolds == DeltaSpec => []SinksShowPrefixes
<1>1. DeltaInv => SinksShowPrefixes
  <2> SUFFICES ASSUME DeltaInv, NEW k \in DOMAIN versions, NEW w \in Sinks
               PROVE  LET seen == Visible(k, w)
                          ignored == sinks[w].mode = "ignore" /\ sinks[w].found
                      IN /\ ~ignored /\ ~OverwrittenBy(w) => seen = 1..Cardinality(seen)
                         /\ sinks[w].mode = "overwrite" => seen \in {{}, 1..Chunks[w]}
                         /\ sinks[w].mode = "error" /\ seen # {} => Creator(w) \/ OverwrittenBy(w)
                         /\ sinks[w].pc = "done" /\ ~ignored /\ ~OverwrittenBy(w) /\ k = Len(versions) =>
                                seen = 1..Chunks[w]
    BY DEF SinksShowPrefixes
  <2> DEFINE seen == Visible(k, w)
             ignored == sinks[w].mode = "ignore" /\ sinks[w].found
  <2>1. k \in 1..Len(versions) /\ seen = Seen(Content(k), w) /\ (ignored <=> Ignored(w))
    BY VisibleIsSeen DEF DeltaInv, DeltaTyped, Ignored
  <2>2. VersionSound(k, w) /\ SinkSound(w) /\ Chunks[w] \in Nat \ {0}
    BY <2>1, ChunkCount DEF DeltaInv
  <2>3. Creator(w) <=> Seen(Content(1), w) # {}
    BY VisibleIsSeen DEF Creator
  <2> HIDE DEF seen, ignored
  <2>4. ~ignored /\ ~OverwrittenBy(w) => seen = 1..Cardinality(seen)
    <3> SUFFICES ASSUME ~ignored, ~OverwrittenBy(w) PROVE seen = 1..Cardinality(seen)
      OBVIOUS
    <3>1. PICK n \in 0..Chunks[w] : seen = 1..n
      BY <2>1, <2>2 DEF VersionSound
    <3>2. n \in Nat
      BY <2>2
    <3>3. QED BY <3>1, <3>2, PrefixCount
  <2>5. sinks[w].mode = "overwrite" => seen \in {{}, 1..Chunks[w]}
    BY <2>1, <2>2 DEF VersionSound
  <2>6. sinks[w].mode = "error" /\ seen # {} => Creator(w)
    <3> SUFFICES ASSUME sinks[w].mode = "error", seen # {} PROVE Creator(w)
      OBVIOUS
    <3>1. PICK m : m \in 1..(sinks[w].next - 1)
      BY <2>1, <2>2 DEF VersionSound
    <3>2. sinks[w].next > 1
      BY <2>2, <3>1 DEF SinkSound
    <3>3. QED BY <2>2, <2>3, <3>2 DEF SinkSound
  <2>7. sinks[w].pc = "done" /\ ~ignored /\ ~OverwrittenBy(w) /\ k = Len(versions) =>
            seen = 1..Chunks[w]
    <3>1. sinks[w].pc = "done" => sinks[w].next - 1 = Chunks[w]
      BY <2>2 DEF SinkSound
    <3>2. QED BY <2>1, <2>2, <3>1 DEF VersionSound
  <2>8. QED BY <2>4, <2>5, <2>6, <2>7 DEF seen, ignored
<1>2. QED BY <1>1, DeltaInvariant, PTL

(* Whatever the units of the frames, every collect of a scan reads the     *)
(* version it asked for, or one no older than the scan where it asked for  *)
(* none or by a time, and decodes each chunk with the unit it was written  *)
(* with, or with that of the frame which created the table, both of them   *)
(* mapped units (delta_io.py:694-785).                                     *)
THEOREM ScansDecodeHolds == DeltaSpec => []ScansDecode
<1>1. DeltaInv => ScansDecode
  <2> SUFFICES ASSUME DeltaInv, scan.collects > 0
               PROVE  /\ AskedOrNew(scan)
                      /\ \A c \in scan.read :
                            \/ scan.mapping = Unit[c[1]]
                            \/ Foreign(c[1]) /\ Plain \notin {scan.mapping, Unit[c[1]]}
    BY DEF ScansDecode, AskedOrNew
  <2>1. /\ scan.pc = "made" /\ scan.at \in 1..Len(versions) /\ scan.read = Content(scan.at)
        /\ scan.mapping = versions[1].mapping /\ Exists /\ AskedOrNew(scan)
    BY DEF DeltaInv, DeltaTyped, ScanSound, Scanner
  <2>2. VersionDecodes(versions[scan.at])
    BY <2>1 DEF DeltaInv
  <2>3. PICK u \in Sinks : Seen(Content(1), u) # {} /\ scan.mapping = Unit[u]
    BY <2>1 DEF DeltaInv, TableCreated
  <2>4. Creator(u)
    BY <2>3, VisibleIsSeen DEF Creator
  <2>5. ASSUME NEW c \in scan.read, scan.mapping # Unit[c[1]]
        PROVE  Foreign(c[1]) /\ Plain \notin {scan.mapping, Unit[c[1]]}
    <3>1. Unit[c[1]] = Plain <=> scan.mapping = Plain
      BY <2>1, <2>2 DEF VersionDecodes, Content
    <3>2. Foreign(c[1])
      BY <2>3, <2>4, <2>5 DEF Foreign
    <3>3. QED BY <2>5, <3>1, <3>2
  <2>6. QED BY <2>1, <2>5
<1>2. QED BY <1>1, DeltaInvariant, PTL

-----------------------------------------------------------------------------
(* Joins.  A row that leaves no joined row the predicate keeps is missed    *)
(* by nobody; every other left row keeps all its matches.                  *)

PlainJoin(ask, ls, rs) == Filtered(ask.pred, JoinOf(ask, ls, rs))

JoinCorrect(j) ==
    /\ j.answer \in Heads(j.ask.n_rows, PlainJoin(j.ask, j.leftAt, j.rightAt))
    /\ j.ask.kind = "join" => j.ask.wants \subseteq JoinedNames(LeftSelected(j.ask))

JoinInv ==
    /\ left \in SUBSET LeftRows /\ right \in SUBSET RightRows
    /\ join.pc \in {"idle", "left", "right", "done"}
    /\ join.pc # "idle" => join.ask \in JoinAsks
    /\ join.pc # "done" => join.answer = {}
    /\ join.pc \in {"left", "right"} => Fits(join.ask, left \union right)
    /\ join.pc = "right" =>
          /\ join.leftAt \in SUBSET LeftRows
          /\ join.got = {l \in join.leftAt : LeftFilter(join.ask, l)}
    /\ join.pc = "done" => JoinCorrect(join)
    /\ join = [pc |-> join.pc, ask |-> join.ask, leftAt |-> join.leftAt, rightAt |-> join.rightAt,
               got |-> join.got, answer |-> join.answer, changes |-> join.changes]

(* A joined row the predicate keeps has a left row that is read.           *)
LEMMA LeftRead ==
    ASSUME NEW ask \in JoinAsks, NEW l, NEW r, Holds(ask.pred, Joined(l, r))
    PROVE  LeftFilter(ask, l)
<1>1. SUFFICES ASSUME ask.pred # None
               PROVE  Holds(Restricted(ask.pred, LeftColumns), Joined(l, Null))
  BY DEF LeftFilter, Restricted, Holds
<1>2. Joined(l, r).l = l
  BY DEF Joined
<1>3. ASSUME NEW f \in ask.pred, f.cols \subseteq LeftColumns
      PROVE  Joined(l, Null) \in f.keeps
  <2>1. f.keeps \in SUBSET JoinedRows
    BY <1>1, JoinsAssumption DEF JoinAsk, Conjunct
  <2>2. Joined(l, r) \in f.keeps /\ Joined(l, r) \in JoinedRows
    BY <1>1, <2>1 DEF Holds
  <2>3. QED BY <1>1, <1>2, <1>3, <2>2, JoinsAssumption
<1>4. QED BY <1>1, <1>3 DEF Restricted, Holds

(* The equijoin of what is read of both frames.                            *)
LEMMA EquiAgrees ==
    ASSUME NEW ask \in JoinAsks, ask.kind = "join",
           NEW ls \in SUBSET LeftRows, NEW rs \in SUBSET RightRows
    PROVE  LET got == {l \in ls : LeftFilter(ask, l)}
           IN PlainJoin(ask, got, {r \in rs : RightFilter(ask, got, r)}) = PlainJoin(ask, ls, rs)
<1> DEFINE got == {l \in ls : LeftFilter(ask, l)}
           read == {r \in rs : RightFilter(ask, got, r)}
<1>1. ASSUME NEW l \in got, NEW r \in rs, SameOn(ask.by, l, r)
      PROVE  r \in read
  <2>1. ASSUME NEW c \in ask.by PROVE r[c] \in {k[c] : k \in got} \ {Null}
    BY <1>1 DEF SameOn, Equal
  <2>2. KeyFilter(ask, got, r)
    BY <2>1 DEF KeyFilter
  <2>3. RightFilter(ask, got, r)
    BY <2>2 DEF RightFilter
  <2>4. QED BY <2>3
<1>2. ASSUME NEW l \in ls, NEW r \in rs \union {Null}, Holds(ask.pred, Joined(l, r))
      PROVE  l \in got
  BY <1>2, LeftRead
<1>3. got \subseteq ls /\ read \subseteq rs
  OBVIOUS
<1> HIDE DEF got, read
<1> DEFINE Pairs(xs, ys) == {Joined(p[1], p[2]) : p \in {q \in xs \X ys : SameOn(ask.by, q[1], q[2])}}
           Alone(xs, ys) == {Joined(l, Null) : l \in {k \in xs : ask.how = "left" /\
                                ~\E r \in ys : SameOn(ask.by, k, r)}}
<1>4. \A xs, ys : PlainJoin(ask, xs, ys) =
          {j \in Pairs(xs, ys) \union Alone(xs, ys) : Holds(ask.pred, j)}
  BY DEF PlainJoin, Filtered, JoinOf, EquiJoin
<1>5. \A xs, ys, j : j \in Pairs(xs, ys) <=>
          \E l \in xs, r \in ys : SameOn(ask.by, l, r) /\ j = Joined(l, r)
  <2>1. ASSUME NEW xs, NEW ys, NEW l \in xs, NEW r \in ys, SameOn(ask.by, l, r)
        PROVE  Joined(l, r) \in Pairs(xs, ys)
    <3>1. /\ <<l, r>> \in {q \in xs \X ys : SameOn(ask.by, q[1], q[2])}
          /\ <<l, r>>[1] = l /\ <<l, r>>[2] = r
      BY <2>1
    <3>2. QED BY <3>1
  <2>2. ASSUME NEW xs, NEW ys, NEW j \in Pairs(xs, ys)
        PROVE  \E l \in xs, r \in ys : SameOn(ask.by, l, r) /\ j = Joined(l, r)
    OBVIOUS
  <2>3. QED BY <2>1, <2>2
<1>6. \A xs, ys, j : j \in Alone(xs, ys) <=>
          \E l \in xs : /\ ask.how = "left" /\ j = Joined(l, Null)
                        /\ \A r \in ys : ~SameOn(ask.by, l, r)
  OBVIOUS
<1> HIDE DEF Pairs, Alone
<1>7. ASSUME NEW j, Holds(ask.pred, j)
      PROVE  j \in Pairs(got, read) <=> j \in Pairs(ls, rs)
  BY <1>1, <1>2, <1>3, <1>5, <1>7
<1>8. ASSUME NEW j, Holds(ask.pred, j)
      PROVE  j \in Alone(got, read) <=> j \in Alone(ls, rs)
  BY <1>1, <1>2, <1>3, <1>6, <1>8
<1>9. PlainJoin(ask, got, read) = PlainJoin(ask, ls, rs)
  BY <1>4, <1>7, <1>8
<1>10. QED BY <1>9 DEF got, read

(* The window covers what the tolerance reaches from a requested instant.   *)
LEMMA WindowCovers ==
    ASSUME NEW ask \in JoinAsks, ask.tolerance # None,
           NEW s \in SUBSET Line, NEW l \in LeftRows, NEW r \in RightRows,
           At(l.at) \in s, Reaches(ask, l, r), ask.dated => OnDate(r.at)
    PROVE  At(r.at) \in RightWindow(ask, s)
<1> DEFINE t == ask.tolerance
           back == IF ask.strategy = "forward" THEN s ELSE Lookback(s, t)
           both == IF ask.strategy = "backward" THEN back ELSE Lookahead(back, t)
<1>1. t \in Nat /\ ask.strategy \in {"backward", "forward", "nearest"}
  BY JoinsAssumption DEF JoinAsk
<1>2. l.at \in Int /\ r.at \in Int /\ At(r.at) \in Line
  BY JoinsAssumption, DaysAssumption DEF Instants, Line, At
<1>3. /\ At(l.at) = 2 * l.at /\ At(r.at) = 2 * r.at /\ At(t) = 2 * t
  BY DEF At
<1>4. At(l.at) \in Line
  OBVIOUS
<1>5. l.at <= r.at => r.at <= l.at + t
  BY <1>1, <1>2 DEF Reaches, Distance
<1>6. r.at <= l.at => l.at <= r.at + t
  BY <1>1, <1>2 DEF Reaches, Distance
<1>7. r.at <= l.at => At(r.at) \in Lookback(s, t)
  BY <1>1, <1>2, <1>3, <1>6 DEF Lookback
<1>8. At(l.at) \in Lookback(s, t)
  BY <1>1, <1>2, <1>3, <1>4 DEF Lookback
<1>9. ASSUME NEW u, At(l.at) \in u, l.at <= r.at PROVE At(r.at) \in Lookahead(u, t)
  BY <1>1, <1>2, <1>3, <1>5, <1>9 DEF Lookahead
<1>10. ASSUME NEW u, At(r.at) \in u PROVE At(r.at) \in Lookahead(u, t)
  BY <1>1, <1>2, <1>3, <1>10 DEF Lookahead
<1>11. At(r.at) \in both
  <2>1. CASE ask.strategy = "backward"
    BY <1>7, <2>1 DEF Reaches
  <2>2. CASE ask.strategy = "forward"
    BY <1>9, <2>2 DEF Reaches
  <2>3. CASE ask.strategy = "nearest"
    <3>1. r.at <= l.at \/ l.at <= r.at
      BY <1>2
    <3>2. QED BY <1>7, <1>8, <1>9, <1>10, <2>3, <3>1
  <2>4. QED BY <1>1, <2>1, <2>2, <2>3
<1>12. CASE ask.dated
  <2>1. At(r.at) = Midnight(At(r.at))
    BY <1>12 DEF OnDate
  <2>2. RightWindow(ask, s) = FullDates(both)
    BY <1>12 DEF RightWindow
  <2>3. QED BY <1>2, <1>11, <2>1, <2>2 DEF FullDates
<1>13. CASE ~ask.dated
  BY <1>11, <1>13 DEF RightWindow
<1>14. QED BY <1>12, <1>13

(* The asof join of what is read of both frames.                           *)
LEMMA AsofAgrees ==
    ASSUME NEW ask \in JoinAsks, ask.kind = "asof",
           NEW ls \in SUBSET LeftRows, NEW rs \in SUBSET RightRows, Fits(ask, rs)
    PROVE  LET got == {l \in ls : LeftFilter(ask, l)}
           IN PlainJoin(ask, got, {r \in rs : RightFilter(ask, got, r)}) = PlainJoin(ask, ls, rs)
<1> DEFINE got == {l \in ls : LeftFilter(ask, l)}
           read == {r \in rs : RightFilter(ask, got, r)}
           near(l, ys) == {r \in ys : Reaches(ask, l, r)}
           best(l, ys) == IF near(l, ys) = {} THEN Null ELSE Closest(l, near(l, ys))
<1>1. ASSUME NEW l \in LeftRows, NEW x, Holds(ask.pred, Joined(l, x)),
             NEW r \in rs, Reaches(ask, l, r)
      PROVE  r \in read
  <2>1. SUFFICES ASSUME ask.pred # None
                 PROVE  /\ "key" \in ask.by =>
                               \A f \in Restricted(ask.pred, {"key"}) : \E j \in f.keeps : j.l.key = r.key
                        /\ ask.tolerance # None =>
                               Within(r.at, RightWindow(ask, Requested(ask.pred)))
    BY DEF RightFilter, AsofFilter
  <2>2. Joined(l, x).l = l /\ \A f \in ask.pred : Joined(l, x) \in f.keeps
    BY <1>1, <2>1 DEF Joined, Holds
  <2>3. ASSUME "key" \in ask.by, NEW f \in Restricted(ask.pred, {"key"})
        PROVE  \E j \in f.keeps : j.l.key = r.key
    <3>1. l.key = r.key
      BY <1>1, <2>3 DEF Reaches, Equal
    <3>2. Joined(l, x) \in f.keeps
      BY <2>1, <2>2 DEF Restricted
    <3>3. QED BY <2>2, <3>1, <3>2
  <2>4. ASSUME ask.tolerance # None
        PROVE  Within(r.at, RightWindow(ask, Requested(ask.pred)))
    <3>1. At(l.at) \in Requested(ask.pred)
      <4>1. At(l.at) \in Line
        BY JoinsAssumption, DaysAssumption DEF Instants, Line, At
      <4>2. \A f \in ask.pred : At(l.at) \in f.span
        BY <2>1, <2>2, JoinsAssumption
      <4>3. QED BY <4>1, <4>2 DEF Requested
    <3>2. Requested(ask.pred) \in SUBSET Line
      BY DEF Requested
    <3>3. ask.dated => OnDate(r.at)
      BY DEF Fits
    <3>4. At(r.at) \in RightWindow(ask, Requested(ask.pred))
      BY <1>1, <2>4, <3>1, <3>2, <3>3, WindowCovers
    <3>5. r.at # Null
      BY JoinsAssumption
    <3>6. QED BY <3>4, <3>5 DEF Within
  <2>5. QED BY <2>3, <2>4
<1>2. ASSUME NEW l \in LeftRows, NEW x, Holds(ask.pred, Joined(l, x))
      PROVE  near(l, read) = near(l, rs)
  BY <1>1, <1>2
<1>3. \A xs, ys : PlainJoin(ask, xs, ys) =
          {j \in {Joined(l, best(l, ys)) : l \in xs} : Holds(ask.pred, j)}
  BY DEF PlainJoin, Filtered, JoinOf, AsofJoin
<1>4. ASSUME NEW l \in ls, NEW x, Holds(ask.pred, Joined(l, x))
      PROVE  l \in got /\ best(l, read) = best(l, rs)
  BY <1>2, <1>4, LeftRead
<1>5. got \subseteq ls
  OBVIOUS
<1> HIDE DEF got, read, best
<1>6. ASSUME NEW j, Holds(ask.pred, j)
      PROVE  (\E l \in got : j = Joined(l, best(l, read)))
                 <=> (\E l \in ls : j = Joined(l, best(l, rs)))
  BY <1>4, <1>5, <1>6
<1>7. \A xs, ys, j : j \in PlainJoin(ask, xs, ys) <=>
          /\ \E l \in xs : j = Joined(l, best(l, ys))
          /\ Holds(ask.pred, j)
  BY <1>3
<1>8. ASSUME NEW j PROVE j \in PlainJoin(ask, got, read) <=> j \in PlainJoin(ask, ls, rs)
  BY <1>6, <1>7
<1>9. \A xs, ys : PlainJoin(ask, xs, ys) = {j \in JoinOf(ask, xs, ys) : Holds(ask.pred, j)}
  BY DEF PlainJoin, Filtered
<1>10. PlainJoin(ask, got, read) = PlainJoin(ask, ls, rs)
  BY <1>8, <1>9
<1>11. QED BY <1>10 DEF got, read

(* A join between reads both frames whole.                                 *)
LEMMA BetweenAgrees ==
    ASSUME NEW ask \in JoinAsks, ask.kind = "between",
           NEW ls \in SUBSET LeftRows, NEW rs \in SUBSET RightRows
    PROVE  LET got == {l \in ls : LeftFilter(ask, l)}
           IN PlainJoin(ask, got, {r \in rs : RightFilter(ask, got, r)}) = PlainJoin(ask, ls, rs)
<1> DEFINE got == {l \in ls : LeftFilter(ask, l)}
<1>1. got = ls
  BY DEF LeftFilter
<1>2. {r \in rs : RightFilter(ask, got, r)} = rs
  BY DEF RightFilter
<1>3. QED BY <1>1, <1>2

(* Whichever the join, what is not read changes nothing.                   *)
LEMMA ReadAgrees ==
    ASSUME NEW ask \in JoinAsks,
           NEW ls \in SUBSET LeftRows, NEW rs \in SUBSET RightRows, Fits(ask, rs)
    PROVE  LET got == {l \in ls : LeftFilter(ask, l)}
           IN PlainJoin(ask, got, {r \in rs : RightFilter(ask, got, r)}) = PlainJoin(ask, ls, rs)
<1>1. ask.kind \in {"join", "asof", "between"}
  BY JoinsAssumption DEF JoinAsk
<1>2. QED BY <1>1, EquiAgrees, AsofAgrees, BetweenAgrees

(* The columns asked for are columns of the join.                          *)
LEMMA WantedNamed ==
    ASSUME NEW ask \in JoinAsks
    PROVE  ask.wants \subseteq JoinedNames(LeftSelected(ask))
<1>1. ask.wants \in SUBSET {"key", "val", "val_right"}
  BY JoinsAssumption DEF JoinAsk
<1>2. QED BY <1>1 DEF JoinedNames, LeftSelected, LeftColumns

(* The invariant holds at the start.                                       *)
LEMMA JoinStarts == JoinInit => JoinInv
  BY DEF JoinInit, JoinInv, NoJoin

(* Every step keeps it.                                                    *)
LEMMA JoinStep == JoinInv /\ [JoinNext]_joinVars => JoinInv'
<1> SUFFICES ASSUME JoinInv, [JoinNext]_joinVars PROVE JoinInv'
  OBVIOUS
<1>1. ASSUME NEW ask \in JoinAsks, AskJoin(ask) PROVE JoinInv'
  BY <1>1 DEF AskJoin, JoinInv
<1>2. CASE ReadLeft
  <2> DEFINE got == {l \in left : LeftFilter(join.ask, l)}
  <2>1. /\ join.pc = "left" /\ left' = left /\ right' = right
        /\ join' = [join EXCEPT !.leftAt = left, !.got = got, !.rightAt = right,
                       !.pc = IF join.ask.kind = "join" /\ got = {} THEN "done" ELSE "right"]
    BY <1>2 DEF ReadLeft
  <2>2. join.ask \in JoinAsks /\ join.answer = {} /\ left \in SUBSET LeftRows /\ right \in SUBSET RightRows
    BY <2>1 DEF JoinInv
  <2> HIDE DEF got
  <2>3. CASE join.ask.kind = "join" /\ got = {}
    <3>1. /\ join'.pc = "done" /\ join'.ask = join.ask /\ join'.answer = {}
          /\ join'.leftAt = left /\ join'.rightAt = right
      BY <2>1, <2>2, <2>3 DEF JoinInv
    <3>2. PlainJoin(join.ask, left, right) = {}
      <4>1. PlainJoin(join.ask, got, {r \in right : RightFilter(join.ask, got, r)})
                = PlainJoin(join.ask, left, right)
        BY <2>2, <2>3, EquiAgrees DEF got
      <4>2. JoinOf(join.ask, {}, {r \in right : RightFilter(join.ask, got, r)}) = {}
        BY <2>3 DEF JoinOf, EquiJoin
      <4>3. QED BY <2>3, <4>1, <4>2 DEF PlainJoin, Filtered
    <3>3. {} \in Heads(join.ask.n_rows, {})
      <4>1. join.ask.n_rows = None \/ join.ask.n_rows \in Nat
        BY <2>2, JoinsAssumption DEF JoinAsk
      <4>2. Cardinality({}) = 0
        BY FS_EmptySet
      <4>3. QED BY <4>1, <4>2 DEF Heads
    <3>4. JoinCorrect(join')
      BY <2>2, <3>1, <3>2, <3>3, WantedNamed DEF JoinCorrect
    <3>5. QED BY <2>1, <2>2, <3>1, <3>4 DEF JoinInv
  <2>4. CASE ~(join.ask.kind = "join" /\ got = {})
    <3>1. /\ join'.pc = "right" /\ join'.ask = join.ask /\ join'.answer = {}
          /\ join'.leftAt = left /\ join'.got = got
      BY <2>1, <2>2, <2>4 DEF JoinInv
    <3>2. QED BY <2>1, <2>2, <3>1 DEF JoinInv, got
  <2>5. QED BY <2>3, <2>4
<1>3. CASE ReadRight
  <2> DEFINE ask == join.ask
             read == {r \in right : RightFilter(ask, join.got, r)}
  <2>1. PICK answer \in Heads(ask.n_rows, PlainJoin(ask, join.got, read)) :
            join' = [join EXCEPT !.rightAt = right, !.answer = answer, !.pc = "done"]
    BY <1>3 DEF ReadRight, PlainJoin
  <2>2. join.pc = "right" /\ left' = left /\ right' = right
    BY <1>3 DEF ReadRight
  <2>3. /\ ask \in JoinAsks /\ right \in SUBSET RightRows /\ join.leftAt \in SUBSET LeftRows
        /\ join.got = {l \in join.leftAt : LeftFilter(ask, l)} /\ Fits(ask, right)
    BY <2>2 DEF JoinInv, Fits
  <2>4. PlainJoin(ask, join.got, read) = PlainJoin(ask, join.leftAt, right)
    <3> HIDE DEF ask
    <3>1. \A ls \in SUBSET LeftRows : \A got :
              got = {l \in ls : LeftFilter(ask, l)} =>
                  PlainJoin(ask, got, {r \in right : RightFilter(ask, got, r)}) = PlainJoin(ask, ls, right)
      BY <2>3, ReadAgrees
    <3>2. QED BY <2>3, <3>1
  <2> HIDE DEF ask, read
  <2>5. /\ join'.pc = "done" /\ join'.ask = ask /\ join'.answer = answer
        /\ join'.leftAt = join.leftAt /\ join'.rightAt = right
    BY <2>1 DEF JoinInv, ask
  <2>6. JoinCorrect(join')
    BY <2>1, <2>3, <2>4, <2>5, WantedNamed DEF JoinCorrect
  <2>7. QED BY <2>1, <2>2, <2>3, <2>5, <2>6 DEF JoinInv, ask
<1>4. CASE ChangeFrames
  <2>1. /\ join.pc \in {"left", "right"}
        /\ \/ \E l \in LeftRows : left' = (left \ {l}) \union ({l} \ left) /\ UNCHANGED right
           \/ \E r \in RightRows : right' = (right \ {r}) \union ({r} \ right) /\ UNCHANGED left
        /\ Fits(join.ask, left' \union right')
        /\ join' = [join EXCEPT !.changes = @ + 1]
    BY <1>4 DEF ChangeFrames
  <2>2. left' \in SUBSET LeftRows /\ right' \in SUBSET RightRows
    BY <2>1 DEF JoinInv
  <2>3. QED BY <2>1, <2>2 DEF JoinInv
<1>5. CASE UNCHANGED joinVars
  BY <1>5 DEF JoinInv, joinVars
<1>6. QED BY <1>1, <1>2, <1>3, <1>4, <1>5 DEF JoinNext

(* However little was read, the answer is the plain join of the left frame *)
(* when it was read and the right one when it was read, filtered.          *)
THEOREM JoinsHold == JoinSpec => []JoinsAgree
<1>1. JoinInv => JoinsAgree
  BY DEF JoinInv, JoinCorrect, JoinsAgree, PlainJoin
<1>2. QED BY <1>1, JoinStarts, JoinStep, PTL DEF JoinSpec

-----------------------------------------------------------------------------
(* Exclusion.                                                              *)

(* A set of naturals has a least element: what stands here for induction.  *)
LEMMA LeastNatural ==
    ASSUME NEW S \in SUBSET Nat, S # {}
    PROVE  \E m \in S : \A k \in S : m <= k
<1> DEFINE less == OpToRel(<, Nat)
<1>1. IsWellFoundedOn(less, Nat)
  BY NatLessThanWellFounded
<1>2. \A x, y \in Nat : x < y => <<x, y>> \in less
  BY DEF OpToRel
<1> HIDE DEF less
<1>3. PICK m \in S : \A k \in S : ~(<<k, m>> \in less)
  BY <1>1, WFMin
<1>4. \A k \in S : m \in Nat /\ k \in Nat /\ ~(k < m)
  BY <1>2, <1>3
<1>5. QED BY <1>4

(* The groupings are what their recursive definition says: there is such a *)
(* function up to any number of passes.                                    *)
LEMMA GroupingsUnfold ==
    ASSUME NEW cs \in Seq(DOMAIN PartitionCells), NEW frame
    PROVE  Groupings(cs, frame) = [n \in 0..Len(cs) |->
               IF n = 0 THEN [frame |-> frame, last |-> 0, done |-> FALSE]
               ELSE GroupingPass(Groupings(cs, frame)[n - 1], cs[n])]
<1> DEFINE start == [frame |-> frame, last |-> 0, done |-> FALSE]
           Upto(f, k) == f = [n \in 0..k |-> IF n = 0 THEN start ELSE GroupingPass(f[n - 1], cs[n])]
           missing == {k \in Nat : ~\E f : Upto(f, k)}
<1>1. missing = {}
  <2>1. SUFFICES ASSUME missing # {} PROVE FALSE
    OBVIOUS
  <2>2. PICK m \in missing : \A k \in missing : m <= k
    <3>1. missing \in SUBSET Nat
      OBVIOUS
    <3> HIDE DEF missing
    <3>2. QED BY <2>1, <3>1, LeastNatural
  <2>3. m # 0
    <3>1. Upto([n \in 0..0 |-> start], 0)
      OBVIOUS
    <3>2. QED BY <3>1
  <2>4. m \in Nat /\ m - 1 \in Nat /\ m - 1 \notin missing
    <3>1. m \in Nat /\ m - 1 \in Nat /\ ~(m <= m - 1)
      BY <2>3
    <3> HIDE DEF missing
    <3>2. QED BY <2>2, <3>1
  <2>5. PICK f : Upto(f, m - 1)
    BY <2>4
  <2> DEFINE g == [n \in 0..m |-> IF n = m THEN GroupingPass(f[m - 1], cs[m]) ELSE f[n]]
  <2>6. Upto(g, m)
    <3> DEFINE h == [n \in 0..m |-> IF n = 0 THEN start ELSE GroupingPass(g[n - 1], cs[n])]
    <3>1. ASSUME NEW n \in 0..m PROVE g[n] = h[n]
      <4>1. CASE n = m
        <5>1. m - 1 \in 0..m /\ m - 1 # m
          BY <2>4
        <5>2. g[m - 1] = f[m - 1]
          BY <5>1
        <5>3. QED BY <2>3, <4>1, <5>2
      <4>2. CASE n # m /\ n # 0
        <5>1. n \in 0..m - 1 /\ n - 1 \in 0..m /\ n - 1 # m
          BY <2>4, <4>2
        <5>2. g[n] = f[n] /\ g[n - 1] = f[n - 1]
          BY <4>2, <5>1
        <5>3. f[n] = GroupingPass(f[n - 1], cs[n])
          BY <2>5, <4>2, <5>1
        <5> HIDE DEF g
        <5>4. QED BY <4>2, <5>2, <5>3
      <4>3. CASE n # m /\ n = 0
        <5>1. 0 \in 0..m - 1
          BY <2>4
        <5>2. f[0] = start
          BY <2>5, <5>1
        <5>3. QED BY <4>3, <5>2
      <4>4. QED BY <4>1, <4>2, <4>3
    <3>2. g = h
      <4>1. g = [n \in 0..m |-> g[n]] /\ h = [n \in 0..m |-> h[n]]
        OBVIOUS
      <4> HIDE DEF g, h
      <4>2. QED BY <3>1, <4>1
    <3>3. QED BY <3>2
  <2> HIDE DEF g, Upto
  <2>7. QED BY <2>6
<1>2. Len(cs) \in Nat
  OBVIOUS
<1>3. \E f : Upto(f, Len(cs))
  <2> HIDE DEF Upto
  <2>1. QED BY <1>1, <1>2
<1>4. Groupings(cs, frame) = CHOOSE f : Upto(f, Len(cs))
  BY DEF Groupings
<1>5. Upto(Groupings(cs, frame), Len(cs))
  <2> HIDE DEF Upto
  <2>1. QED BY <1>3, <1>4
<1>6. QED BY <1>5

(* The three-valued tests of a cell against a list are true exactly where  *)
(* the cell is not in it, nulls included.                                  *)
LEMMA DiffersExact ==
    ASSUME NEW x, NEW values, values # {}, IsFiniteSet(values)
    PROVE  /\ Differs(x, values) \in Kleene!Truth
           /\ Differs(x, values) = Kleene!True <=> x \notin values
<1>1. CASE Cardinality(values) = 1
  <2>1. PICK v : values = {v}
    BY <1>1, FS_Singleton
  <2>2. (CHOOSE w \in values : TRUE) = v
    BY <2>1
  <2>3. Differs(x, values) = Kleene!Known(x # v)
    BY <1>1, <2>2 DEF Differs, Kleene!Compare
  <2>4. QED BY <2>1, <2>3 DEF Kleene!Known, Kleene!Truth, Kleene!True, Kleene!False, Kleene!Unknown
<1>2. CASE Cardinality(values) # 1
  <2> DEFINE listed == values \ {Null}
             other == IF listed = {} THEN Kleene!True ELSE Kleene!Not(Kleene!IsIn(x, listed, FALSE))
  <2>1. /\ other \in Kleene!Truth
        /\ x # Null => (other = Kleene!True <=> x \notin listed)
        /\ x = Null => (other = Kleene!True <=> listed = {})
    BY DEF Kleene!IsIn, Kleene!Not, Kleene!Known, Kleene!Truth, Kleene!True, Kleene!False, Kleene!Unknown
  <2>2. Differs(x, values) =
            IF Null \in values THEN Kleene!Conj(other, Kleene!Known(x # Null))
            ELSE Kleene!Disj(other, Kleene!Known(x = Null))
    BY <1>2 DEF Differs, NotIn
  <2>3. x # Null => (x \notin listed <=> x \notin values)
    OBVIOUS
  <2>4. Null \notin values => listed # {}
    OBVIOUS
  <2> HIDE DEF other, listed
  <2>5. QED BY <2>1, <2>2, <2>3, <2>4
            DEF Kleene!Conj, Kleene!Disj, Kleene!Known, Kleene!Truth, Kleene!True, Kleene!False,
                Kleene!Unknown
<1>3. QED BY <1>1, <1>2

(* A row of the shrunk frame: a list, never empty, for each column.        *)
Lists(cs) == [ToSet(cs) -> {vs \in SUBSET AllCells : vs # {} /\ IsFiniteSet(vs)}]
InProduct(p, row) == \A c \in DOMAIN row : p[c] \in row[c]

(* The predicate of a row is true outside the product of its lists.        *)
LEMMA ExcludeExact ==
    ASSUME NEW cs \in PartitionColumns, NEW row \in Lists(cs), NEW p \in Partitions(cs)
    PROVE  ExcludeRow(row, cs, p) = Kleene!True <=> ~InProduct(p, row)
<1>1. /\ \A i \in DOMAIN cs : cs[i] \in ToSet(cs)
      /\ \A c \in ToSet(cs) : \E i \in DOMAIN cs : cs[i] = c
  BY DEF ToSet
<1>2. DOMAIN row = ToSet(cs) /\ \A c \in ToSet(cs) : row[c] # {} /\ IsFiniteSet(row[c])
  BY DEF Lists
<1> DEFINE ts == [i \in DOMAIN cs |-> Differs(p[cs[i]], row[cs[i]])]
<1>3. \A i \in DOMAIN cs : ts[i] = Kleene!True <=> p[cs[i]] \notin row[cs[i]]
  BY <1>1, <1>2, DiffersExact
<1>4. ExcludeRow(row, cs, p) = Kleene!AnyOf(ts)
  BY DEF ExcludeRow
<1>5. DOMAIN ts = DOMAIN cs
  OBVIOUS
<1> HIDE DEF ts
<1>6. Kleene!AnyOf(ts) = Kleene!True <=> \E i \in DOMAIN cs : ts[i] = Kleene!True
  BY <1>5 DEF Kleene!AnyOf, Kleene!True, Kleene!False, Kleene!Unknown
<1>7. QED BY <1>1, <1>2, <1>3, <1>4, <1>6 DEF InProduct

(* What a frame covers is kept by grouping on all columns but one.         *)
FrameCovers(frame, p) == \E row \in frame : InProduct(p, row)

(* A pass neither adds to what the products cover nor takes from it.       *)
LEMMA GroupedCovers ==
    ASSUME NEW cs \in PartitionColumns, NEW frame \in SUBSET Lists(cs), NEW c \in ToSet(cs)
    PROVE  /\ Grouped(frame, c) \in SUBSET Lists(cs)
           /\ \A p : FrameCovers(Grouped(frame, c), p) <=> FrameCovers(frame, p)
<1> DEFINE C == ToSet(cs)
           alike(row) == {o \in frame : \A d \in C \ {c} : o[d] = row[d]}
           merged(row) == [row EXCEPT ![c] = UNION {o[c] : o \in alike(row)}]
<1>1. \A row \in frame : DOMAIN row = C
  BY DEF Lists
<1>2. Grouped(frame, c) = {merged(row) : row \in frame}
  BY <1>1 DEF Grouped
<1>3. ASSUME NEW row \in frame
      PROVE  /\ DOMAIN merged(row) = C
             /\ merged(row)[c] = UNION {o[c] : o \in alike(row)}
             /\ \A d \in C \ {c} : merged(row)[d] = row[d]
             /\ row \in alike(row)
  BY <1>1
<1>4. ASSUME NEW row \in frame PROVE merged(row) \in Lists(cs)
  <2>1. merged(row)[c] \in SUBSET AllCells /\ merged(row)[c] # {}
    <3>1. \A o \in alike(row) : o[c] \in SUBSET AllCells /\ o[c] # {}
      BY DEF Lists
    <3>2. QED BY <1>3, <3>1
  <2>2. IsFiniteSet(merged(row)[c])
    BY <2>1, ExclusionAssumption, FS_Subset
  <2>3. \A d \in C \ {c} : row[d] \in {vs \in SUBSET AllCells : vs # {} /\ IsFiniteSet(vs)}
    BY DEF Lists
  <2>4. merged(row) = [d \in C |-> merged(row)[d]]
    BY <1>1
  <2> HIDE DEF merged
  <2>5. \A d \in C : merged(row)[d] \in {vs \in SUBSET AllCells : vs # {} /\ IsFiniteSet(vs)}
    BY <1>3, <2>1, <2>2, <2>3
  <2>6. QED BY <2>4, <2>5 DEF Lists
<1>5. ASSUME NEW p, NEW row \in frame, InProduct(p, merged(row))
      PROVE  \E o \in frame : InProduct(p, o)
  <2>1. \A d \in C : p[d] \in merged(row)[d]
    BY <1>3, <1>5 DEF InProduct
  <2>2. PICK o \in alike(row) : p[c] \in o[c]
    <3>1. p[c] \in merged(row)[c]
      BY <2>1
    <3>2. p[c] \in UNION {o[c] : o \in alike(row)}
      BY <1>3, <3>1
    <3> HIDE DEF alike
    <3>3. QED BY <3>2
  <2>3. \A d \in C : p[d] \in o[d]
    BY <1>3, <2>1, <2>2
  <2>4. QED BY <1>1, <2>3 DEF InProduct
<1>6. ASSUME NEW p, NEW row \in frame, InProduct(p, row)
      PROVE  InProduct(p, merged(row))
  <2>1. \A d \in C : p[d] \in row[d]
    BY <1>1, <1>6 DEF InProduct
  <2>2. p[c] \in merged(row)[c]
    BY <1>3, <2>1
  <2>3. QED BY <1>3, <2>1, <2>2 DEF InProduct
<1> HIDE DEF merged, alike
<1>7. QED BY <1>2, <1>4, <1>5, <1>6 DEF FrameCovers

(* So is it by any number of passes.                                       *)
LEMMA RegroupedCovers ==
    ASSUME NEW cs \in PartitionColumns, NEW frame \in SUBSET Lists(cs)
    PROVE  /\ Regrouped(cs, frame) \in SUBSET Lists(cs)
           /\ \A p : FrameCovers(Regrouped(cs, frame), p) <=> FrameCovers(frame, p)
<1> DEFINE after == Groupings(cs, frame)
           Sound(n) == /\ after[n].frame \in SUBSET Lists(cs)
                       /\ \A p : FrameCovers(after[n].frame, p) <=> FrameCovers(frame, p)
           lost == {n \in 0..Len(cs) : ~Sound(n)}
<1>1. cs \in Seq(DOMAIN PartitionCells) /\ Len(cs) \in Nat /\ DOMAIN cs = 1..Len(cs)
  BY ExclusionAssumption
<1>2. after = [n \in 0..Len(cs) |->
                 IF n = 0 THEN [frame |-> frame, last |-> 0, done |-> FALSE]
                 ELSE GroupingPass(after[n - 1], cs[n])]
  BY <1>1, GroupingsUnfold
<1> HIDE DEF after
<1>3. Sound(0)
  BY <1>1, <1>2
<1>4. ASSUME NEW n \in 1..Len(cs), Sound(n - 1) PROVE Sound(n)
  <2>1. after[n] = GroupingPass(after[n - 1], cs[n])
    <3>1. n \in 0..Len(cs) /\ n # 0
      BY <1>1
    <3>2. QED BY <1>2, <3>1
  <2> DEFINE acc == after[n - 1]
             grouped == Grouped(acc.frame, cs[n])
  <2>2. cs[n] \in ToSet(cs)
    BY <1>1 DEF ToSet
  <2>3. /\ grouped \in SUBSET Lists(cs)
        /\ \A p : FrameCovers(grouped, p) <=> FrameCovers(acc.frame, p)
    <3>1. acc.frame \in SUBSET Lists(cs)
      BY <1>4
    <3> HIDE DEF acc, Sound, lost
    <3>2. QED BY <2>2, <3>1, GroupedCovers
  <2>4. after[n].frame = acc.frame \/ after[n].frame = grouped
    <3>1. \/ after[n] = acc
          \/ after[n] = [acc EXCEPT !.done = TRUE]
          \/ after[n] = [frame |-> grouped, last |-> Cardinality(acc.frame), done |-> FALSE]
      BY <2>1 DEF GroupingPass
    <3>2. [acc EXCEPT !.done = TRUE].frame = acc.frame
      BY <1>2
    <3> DEFINE fresh == [frame |-> grouped, last |-> Cardinality(acc.frame), done |-> FALSE]
    <3>3. fresh.frame = grouped
      OBVIOUS
    <3> HIDE DEF fresh, acc, grouped
    <3>4. CASE after[n] = acc
      BY <3>4
    <3>5. CASE after[n] = [acc EXCEPT !.done = TRUE]
      BY <3>2, <3>5, Zenon
    <3>6. CASE after[n] = fresh
      BY <3>3, <3>6, Zenon
    <3>7. QED BY <3>1, <3>4, <3>5, <3>6 DEF fresh
  <2> HIDE DEF grouped
  <2>5. QED BY <1>4, <2>3, <2>4
<1>5. lost = {}
  <2>1. SUFFICES ASSUME lost # {} PROVE FALSE
    OBVIOUS
  <2>2. lost \in SUBSET Nat
    BY <1>1
  <2>3. PICK m \in lost : \A k \in lost : m <= k
    <3> HIDE DEF lost
    <3>1. QED BY <2>1, <2>2, LeastNatural
  <2>4. m \in 0..Len(cs) /\ ~Sound(m) /\ m # 0
    BY <1>3, <2>3
  <2> HIDE DEF Sound
  <2>5. m - 1 \in 0..Len(cs) /\ ~(m <= m - 1) /\ m \in 1..Len(cs)
    BY <1>1, <2>4
  <2>6. m - 1 \notin lost
    <3> HIDE DEF lost
    <3>1. QED BY <2>3, <2>5
  <2>7. Sound(m - 1)
    BY <2>5, <2>6
  <2>8. QED BY <1>4, <2>4, <2>5, <2>7
<1>6. Len(cs) \in 0..Len(cs)
  BY <1>1
<1>7. Sound(Len(cs))
  <2> HIDE DEF Sound
  <2>1. QED BY <1>5, <1>6
<1>8. QED BY <1>7 DEF Regrouped, after

(* The shrunk frame covers what is known, and nothing else.                *)
LEMMA ShrunkCovers ==
    ASSUME NEW cs \in PartitionColumns, cs # <<>>,
           NEW ps \in SUBSET Partitions(cs), ps # {}
    PROVE  /\ Shrunk(cs, ps) \in SUBSET Lists(cs)
           /\ \A p \in Partitions(cs) : FrameCovers(Shrunk(cs, ps), p) <=> p \in ps
<1> DEFINE C == ToSet(cs)
           single(p) == [c \in C |-> {p[c]}]
<1>1. \A p \in Partitions(cs) : DOMAIN p = C /\ p = [c \in C |-> p[c]] /\ \A c \in C : p[c] \in AllCells
  BY DEF Partitions
<1>2. CASE Len(cs) > 1
  <2>1. Singletons(ps) = {single(p) : p \in ps}
    BY <1>1 DEF Singletons
  <2>2. \A p \in ps : single(p) \in Lists(cs)
    <3>1. \A v \in AllCells : {v} \in {vs \in SUBSET AllCells : vs # {} /\ IsFiniteSet(vs)}
      BY FS_Singleton
    <3>2. QED BY <1>1, <3>1 DEF Lists
  <2>3. ASSUME NEW p \in Partitions(cs), NEW q \in ps
        PROVE  InProduct(p, single(q)) <=> p = q
    <3>1. InProduct(p, single(q)) <=> \A c \in C : p[c] = q[c]
      BY DEF InProduct
    <3>2. (\A c \in C : p[c] = q[c]) => p = q
      BY <1>1
    <3>3. QED BY <3>1, <3>2
  <2> HIDE DEF single
  <2>4. /\ Singletons(ps) \in SUBSET Lists(cs)
        /\ \A p \in Partitions(cs) : FrameCovers(Singletons(ps), p) <=> p \in ps
    BY <2>1, <2>2, <2>3 DEF FrameCovers
  <2>5. Shrunk(cs, ps) = Regrouped(cs, Singletons(ps))
    BY <1>2 DEF Shrunk
  <2>6. QED BY <2>4, <2>5, RegroupedCovers
<1>3. CASE ~(Len(cs) > 1)
  <2> DEFINE row == [c \in C |-> {p[c] : p \in ps}]
  <2>1. Shrunk(cs, ps) = {row}
    BY <1>3 DEF Shrunk
  <2>2. PICK d : C = {d}
    <3>1. cs \in Seq(DOMAIN PartitionCells)
      BY ExclusionAssumption
    <3>2. Len(cs) = 1 /\ DOMAIN cs = {1}
      <4>1. Len(cs) \in Nat /\ Len(cs) # 0 /\ DOMAIN cs = 1..Len(cs)
        BY <3>1
      <4>2. QED BY <1>3, <4>1
    <3>3. C = {cs[1]}
      BY <3>2 DEF ToSet
    <3>4. QED BY <3>3
  <2>3. row \in Lists(cs)
    <3>1. ASSUME NEW c \in C
          PROVE  {p[c] : p \in ps} \in {vs \in SUBSET AllCells : vs # {} /\ IsFiniteSet(vs)}
      <4>1. {p[c] : p \in ps} \in SUBSET AllCells /\ {p[c] : p \in ps} # {}
        BY <1>1
      <4>2. QED BY <4>1, ExclusionAssumption, FS_Subset
    <3>2. QED BY <3>1 DEF Lists
  <2>4. ASSUME NEW p \in Partitions(cs) PROVE InProduct(p, row) <=> p \in ps
    <3>1. InProduct(p, row) <=> \E q \in ps : p[d] = q[d]
      BY <2>2 DEF InProduct
    <3>2. \A q \in ps : p[d] = q[d] => p = q
      BY <1>1, <2>2
    <3>3. QED BY <3>1, <3>2
  <2> HIDE DEF row
  <2>5. QED BY <2>1, <2>3, <2>4 DEF FrameCovers
<1>4. QED BY <1>2, <1>3

ExclusionInv ==
    partition_cols \in PartitionColumns /\ known \in SUBSET Partitions(partition_cols)

(* What is still unknown is exactly what is not known.                     *)
LEMMA ExclusionSound == ExclusionInv => ExclusionExact
<1> SUFFICES ASSUME ExclusionInv, partition_cols # <<>>
             PROVE  StillUnknown(partition_cols, known) = Partitions(partition_cols) \ known
  BY DEF ExclusionExact
<1> DEFINE cs == partition_cols
<1>1. cs \in PartitionColumns /\ known \in SUBSET Partitions(cs)
  BY DEF ExclusionInv
<1> HIDE DEF cs
<1>2. CASE known = {}
  BY <1>2 DEF StillUnknown, cs
<1>3. CASE known # {}
  <2>1. /\ Shrunk(cs, known) \in SUBSET Lists(cs)
        /\ \A p \in Partitions(cs) : FrameCovers(Shrunk(cs, known), p) <=> p \in known
    BY <1>1, <1>3, ShrunkCovers DEF cs
  <2>2. ASSUME NEW p \in Partitions(cs)
        PROVE  (\A row \in Shrunk(cs, known) : ExcludeRow(row, cs, p) = Kleene!True)
                   <=> p \notin known
    BY <1>1, <2>1, ExcludeExact DEF FrameCovers
  <2>3. StillUnknown(cs, known) =
            {p \in Partitions(cs) :
                \A row \in Shrunk(cs, known) : ExcludeRow(row, cs, p) = Kleene!True}
    BY <1>3 DEF StillUnknown, cs
  <2>4. QED BY <2>2, <2>3 DEF cs
<1>4. QED BY <1>2, <1>3

(* Whatever is known, exactly the rows of the other partitions are read.   *)
THEOREM ExclusionHolds == ExclusionSpec => []ExclusionExact
<1>1. ExclusionInit => ExclusionInv
  BY DEF ExclusionInit, ExclusionInv
<1>2. ExclusionInv /\ [ExclusionNext]_exclusionVars => ExclusionInv'
  BY DEF ExclusionInv, ExclusionNext, exclusionVars, LearnPartition, StillUnknown
<1>3. QED BY <1>1, <1>2, ExclusionSound, PTL DEF ExclusionSpec

-----------------------------------------------------------------------------
(* What decides the answer: a frame whose passing rows are the same as far  *)
(* as the query shows them has the same answers.                           *)
SameShown(ask, f, g) ==
    LET p == Passing(ask.pred, f)
        q == Passing(ask.pred, g)
    IN DOMAIN p = DOMAIN q /\ \A k \in DOMAIN p :
           p[k].at = q[k].at /\ Shown(ask, p[k].row) = Shown(ask, q[k].row)

(* The head of the rows that were read is the head of the plain ones.       *)
LEMMA SameAnswers ==
    ASSUME NEW ask, NEW f, NEW g, SameShown(ask, f, g), NEW answer \in Answered(ask, f)
    PROVE  ShownFrame(ask, answer) \in {ShownFrame(ask, a) : a \in Answered(ask, g)}
<1> DEFINE p == Passing(ask.pred, f)
           q == Passing(ask.pred, g)
<1>1. PICK ks \in Heads(ask.n_rows, DOMAIN p) : Leading(p, ks) /\ answer = Only(p, ks)
  BY DEF Answered
<1>2. /\ DOMAIN p = DOMAIN q
      /\ \A k \in DOMAIN p : p[k].at = q[k].at /\ Shown(ask, p[k].row) = Shown(ask, q[k].row)
  BY DEF SameShown
<1> HIDE DEF p, q
<1>3. ks \subseteq DOMAIN p
  BY <1>1 DEF Heads
<1>4. Leading(q, ks)
  BY <1>1, <1>2, <1>3 DEF Leading
<1> DEFINE a == Only(q, ks)
<1>5. a \in Answered(ask, g)
  BY <1>1, <1>2, <1>4 DEF Answered, q
<1>6. ShownFrame(ask, answer) = ShownFrame(ask, a)
  <2>1. DOMAIN answer = ks /\ DOMAIN a = ks
    BY <1>1 DEF Only
  <2>2. ASSUME NEW k \in ks
        PROVE  answer[k].at = a[k].at /\ Shown(ask, answer[k].row) = Shown(ask, a[k].row)
    BY <1>1, <1>2, <1>3 DEF Only
  <2> HIDE DEF a
  <2>3. QED BY <2>1, <2>2 DEF ShownFrame
<1>7. QED BY <1>5, <1>6

(* The plain rows a predicate keeps are at indexes that are safe.           *)
LEMMA SafeIndexSound ==
    ASSUME NEW pred, NEW row, Passes(pred, row)
    PROVE  SafeIndex(pred, row.index)
BY DEF Passes, SafeIndex

(* A cell of an index and on-value all of whose rows were read.             *)
LEMMA CellRead ==
    ASSUME NEW data, NEW ns, ns \subseteq DOMAIN data, NEW i, NEW v,
           \A n \in DOMAIN data : data[n].index = i /\ data[n].on = v => n \in ns
    PROVE  Cell(Only(data, ns), i, v) = Cell(data, i, v)
<1> DEFINE got == Only(data, ns)
           found == {n \in DOMAIN got : got[n].index = i /\ got[n].on = v}
           all == {n \in DOMAIN data : data[n].index = i /\ data[n].on = v}
<1>1. DOMAIN got = ns /\ \A n \in ns : got[n] = data[n]
  BY DEF Only
<1> HIDE DEF got
<1>2. found = all /\ \A n \in all : got[n] = data[n]
  BY <1>1
<1>3. Cell(got, i, v) = IF found = {} THEN Null ELSE got[CHOOSE n \in found : TRUE].val
  BY DEF Cell
<1>4. Cell(data, i, v) = IF all = {} THEN Null ELSE data[CHOOSE n \in all : TRUE].val
  BY DEF Cell
<1>5. all # {} => (CHOOSE n \in all : TRUE) \in all
  OBVIOUS
<1> HIDE DEF found, all
<1>6. QED BY <1>2, <1>3, <1>4, <1>5 DEF got

(* The place of an index all of whose rows were read.                       *)
LEMMA PlaceRead ==
    ASSUME NEW data, NEW ns, ns \subseteq DOMAIN data, NEW i,
           \A n \in DOMAIN data : data[n].index = i => n \in ns
    PROVE  PlaceOf(Only(data, ns), i) = PlaceOf(data, i)
<1> DEFINE got == Only(data, ns)
           found == {n \in DOMAIN got : got[n].index = i}
           all == {n \in DOMAIN data : data[n].index = i}
<1>1. DOMAIN got = ns /\ \A n \in ns : got[n] = data[n]
  BY DEF Only
<1> HIDE DEF got
<1>2. found = all
  BY <1>1
<1>3. PlaceOf(got, i) = CHOOSE n \in found : \A m \in found : n <= m
  BY DEF PlaceOf
<1>4. PlaceOf(data, i) = CHOOSE n \in all : \A m \in all : n <= m
  BY DEF PlaceOf
<1> HIDE DEF found, all
<1>5. QED BY <1>2, <1>3, <1>4 DEF got

(* The rows of a typed source pivot to rows of a pivot.                     *)
LEMMA PivotRowTyped ==
    ASSUME NEW data \in Sources, NEW ns, ns \subseteq DOMAIN data, NEW vs,
           NEW i \in {r.index : r \in SourceRows}
    PROVE  PivotRow(Only(data, ns), i, vs) \in PivotedRows
<1> DEFINE got == Only(data, ns)
           values == {r.val : r \in SourceRows} \union {Null}
<1>1. DOMAIN got = ns /\ \A n \in ns : got[n] \in SourceRows
  BY DEF Only, Sources
<1> HIDE DEF got
<1>2. ASSUME NEW v \in OnColumns
      PROVE  Cell(got, i, v) \in values
  <2> DEFINE found == {n \in DOMAIN got : got[n].index = i /\ got[n].on = v}
  <2>1. Cell(got, i, v) = IF found = {} THEN Null ELSE got[CHOOSE n \in found : TRUE].val
    BY DEF Cell
  <2>2. found # {} => (CHOOSE n \in found : TRUE) \in ns
    BY <1>1
  <2> HIDE DEF found
  <2>3. QED BY <1>1, <2>1, <2>2
<1>3. Null \in values
  OBVIOUS
<1> HIDE DEF values
<1>4. [v \in OnColumns |-> IF v \in vs THEN Cell(got, i, v) ELSE Null] \in [OnColumns -> values]
  BY <1>2, <1>3
<1>5. QED BY <1>4 DEF PivotRow, PivotedRows, values, got

(* The cells that are read are those that are shown or decide the predicate.*)
LEMMA NeededCells ==
    ASSUME NEW ask \in ShapeAsks, ask.kind = "pivot", NEW data \in Sources,
           NEW i, SafeIndex(ask.pred, i)
    PROVE  LET got == PivotRow(PivotRead(ask, data), i, PivotOn(ask))
               plain == PivotRow(data, i, OnColumns)
           IN /\ got.index = i /\ plain.index = i
              /\ \A v \in NeededOn(ask) : got.cells[v] = plain.cells[v]
<1>1. NeededOn(ask) \subseteq OnColumns /\ NeededOn(ask) \subseteq PivotOn(ask)
  BY DEF NeededOn, PivotOn
<1>2. ASSUME NEW v \in NeededOn(ask)
      PROVE  Cell(PivotRead(ask, data), i, v) = Cell(data, i, v)
  BY CellRead DEF PivotRead, PivotFilter
<1>3. QED BY <1>1, <1>2 DEF PivotRow

(* A pivot that has the safe indexes, and their order where it is           *)
(* maintained, has the rows of the plain one.                              *)
LEMMA PivotAgrees ==
    ASSUME NEW ask \in ShapeAsks, ask.kind = "pivot", NEW data \in Sources,
           NEW full \in Sources, NEW index,
           Indexes(index) = {i \in Indexes(full) : SafeIndex(ask.pred, i)},
           ask.maintain_order =>
               \A i \in Indexes(index) : PlaceOf(index, i) = PlaceOf(full, i)
    PROVE  SameShown(ask, Pivot(ask.maintain_order, index, PivotRead(ask, data), PivotOn(ask)),
                     Pivot(ask.maintain_order, full, data, OnColumns))
<1> DEFINE got == PivotRead(ask, data)
           read == Pivot(ask.maintain_order, index, got, PivotOn(ask))
           plain == Pivot(ask.maintain_order, full, data, OnColumns)
           Row(i) == PivotRow(got, i, PivotOn(ask))
           PlainRow(i) == PivotRow(data, i, OnColumns)
<1>1. DOMAIN read = Indexes(index) /\ DOMAIN plain = Indexes(full)
  BY DEF Pivot
<1>2. \A i \in DOMAIN read :
          read[i].row = Row(i) /\ read[i].at = IF ask.maintain_order THEN PlaceOf(index, i) ELSE 0
  BY DEF Pivot
<1>3. \A i \in DOMAIN plain :
          plain[i].row = PlainRow(i) /\ plain[i].at = IF ask.maintain_order THEN PlaceOf(full, i) ELSE 0
  BY DEF Pivot
<1>4. \A i : Row(i).index = i /\ PlainRow(i).index = i
  BY DEF PivotRow
<1>5. ASSUME NEW i, SafeIndex(ask.pred, i)
      PROVE  \A v \in NeededOn(ask) : Row(i).cells[v] = PlainRow(i).cells[v]
  BY <1>5, NeededCells
<1>6. Indexes(full) \subseteq {r.index : r \in SourceRows}
  BY DEF Indexes, Sources
<1>7. ASSUME NEW i \in Indexes(full)
      PROVE  Row(i) \in PivotedRows /\ PlainRow(i) \in PivotedRows
  <2>1. PlainRow(i) \in PivotedRows
    <3>1. Only(data, DOMAIN data) = data
      BY DEF Only, Sources
    <3>2. QED BY <3>1, <1>6, PivotRowTyped
  <2>2. Row(i) \in PivotedRows
    BY <1>6, PivotRowTyped DEF PivotRead
  <2>3. QED BY <2>1, <2>2
<1> HIDE DEF got, read, plain, Row, PlainRow
<1>8. ASSUME NEW i \in Indexes(full), SafeIndex(ask.pred, i)
      PROVE  Passes(ask.pred, Row(i)) <=> Passes(ask.pred, PlainRow(i))
  <2>1. CASE ask.pred = None
    BY <2>1 DEF Passes
  <2>2. CASE ask.pred # None
    <3>1. ASSUME NEW f \in ask.pred
          PROVE  SameCells(f.cols, Row(i), PlainRow(i))
      <4>1. f.cols \intersect OnColumns \subseteq NeededOn(ask)
        BY <2>2 DEF NeededOn, References
      <4>2. QED BY <1>4, <1>5, <1>8, <4>1 DEF SameCells
    <3>2. QED BY <2>2, <3>1, <1>7, ShapesAssumption DEF Passes
  <2>3. QED BY <2>1, <2>2
<1>9. \A i \in Indexes(full) : Passes(ask.pred, PlainRow(i)) => SafeIndex(ask.pred, i)
  BY <1>4, SafeIndexSound
<1>10. DOMAIN Passing(ask.pred, read) = DOMAIN Passing(ask.pred, plain)
  <2>1. DOMAIN Passing(ask.pred, read) = {i \in Indexes(index) : Passes(ask.pred, Row(i))}
    BY <1>1, <1>2 DEF Passing, Only
  <2>2. DOMAIN Passing(ask.pred, plain) = {i \in Indexes(full) : Passes(ask.pred, PlainRow(i))}
    BY <1>1, <1>3 DEF Passing, Only
  <2>3. QED BY <1>8, <1>9, <2>1, <2>2
<1>11. ASSUME NEW i \in DOMAIN Passing(ask.pred, read)
       PROVE  /\ Passing(ask.pred, read)[i].at = Passing(ask.pred, plain)[i].at
              /\ Shown(ask, Passing(ask.pred, read)[i].row) = Shown(ask, Passing(ask.pred, plain)[i].row)
  <2>1. i \in Indexes(index) /\ i \in Indexes(full) /\ SafeIndex(ask.pred, i)
    <3>1. i \in DOMAIN read
      BY DEF Passing, Only
    <3>2. QED BY <1>1, <3>1
  <2>2. Passing(ask.pred, read)[i] = read[i] /\ Passing(ask.pred, plain)[i] = plain[i]
    <3>1. i \in DOMAIN Passing(ask.pred, plain)
      BY <1>10
    <3>2. Passing(ask.pred, read)[i] = read[i]
      BY DEF Passing, Only
    <3>3. QED BY <3>1, <3>2 DEF Passing, Only
  <2>3. read[i].at = plain[i].at
    BY <1>1, <1>2, <1>3, <2>1
  <2>4. Shown(ask, Row(i)) = Shown(ask, PlainRow(i))
    <3>1. CASE ask.wants = None
      <4>1. NeededOn(ask) = OnColumns
        BY <3>1 DEF NeededOn
      <4>2. Row(i) \in PivotedRows /\ PlainRow(i) \in PivotedRows
        BY <1>7, <2>1
      <4>3. Row(i).cells = PlainRow(i).cells
        BY <1>5, <2>1, <4>1, <4>2 DEF PivotedRows
      <4>4. Row(i) = PlainRow(i)
        BY <1>4, <4>2, <4>3 DEF PivotedRows
      <4>5. QED BY <4>4
    <3>2. CASE ask.wants # None
      <4>1. OnColumns \intersect ask.wants \subseteq NeededOn(ask)
        BY <3>2 DEF NeededOn
      <4>2. \A v \in OnColumns \intersect ask.wants : Row(i).cells[v] = PlainRow(i).cells[v]
        BY <1>5, <2>1, <4>1
      <4>3. QED BY <1>4, <3>2, <4>2 DEF Shown
    <3>3. QED BY <3>1, <3>2
  <2>5. QED BY <1>1, <1>2, <1>3, <2>1, <2>2, <2>3, <2>4
<1>12. QED BY <1>10, <1>11 DEF SameShown, read, plain, got

(* A single reading has the safe indexes, in their order: it drops rows     *)
(* with other on-values only when nothing is recovered for want of them.    *)
LEMMA PivotIndexes ==
    ASSUME NEW ask \in ShapeAsks, NEW data \in Sources, ~RecoversIndex(ask),
           ask.dense_on => Dense(data)
    PROVE  LET got == PivotRead(ask, data)
           IN /\ Indexes(got) = {i \in Indexes(data) : SafeIndex(ask.pred, i)}
              /\ ask.maintain_order =>
                     \A i \in Indexes(got) : PlaceOf(got, i) = PlaceOf(data, i)
<1> DEFINE got == PivotRead(ask, data)
<1>1. /\ DOMAIN got = {n \in DOMAIN data : PivotFilter(ask, data[n])}
      /\ \A n \in DOMAIN got : got[n] = data[n]
  BY DEF PivotRead, Only
<1>2. Indexes(got) = {got[n].index : n \in DOMAIN got}
  BY DEF Indexes
<1> HIDE DEF got
<1>3. Indexes(got) \subseteq {i \in Indexes(data) : SafeIndex(ask.pred, i)}
  BY <1>1, <1>2 DEF Indexes, PivotFilter
<1>4. ASSUME NEW n \in DOMAIN data, SafeIndex(ask.pred, data[n].index)
      PROVE  data[n].index \in Indexes(got)
  <2>1. CASE ~PushesOn(ask)
    BY <1>1, <1>2, <1>4, <2>1 DEF PivotFilter
  <2>2. CASE PushesOn(ask)
    <3>1. ask.dense_on
      BY <2>2 DEF RecoversIndex
    <3>2. PICK v \in NeededOn(ask) : v \in OnColumns
      BY <2>2 DEF PushesOn, NeededOn
    <3>3. PICK m \in DOMAIN data : data[m].index = data[n].index /\ data[m].on = v
      BY <3>1, <3>2 DEF Dense
    <3>4. m \in DOMAIN got
      BY <1>1, <1>4, <3>2, <3>3 DEF PivotFilter
    <3>5. QED BY <1>1, <1>2, <3>3, <3>4
  <2>3. QED BY <2>1, <2>2
<1>5. ASSUME ask.maintain_order, NEW i \in Indexes(got)
      PROVE  PlaceOf(got, i) = PlaceOf(data, i)
  <2>1. ~PushesOn(ask)
    BY <1>5 DEF PushesOn
  <2>2. SafeIndex(ask.pred, i)
    BY <1>3, <1>5
  <2>3. \A n \in DOMAIN data : data[n].index = i => PivotFilter(ask, data[n])
    BY <2>1, <2>2 DEF PivotFilter
  <2>4. QED BY <2>3, PlaceRead DEF PivotRead, got
<1>6. QED BY <1>3, <1>4, <1>5 DEF got, Indexes

(* The recovered index rows are the safe ones.                             *)
LEMMA RecoveredIndexes ==
    ASSUME NEW ask, NEW data
    PROVE  Indexes(IndexRead(ask, data)) = {i \in Indexes(data) : SafeIndex(ask.pred, i)}
BY DEF Indexes, IndexRead, Only

(* The rows an unpivot reads are those of the rows the predicate keeps.     *)
LEMMA UnpivotAgrees ==
    ASSUME NEW ask \in ShapeAsks, ask.kind = "unpivot", NEW data
    PROVE  SameShown(ask, Unpivot(UnpivotRead(ask, data), InternalOn(ask)),
                     Unpivot(data, Unpivoted))
<1> DEFINE got == UnpivotRead(ask, data)
           read == Unpivot(got, InternalOn(ask))
           plain == Unpivot(data, Unpivoted)
           Row(k) == [row |-> data[k[2]], variable |-> k[1]]
<1>1. /\ DOMAIN got = {n \in DOMAIN data : UnpivotFilter(ask, data[n])}
      /\ \A n \in DOMAIN got : got[n] = data[n]
  BY DEF UnpivotRead, Only
<1> HIDE DEF got
<1>2. /\ DOMAIN read = InternalOn(ask) \X DOMAIN got
      /\ DOMAIN plain = Unpivoted \X DOMAIN data
      /\ \A k \in DOMAIN plain : plain[k].row = Row(k)
  BY DEF Unpivot
<1>3. InternalOn(ask) \subseteq Unpivoted
  BY DEF InternalOn
<1>4. \A k \in DOMAIN read : k \in DOMAIN plain /\ read[k] = plain[k]
  BY <1>1, <1>2, <1>3 DEF Unpivot
<1>5. ASSUME NEW v \in Unpivoted, NEW n \in DOMAIN data,
             Passes(ask.pred, [row |-> data[n], variable |-> v])
      PROVE  v \in InternalOn(ask) /\ n \in DOMAIN got
  <2>1. CASE ask.pred = None
    BY <1>1, <2>1 DEF InternalOn, UnpivotFilter
  <2>2. CASE ask.pred # None
    <3> DEFINE row == [row |-> data[n], variable |-> v]
    <3>1. \A f \in ask.pred : row \in f.keeps
      BY <1>5, <2>2 DEF Passes
    <3>2. v \in InternalOn(ask)
      BY <2>2, <3>1, ShapesAssumption DEF InternalOn
    <3>3. UnpivotFilter(ask, data[n])
      BY <2>2, <3>1 DEF UnpivotFilter
    <3>4. QED BY <1>1, <3>2, <3>3
  <2>3. QED BY <2>1, <2>2
<1> HIDE DEF read, plain
<1>6. \A k \in DOMAIN plain : Passes(ask.pred, plain[k].row) => k \in DOMAIN read
  <2>1. ASSUME NEW v \in Unpivoted, NEW n \in DOMAIN data,
               Passes(ask.pred, plain[<<v, n>>].row)
        PROVE  <<v, n>> \in DOMAIN read
    <3>1. plain[<<v, n>>].row = [row |-> data[n], variable |-> v]
      BY <1>2
    <3>2. QED BY <1>2, <1>5, <2>1, <3>1
  <2>2. QED BY <1>2, <2>1
<1>7. Passing(ask.pred, read) = Passing(ask.pred, plain)
  BY <1>4, <1>6 DEF Passing, Only
<1>8. QED BY <1>7 DEF SameShown, read, plain, got

(* The frames that are not read have no row the predicate keeps.            *)
LEMMA ConcatAgrees ==
    ASSUME NEW ask \in ShapeAsks, NEW data
    PROVE  SameShown(ask, Concat(data, FramesRead(ask)), Concat(data, DOMAIN FrameColumns))
<1> DEFINE read == Concat(data, FramesRead(ask))
           plain == Concat(data, DOMAIN FrameColumns)
<1>1. FramesRead(ask) \subseteq DOMAIN FrameColumns
  BY DEF FramesRead
<1>2. \A n \in DOMAIN read : n \in DOMAIN plain /\ read[n] = plain[n]
  BY <1>1 DEF Concat
<1>3. \A n \in DOMAIN plain : Passes(ask.pred, plain[n].row) => n \in DOMAIN read
  BY DEF Concat, Passes, FramesRead
<1> HIDE DEF read, plain
<1>4. Passing(ask.pred, read) = Passing(ask.pred, plain)
  BY <1>2, <1>3 DEF Passing, Only
<1>5. QED BY <1>4 DEF SameShown, read, plain

-----------------------------------------------------------------------------
ShapeFields == {"pc", "ask", "firstAt", "indexAt", "got", "cols", "answer"}

(* Between two readings a pivot holds the rows of the first; a query that   *)
(* asserts dense on-values finds them until it reads.                      *)
ShapeInv ==
    /\ source \in Sources
    /\ DOMAIN shape = ShapeFields
    /\ shape.pc \in {"idle", "pivot", "unpivot", "concat", "recover", "done"}
    /\ shape.pc # "idle" => shape.ask \in ShapeAsks
    /\ shape.pc \in {"pivot", "unpivot", "concat"} => shape.ask.kind = shape.pc
    /\ shape.pc = "pivot" /\ shape.ask.dense_on => Dense(source)
    /\ shape.pc = "recover" =>
           /\ shape.ask.kind = "pivot" /\ RecoversIndex(shape.ask)
           /\ shape.firstAt \in Sources
           /\ shape.got = PivotRead(shape.ask, shape.firstAt)
           /\ shape.cols = Columns("pivot")
    /\ ReshapesAgree

(* A query names columns of its reshape only.                              *)
LEMMA AskedColumns ==
    ASSUME NEW ask \in ShapeAsks, ask.wants # None
    PROVE  ask.wants \union References(ask.pred) \subseteq Columns(ask.kind)
BY ShapesAssumption DEF References

(* The columns an unpivot and a concat read hold those a query names.       *)
LEMMA UnpivotNames ==
    ASSUME NEW ask \in ShapeAsks, ask.kind = "unpivot", ask.wants # None
    PROVE  ask.wants \union References(ask.pred) \subseteq UnpivotColumns(ask)
BY AskedColumns DEF Columns, UnpivotColumns

LEMMA ConcatNames == ASSUME NEW ask PROVE ConcatColumns(ask) = FrameSchema
BY DEF ConcatColumns, FrameSchema, FramesRead

LEMMA ShapeStarts == ShapeInit => ShapeInv
BY DEF ShapeInit, ShapeInv, NoShape, ShapeFields, ReshapesAgree

(* A collect that ends with an answer of a frame that shows what the plain  *)
(* reshape shows, and names its columns.                                   *)
LEMMA DoneAgrees ==
    ASSUME NEW frame, DOMAIN shape' = ShapeFields, shape'.pc = "done",
           source' \in Sources, shape'.ask \in ShapeAsks,
           SameShown(shape'.ask, frame, Reshape(shape'.ask, shape'.indexAt, shape'.firstAt)),
           shape'.answer \in Answered(shape'.ask, frame),
           shape'.ask.wants # None =>
               shape'.ask.wants \union References(shape'.ask.pred) \subseteq shape'.cols,
           shape'.ask.kind = "concat" => shape'.cols = FrameSchema
    PROVE  ShapeInv'
<1> DEFINE ask == shape'.ask
           answer == shape'.answer
           plain == Reshape(ask, shape'.indexAt, shape'.firstAt)
<1>1. ShownFrame(ask, answer) \in {ShownFrame(ask, a) : a \in Answered(ask, plain)}
  <2> HIDE DEF ask, answer, plain
  <2>1. SameShown(ask, frame, plain) /\ answer \in Answered(ask, frame)
    BY DEF ask, answer, plain
  <2>2. QED BY <2>1, SameAnswers
<1>2. ReshapesAgree'
  BY <1>1 DEF ReshapesAgree
<1>3. QED BY <1>2 DEF ShapeInv

LEMMA ShapeStep == ShapeInv /\ [ShapeNext]_shapeVars => ShapeInv'
<1> SUFFICES ASSUME ShapeInv, [ShapeNext]_shapeVars PROVE ShapeInv'
  OBVIOUS
<1>1. CASE UNCHANGED shapeVars
  BY <1>1 DEF ShapeInv, shapeVars, ReshapesAgree
<1>2. ASSUME NEW ask \in ShapeAsks, AskShape(ask) PROVE ShapeInv'
  <2>1. /\ DOMAIN shape' = ShapeFields /\ shape'.pc = ask.kind /\ shape'.ask = ask
        /\ source' = source
    BY <1>2 DEF AskShape, ShapeInv, ShapeFields
  <2>2. ask.kind \in {"pivot", "unpivot", "concat"}
    BY ShapesAssumption
  <2>3. ask.dense_on => Dense(source')
    BY <1>2, <2>1 DEF AskShape
  <2>4. ReshapesAgree'
    BY <2>1, <2>2 DEF ReshapesAgree
  <2>5. QED BY <2>1, <2>2, <2>3, <2>4 DEF ShapeInv
<1>3. ASSUME ReadPivot PROVE ShapeInv'
  <2> DEFINE ask == shape.ask
             got == PivotRead(ask, source)
             frame == Pivot(ask.maintain_order, got, got, PivotOn(ask))
  <2>1. /\ ask \in ShapeAsks /\ ask.kind = "pivot"
        /\ ask.dense_on => Dense(source)
        /\ source \in Sources /\ source' = source
    BY <1>3 DEF ReadPivot, ShapeInv
  <2>2. CASE RecoversIndex(ask)
    <3>1. /\ DOMAIN shape' = ShapeFields /\ shape'.pc = "recover" /\ shape'.ask = ask
          /\ shape'.firstAt = source /\ shape'.got = got
          /\ shape'.cols = {"index"} \union OnColumns
      BY <1>3, <2>2 DEF ReadPivot, ShapeInv, ShapeFields
    <3>2. ReshapesAgree'
      BY <3>1 DEF ReshapesAgree
    <3> HIDE DEF ask, got
    <3>3. QED BY <2>1, <2>2, <3>1, <3>2 DEF ShapeInv, Columns, got
  <2>3. CASE ~RecoversIndex(ask)
    <3>1. PICK answer \in Answered(ask, frame) :
              shape' = [shape EXCEPT !.firstAt = source, !.indexAt = source, !.got = got,
                            !.cols = {"index"} \union OnColumns, !.pc = "done", !.answer = answer]
      BY <1>3, <2>3 DEF ReadPivot
    <3>2. /\ DOMAIN shape' = ShapeFields /\ shape'.pc = "done" /\ shape'.ask = ask
          /\ shape'.firstAt = source /\ shape'.indexAt = source /\ shape'.answer = answer
          /\ shape'.cols = {"index"} \union OnColumns
      <4> HIDE DEF ask, got, frame
      <4>1. QED BY <3>1 DEF ShapeInv, ShapeFields, ask
    <3> HIDE DEF ask
    <3>3. /\ Indexes(got) = {i \in Indexes(source) : SafeIndex(ask.pred, i)}
          /\ ask.maintain_order => \A i \in Indexes(got) : PlaceOf(got, i) = PlaceOf(source, i)
      BY <2>1, <2>3, PivotIndexes
    <3> HIDE DEF got
    <3>4. SameShown(ask, Pivot(ask.maintain_order, got, PivotRead(ask, source), PivotOn(ask)),
                    Pivot(ask.maintain_order, source, source, OnColumns))
      BY <2>1, <3>3, PivotAgrees
    <3>5. SameShown(ask, frame, Reshape(ask, source, source))
      BY <2>1, <3>4 DEF Reshape, got
    <3>6. ask.wants # None => ask.wants \union References(ask.pred) \subseteq shape'.cols
      BY <2>1, <3>2, AskedColumns DEF Columns
    <3> HIDE DEF frame
    <3>7. QED BY <2>1, <3>1, <3>2, <3>5, <3>6, DoneAgrees
  <2>4. QED BY <2>2, <2>3
<1>4. ASSUME RecoverIndex PROVE ShapeInv'
  <2> DEFINE ask == shape.ask
             index == IndexRead(ask, source)
             first == shape.firstAt
             frame == Pivot(ask.maintain_order, index, PivotRead(ask, first), PivotOn(ask))
  <2>1. /\ ask \in ShapeAsks /\ ask.kind = "pivot" /\ RecoversIndex(ask)
        /\ source \in Sources /\ source' = source /\ first \in Sources
        /\ shape.got = PivotRead(ask, first) /\ shape.cols = Columns("pivot")
    BY <1>4 DEF RecoverIndex, ShapeInv
  <2>2. PICK answer \in Answered(ask, frame) :
            shape' = [shape EXCEPT !.pc = "done", !.indexAt = source, !.answer = answer]
    BY <1>4, <2>1 DEF RecoverIndex
  <2>3. /\ DOMAIN shape' = ShapeFields /\ shape'.pc = "done" /\ shape'.ask = ask
        /\ shape'.firstAt = first /\ shape'.indexAt = source /\ shape'.answer = answer
        /\ shape'.cols = Columns("pivot")
    <3>1. shape.cols = Columns("pivot")
      BY <2>1
    <3> HIDE DEF frame, index
    <3>2. QED BY <2>2, <3>1 DEF ShapeInv, ShapeFields
  <2> HIDE DEF ask, first
  <2>4. Indexes(index) = {i \in Indexes(source) : SafeIndex(ask.pred, i)}
    BY RecoveredIndexes
  <2>5. ~ask.maintain_order
    BY <2>1 DEF RecoversIndex, PushesOn
  <2> HIDE DEF index
  <2>6. SameShown(ask, frame, Pivot(ask.maintain_order, source, first, OnColumns))
    BY <2>1, <2>4, <2>5, PivotAgrees
  <2>7. SameShown(ask, frame, Reshape(ask, source, first))
    BY <2>1, <2>6 DEF Reshape
  <2>8. ask.wants # None => ask.wants \union References(ask.pred) \subseteq shape'.cols
    BY <2>1, <2>3, AskedColumns
  <2> HIDE DEF frame
  <2>9. QED BY <2>1, <2>2, <2>3, <2>7, <2>8, DoneAgrees
<1>5. ASSUME ReadUnpivot PROVE ShapeInv'
  <2> DEFINE ask == shape.ask
             frame == Unpivot(UnpivotRead(ask, source), InternalOn(ask))
  <2>1. ask \in ShapeAsks /\ ask.kind = "unpivot" /\ source \in Sources /\ source' = source
    BY <1>5 DEF ReadUnpivot, ShapeInv
  <2>2. PICK answer \in Answered(ask, frame) :
            shape' = [shape EXCEPT !.pc = "done", !.firstAt = source,
                          !.cols = UnpivotColumns(ask), !.answer = answer]
    BY <1>5 DEF ReadUnpivot
  <2> HIDE DEF frame
  <2>3. /\ DOMAIN shape' = ShapeFields /\ shape'.pc = "done" /\ shape'.ask = ask
        /\ shape'.firstAt = source /\ shape'.answer = answer /\ shape'.cols = UnpivotColumns(ask)
    BY <2>2 DEF ShapeInv, ShapeFields
  <2> HIDE DEF ask
  <2>4. SameShown(ask, frame, Unpivot(source, Unpivoted))
    BY <2>1, UnpivotAgrees DEF frame
  <2>5. SameShown(ask, frame, Reshape(ask, shape'.indexAt, source))
    BY <2>1, <2>4 DEF Reshape
  <2>6. ask.wants # None => ask.wants \union References(ask.pred) \subseteq shape'.cols
    BY <2>1, <2>3, UnpivotNames
  <2>7. QED BY <2>1, <2>2, <2>3, <2>5, <2>6, DoneAgrees
<1>6. ASSUME ReadFrames PROVE ShapeInv'
  <2> DEFINE ask == shape.ask
             frame == Concat(source, FramesRead(ask))
  <2>1. ask \in ShapeAsks /\ ask.kind = "concat" /\ source \in Sources /\ source' = source
    BY <1>6 DEF ReadFrames, ShapeInv
  <2>2. PICK answer \in Answered(ask, frame) :
            shape' = [shape EXCEPT !.pc = "done", !.firstAt = source,
                          !.cols = ConcatColumns(ask), !.answer = answer]
    BY <1>6 DEF ReadFrames
  <2> HIDE DEF frame
  <2>3. /\ DOMAIN shape' = ShapeFields /\ shape'.pc = "done" /\ shape'.ask = ask
        /\ shape'.firstAt = source /\ shape'.answer = answer /\ shape'.cols = FrameSchema
    BY <2>2, ConcatNames DEF ShapeInv, ShapeFields
  <2> HIDE DEF ask
  <2>4. SameShown(ask, frame, Concat(source, DOMAIN FrameColumns))
    BY <2>1, ConcatAgrees DEF frame
  <2>5. SameShown(ask, frame, Reshape(ask, shape'.indexAt, source))
    BY <2>1, <2>4 DEF Reshape
  <2>6. ask.wants # None => ask.wants \union References(ask.pred) \subseteq shape'.cols
    BY <2>1, <2>3, AskedColumns DEF Columns
  <2>7. QED BY <2>1, <2>2, <2>3, <2>5, <2>6, DoneAgrees
<1>7. ASSUME ChangeSource PROVE ShapeInv'
  <2>1. source' \in Sources /\ shape' = shape /\ shape.pc = "recover"
    BY <1>7 DEF ChangeSource
  <2>2. QED BY <2>1 DEF ShapeInv, ReshapesAgree
<1>8. QED BY <1>1, <1>2, <1>3, <1>4, <1>5, <1>6, <1>7 DEF ShapeNext

(* Whatever the source, the query and the change between two readings, a    *)
(* pivot, an unpivot or a concat that reads only what the query leaves to   *)
(* its source gives rows that the plain reshape may give, filtered.         *)
THEOREM ReshapesHold == ShapeSpec => []ReshapesAgree
<1>1. ShapeInv => ReshapesAgree
  BY DEF ShapeInv
<1>2. QED BY ShapeStarts, ShapeStep, <1>1, PTL DEF ShapeSpec

-----------------------------------------------------------------------------
(* The fields of a specification.                                          *)
LEMMA SpecTyped ==
    ASSUME NEW ask \in CombineAsks, NEW s \in ask.specs
    PROVE  /\ s.out \in {"at", "day", "key", "other"} /\ s.col \in {"at", "key"}
           /\ s.closed \in {None, "both", "left", "right", "none"}
           /\ s.lookback \in Nat /\ s.lookahead \in Nat
<1> DEFINE fields == DOMAIN s \ {"mapping", "around"}
           t == [x \in fields |-> s[x]]
<1>1. t \in CombineSpec
  BY CombineAssumption
<1>2. \A x \in DOMAIN t : t[x] = s[x]
  OBVIOUS
<1> HIDE DEF t, fields
<1>3. DOMAIN t = {"out", "col", "closed", "lookback", "lookahead"}
  BY <1>1 DEF CombineSpec
<1>4. QED BY <1>1, <1>2, <1>3 DEF CombineSpec

(* Instants lie on the line, dates at every fourth position of it.          *)
LEMMA InstantsOnLine ==
    ASSUME NEW i \in Instants
    PROVE  i \in Nat /\ At(i) \in Line /\ At(i) \in Nat /\ At(i) = 2 * i
BY DaysAssumption DEF Instants, At, Line

LEMMA MidnightOf ==
    ASSUME NEW k \in Nat, NEW j \in 0..3
    PROVE  Midnight(4 * k + j) = 4 * k
<1>1. (4 * k + j) \div 4 = k
  OBVIOUS
<1>2. QED BY <1>1 DEF Midnight

LEMMA DateEven ==
    ASSUME NEW i \in Instants, OnDate(i)
    PROVE  \E k \in Nat : i = 2 * k /\ k <= LastDay
<1> DEFINE k == (2 * i) \div 4
<1>1. i \in Nat /\ i <= 2 * LastDay + 1
  BY DaysAssumption DEF Instants
<1>2. 2 * i = 4 * k
  BY <1>1 DEF OnDate, At, Midnight
<1>3. k \in Nat
  BY <1>1
<1> HIDE DEF k
<1>4. i = 2 * k /\ k <= LastDay
  BY <1>1, <1>2, <1>3, DaysAssumption
<1>5. QED BY <1>3, <1>4

LEMMA EvenDate ==
    ASSUME NEW k \in Nat
    PROVE  OnDate(2 * k)
<1>1. Midnight(4 * k + 0) = 4 * k
  BY MidnightOf
<1>2. QED BY <1>1 DEF OnDate, At

(* A position that a window around a position of a set reaches.             *)
LEMMA Widened ==
    ASSUME NEW set, NEW back \in Nat, NEW ahead \in Nat, NEW p \in Line, NEW q \in Line,
           NEW w \in set, q <= w, w <= q + At(back), q <= p, p <= q + At(ahead)
    PROVE  p \in Lookahead(Lookback(set, back), ahead)
<1>1. q \in Lookback(set, back)
  BY DEF Lookback
<1>2. QED BY <1>1 DEF Lookahead

(* No lower bound of these positions is open at noon.                       *)
NoonsClosed(set) ==
    \A i \in Instants : ~OnDate(i) /\ At(i) + 1 \in set => At(i) \in set

(* A row of a Date source that starts in the window, rounded out to dates.  *)
LEMMA DatesReached ==
    ASSUME NEW set \in SUBSET Line, NEW v \in Instants, OnDate(v), At(v) \in set,
           NEW i \in Instants, OnDate(i), NEW back \in Nat, NEW ahead \in Nat,
           back % 2 = 1 => NoonsClosed(set),
           i + 1 >= v - back, i <= v + ahead
    PROVE  At(i) \in FullDates(Lookahead(Lookback(set, back), ahead))
<1> DEFINE behind == Lookback(set, back)
           wide == Lookahead(behind, ahead)
<1>1. PICK m \in Nat : v = 2 * m /\ m <= LastDay
  BY DateEven
<1>2. PICK k \in Nat : i = 2 * k /\ k <= LastDay
  BY DateEven
<1>3. /\ At(v) = 4 * m /\ At(i) = 4 * k /\ At(back) = 2 * back /\ At(ahead) = 2 * ahead
      /\ At(v) \in Line /\ At(i) \in Line
  BY <1>1, <1>2, InstantsOnLine DEF At
<1>4. At(i) = Midnight(At(i))
  BY DEF OnDate
<1>5. SUFFICES \/ At(i) \in wide
               \/ \E q \in wide : q % 2 = 0 /\ q - 1 \notin wide /\ Midnight(q) = At(i)
  BY <1>3, <1>4 DEF FullDates
<1>6. CASE i >= v - back
  <2>1. CASE i <= v
    <3>1. At(i) <= At(v) /\ At(v) <= At(i) + At(back) /\ At(i) <= At(i) + At(ahead)
      BY <1>1, <1>2, <1>3, <1>6, <2>1
    <3>2. QED BY <1>2, <1>3, <3>1, Widened
  <2>2. CASE i > v
    <3>1. At(v) <= At(v) + At(back) /\ At(v) <= At(i) /\ At(i) <= At(v) + At(ahead)
      BY <1>1, <1>2, <1>3, <2>2
    <3>2. QED BY <1>1, <1>3, <3>1, Widened
  <2>3. QED BY <1>1, <1>2, <2>1, <2>2
<1>7. CASE i < v - back
  <2>1. back = 2 * m - 2 * k - 1 /\ m > k
    BY <1>1, <1>2, <1>7
  <2>2. 4 * k + 1 \in Line /\ 4 * k + 2 \in Line
    BY <1>2, DaysAssumption DEF Line
  <2>3. 4 * k + 2 \in wide
    <3>1. /\ 4 * k + 2 <= At(v) /\ At(v) <= 4 * k + 2 + At(back)
          /\ 4 * k + 2 <= 4 * k + 2 + At(ahead)
      BY <1>3, <2>1
    <3>2. QED BY <2>2, <3>1, Widened
  <2>4. Midnight(4 * k + 2) = At(i)
    BY <1>3, MidnightOf
  <2>5. CASE 4 * k + 1 \notin wide
    <3>1. (4 * k + 2) % 2 = 0 /\ 4 * k + 2 - 1 = 4 * k + 1
      BY <1>2
    <3>2. QED BY <2>3, <2>4, <2>5, <3>1
  <2>6. CASE 4 * k + 1 \in wide
    <3>1. PICK y \in behind : y <= 4 * k + 1 /\ 4 * k + 1 <= y + At(ahead)
      BY <2>6 DEF Lookahead
    <3>2. y \in Int
      BY <3>1 DEF Lookback, Line
    <3>3. CASE y <= 4 * k
      BY <1>2, <1>3, <3>1, <3>2, <3>3 DEF Lookahead
    <3>4. CASE y = 4 * k + 1
      <4>1. PICK x \in set : 4 * k + 1 <= x /\ x <= 4 * k + 1 + At(back)
        BY <3>4 DEF Lookback
      <4>2. x \in Line /\ x \in Int
        BY <4>1 DEF Line
      <4>3. 4 * k \in behind => At(i) \in wide
        <5>1. At(i) <= At(i) /\ At(i) <= At(i) + At(ahead)
          BY <1>3
        <5>2. QED BY <1>3, <5>1 DEF Lookahead
      <4>4. CASE x <= 4 * k + At(back)
        <5>1. 4 * k <= x
          BY <4>1, <4>2
        <5>2. 4 * k \in behind
          BY <1>3, <4>4, <5>1 DEF Lookback
        <5>3. QED BY <4>3, <5>2
      <4>5. CASE x > 4 * k + At(back)
        <5>1. PICK n \in Nat : m = n + 1
          <6>1. m - 1 \in Nat /\ m = (m - 1) + 1
            BY <2>1
          <6>2. QED BY <6>1
        <5>2. x = 4 * n + 3 /\ 4 * n + 2 = 4 * k + At(back)
          BY <1>3, <2>1, <4>1, <4>2, <4>5, <5>1
        <5>3. 2 * n + 1 \in Instants /\ At(2 * n + 1) = 4 * n + 2 /\ ~OnDate(2 * n + 1)
          <6>1. 2 * n + 1 \in Instants
            BY <1>1, <5>1, DaysAssumption DEF Instants
          <6>2. At(2 * n + 1) = 4 * n + 2 /\ Midnight(4 * n + 2) = 4 * n
            BY MidnightOf DEF At
          <6>3. QED BY <6>1, <6>2 DEF OnDate
        <5>4. 4 * n + 2 \in Line /\ 4 * n + 2 + 1 = 4 * n + 3
          BY <1>1, <5>1, DaysAssumption DEF Line
        <5>5. back % 2 = 1
          <6>1. back = 2 * (n - k) + 1 /\ n - k \in Int
            BY <2>1, <5>1
          <6>2. QED BY <6>1
        <5>6. 4 * n + 2 \in set
          BY <4>1, <5>2, <5>3, <5>4, <5>5 DEF NoonsClosed
        <5>7. 4 * k <= 4 * n + 2 /\ 4 * n + 2 <= 4 * k + At(back)
          BY <1>3, <2>1, <5>2
        <5>8. 4 * k \in behind
          BY <1>3, <5>6, <5>7 DEF Lookback
        <5>9. QED BY <4>3, <5>8
      <4>6. QED BY <1>3, <4>2, <4>4, <4>5
    <3>5. QED BY <3>1, <3>2, <3>3, <3>4
  <2>7. QED BY <2>5, <2>6
<1>8. QED BY <1>1, <1>2, <1>6, <1>7

(* The window around an instant of a set, in the bounds of the source.      *)
LEMMA ExpandReaches ==
    ASSUME NEW ask \in CombineAsks, NEW s \in ask.specs, s.out \in {"at", "day"},
           NEW set \in SUBSET Line, ask.dated /\ s.lookback % 2 = 1 => NoonsClosed(set),
           NEW v \in Requests(ask, s), At(v) \in set,
           NEW i \in Instants, ask.dated => OnDate(i),
           NEW r, r.at = i, InWindow(ask, s, v, r)
    PROVE  At(i) \in Expand(ask, s, set)
<1>1. s.lookback \in Nat /\ s.lookahead \in Nat
  BY SpecTyped
<1>2. v \in Instants /\ v \in Nat /\ i \in Nat
  BY InstantsOnLine DEF Requests
<1>3. /\ At(v) \in Line /\ At(i) \in Line /\ At(v) = 2 * v /\ At(i) = 2 * i
      /\ At(s.lookback) = 2 * s.lookback /\ At(s.lookahead) = 2 * s.lookahead
  BY <1>2, InstantsOnLine DEF At
<1>4. CASE ask.dated
  <2>1. OnDate(v) /\ i + 1 >= v - s.lookback /\ i <= v + s.lookahead
    BY <1>1, <1>2, <1>4 DEF Requests, InWindow
  <2>2. At(i) \in FullDates(Lookahead(Lookback(set, s.lookback), s.lookahead))
    BY <1>1, <1>2, <1>4, <2>1, DatesReached
  <2>3. QED BY <1>4, <2>2 DEF Expand
<1>5. CASE ~ask.dated /\ s.out = "at"
  <2>1. i >= v - s.lookback /\ i <= v + s.lookahead
    BY <1>1, <1>2, <1>5 DEF InWindow
  <2>2. CASE i <= v
    <3>1. At(i) <= At(v) /\ At(v) <= At(i) + At(s.lookback) /\ At(i) <= At(i) + At(s.lookahead)
      BY <1>1, <1>2, <1>3, <2>1, <2>2
    <3>2. At(i) \in Lookahead(Lookback(set, s.lookback), s.lookahead)
      BY <1>1, <1>2, <1>3, <3>1, Widened
    <3>3. QED BY <1>5, <3>2 DEF Expand
  <2>3. CASE i > v
    <3>1. At(v) <= At(v) + At(s.lookback) /\ At(v) <= At(i) /\ At(i) <= At(v) + At(s.lookahead)
      BY <1>1, <1>2, <1>3, <2>1, <2>3
    <3>2. At(i) \in Lookahead(Lookback(set, s.lookback), s.lookahead)
      BY <1>1, <1>2, <1>3, <3>1, Widened
    <3>3. QED BY <1>5, <3>2 DEF Expand
  <2>4. QED BY <1>2, <2>2, <2>3
<1>6. CASE ~ask.dated /\ s.out = "day"
  <2> DEFINE days == FullDays(set)
  <2>1. i >= v - s.lookback /\ i <= v + s.lookahead + 1
    BY <1>1, <1>2, <1>6 DEF InWindow
  <2>2. OnDate(v)
    BY <1>6 DEF Requests
  <2>3. At(v) \in days
    BY <1>3, <2>2 DEF FullDays, OnDate
  <2>4. At(v) + 2 \in days
    <3>1. PICK k \in Nat : v = 2 * k /\ k <= LastDay
      BY <1>2, <2>2, DateEven
    <3>2. At(v) = 4 * k /\ 4 * k + 2 \in Line
      BY <1>3, <3>1, DaysAssumption DEF Line
    <3>3. Midnight(4 * k + 2) = 4 * k
      BY MidnightOf
    <3>4. QED BY <3>2, <3>3 DEF FullDays
  <2>5. At(i) \in Lookahead(Lookback(days, s.lookback), s.lookahead)
    <3> HIDE DEF days
    <3>1. CASE i <= v
      <4>1. /\ At(i) <= At(v) /\ At(v) <= At(i) + At(s.lookback)
            /\ At(i) <= At(i) + At(s.lookahead)
        BY <1>1, <1>2, <1>3, <2>1, <3>1
      <4>2. QED BY <1>1, <1>2, <1>3, <2>3, <4>1, Widened
    <3>2. CASE i > v
      <4>1. /\ At(v) + 2 <= At(v) + 2 + At(s.lookback) /\ At(v) + 2 <= At(i)
            /\ At(i) <= At(v) + 2 + At(s.lookahead)
        BY <1>1, <1>2, <1>3, <2>1, <3>2
      <4>2. At(v) + 2 \in Line /\ At(v) + 2 <= At(v) + 2
        BY <1>2, <1>3, <2>4 DEF days, FullDays
      <4>3. QED BY <1>1, <1>2, <1>3, <2>4, <4>1, <4>2, Widened
    <3>3. QED BY <1>2, <3>1, <3>2
  <2>6. QED BY <1>6, <2>5 DEF Expand
<1>7. QED BY <1>4, <1>5, <1>6

-----------------------------------------------------------------------------
(* An output that the query wants.                                         *)
Wanted(ask, o) ==
    /\ o \in Outputs
    /\ ask.dated => OnDate(o.at)
    /\ ask.pred # None => \A f \in ask.pred : o \in f.keeps

(* Its instants are among the positions and values the predicate leaves.    *)
LEMMA DayOnDate ==
    ASSUME NEW i \in Instants
    PROVE  Day(i) \in Instants /\ OnDate(Day(i))
<1>1. i \in Nat /\ i <= 2 * LastDay + 1
  BY DaysAssumption DEF Instants
<1>2. PICK k \in Nat : i = 2 * k \/ i = 2 * k + 1
  <2>1. i \div 2 \in Nat /\ (i = 2 * (i \div 2) \/ i = 2 * (i \div 2) + 1)
    BY <1>1
  <2>2. QED BY <2>1
<1>3. Day(i) = 2 * k
  BY <1>2 DEF Day
<1>4. 2 * k \in Instants
  BY <1>1, <1>2, DaysAssumption DEF Instants
<1>5. QED BY <1>3, <1>4, EvenDate

LEMMA WantedInstants ==
    ASSUME NEW ask \in CombineAsks, NEW s \in ask.specs, s.out \in {"at", "day"},
           NEW o, Wanted(ask, o)
    PROVE  /\ Value(o, s.out) \in Requests(ask, s)
           /\ At(Value(o, s.out)) \in Extracted(ask, s.out)
<1>1. o.at \in Instants
  BY DEF Wanted, Outputs
<1>2. /\ s.out = "at" => Value(o, s.out) = o.at
      /\ s.out = "day" => Value(o, s.out) = Day(o.at)
  BY DEF Value
<1>3. Value(o, s.out) \in Requests(ask, s)
  <2>1. CASE s.out = "at"
    BY <1>1, <1>2, <2>1 DEF Requests, Wanted
  <2>2. CASE s.out = "day"
    BY <1>1, <1>2, <2>2, DayOnDate DEF Requests
  <2>3. QED BY <2>1, <2>2
<1>4. At(Value(o, s.out)) \in Line
  BY <1>3, InstantsOnLine DEF Requests
<1>5. QED BY <1>3, <1>4, CombineAssumption DEF Wanted, Extracted

LEMMA WantedValues ==
    ASSUME NEW ask \in CombineAsks, NEW out, NEW o, Wanted(ask, o), ValuesOf(ask, out) # None
    PROVE  Value(o, out) \in ValuesOf(ask, out)
<1> DEFINE given == IF ask.pred = None THEN {} ELSE {f \in ask.pred : out \in DOMAIN f.values}
<1>1. /\ given # {}
      /\ ValuesOf(ask, out) =
             {v \in UNION {f.values[out] : f \in given} : \A f \in given : v \in f.values[out]}
  BY DEF ValuesOf
<1>2. \A f \in given : Value(o, out) \in f.values[out]
  BY CombineAssumption DEF Wanted
<1> HIDE DEF given
<1>3. Value(o, out) \in UNION {f.values[out] : f \in given}
  BY <1>1, <1>2
<1>4. QED BY <1>1, <1>2, <1>3

(* The range of a query that does not fall short has no bound open at noon  *)
(* where a window begins there.                                            *)
LEMMA ExtractedNoons ==
    ASSUME NEW ask \in CombineAsks, ~FallsShort(ask), NEW s \in ask.specs, ~IsInterval(s),
           ask.dated, s.lookback % 2 = 1
    PROVE  NoonsClosed(Extracted(ask, s.out))
BY DEF FallsShort, OpensAtNoon, NoonsClosed

LEMMA DateNoons ==
    ASSUME NEW v \in Instants, OnDate(v)
    PROVE  NoonsClosed({At(v)})
<1>1. ASSUME NEW i \in Instants, At(i) + 1 = At(v) PROVE FALSE
  <2>1. i \in Nat /\ v \in Nat /\ At(i) = 2 * i /\ At(v) = 2 * v
    BY InstantsOnLine
  <2>2. QED BY <1>1, <2>1
<1>2. QED BY <1>1 DEF NoonsClosed

(* What a specification of an instant maps the request to.                  *)
LEMMA MapsRequest ==
    ASSUME NEW ask \in CombineAsks, NEW s \in ask.specs, s.out \in {"at", "day"},
           NEW v \in Requests(ask, s)
    PROVE  MapsTo(s.mapping, v) \in Requests(ask, s)
<1>1. s.col = "at"
  BY CombineAssumption
<1>2. CASE s.mapping = None \/ v \notin DOMAIN s.mapping
  BY <1>2 DEF MapsTo
<1>3. CASE s.mapping # None /\ v \in DOMAIN s.mapping
  <2>1. MapsRequests(ask, s)
    BY <1>1, <1>3, CombineDeclared
  <2>2. MapsTo(s.mapping, v) = s.mapping[v]
    BY <1>3 DEF MapsTo
  <2>3. QED BY <1>3, <2>1, <2>2 DEF MapsRequests
<1>4. QED BY <1>2, <1>3

(* The window an instant specification declares is around one of the two.   *)
LEMMA ServedInWindow ==
    ASSUME NEW ask \in CombineAsks, NEW s \in ask.specs, s.col = "at", ~IsInterval(s),
           NEW o, NEW r, ServesBy(ask, s, o, r)
    PROVE  InWindow(ask, s, IF s.around = "value" THEN Value(o, s.out)
                            ELSE MapsTo(s.mapping, Value(o, s.out)), r)
BY DEF ServesBy

(* The singletons of values of a request.                                  *)
LEMMA ExpandAllReaches ==
    ASSUME NEW ask \in CombineAsks, NEW s \in ask.specs, s.out \in {"at", "day"},
           NEW vs, NEW v \in vs, v \in Requests(ask, s),
           NEW r, r.at \in Instants, ask.dated => OnDate(r.at), InWindow(ask, s, v, r)
    PROVE  At(r.at) \in ExpandAll(ask, s, vs)
<1>1. v \in Instants /\ (ask.dated => OnDate(v))
  BY DEF Requests
<1>2. {At(v)} \in SUBSET Line /\ At(v) \in {At(v)}
  BY <1>1, InstantsOnLine
<1>3. ask.dated => NoonsClosed({At(v)})
  BY <1>1, DateNoons
<1>4. At(r.at) \in Expand(ask, s, {At(v)})
  BY <1>2, <1>3, ExpandReaches
<1>5. QED BY <1>4 DEF ExpandAll

LEMMA ExtractedReaches ==
    ASSUME NEW ask \in CombineAsks, ~FallsShort(ask), NEW s \in ask.specs,
           s.out \in {"at", "day"}, ~IsInterval(s), NEW o, Wanted(ask, o),
           NEW r, r.at \in Instants, ask.dated => OnDate(r.at),
           InWindow(ask, s, Value(o, s.out), r)
    PROVE  At(r.at) \in Expand(ask, s, Extracted(ask, s.out))
<1>1. Extracted(ask, s.out) \in SUBSET Line
  BY DEF Extracted
<1>2. ask.dated /\ s.lookback % 2 = 1 => NoonsClosed(Extracted(ask, s.out))
  BY ExtractedNoons
<1>3. QED BY <1>1, <1>2, WantedInstants, ExpandReaches

(* The days of a range hold the requests in it.                             *)
LEMMA WantedDays ==
    ASSUME NEW ask \in CombineAsks, NEW s \in ask.specs, s.out \in {"at", "day"},
           NEW o, Wanted(ask, o), EnumeratedDays(ask, s) # None
    PROVE  Value(o, s.out) \in EnumeratedDays(ask, s)
<1>1. /\ s.out = "day" \/ ask.dated
      /\ EnumeratedDays(ask, s) =
             {i \in Instants : OnDate(i) /\ At(i) \in Extracted(ask, s.out)}
  BY DEF EnumeratedDays
<1>2. QED BY <1>1, WantedInstants DEF Requests

(* The enclosure of a mapped column holds the windows around the values and *)
(* around what they map to, whichever the combine looks in.                 *)
LEMMA MappedEnclosureReaches ==
    ASSUME NEW ask \in CombineAsks, ~FallsShort(ask), NEW s \in ask.specs,
           s.out \in {"at", "day"}, ~IsInterval(s), s.mapping # None, NEW o, Wanted(ask, o),
           NEW r, r.at \in Instants, ask.dated => OnDate(r.at), ServesBy(ask, s, o, r),
           MappedEnclosure(ask, s) # None
    PROVE  At(r.at) \in MappedEnclosure(ask, s)
<1> DEFINE v == Value(o, s.out)
           w == MapsTo(s.mapping, v)
           vs == IF ValuesOf(ask, s.out) # None THEN ValuesOf(ask, s.out)
                 ELSE IF HasRange(ask, s.out) THEN EnumeratedDays(ask, s) ELSE None
           maps == ExpandAll(ask, s, {s.mapping[u] : u \in vs})
           own == IF HasWindow(s) THEN ExpandAll(ask, s, vs) ELSE {}
           unknown == ValuesOf(ask, s.out) = None /\ HasRange(ask, s.out) /\ vs = None
<1>1. s.col = "at" /\ Declares(ask, s)
  BY CombineAssumption, CombineDeclared
<1>2. InWindow(ask, s, IF s.around = "value" THEN v ELSE w, r)
  BY <1>1, ServedInWindow
<1>3. v \in Requests(ask, s) /\ w \in Requests(ask, s)
  BY WantedInstants, MapsRequest
<1>4. MappedEnclosure(ask, s) =
          IF unknown
          THEN IF HasWindow(s) THEN Expand(ask, s, Extracted(ask, s.out)) ELSE None
          ELSE IF vs = None \/ Null \in vs \/ ~(vs \subseteq DOMAIN s.mapping) THEN None
          ELSE maps \union own
  BY DEF MappedEnclosure
<1>5. CASE unknown
  <2>1. HasWindow(s) /\ MappedEnclosure(ask, s) = Expand(ask, s, Extracted(ask, s.out))
    BY <1>4, <1>5
  <2>2. s.around = "value"
    BY <1>1, <1>5, <2>1 DEF Declares
  <2>3. InWindow(ask, s, v, r)
    BY <1>2, <2>2
  <2>4. QED BY <2>1, <2>3, ExtractedReaches
<1>6. CASE ~unknown
  <2>1. vs # None /\ vs \subseteq DOMAIN s.mapping /\ MappedEnclosure(ask, s) = maps \union own
    BY <1>4, <1>6
  <2>2. v \in vs
    BY <2>1, WantedValues, WantedDays
  <2>3. w = s.mapping[v]
    BY <2>1, <2>2 DEF MapsTo
  <2> HIDE DEF v, w, vs
  <2>4. CASE s.around = "mapped"
    <3>1. w \in {s.mapping[u] : u \in vs} /\ InWindow(ask, s, w, r)
      BY <1>2, <2>2, <2>3, <2>4
    <3>2. At(r.at) \in maps
      BY <1>3, <3>1, ExpandAllReaches
    <3>3. QED BY <2>1, <3>2
  <2>5. CASE s.around = "value"
    <3>1. HasWindow(s)
      BY <1>1, <2>5 DEF Declares
    <3>2. At(r.at) \in ExpandAll(ask, s, vs)
      BY <1>2, <1>3, <2>2, <2>5, ExpandAllReaches
    <3>3. QED BY <2>1, <3>1, <3>2
  <2>6. QED BY <1>1, <2>4, <2>5 DEF Declares
<1>7. QED BY <1>5, <1>6

LEMMA EnclosureReaches ==
    ASSUME NEW ask \in CombineAsks, ~FallsShort(ask), NEW s \in ask.specs,
           s.out \in {"at", "day"}, ~IsInterval(s), NEW o, Wanted(ask, o),
           NEW r, r.at \in Instants, ask.dated => OnDate(r.at), ServesBy(ask, s, o, r),
           Enclosure(ask, s) # None
    PROVE  At(r.at) \in Enclosure(ask, s)
<1>1. CASE s.mapping # None
  <2>1. Enclosure(ask, s) = MappedEnclosure(ask, s)
    BY <1>1 DEF Enclosure
  <2>2. QED BY <1>1, <2>1, MappedEnclosureReaches
<1>2. CASE s.mapping = None
  <2> DEFINE v == Value(o, s.out)
  <2>1. s.col = "at" /\ MapsTo(s.mapping, v) = v
    BY <1>2, CombineAssumption DEF MapsTo
  <2>2. InWindow(ask, s, v, r)
    BY <2>1, ServedInWindow
  <2>3. CASE HasRange(ask, s.out)
    <3>1. Enclosure(ask, s) = Expand(ask, s, Extracted(ask, s.out))
      BY <1>2, <2>3 DEF Enclosure
    <3>2. QED BY <2>2, <3>1, ExtractedReaches
  <2>4. CASE ~HasRange(ask, s.out)
    <3>1. /\ ValuesOf(ask, s.out) # None
          /\ Enclosure(ask, s) = ExpandAll(ask, s, ValuesOf(ask, s.out))
      BY <1>2, <2>4 DEF Enclosure
    <3>2. v \in ValuesOf(ask, s.out) /\ v \in Requests(ask, s)
      BY <3>1, WantedValues, WantedInstants
    <3> HIDE DEF v
    <3>3. QED BY <2>2, <3>1, <3>2, ExpandAllReaches
  <2>5. QED BY <2>3, <2>4
<1>3. QED BY <1>1, <1>2

(* The ends of a set of positions.                                         *)
LEMMA Ends ==
    ASSUME NEW set \in SUBSET Line, set # {}
    PROVE  /\ Min(set) \in set /\ \A p \in set : Min(set) <= p
           /\ Max(set) \in set /\ \A p \in set : p <= Max(set)
<1>1. \A p \in set : p \in Int /\ p + 1 \in Nat /\ 4 * LastDay + 3 - p \in Nat
  BY DaysAssumption DEF Line
<1>2. \E m \in set : \A p \in set : m <= p
  <2> DEFINE from == {p + 1 : p \in set}
  <2>1. from \in SUBSET Nat /\ from # {}
    BY <1>1
  <2> HIDE DEF from
  <2>2. PICK n \in from : \A m \in from : n <= m
    BY <2>1, LeastNatural
  <2>3. PICK p \in set : n = p + 1
    BY DEF from
  <2>4. ASSUME NEW q \in set PROVE p <= q
    <3>1. q + 1 \in from
      BY DEF from
    <3>2. QED BY <1>1, <2>2, <2>3, <3>1
  <2>5. QED BY <2>4
<1>3. \E m \in set : \A p \in set : p <= m
  <2> DEFINE to == {4 * LastDay + 3 - p : p \in set}
  <2>1. to \in SUBSET Nat /\ to # {}
    BY <1>1
  <2> HIDE DEF to
  <2>2. PICK n \in to : \A m \in to : n <= m
    BY <2>1, LeastNatural
  <2>3. PICK p \in set : n = 4 * LastDay + 3 - p
    BY DEF to
  <2>4. ASSUME NEW q \in set PROVE q <= p
    <3>1. 4 * LastDay + 3 - q \in to
      BY DEF to
    <3>2. QED BY <1>1, <2>2, <2>3, <3>1, DaysAssumption
  <2>5. QED BY <2>4
<1>4. QED
  <2>1. /\ Min(set) \in set /\ \A p \in set : Min(set) <= p
    BY <1>2 DEF Min
  <2>2. \E m \in set : \A p \in set : m >= p
    BY <1>1, <1>3
  <2>3. Max(set) \in set /\ \A p \in set : Max(set) >= p
    BY <2>2 DEF Max
  <2>4. QED BY <1>1, <2>1, <2>3

(* The ends of the whole line.                                             *)
LEMMA LineEnds == Min(Line) = -1 /\ Max(Line) = 4 * LastDay + 3
<1>1. -1 \in Line /\ 4 * LastDay + 3 \in Line /\ Line # {} /\ Line \in SUBSET Line
  BY DaysAssumption DEF Line
<1>2. Min(Line) \in Line /\ Min(Line) <= -1 /\ Max(Line) \in Line /\ 4 * LastDay + 3 <= Max(Line)
  BY <1>1, Ends
<1>3. QED BY <1>2, DaysAssumption DEF Line

(* A mapped bound of an interval is on its side of the mapped request.      *)
LEMMA BoundsMapped ==
    ASSUME NEW ask \in CombineAsks, ~FallsShort(ask), NEW s \in ask.specs, IsInterval(s),
           NEW v \in Requests(ask, s), At(v) \in Extracted(ask, s.out), NEW b \in Nat,
           b \in {Lower(Extracted(ask, s.out)), Upper(Extracted(ask, s.out))}, Pushes(s, b)
    PROVE  /\ MapsTo(s.mapping, b) \in Int /\ MapsTo(s.mapping, v) \in Int
           /\ b <= v => MapsTo(s.mapping, b) <= MapsTo(s.mapping, v)
           /\ v <= b => MapsTo(s.mapping, v) <= MapsTo(s.mapping, b)
<1>1. s.col = "at" /\ s.out \in {"at", "day"}
  BY CombineAssumption
<1>2. v \in Nat /\ MapsTo(s.mapping, v) \in Nat
  BY <1>1, MapsRequest, InstantsOnLine DEF Requests
<1>3. CASE s.mapping = None
  BY <1>2, <1>3 DEF MapsTo
<1>4. CASE s.mapping # None
  <2>1. b \in DOMAIN s.mapping /\ MapsTo(s.mapping, b) = s.mapping[b]
    BY <1>4 DEF Pushes, MapsTo
  <2>2. s.mapping[b] \in Instants
    BY <1>1, <1>4, <2>1, CombineDeclared DEF MapsRequests
  <2>3. s.mapping[b] \in Nat
    BY <2>2, InstantsOnLine
  <2>4. /\ ~(b <= v /\ s.mapping[b] > MapsTo(s.mapping, v))
        /\ ~(v <= b /\ MapsTo(s.mapping, v) > s.mapping[b])
    BY <1>4, <2>1 DEF FallsShort, BoundsCross
  <2>5. QED BY <1>2, <2>1, <2>3, <2>4
<1>5. QED BY <1>3, <1>4

(* A row whose interval covers a request overlaps the hull of them all.     *)
LEMMA HullReaches ==
    ASSUME NEW ask \in CombineAsks, ~FallsShort(ask), NEW s \in ask.specs, IsInterval(s),
           NEW o, Wanted(ask, o),
           NEW r, r.at \in Instants, r.end \in Instants, ServesBy(ask, s, o, r)
    PROVE  OverlapsHull(ask, s, r)
<1> DEFINE range == Extracted(ask, s.out)
           lo == Lower(range)
           hi == Upper(range)
           v == Value(o, s.out)
           w == MapsTo(s.mapping, v)
           whole == s.out = "day" /\ ~ask.dated
           end == IF ClosedLeft(s) THEN From(MapsTo(s.mapping, lo)) ELSE After(MapsTo(s.mapping, lo))
           start == IF whole THEN Before(MapsTo(s.mapping, hi) + 2)
                    ELSE IF ClosedRight(s) THEN UpTo(MapsTo(s.mapping, hi))
                    ELSE Before(MapsTo(s.mapping, hi))
<1>1. s.col = "at" /\ s.out \in {"at", "day"}
  BY CombineAssumption
<1>2. Covers(ask, s, w, r)
  BY DEF ServesBy
<1>3. v \in Requests(ask, s) /\ At(v) \in range
  BY <1>1, WantedInstants
<1>4. v \in Nat /\ At(v) = 2 * v
  BY <1>3, InstantsOnLine DEF Requests
<1>5. /\ r.at \in Nat /\ At(r.at) = 2 * r.at /\ At(r.at) \in Line
      /\ r.end \in Nat /\ At(r.end) = 2 * r.end /\ At(r.end) \in Line
  BY InstantsOnLine
<1>6. range \in SUBSET Line /\ range # {}
  BY <1>3 DEF Extracted
<1>7. /\ Min(range) \in Line /\ Min(range) <= 2 * v
      /\ Max(range) \in Line /\ 2 * v <= Max(range)
  BY <1>3, <1>4, <1>6, Ends
<1>8. s.closed \in {"both", "left", "right", "none"}
  BY SpecTyped DEF IsInterval
<1> HIDE DEF range, w, v
<1>9. ASSUME Min(range) # Min(Line), Pushes(s, lo)
      PROVE  At(r.end) \in end
  <2>1. Min(range) \in Nat
    BY <1>7, <1>9, LineEnds DEF Line
  <2>2. lo \in Nat /\ lo <= v
    BY <1>4, <1>7, <2>1 DEF Lower
  <2> HIDE DEF lo
  <2>3. MapsTo(s.mapping, lo) \in Int /\ w \in Int /\ MapsTo(s.mapping, lo) <= w
    BY <1>3, <1>9, <2>2, BoundsMapped DEF w, range, lo
  <2>4. /\ r.end >= w
        /\ s.closed \notin {"both", "right"} => r.end > w
    BY <1>2, <1>5, <2>3 DEF Covers
  <2>5. QED BY <1>5, <2>3, <2>4 DEF ClosedLeft, From, After, At
<1>10. ASSUME Max(range) # Max(Line), Pushes(s, hi)
       PROVE  At(r.at) \in start
  <2>1. Max(range) \in Nat
    BY <1>4, <1>7 DEF Line
  <2>2. hi \in Nat /\ v <= hi
    BY <1>4, <1>7, <2>1 DEF Upper
  <2> HIDE DEF hi
  <2>3. MapsTo(s.mapping, hi) \in Int /\ w \in Int /\ w <= MapsTo(s.mapping, hi)
    BY <1>3, <1>10, <2>2, BoundsMapped DEF w, range, hi
  <2>4. /\ whole => r.at <= w + 1
        /\ ~whole => r.at <= w
        /\ ~whole /\ s.closed \notin {"both", "left"} => r.at < w
    BY <1>2, <1>5, <2>3 DEF Covers
  <2>5. QED BY <1>5, <2>3, <2>4 DEF ClosedRight, UpTo, Before, At
<1>11. QED BY <1>9, <1>10 DEF OverlapsHull, range

-----------------------------------------------------------------------------
(* An output a row serves for a wanted one: itself or, when that has a null  *)
(* key, the same instant with any key.                                     *)
Stands(p, o) ==
    /\ p \in Outputs /\ p.at = o.at /\ p.other = o.other
    /\ o.key # Null => p.key = o.key

LEMMA SameValues ==
    ASSUME NEW o, NEW p, Stands(p, o), NEW out, out # "key" \/ o.key # Null,
           out \in {"at", "day", "key", "other"}
    PROVE  Value(p, out) = Value(o, out)
BY DEF Stands, Value

LEMMA SameService ==
    ASSUME NEW ask \in CombineAsks, NEW s \in ask.specs, s.col = "at",
           NEW o, NEW p, Stands(p, o), NEW r, Serves(ask, p, r)
    PROVE  ServesBy(ask, s, o, r)
<1>1. ServesBy(ask, s, p, r)
  BY DEF Serves
<1>2. s.out \in {"at", "day"}
  BY CombineAssumption
<1>3. Value(p, s.out) = Value(o, s.out)
  BY <1>2, SameValues
<1>4. QED BY <1>1, <1>3 DEF ServesBy

(* Without a window the range of a date keeps its end.                      *)
LEMMA DaysStay ==
    ASSUME NEW ask \in CombineAsks, NEW s \in ask.specs, s.out = "day", ~HasWindow(s), ~ask.dated,
           FullDays(Extracted(ask, s.out)) # Line
    PROVE  Expand(ask, s, Extracted(ask, s.out)) # Line
<1> DEFINE days == FullDays(Extracted(ask, s.out))
<1>1. s.lookback = 0 /\ s.lookahead = 0 /\ At(0) = 0
  BY SpecTyped DEF HasWindow, At
<1>2. Expand(ask, s, Extracted(ask, s.out)) = Lookahead(Lookback(days, 0), 0)
  BY <1>1 DEF Expand
<1>3. days \in SUBSET Line /\ days # Line
  BY DEF FullDays
<1> HIDE DEF days
<1>4. \A p \in Line : p \in Int
  BY DEF Line
<1>5. Lookback(days, 0) = days
  BY <1>1, <1>3, <1>4 DEF Lookback
<1>6. Lookahead(days, 0) = days
  BY <1>1, <1>3, <1>4 DEF Lookahead
<1>7. QED BY <1>2, <1>3, <1>5, <1>6

(* What the discrete pass pushes for the instants is exact: a window, or a  *)
(* day of datetimes, never falls back to its values.                       *)
LEMMA DiscreteInstant ==
    ASSUME NEW ask \in CombineAsks, ~FallsShort(ask), NEW s \in Discrete(ask, "at"), Known(ask, s),
           NEW o, Wanted(ask, o), NEW r, r.at \in Instants, ask.dated => OnDate(r.at),
           ServesBy(ask, s, o, r)
    PROVE  r.at \in Mapped(s, ValuesOf(ask, s.out))
<1> DEFINE v == Value(o, s.out)
           w == MapsTo(s.mapping, v)
           values == ValuesOf(ask, s.out)
<1>1. /\ s \in ask.specs /\ s.col = "at" /\ ~IsInterval(s) /\ s.out \in {"at", "day"}
      /\ ~Handled(ask, "at") /\ ~Suppressed(ask, s) /\ s \in Members(ask, "at")
      /\ Declares(ask, s)
  BY CombineAssumption, CombineDeclared DEF Discrete, Members
<1>2. /\ HasValues(ask, s.out) /\ values # None
      /\ s.mapping # None => values \subseteq DOMAIN s.mapping
  BY DEF Known, HasValues
<1>3. v \in values /\ v \in Requests(ask, s) /\ w \in Requests(ask, s)
  BY <1>1, <1>2, WantedValues, WantedInstants, MapsRequest
<1>4. ~WindowUndone(ask, s) /\ ~DaysUndone(ask, s)
  BY <1>1 DEF FallsShort
<1>5. w \in Mapped(s, values)
  BY <1>2, <1>3 DEF Mapped
<1>6. InWindow(ask, s, IF s.around = "value" THEN v ELSE w, r)
  BY <1>1, ServedInWindow
<1>7. /\ v \in Nat /\ w \in Nat /\ r.at \in Nat /\ v \in Instants /\ w \in Instants
      /\ ask.dated => OnDate(v) /\ OnDate(w)
  BY <1>3, InstantsOnLine DEF Requests
<1>8. s.lookback \in Nat /\ s.lookahead \in Nat
  BY <1>1, SpecTyped
<1> HIDE DEF v, w, values
<1>9. ~HasWindow(s)
  <2> SUFFICES ASSUME HasWindow(s) PROVE FALSE
    OBVIOUS
  <2>1. NaiveTemporal(ask, "at") /\ s.mapping = None
    BY <1>1 DEF Handled, MapsWindow
  <2> HasRange(ask, s.out)
    BY <1>1, <1>2, <1>4, <2>1 DEF WindowUndone, NaiveTemporal
  <2>2. Enclosure(ask, s) # Line
    BY <1>1 DEF Handled, Constrains
  <2>3. Enclosure(ask, s) = Expand(ask, s, Extracted(ask, s.out))
    BY <2>1 DEF Enclosure
  <2>4. TemporalSpec(ask, s)
    BY <1>1, <2>1 DEF TemporalSpec
  <2>5. Suppressed(ask, s)
    BY <2>2, <2>3, <2>4 DEF Suppressed
  <2>6. QED BY <1>1, <2>5
<1>10. s.lookback = 0 /\ s.lookahead = 0
  BY <1>8, <1>9 DEF HasWindow
<1>11. (IF s.around = "value" THEN v ELSE w) = w
  BY <1>1, <1>9 DEF Declares, MapsTo, w
<1>12. CASE ask.dated
  <2>1. r.at + 1 >= w /\ r.at <= w
    BY <1>6, <1>7, <1>10, <1>11, <1>12 DEF InWindow
  <2>2. PICK m \in Nat : r.at = 2 * m
    BY <1>12, DateEven
  <2>3. PICK n \in Nat : w = 2 * n
    BY <1>7, <1>12, DateEven
  <2>4. r.at = w
    BY <2>1, <2>2, <2>3
  <2>5. QED BY <1>5, <2>4 DEF values
<1>13. CASE ~ask.dated
  <2>1. ~(s.mapping = None /\ s.out = "day")
    <3> SUFFICES ASSUME s.mapping = None, s.out = "day" PROVE FALSE
      OBVIOUS
    <3>1. ~ask.zoned /\ FullDays(Extracted(ask, s.out)) # Line
      BY <1>1, <1>2, <1>4, <1>9, <1>13 DEF DaysUndone
    <3>2. HasRange(ask, s.out)
      <4>1. FullDays(Line) = Line
        <5>1. ASSUME NEW p \in Line PROVE Midnight(p) \in Line
          <6>1. p >= 0 => 4 * (p \div 4) >= 0 /\ 4 * (p \div 4) <= p
            BY DEF Line
          <6>2. p \in Int /\ p \div 4 \in Int
            BY DEF Line
          <6>3. QED BY <6>1, <6>2, DaysAssumption DEF Line, Midnight
        <5>2. QED BY <5>1 DEF FullDays
      <4>2. QED BY <3>1, <4>1 DEF HasRange
    <3>3. TemporalSpec(ask, s)
      BY <1>1, <3>1, <3>2 DEF TemporalSpec, NaiveTemporal
    <3>4. Suppressed(ask, s)
      BY <1>1, <1>9, <1>13, <3>1, <3>3, DaysStay DEF Suppressed
    <3>5. QED BY <1>1, <3>4
  <2>2. r.at >= w /\ r.at <= w
    <3>1. ~(s.out = "day" /\ ~ask.dated /\ (s.mapping = None \/ HasWindow(s)))
      BY <1>9, <2>1
    <3>2. QED BY <1>6, <1>7, <1>10, <1>11, <1>13, <3>1 DEF InWindow
  <2>3. r.at = w
    BY <1>7, <2>2
  <2>4. QED BY <1>5, <2>3 DEF values
<1>14. QED BY <1>12, <1>13

LEMMA InstantUnion ==
    ASSUME NEW ask \in CombineAsks, ~FallsShort(ask), NEW o, Wanted(ask, o), NEW p, Stands(p, o),
           NEW r, r.at \in Instants, ask.dated => OnDate(r.at), Serves(ask, p, r)
    PROVE  UnionFilter(ask, Discrete(ask, "at"), r["at"])
<1> SUFFICES ASSUME Discrete(ask, "at") # {}, \A s \in Discrete(ask, "at") : Known(ask, s)
             PROVE  \E s \in Discrete(ask, "at") : r["at"] \in Mapped(s, ValuesOf(ask, s.out))
  BY DEF UnionFilter
<1>1. PICK s \in Discrete(ask, "at") : Known(ask, s)
  OBVIOUS
<1>2. s \in ask.specs /\ s.col = "at"
  BY DEF Discrete, Members
<1>3. ServesBy(ask, s, o, r)
  BY <1>2, SameService
<1>4. r.at \in Mapped(s, ValuesOf(ask, s.out))
  BY <1>1, <1>3, DiscreteInstant
<1>5. QED BY <1>4

(* The alternatives of a key: the row has the key of one of them, unless a  *)
(* null key of the output leaves the key open.                             *)
LEMMA KeyUnion ==
    ASSUME NEW ask \in CombineAsks, NEW o, Wanted(ask, o), NEW p, Stands(p, o),
           NEW r, Serves(ask, p, r)
    PROVE  UnionFilter(ask, Discrete(ask, "key"), r["key"])
<1> DEFINE members == Discrete(ask, "key")
           keyed == {s \in ask.specs : s.col = "key"}
<1> SUFFICES ASSUME members # {}, \A s \in members : Known(ask, s)
             PROVE  \E s \in members : r["key"] \in Mapped(s, ValuesOf(ask, s.out))
  BY DEF UnionFilter
<1>1. members \subseteq keyed
  BY DEF Discrete, Members
<1>2. PICK s \in keyed : ServesBy(ask, s, p, r)
  BY <1>1 DEF Serves
<1>3. s \in ask.specs /\ s.col = "key" /\ ~IsInterval(s) /\ s.out \in {"key", "other"}
  BY <1>2, CombineAssumption, SpecTyped
<1>4. s \in members
  <2>1. ~Handled(ask, "key")
    BY DEF Discrete
  <2>2. ~Suppressed(ask, s)
    BY <1>3 DEF Suppressed, TemporalSpec, NaiveTemporal
  <2>3. QED BY <1>3, <2>1, <2>2 DEF Discrete, Members
<1>5. /\ HasValues(ask, s.out) /\ ValuesOf(ask, s.out) # None
      /\ s.mapping # None => ValuesOf(ask, s.out) \subseteq DOMAIN s.mapping
  BY <1>4 DEF Known, HasValues
<1>6. Value(o, s.out) \in ValuesOf(ask, s.out)
  BY <1>5, WantedValues
<1>7. s.out # "key" \/ o.key # Null
  <2>1. s.out = "key" => Value(o, s.out) = o.key
    BY DEF Value
  <2>2. QED BY <1>5, <1>6, <2>1 DEF HasValues
<1>8. Value(p, s.out) = Value(o, s.out)
  BY <1>3, <1>7, SameValues
<1>9. r.key = MapsTo(s.mapping, Value(o, s.out))
  BY <1>2, <1>3, <1>8 DEF ServesBy
<1>10. r.key \in Mapped(s, ValuesOf(ask, s.out))
  BY <1>5, <1>6, <1>9 DEF Mapped
<1>11. QED BY <1>4, <1>10

-----------------------------------------------------------------------------
(* A row that serves a wanted output passes every filter of its source.     *)
LEMMA ServedIsRead ==
    ASSUME NEW ask \in CombineAsks, ~FallsShort(ask), NEW o, Wanted(ask, o), NEW p, Stands(p, o),
           NEW r \in CombineRows, ask.dated => OnDate(r.at) /\ OnDate(r.end), Serves(ask, p, r)
    PROVE  SourceFilter(ask, r)
<1>1. r.at \in Instants /\ r.end \in Instants /\ r.at # Null
  BY CombineAssumption
<1>2. ~KeepsNothing(ask)
  <2> SUFFICES ASSUME ask.pred # None, ask.pred = {Never} PROVE FALSE
    BY DEF KeepsNothing
  <2>1. o \in Never.keeps
    BY DEF Wanted
  <2>2. QED BY <2>1 DEF Never
<1>3. Handled(ask, "at") => Within(r.at, GroupFilter(ask, "at"))
  <2> SUFFICES ASSUME GroupFilter(ask, "at") # Line
               PROVE  At(r.at) \in GroupFilter(ask, "at")
    BY <1>1 DEF Within
  <2> DEFINE constrained == {s \in Members(ask, "at") : Constrains(ask, s)}
             enclosures == {Enclosure(ask, s) : s \in constrained}
  <2>1. None \notin enclosures /\ enclosures # {} /\ GroupFilter(ask, "at") = UNION enclosures
    BY DEF GroupFilter
  <2>2. PICK s \in constrained : Enclosure(ask, s) # None
    BY <2>1
  <2>3. s \in ask.specs /\ s.col = "at" /\ ~IsInterval(s) /\ s.out \in {"at", "day"}
    BY <2>2, CombineAssumption DEF Members
  <2>4. At(r.at) \in Enclosure(ask, s)
    BY <1>1, <2>2, <2>3, SameService, EnclosureReaches
  <2>5. QED BY <2>1, <2>2, <2>4
<1>4. Handled(ask, "key") => Within(r.at, GroupFilter(ask, "key"))
  BY DEF GroupFilter, NaiveTemporal, Within
<1>5. /\ UnionFilter(ask, Discrete(ask, "at"), r["at"])
      /\ UnionFilter(ask, Discrete(ask, "key"), r["key"])
  BY <1>1, InstantUnion, KeyUnion
<1>6. ASSUME NEW s \in ask.specs, TemporalSpec(ask, s)
      PROVE  Within(r.at, Expand(ask, s, Extracted(ask, s.out)))
  <2>1. s.col = "at" /\ ~IsInterval(s) /\ s.mapping = None /\ s.out \in {"at", "day"}
    BY <1>6, CombineAssumption DEF TemporalSpec, NaiveTemporal
  <2>2. ServesBy(ask, s, o, r)
    BY <2>1, SameService
  <2>3. MapsTo(s.mapping, Value(o, s.out)) = Value(o, s.out)
    BY <2>1 DEF MapsTo
  <2>4. InWindow(ask, s, Value(o, s.out), r)
    BY <2>1, <2>2, <2>3, ServedInWindow
  <2>5. At(r.at) \in Expand(ask, s, Extracted(ask, s.out))
    BY <1>1, <2>1, <2>4, ExtractedReaches
  <2>6. QED BY <1>1, <2>5 DEF Within
<1>7. ASSUME NEW s \in ask.specs, IsInterval(s), HasRange(ask, s.out)
      PROVE  OverlapsHull(ask, s, r)
  BY <1>1, <1>7, CombineAssumption, SameService, HullReaches
<1>8. QED BY <1>2, <1>3, <1>4, <1>5, <1>6, <1>7 DEF SourceFilter

(* The rows an output sees, of those read and of all of them.               *)
Sees(ask, rs, o) == {r \in rs : Serves(ask, o, r)}
Alone(ask, rs, o) == \A k \in Keys : Sees(ask, rs, [o EXCEPT !.key = k]) = {}

LEMMA SameSights ==
    ASSUME NEW ask \in CombineAsks, ~FallsShort(ask), NEW rs \in SUBSET CombineRows,
           ask.dated => \A r \in rs : OnDate(r.at) /\ OnDate(r.end),
           NEW read, read = {r \in rs : SourceFilter(ask, r)},
           NEW o, Wanted(ask, o)
    PROVE  /\ o.key # Null => Sees(ask, read, o) = Sees(ask, rs, o)
           /\ o.key = Null => (Alone(ask, read, o) <=> Alone(ask, rs, o))
<1>1. ASSUME NEW p, Stands(p, o)
      PROVE  Sees(ask, read, p) = Sees(ask, rs, p)
  BY <1>1, ServedIsRead DEF Sees
<1>2. o.key # Null => Stands(o, o)
  BY DEF Stands, Wanted
<1>3. ASSUME o.key = Null, NEW k \in Keys
      PROVE  Stands([o EXCEPT !.key = k], o)
  BY <1>3 DEF Stands, Wanted, Outputs
<1>4. QED BY <1>1, <1>2, <1>3 DEF Alone

LEMMA CombinedRows ==
    ASSUME NEW ask, NEW rs, NEW c
    PROVE  c \in Combined(ask, rs) <=>
               /\ c = [row |-> c.row, sees |-> c.sees]
               /\ c.row \in Outputs /\ (ask.dated => OnDate(c.row.at))
               /\ \/ c.row.key # Null /\ c.sees = Sees(ask, rs, c.row) /\ c.sees # {}
                  \/ ask.outer /\ c.row.key = Null /\ c.sees = {} /\ Alone(ask, rs, c.row)
BY DEF Combined, Sees, Alone

(* The wanted rows of the combine of what is read are those of the combine  *)
(* of everything.                                                          *)
LEMMA SameCombined ==
    ASSUME NEW ask \in CombineAsks, ~FallsShort(ask), NEW rs \in SUBSET CombineRows,
           ask.dated => \A r \in rs : OnDate(r.at) /\ OnDate(r.end),
           NEW read, read = {r \in rs : SourceFilter(ask, r)}
    PROVE  {c \in Combined(ask, read) : Kept(ask, c)} = {c \in Combined(ask, rs) : Kept(ask, c)}
<1>1. ASSUME NEW c, Kept(ask, c)
      PROVE  c \in Combined(ask, read) <=> c \in Combined(ask, rs)
  <2>1. CASE c.row \in Outputs /\ (ask.dated => OnDate(c.row.at))
    <3>1. Wanted(ask, c.row)
      BY <1>1, <2>1 DEF Wanted, Kept
    <3>2. /\ c.row.key # Null => Sees(ask, read, c.row) = Sees(ask, rs, c.row)
          /\ c.row.key = Null => (Alone(ask, read, c.row) <=> Alone(ask, rs, c.row))
      BY <3>1, SameSights
    <3>3. QED BY <3>2, CombinedRows
  <2>2. CASE ~(c.row \in Outputs /\ (ask.dated => OnDate(c.row.at)))
    BY <2>2, CombinedRows
  <2>3. QED BY <2>1, <2>2
<1>2. QED BY <1>1

(* Every row a wanted row sees is read.                                    *)
LEMMA SightsRead ==
    ASSUME NEW ask \in CombineAsks, ~FallsShort(ask), NEW rs \in SUBSET CombineRows,
           ask.dated => \A r \in rs : OnDate(r.at) /\ OnDate(r.end),
           NEW c \in Combined(ask, rs), Kept(ask, c), NEW r \in c.sees
    PROVE  r \in rs /\ SourceFilter(ask, r)
<1>1. /\ c.row \in Outputs /\ (ask.dated => OnDate(c.row.at))
      /\ c.row.key # Null /\ c.sees = Sees(ask, rs, c.row)
  BY CombinedRows
<1>2. Wanted(ask, c.row) /\ Stands(c.row, c.row)
  BY <1>1 DEF Wanted, Kept, Stands
<1>3. r \in rs /\ Serves(ask, c.row, r)
  BY <1>1 DEF Sees
<1>4. QED BY <1>2, <1>3, ServedIsRead

-----------------------------------------------------------------------------
CombineInv ==
    /\ rows \in SUBSET CombineRows
    /\ combined.pc \in {"idle", "done"}
    /\ CombineAgrees

LEMMA CombineStep == CombineInv /\ [CombineNext]_combineVars => CombineInv'
<1> SUFFICES ASSUME CombineInv, [CombineNext]_combineVars PROVE CombineInv'
  OBVIOUS
<1>1. CASE UNCHANGED combineVars
  BY <1>1 DEF CombineInv, CombineAgrees, LosesNothing, combineVars
<1>2. ASSUME NEW ask \in CombineAsks, AskCombine(ask) PROVE CombineInv'
  <2> DEFINE read == {r \in rows : SourceFilter(ask, r)}
             wanted == {c \in Combined(ask, rows) : Kept(ask, c)}
  <2>1. /\ ask.dated => \A r \in rows : OnDate(r.at) /\ OnDate(r.end)
        /\ rows' = rows /\ rows \in SUBSET CombineRows
    BY <1>2 DEF AskCombine, CombineInv
  <2>2. PICK answer \in (IF ask.virtual THEN {read} ELSE Answers(ask, read)) :
            combined' = [pc |-> "done", ask |-> ask, read |-> read, answer |-> answer]
    BY <1>2 DEF AskCombine
  <2> HIDE DEF read
  <2>3. combined'.pc = "done" /\ combined'.ask = ask /\ combined'.answer = answer
    BY <2>2
  <2> SUFFICES ASSUME ~FallsShort(ask) PROVE LosesNothing(ask, answer)'
    BY <2>1, <2>3 DEF CombineInv, CombineAgrees
  <2>4. {c \in Combined(ask, read) : Kept(ask, c)} = wanted
    BY <2>1, SameCombined DEF read
  <2>5. CASE ask.virtual
    <3>1. answer = read
      BY <2>2, <2>5
    <3>2. UNION {c.sees : c \in wanted} \subseteq read
      BY <2>1, SightsRead DEF read
    <3> HIDE DEF wanted
    <3>3. QED BY <2>1, <2>5, <3>1, <3>2 DEF LosesNothing, wanted
  <2>6. CASE ~ask.virtual
    <3>1. answer \in Heads(ask.n_rows, wanted)
      BY <2>2, <2>4, <2>6 DEF Answers
    <3> HIDE DEF wanted
    <3>2. QED BY <2>1, <2>6, <3>1 DEF LosesNothing, wanted
  <2>7. QED BY <2>5, <2>6
<1>3. QED BY <1>1, <1>2 DEF CombineNext

(* Whatever the rows of the source, the specifications and the query, a     *)
(* combine that looks no further than it declares gives the same filtered   *)
(* frame from the rows that were read as from all of them, but for the      *)
(* queries that FallsShort describes.                                      *)
THEOREM CombineHolds == CombinedSpec => []CombineAgrees
<1>1. CombineInit => CombineInv
  BY DEF CombineInit, CombineInv, NoCombine, CombineAgrees
<1>2. CombineInv => CombineAgrees
  BY DEF CombineInv
<1>3. QED BY <1>1, <1>2, CombineStep, PTL DEF CombinedSpec
=============================================================================
