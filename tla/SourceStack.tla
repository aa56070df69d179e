----------------------------- MODULE SourceStack -----------------------------
(***************************************************************************)
(* The layers register_io_source_with_is_pure puts around a source: the    *)
(* source in a profiling generator, that in one that reports errors        *)
(* (io_sources/profiling.py, util.py).  Polars pulls batches from the      *)
(* outermost, or closes or drops it at any batch; each execution emits one *)
(* OpenTelemetry span under the parent published when it ends.  The         *)
(* executions of several scans interleave, and share the parent.           *)
(***************************************************************************)
EXTENDS Naturals, Sequences

CONSTANTS
    Executions,     (* calls of registered sources                         *)
    Parents,        (* the contexts set_source_span_parent publishes       *)
    NoParent,
    MaxBatches      (* bound on the batches of a source                    *)

VARIABLES
    stacks,         (* the layers of each execution                        *)
    spanParent      (* the process-global _span_parent                     *)

stackVars == <<stacks, spanParent>>

ASSUME StackAssumption == MaxBatches \in Nat

(* wrapped: wrap_with_error_catching; profiled: instrumentation is on;      *)
(* under: the parent when it ended.                                         *)
NewStack == [
    pc |-> "new", wrapped |-> FALSE, profiled |-> FALSE, inner |-> "none", batches |-> 0,
    spans |-> <<>>, closes |-> 0, saw |-> "nothing", under |-> NoParent]

StackInit ==
    /\ stacks = [e \in Executions |-> NewStack]
    /\ spanParent = NoParent

(* _emit_span: emitted at the end, under the parent of that moment.        *)
Span(s, outcome) ==
    IF s.profiled THEN <<[outcome |-> outcome, batches |-> s.batches, parent |-> spanParent]>>
    ELSE <<>>

(* The execution is over: its span comes before the inner iterator is       *)
(* closed, once, whatever it does.                                         *)
Over(s, inner, outcome, saw) ==
    [s EXCEPT !.pc = "over", !.inner = inner, !.spans = @ \o Span(s, outcome), !.saw = saw,
              !.under = spanParent]
Closed(s) == [s EXCEPT !.closes = @ + 1]

SetParent(q) ==
    /\ spanParent # q
    /\ spanParent' = q
    /\ UNCHANGED stacks

(* The source makes its iterator, or fails at once; the generator around   *)
(* it is advanced to its prime point.                                      *)
Makes(s, pc) ==
    {[s EXCEPT !.pc = pc, !.inner = "live"], Over(s, "failed", "error", "error")}

(* The body of the error-reporting generator runs with the first pull.     *)
CallSource(e) ==
    /\ stacks[e].pc = "new"
    /\ \E profiled \in BOOLEAN :
           LET s == [stacks[e] EXCEPT !.profiled = profiled]
           IN \E t \in {[s EXCEPT !.wrapped = TRUE, !.pc = "unstarted"]} \union Makes(s, "primed") :
                  stacks' = [stacks EXCEPT ![e] = t]
    /\ UNCHANGED spanParent

PullSource(e) ==
    /\ stacks[e].pc \in {"unstarted", "primed", "open"}
    /\ \E t \in IF stacks[e].pc = "unstarted" THEN Makes(stacks[e], "pulling")
                ELSE {[stacks[e] EXCEPT !.pc = "pulling"]} :
           stacks' = [stacks EXCEPT ![e] = t]
    /\ UNCHANGED spanParent

YieldBatch(e) ==
    /\ stacks[e].pc = "pulling" /\ stacks[e].batches < MaxBatches
    /\ stacks' = [stacks EXCEPT ![e].pc = "open", ![e].batches = @ + 1]
    /\ UNCHANGED spanParent

(* StopIteration: a failing close of the inner iterator surfaces.          *)
EndSource(e) ==
    LET s == stacks[e]
    IN /\ s.pc = "pulling"
       /\ \E saw \in {"end"} \union (IF s.profiled THEN {"cleanup"} ELSE {}) :
              LET over == Over(s, "ended", "exhausted", saw)
              IN stacks' = [stacks EXCEPT ![e] = IF s.profiled THEN Closed(over) ELSE over]
       /\ UNCHANGED spanParent

(* Bug: a failing close masks the error of the pull.                       *)
FailMasked(e) ==
    LET s == stacks[e]
    IN /\ s.pc = "pulling"
       /\ \E saw \in {"error", "cleanup"} :
              LET over == Over(s, "failed", "error", saw)
              IN stacks' = [stacks EXCEPT ![e] = IF s.profiled THEN Closed(over) ELSE over]
       /\ UNCHANGED spanParent

(* The pull raises, and a failing close must not mask that.                *)
FailSource(e) ==
    LET s == stacks[e]
        over == Over(s, "failed", "error", "error")
    IN /\ s.pc = "pulling"
       /\ stacks' = [stacks EXCEPT ![e] = IF s.profiled THEN Closed(over) ELSE over]
       /\ UNCHANGED spanParent

(* The consumer closes or drops the outermost generator: the body of an     *)
(* unstarted one never runs; the close of the inner iterator may fail, which *)
(* the profiling generator swallows.                                       *)
CloseSource(e) ==
    LET s == stacks[e]
    IN /\ \/ /\ s.pc = "unstarted"
             /\ stacks' = [stacks EXCEPT ![e] = [s EXCEPT !.pc = "over", !.saw = "closed"]]
          \/ /\ s.pc \in {"primed", "open"}
             /\ \E saw \in {"closed"} \union (IF s.profiled THEN {} ELSE {"cleanup"}) :
                    stacks' = [stacks EXCEPT ![e] = Closed(Over(s, "live", "closed", saw))]
       /\ UNCHANGED spanParent

StackNext ==
    \/ \E q \in Parents : SetParent(q)
    \/ \E e \in Executions :
           \/ CallSource(e) \/ PullSource(e) \/ YieldBatch(e)
           \/ EndSource(e) \/ FailSource(e) \/ CloseSource(e)

StackSpec == StackInit /\ [][StackNext]_stackVars

-----------------------------------------------------------------------------
(* The failure of a source is never masked, a failing cleanup is only seen  *)
(* on a clean end, and what a profiled execution began is closed once.      *)
Surfaces(s) ==
    /\ s.inner = "failed" <=> s.saw = "error"
    /\ s.inner = "ended" => s.saw \in {"end", "cleanup"}
    /\ s.profiled /\ s.inner = "live" => s.saw = "closed"
    /\ s.profiled /\ (s.inner \in {"ended", "live"} \/ s.batches > 0) => s.closes = 1

(* Observing an execution does not change what the query sees of it, and    *)
(* what is observed is true: one that reached its source emits exactly one  *)
(* span when it is over, with the outcome of the source, the batches it     *)
(* yielded, and the parent published by then, not when it was built         *)
(* (profiling.py:153-169, 172-246).                                        *)
ExecutionsObserved ==
    \A e \in Executions :
        LET s == stacks[e]
            outcome == CASE s.inner = "ended" -> "exhausted" [] s.inner = "failed" -> "error"
                         [] s.inner = "live" -> "closed" [] s.inner = "none" -> "never"
        IN /\ s.pc = "over" => Surfaces(s)
           /\ s.spans = IF s.pc = "over" /\ s.profiled /\ s.inner # "none"
                        THEN <<[outcome |-> outcome, batches |-> s.batches, parent |-> s.under]>>
                        ELSE <<>>
=============================================================================
