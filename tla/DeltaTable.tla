----------------------------- MODULE DeltaTable -----------------------------
(***************************************************************************)
(* A Delta table between sink_delta and scan_delta (delta_io.py).  A sink   *)
(* writes a frame chunk by chunk, each a commit of its own, and may fail   *)
(* between two of them; temporal columns delta-rs lacks are stored as       *)
(* integers, with their mapping in the description of the table.  A scan   *)
(* takes the mapping when it is made and opens the table again for each     *)
(* collect; its version may be a number or a time.                         *)
(*                                                                         *)
(* A commit is one atomic step of delta-rs, which keeps the description of *)
(* the first version and refuses a frame of other column types: frames of  *)
(* different units are alike to it.  A frame has at least one chunk.  A     *)
(* time that is asked for is that of a version.                            *)
(***************************************************************************)
EXTENDS Naturals, Sequences, FiniteSets

CONSTANTS
    Sinks,          (* the calls of sink_delta                             *)
    Chunks,         (* the number of chunks of the frame of each           *)
    Unit,           (* the unit its mapping would store, Plain for none    *)
    Plain,
    Latest,         (* version = None of scan_delta                        *)
    MaxCollects     (* bound on the collects of a scan                     *)

VARIABLES
    versions,       (* the committed versions of the table                 *)
    sinks,          (* the progress of each sink                           *)
    scan            (* a scan of the table and its last collect            *)

deltaVars == <<versions, sinks, scan>>

Modes == {"error", "append", "overwrite", "ignore"}

ASSUME DeltaAssumption ==
    Chunks \in [Sinks -> Nat \ {0}] /\ MaxCollects \in Nat

Exists == versions # <<>>
Current == versions[Len(versions)]
Content(k) == versions[k].chunks
ChunksOf(w) == {w} \X (1..Chunks[w])

DeltaInit ==
    /\ versions = <<>>
    /\ sinks = [w \in Sinks |-> [pc |-> "idle", mode |-> "none", stream |-> FALSE, next |-> 1,
                                 found |-> FALSE]]
    /\ scan = [pc |-> "idle", asked |-> Latest, timed |-> FALSE, opens |-> Latest,
               mapping |-> Plain, made |-> 0, at |-> 0, read |-> {}, collects |-> 0]

(* An overwrite is collected and written at once; so is a frame where the   *)
(* polars version or chunk_size = -1 rules out batches.                    *)
OneCommitStreamed(w) == ~sinks[w].stream
OneCommit(w) == sinks[w].mode = "overwrite" \/ ~sinks[w].stream
Batch(w) == IF OneCommit(w) THEN ChunksOf(w) ELSE {<<w, sinks[w].next>>}
First(w) == sinks[w].next = 1

(* The mapping goes with the first write, which alone may create the table. *)
DescriptionLast(w) == IF First(w) THEN Plain ELSE Unit[w]
Description(w) == IF First(w) THEN Unit[w] ELSE Plain
WriteMode(w) == IF First(w) THEN sinks[w].mode ELSE "append"

(* infer_logical_mapping and build_delta_write_exprs: the column is stored  *)
(* as integers if it has a unit, natively if not.                          *)
StoredAsIs(w) == Unit[w] = Plain

(* What write_delta commits, if it does not refuse.                        *)
Refuses(w) ==
    /\ Exists
    /\ \/ WriteMode(w) = "error"
       \/ WriteMode(w) # "ignore" /\ Current.asIs # StoredAsIs(w)
Committed(w) ==
    IF ~Exists THEN <<[chunks |-> Batch(w), asIs |-> StoredAsIs(w), mapping |-> Description(w)]>>
    ELSE IF WriteMode(w) = "ignore" THEN versions
    ELSE Append(versions, [Current EXCEPT !.chunks =
                               (IF WriteMode(w) = "overwrite" THEN {} ELSE @) \union Batch(w)])

SinkDelta(w) ==
    /\ sinks[w].pc = "idle"
    /\ \E mode \in Modes, stream \in BOOLEAN :
           sinks' = [sinks EXCEPT ![w].pc = "writing", ![w].mode = mode, ![w].stream = stream]
    /\ UNCHANGED <<versions, scan>>

WriteDelta(w) ==
    /\ sinks[w].pc = "writing" /\ ~Refuses(w)
    /\ versions' = Committed(w)
    /\ LET next == IF OneCommit(w) THEN Chunks[w] + 1 ELSE sinks[w].next + 1
       IN sinks' = [sinks EXCEPT ![w].next = next, ![w].found = @ \/ (First(w) /\ Exists),
                        ![w].pc = IF next > Chunks[w] THEN "done" ELSE "writing"]
    /\ UNCHANGED scan

(* The table refuses the write, or the frame or the commit fails: what is   *)
(* written stays.                                                          *)
SinkRaises(w) ==
    /\ sinks[w].pc = "writing"
    /\ sinks' = [sinks EXCEPT ![w].pc = "failed", ![w].found = @ \/ (First(w) /\ Exists)]
    /\ UNCHANGED <<versions, scan>>

-----------------------------------------------------------------------------
VersionOf(version) == IF version = Latest THEN Len(versions) ELSE version

(* scan_delta reads the mapping of the version asked for, and of the        *)
(* latest if that is a time (int_version); what a collect opens is the      *)
(* same, unless it leaves the version to polars, which knows times.         *)
ScanDelta ==
    /\ scan.pc = "idle" /\ Exists
    /\ \E asked \in {Latest} \union DOMAIN versions, timed, pushdown \in BOOLEAN :
           /\ timed => asked # Latest
           /\ LET int == IF timed THEN Latest ELSE asked
              IN scan' = [scan EXCEPT !.pc = "made", !.asked = asked, !.timed = timed,
                              !.opens = IF pushdown THEN int ELSE asked,
                              !.mapping = versions[VersionOf(int)].mapping, !.made = Len(versions)]
    /\ UNCHANGED <<versions, sinks>>

CollectVersion == VersionOf(scan.opens)

(* The DeltaTable is created anew inside the generator.                    *)
CollectDelta ==
    /\ scan.pc = "made" /\ scan.collects < MaxCollects
    /\ scan' = [scan EXCEPT !.collects = @ + 1, !.at = CollectVersion,
                            !.read = Content(CollectVersion)]
    /\ UNCHANGED <<versions, sinks>>

DeltaNext ==
    \/ \E w \in Sinks : SinkDelta(w) \/ WriteDelta(w) \/ SinkRaises(w)
    \/ ScanDelta \/ CollectDelta

DeltaSpec == DeltaInit /\ [][DeltaNext]_deltaVars

-----------------------------------------------------------------------------
Visible(k, w) == {c[2] : c \in Content(k) \intersect ChunksOf(w)}
Creator(w) == Visible(1, w) # {}
OverwrittenBy(w) == \E u \in Sinks \ {w} : sinks[u].mode = "overwrite" /\ sinks[u].next > 1

(* No version shows a later chunk of a sink without the earlier ones,       *)
(* unless an overwrite came between them or the sink ignored the table it  *)
(* found: a failed or running sink shows a prefix, one that is done all of *)
(* its frame, an overwrite never a part of it, and a sink in mode "error"   *)
(* nothing unless it created the table (delta_io.py:496-577).               *)
SinksShowPrefixes ==
    \A k \in DOMAIN versions : \A w \in Sinks :
        LET seen == Visible(k, w)
            ignored == sinks[w].mode = "ignore" /\ sinks[w].found
        IN /\ ~ignored /\ ~OverwrittenBy(w) => seen = 1..Cardinality(seen)
           /\ sinks[w].mode = "overwrite" => seen \in {{}, 1..Chunks[w]}
           /\ sinks[w].mode = "error" /\ seen # {} => Creator(w) \/ OverwrittenBy(w)
           /\ sinks[w].pc = "done" /\ ~ignored /\ ~OverwrittenBy(w) /\ k = Len(versions) =>
                  seen = 1..Chunks[w]

(* The table was created with another unit than that of the sink.           *)
Foreign(w) == \E u \in Sinks : Creator(u) /\ Unit[u] # Unit[w]

(* Every collect reads the version asked for, or without one a version no   *)
(* older than the scan, which is also what a version given as a time may   *)
(* get; and it decodes each chunk with the unit it was written with, unless *)
(* another unit created the table: never is a chunk without a unit decoded, *)
(* nor one with a unit left encoded (delta_io.py:694-785).                 *)
ScansDecode ==
    scan.collects > 0 =>
        /\ \/ scan.asked # Latest /\ scan.at = scan.asked
           \/ (scan.asked = Latest \/ scan.timed) /\ scan.at >= scan.made
        /\ \A c \in scan.read :
               \/ scan.mapping = Unit[c[1]]
               \/ Foreign(c[1]) /\ Plain \notin {scan.mapping, Unit[c[1]]}

(* What the documentation promises: the columns come back in the types they *)
(* had, so each chunk is decoded with its own unit (delta_io.py:654-659).   *)
TypesRestored == \A c \in scan.read : scan.mapping = Unit[c[1]]
=============================================================================
