---------------------------- MODULE ColumnCache ----------------------------
(***************************************************************************)
(* cache (io_sources/lazy_cache.py): the cache of the columns of a frame,  *)
(* partition by partition, in a mapping that concurrent collects share.  A *)
(* collect finds out under a lock which entries the mapping has, reads     *)
(* them outside the lock, collects the columns missing from the partitions *)
(* it knows and all columns of those it does not, and publishes the result *)
(* under the lock again.  The mapping may be a store that drops entries.   *)
(*                                                                         *)
(* An entry is a partition and a column; its value is the revision of the  *)
(* partition it was read from.                                             *)
(***************************************************************************)
EXTENDS Integers, FiniteSets

CONSTANTS
    Collectors,   (* threads collecting the returned frame                 *)
    Parts,        (* partitions; one when there are no partition_cols      *)
    Cols,         (* columns of the frame                                  *)
    OrderBy,      (* the columns of order_by                               *)
    ColumnAsks,   (* what is collected: cache_mode, column_granularity,    *)
                  (* the columns, and the partitions the predicate selects *)
    InitialParts, (* partitions the source has rows for from the start     *)
    MaxRevision,  (* bound on the revisions of a partition                 *)
    DupRevs,      (* revisions of partitions whose rows order_by does not  *)
                  (* identify                                              *)
    Validate,     (* validate                                              *)
    Evicting      (* the mapping may drop entries                          *)

Entries == Parts \X Cols
Revision == 0..MaxRevision  (* 0: no rows in the source, no entry in the mapping *)
ColumnAsk == [mode : {"cache", "rebuild"}, granular : BOOLEAN,
              cols : SUBSET Cols, scope : SUBSET Parts]

ASSUME ColumnCacheAssumption ==
    /\ OrderBy \subseteq Cols /\ OrderBy # {}
    /\ ColumnAsks \subseteq ColumnAsk
    /\ InitialParts \subseteq Parts
    /\ MaxRevision \in Nat \ {0} /\ DupRevs \subseteq Parts \X (1..MaxRevision)
    /\ Validate \in BOOLEAN /\ Evicting \in BOOLEAN

VARIABLES
    latest,       (* partition -> revision of its rows (external)          *)
    cache,        (* the mapping: entry -> revision                        *)
    locals        (* thread -> its local variables                         *)

columnVars == <<latest, cache, locals>>

NoAsk == [mode |-> "cache", granular |-> TRUE, cols |-> {}, scope |-> {}]
Empty == [e \in Entries |-> 0]
AtRest == [pc |-> "idle", ask |-> NoAsk, found |-> {}, data |-> Empty, new |-> Empty,
           hit |-> {}, floor |-> [p \in Parts |-> 0]]

ColumnTypeOK ==
    /\ latest \in [Parts -> Revision]
    /\ cache \in [Entries -> Revision]
    /\ locals \in [Collectors -> [pc : {"idle", "read", "publish", "done", "error"},
                                  ask : ColumnAsks \cup {NoAsk},
                                  found : SUBSET Entries,       (* still to be read *)
                                  data : [Entries -> Revision],
                                  new : [Entries -> Revision],  (* collected_frames *)
                                  hit : SUBSET Entries,         (* ghost: cached at first *)
                                  floor : [Parts -> Revision]]] (* ghost: source at first *)
    /\ \A t \in Collectors : locals[t].found \subseteq locals[t].ask.scope \X Cols

ColumnInit ==
    /\ latest = [p \in Parts |-> IF p \in InitialParts THEN 1 ELSE 0]
    /\ cache = Empty
    /\ locals = [t \in Collectors |-> AtRest]

(* The rows of a partition change in the source (external).                *)
PartitionChanges(p) ==
    /\ latest[p] < MaxRevision
    /\ latest' = [latest EXCEPT ![p] = @ + 1]
    /\ UNCHANGED <<cache, locals>>

(* A cache backend drops an entry (external).                              *)
Evict(e) ==
    /\ Evicting
    /\ cache[e] # 0
    /\ cache' = [cache EXCEPT ![e] = 0]
    /\ UNCHANGED <<latest, locals>>

-----------------------------------------------------------------------------
(* columns_to_select                                                       *)
Select(ask) == IF ask.granular THEN ask.cols ELSE Cols

(* Bug: a rebuild uses what is cached.                                     *)
CachedInRebuild(ask) == {e \in ask.scope \X Select(ask) : cache[e] # 0}

(* The entries a collect finds in the mapping and may use.                 *)
CachedEntries(ask) == {e \in ask.scope \X Select(ask) : ask.mode = "cache" /\ cache[e] # 0}

(* Under the lock: what does the mapping have?                             *)
Discover(t, ask) ==
    /\ locals[t].pc \in {"idle", "done", "error"}
    /\ locals' = [locals EXCEPT ![t] = [
           pc |-> "read", ask |-> ask, found |-> CachedEntries(ask), data |-> Empty, new |-> Empty,
           hit |-> {e \in ask.scope \X ask.cols : ask.mode = "cache" /\ cache[e] # 0},
           floor |-> [p \in Parts |-> IF p \in ask.scope THEN latest[p] ELSE 0]]]
    /\ UNCHANGED <<latest, cache>>

(* Outside the lock: an entry found is read ...                            *)
ReadEntry(t, e) ==
    /\ locals[t].pc = "read"
    /\ e \in locals[t].found
    /\ cache[e] # 0
    /\ locals' = [locals EXCEPT ![t].data[e] = cache[e], ![t].found = @ \ {e}]
    /\ UNCHANGED <<latest, cache>>

(* ... unless it is gone, which raises KeyError.                           *)
EntryGone(t) ==
    /\ locals[t].pc = "read"
    /\ \E e \in locals[t].found : cache[e] = 0
    /\ locals' = [locals EXCEPT ![t] = [AtRest EXCEPT !.pc = "error"]]
    /\ UNCHANGED <<latest, cache>>

(* The columns of p that were in the mapping, if any: p is then known.     *)
Have(t, p) == {c \in Cols : locals[t].data[<<p, c>>] # 0}

(* Bug: a partition known by one column is taken to have them all.         *)
ColsToCollectUnknown(t, p) == IF Have(t, p) = {} THEN Select(locals[t].ask) \cup OrderBy ELSE {}

(* The columns collected for partition p, with order_by to sort them by.   *)
(* Those of unknown partitions come from one query that excludes the known *)
(* ones, the others from a query for p.                                    *)
ColsToCollect(t, p) ==
    LET missing == Select(locals[t].ask) \ Have(t, p)
    IN IF missing = {} /\ Have(t, p) # {} THEN {} ELSE missing \cup OrderBy

(* collect_all: the missing columns are read from the source.              *)
CollectMissing(t) ==
    /\ locals[t].pc = "read"
    /\ locals[t].found = {}
    /\ locals' = [locals EXCEPT ![t].pc = "publish", ![t].new = [e \in Entries |->
                  IF e[1] \in locals[t].ask.scope /\ e[2] \in ColsToCollect(t, e[1])
                  THEN latest[e[1]] ELSE 0]]
    /\ UNCHANGED <<latest, cache>>

CollectFails(t) ==
    /\ locals[t].pc = "read"
    /\ locals[t].found = {}
    /\ locals' = [locals EXCEPT ![t] = [AtRest EXCEPT !.pc = "error"]]
    /\ UNCHANGED <<latest, cache>>

Overlaid(new, old) == [e \in Entries |-> IF new[e] # 0 THEN new[e] ELSE old[e]]
Block(t, S) == [e \in Entries |-> IF e[1] \in S THEN locals[t].new[e] ELSE 0]

(* Bug: nothing is validated but what is collected for known partitions.   *)
InvalidKnown(t) ==
    {p \in Parts : Validate /\ Have(t, p) # {} /\ \E c \in Cols : <<p, locals[t].new[<<p, c>>]>> \in DupRevs}

(* Partitions of which a collected block has duplicate keys.               *)
Invalid(t) == {p \in Parts : Validate /\ \E c \in Cols : <<p, locals[t].new[<<p, c>>]>> \in DupRevs}

(* Under the lock: every block collected is valid and is published.        *)
PublishBlocks(t) ==
    /\ locals[t].pc = "publish"
    /\ Invalid(t) = {}
    /\ cache' = Overlaid(locals[t].new, cache)
    /\ locals' = [locals EXCEPT ![t].pc = "done", ![t].data = Overlaid(locals[t].new, @), ![t].new = Empty]
    /\ UNCHANGED latest

(* A block is invalid: those before it in the loop are published.          *)
PublishFails(t) ==
    /\ locals[t].pc = "publish"
    /\ Invalid(t) # {}
    /\ \E before \in SUBSET (Parts \ Invalid(t)) : cache' = Overlaid(Block(t, before), cache)
    /\ locals' = [locals EXCEPT ![t] = [AtRest EXCEPT !.pc = "error"]]
    /\ UNCHANGED latest

ColumnNext ==
    \/ \E p \in Parts : PartitionChanges(p)
    \/ \E e \in Entries : Evict(e)
    \/ \E t \in Collectors :
          \/ \E ask \in ColumnAsks : Discover(t, ask)
          \/ \E e \in Entries : ReadEntry(t, e)
          \/ EntryGone(t) \/ CollectMissing(t) \/ CollectFails(t) \/ PublishBlocks(t) \/ PublishFails(t)

ColumnSpec == ColumnInit /\ [][ColumnNext]_columnVars

-----------------------------------------------------------------------------
(* Properties.  The rows of an answer are data, cut to the columns asked.  *)

(* A collect that succeeds has every column asked for of every partition   *)
(* its predicate selects, if the source had the partition when it started, *)
(* and never only some of its columns, though entries come and go while it *)
(* reads and others publish (l.318-426).                                   *)
ColumnsComplete ==
    \A t \in Collectors : locals[t].pc = "done" =>
        \A p \in locals[t].ask.scope :
            locals[t].floor[p] # 0 \/ Have(t, p) # {} => locals[t].ask.cols \subseteq Have(t, p)

(* What was not cached when the collect started, and everything in a       *)
(* rebuild, is as recent as the start of the collect (l.291, l.342-410).   *)
MissesFresh ==
    \A t \in Collectors : locals[t].pc = "done" =>
        \A e \in (locals[t].ask.scope \X locals[t].ask.cols) \ locals[t].hit :
            locals[t].data[e] >= locals[t].floor[e[1]]

(* With validate, no block whose rows order_by does not identify is ever   *)
(* published, by a collect that fails or beside one (l.428-452).           *)
ValidatedOnly == Validate => \A e \in Entries : <<e[1], cache[e]>> \notin DupRevs

(* The columns of a partition in an answer come from one reading of the    *)
(* source: nobody can "read a half-published partition" (l.56-57).         *)
ColumnsTogether ==
    \A t \in Collectors : locals[t].pc = "done" =>
        \A p \in locals[t].ask.scope : \A c, d \in locals[t].ask.cols :
            locals[t].data[<<p, c>>] = locals[t].data[<<p, d>>]
=============================================================================
