---------------------------- MODULE ReplayStore ----------------------------
(***************************************************************************)
(* What cache_memory promises to a consumer, without threads, locks or     *)
(* builders: a store that is written at most once per partition, whose     *)
(* every answer is the store cut to what was asked, that never forgets a   *)
(* partition its source had from the start, and whose first failure is     *)
(* final.  MemoryCache implements it.                                      *)
(***************************************************************************)
EXTENDS Integers

CONSTANTS
    Threads,      (* consumers collecting the frame                        *)
    Keys,         (* partitions of the buffer                              *)
    InitialKeys,  (* partitions the source has rows for from the start     *)
    MaxVersion,   (* bound on the number of times a partition's rows change*)
    Missing       (* "no entry" in a dictionary keyed by partition         *)

VARIABLES
    store,   (* partition -> the contents it is served with                *)
    broken,  (* a build has failed                                         *)
    status,  (* consumer -> how its latest collect stands                  *)
    want,    (* consumer -> the partitions its latest collect asks for     *)
    rows     (* consumer -> the contents its latest collect returned       *)

replayVars == <<store, broken, status, want, rows>>

Content == 0..MaxVersion
Table == [Keys -> Content \cup {Missing}]
Blank == [k \in Keys |-> Missing]
Cut(table, S) == [k \in Keys |-> IF k \in S THEN table[k] ELSE Missing]

ReplayInit ==
    /\ store = Blank
    /\ broken = FALSE
    /\ status = [t \in Threads |-> "idle"]
    /\ want = [t \in Threads |-> {}]
    /\ rows = [t \in Threads |-> Blank]

(* A consumer starts a collect, wanting the partitions in S.               *)
Ask(t, S) ==
    /\ status[t] # "pending"
    /\ status' = [status EXCEPT ![t] = "pending"]
    /\ want' = [want EXCEPT ![t] = S]
    /\ rows' = [rows EXCEPT ![t] = Blank]
    /\ UNCHANGED <<store, broken>>

(* A collect returns.  It may have materialised new partitions, but the    *)
(* ones already in the store keep their contents.                          *)
Answer(t) ==
    /\ status[t] = "pending"
    /\ ~broken
    /\ store' \in Table
    /\ \A k \in Keys : store[k] # Missing => store'[k] = store[k]
    /\ \A k \in want[t] \cap InitialKeys : store'[k] # Missing
    /\ rows' = [rows EXCEPT ![t] = Cut(store', want[t])]
    /\ status' = [status EXCEPT ![t] = "ok"]
    /\ UNCHANGED <<broken, want>>

(* A build fails, or a collect is refused because an earlier build did.    *)
Refuse(t) ==
    /\ status[t] = "pending"
    /\ broken' = TRUE
    /\ status' = [status EXCEPT ![t] = "error"]
    /\ UNCHANGED <<store, want, rows>>

(* A consumer is interrupted while its collect is pending.                 *)
Abandon(t) ==
    /\ status[t] = "pending"
    /\ status' = [status EXCEPT ![t] = "interrupted"]
    /\ UNCHANGED <<store, broken, want, rows>>

ReplayNext ==
    \E t \in Threads :
        \/ \E S \in SUBSET Keys : Ask(t, S)
        \/ Answer(t)
        \/ Refuse(t)
        \/ Abandon(t)

ReplaySpec == ReplayInit /\ [][ReplayNext]_replayVars
=============================================================================
