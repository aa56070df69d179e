----------------------------- MODULE RowStream -----------------------------
(***************************************************************************)
(* What a partitioned scan promises the engine that consumes it            *)
(* (scan_db, io_sources/lazy_sql_reader.py; execute_on_ray,                *)
(* io_sources/lazy_ray.py): it yields rows of its partitions, in their     *)
(* order or in any, no row twice, never more than the n_rows asked for, and *)
(* it ends normally only when it has yielded every row or n_rows of them.  *)
(* It may fail, or be closed by the consumer, while it is open.            *)
(***************************************************************************)
EXTENDS Integers

CONSTANTS
    Parts,      (* the partitions of the scan, numbers in their order      *)
    Size,       (* partition -> number of its rows                         *)
    Caps,       (* what the engine may ask for as n_rows                   *)
    Uncapped    (* n_rows is None                                          *)

VARIABLES
    inOrder,    (* whether the order of the partitions is kept             *)
    status,     (* "idle", "open", "ok", "error" or "closed"               *)
    n_rows,     (* most rows to yield                                      *)
    sent,       (* partition -> number of its rows yielded                 *)
    total       (* number of rows yielded                                  *)

streamVars == <<inOrder, status, n_rows, sent, total>>

StreamInit ==
    /\ inOrder \in BOOLEAN
    /\ status = "idle"
    /\ n_rows = Uncapped
    /\ sent = [i \in Parts |-> 0]
    /\ total = 0

Open ==
    /\ status = "idle"
    /\ \E c \in Caps : n_rows' = c
    /\ status' \in {"open", "ok", "error"}
    /\ status' = "ok" => n_rows' = 0 \/ Parts = {}
    /\ UNCHANGED <<inOrder, sent, total>>

(* The next rows of partition i are yielded.                               *)
Yield(i) ==
    /\ status = "open"
    /\ inOrder => \A j \in Parts : j < i => sent[j] = Size[j]
    /\ \E n \in 1..(Size[i] - sent[i]) :
          /\ n_rows # Uncapped => total + n <= n_rows
          /\ sent' = [sent EXCEPT ![i] = @ + n]
          /\ total' = total + n
    /\ UNCHANGED <<inOrder, status, n_rows>>

Complete == total = n_rows \/ \A i \in Parts : sent[i] = Size[i]

(* The scan ends; "error" and "closed" may leave rows out.                 *)
Finish ==
    /\ status = "open"
    /\ status' \in {"ok", "error", "closed"}
    /\ status' = "ok" => Complete
    /\ UNCHANGED <<inOrder, n_rows, sent, total>>

StreamNext == Open \/ (\E i \in Parts : Yield(i)) \/ Finish

StreamSpec == StreamInit /\ [][StreamNext]_streamVars
=============================================================================
