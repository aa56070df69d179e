---------------------------- MODULE MCSqlStream ----------------------------
(* Two scans for TLC: a, with batches of one and two rows, throttled to    *)
(* one worker, and b, with an empty slice, which may use the whole budget. *)
EXTENDS SqlStream

CONSTANTS a, b

MCBatches == [s \in Scans |-> IF s = a THEN << <<1, 3>>, <<1>> >> ELSE << <<1>>, <<>> >>]
MCCaps == [s \in Scans |-> IF s = a THEN {2, Uncapped} ELSE {0, Uncapped}]
MCMaxConcurrency == [s \in Scans |-> IF s = a THEN 1 ELSE 0]
=============================================================================
