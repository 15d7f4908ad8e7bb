----------------------------- MODULE MCSignals -----------------------------
(* Two tasks, one of them not in TASK_MAP, and three signals. *)
EXTENDS Signals

CONSTANTS t1, t2
MCMasks == {{2}}
=============================================================================
