------------------------------ MODULE MCSched ------------------------------
(***************************************************************************)
(* Sched for TLC.  The constants are given in the configurations: a queue  *)
(* of 4 or 5 slots, a slice of 2 ticks, and pids for one or two testmts.   *)
(***************************************************************************)
EXTENDS Sched
=============================================================================
