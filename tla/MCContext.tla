----------------------------- MODULE MCContext -----------------------------
(***************************************************************************)
(* Context with the idle thread, init and one worker, and up to two words  *)
(* of each thread on its stack.  One version of computed values is told    *)
(* apart from initial values and from results.                             *)
(***************************************************************************)
EXTENDS Context

CONSTANT worker

MCThread == {idle, init, worker}
=============================================================================
