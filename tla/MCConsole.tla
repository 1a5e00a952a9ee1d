----------------------------- MODULE MCConsole -----------------------------
(***************************************************************************)
(* Console with two threads and a screen of two rows and two columns.  Two *)
(* rows with a character too many, and scrolls of such rows, fit into the  *)
(* characters of calls that do not overlap; of overlapping calls there are *)
(* more than the transmitter's queue has places.                           *)
(***************************************************************************)
EXTENDS Console
=============================================================================
