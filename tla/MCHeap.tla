------------------------------- MODULE MCHeap -------------------------------
(***************************************************************************)
(* Heap for TLC.  One unit of address is 8 bytes, so MAJOR, MINOR,         *)
(* ALIGNMENT and ALIGN_INFO have their real proportions (24, 24, 16, 16);  *)
(* a page is 32 units, room for a block header and three small             *)
(* allocations, and one of the requests needs a block of two pages.        *)
(***************************************************************************)
EXTENDS Heap
=============================================================================
