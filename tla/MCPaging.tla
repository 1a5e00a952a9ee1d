------------------------------ MODULE MCPaging ------------------------------
(***************************************************************************)
(* Paging with pages of two units, page tables of eight pages and a heap   *)
(* from page 24 to page 56.  The kernel ends before the heap, up to the    *)
(* last unit that leaves room for the page tables, or behind the start of  *)
(* the heap; the RAM ends below, inside and behind the heap.               *)
(***************************************************************************)
EXTENDS Paging

MCKernelEnds == {5, 6, 13, 14, 48, 49}

MCRamSizes == {22, 31, 45, 64}

MCReserved == {{}, {14}, {16, 17}, {3, 14, 20}}
=============================================================================
