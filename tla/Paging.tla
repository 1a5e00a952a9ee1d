------------------------------- MODULE Paging -------------------------------
(***************************************************************************)
(* How the kernel sets up memory at boot, before there is a heap: the bump *)
(* pointer plp (mm/alloc.c), the bitmap of frames (mm/frame.c), what the   *)
(* boot loader reports (arch/x86/multiboot.c) and the page tables of       *)
(* kernel_dir (paging_fini of mm/page.c), one action per page mapped.      *)
(*                                                                         *)
(* What makes it hard is that get_page takes page tables from plp while    *)
(* paging_fini marks everything below plp as used.  Paging is still off,   *)
(* so a page table is written at its physical address and will be read     *)
(* later through the mapping of that page.                                 *)
(*                                                                         *)
(* plp counts units, PAGE of them to a page; pages and frames are numbers. *)
(* Left out: the flags of a mapping, and the second mapping of the VGA     *)
(* memory, which only changes flags.  A reserved region beyond the bitmap  *)
(* sets bits behind the array, in memory that is cleared when it is used;  *)
(* such regions are left out of Reserved.                                  *)
(***************************************************************************)
EXTENDS Integers, FiniteSetsExt

CONSTANTS
    PAGE,           \* units in a page
    LOW,            \* the page at 1 MB, where the kernel is
    SLACK,          \* pages that are mapped behind plp (0x3000)
    GAP,            \* pages from plp to the heap, if that must move (0x100000)
    TABLE,          \* pages that a page table maps, 1024
    KHEAP_START, KHEAP_END,     \* in pages
    DIR,            \* units of a page_dir_t
    WORD,           \* bits that first_frame tests at once, 32
    KernelEnds,     \* the possible &kernel_end, in units
    RamSizes,       \* the possible nframes
    Reserved        \* the possible sets of frames in regions of type 2

ASSUME PagingAssumption ==
    /\ {PAGE, LOW, SLACK, GAP, TABLE, DIR, WORD} \subseteq Nat \ {0}
    /\ {KHEAP_START, KHEAP_END} \subseteq Nat /\ KHEAP_START <= KHEAP_END
    /\ KernelEnds \cup RamSizes \subseteq Nat
    /\ \A r \in Reserved, n \in RamSizes : r \subseteq 0 .. n - 1
    /\ KHEAP_END % TABLE = 0

(* Every page table takes two pages, as Aligned passes over the start of a *)
(* page.  The kernel ends behind 1 MB and leaves room for them in front of *)
(* the heap, as in the build (about 1.2 MB, before 8 MB), or moves the     *)
(* heap, by GAP; either way the heap still starts before its end (512 MB). *)
AllTables == 2 * PAGE * (KHEAP_END \div TABLE)

ASSUME LayoutAssumption ==
    /\ SLACK <= GAP
    /\ \A k \in KernelEnds :
          /\ LOW * PAGE <= k
          /\ \/ k + 1 + PAGE + DIR + AllTables <= KHEAP_START * PAGE
             \/ k >= KHEAP_START * PAGE /\ GAP * PAGE >= AllTables
          /\ k + 1 + PAGE + DIR + AllTables + GAP * PAGE <= KHEAP_END * PAGE

VARIABLES
    plp,
    nframes,
    frames,         \* the bits that are set
    tables,         \* the page tables that exist
    frame_of,       \* page -> the frame it is mapped to, 0 for none
    i, hs,          \* paging_fini: the page of its loop, the heap's start
    start,          \* history: the page at which the third loop ended
    quiet,          \*   no bit was set between start and hs at that time
    pc, halted

vars == <<plp, nframes, frames, tables, frame_of, i, hs, start, quiet, pc, halted>>
bootVars == <<nframes, start, quiet>>

Pages == 0 .. KHEAP_END - 1

Init ==
    /\ plp \in KernelEnds
    /\ nframes \in {n \in RamSizes : plp <= n * PAGE}
    /\ frames = {} /\ tables = {}
    /\ frame_of = [p \in Pages |-> 0]
    /\ i = 0 /\ hs = 0 /\ start = 0 /\ quiet = TRUE
    /\ pc = "set_nframes"
    /\ halted = "no"

At(l) == pc = l /\ halted = "no"

(* __kmalloc with alignment: the next page, also from the start of a page. *)
Aligned(a) == (a \div PAGE) * PAGE + PAGE

(* set_nframes.  The bitmap takes nframes/4 bytes, less than a page here;  *)
(* memset clears only the first nframes/32 bytes of it.                    *)
Uncleared == {f \in 0 .. nframes - 1 : f >= nframes \div 4}

set_nframes ==
    /\ At("set_nframes")
    /\ \E junk \in {{}, Uncleared, {f \in Uncleared : f % 2 = 0}} : frames' = junk
    /\ plp' = Aligned(plp + 1) + DIR
    /\ pc' = "mboot"
    /\ UNCHANGED <<bootVars, tables, frame_of, i, hs, halted>>

(* arch_do_mboot: the frames of the reserved regions of the memory map. *)
arch_do_mboot ==
    /\ At("mboot")
    /\ \E r \in Reserved : frames' = frames \cup r
    /\ pc' = "page0"
    /\ UNCHANGED <<bootVars, plp, tables, frame_of, i, hs, halted>>

-----------------------------------------------------------------------------
(* get_page(p, 1): the table of page p, made if there is none. *)
get_page(p) ==
    /\ tables' = tables \cup {p \div TABLE}
    /\ plp' = IF p \div TABLE \in tables THEN plp ELSE Aligned(plp) + PAGE

(* alloc_dma_frame: page p is mapped to frame p. *)
alloc_dma_frame(p) ==
    /\ frame_of' = [frame_of EXCEPT ![p] = p]
    /\ frames' = frames \cup ({p} \cap 0 .. nframes - 1)

(* alloc_frame gives a page the first clear frame.  (plp being at a page's *)
(* start by then, no page that it is called for has one already.)          *)
first_frame == {f \in 0 .. (nframes \div WORD) * WORD - 1 : f \notin frames}

alloc_frame(p) ==
    /\ frame_of[p] = 0
    /\ \/ /\ first_frame # {}
          /\ frame_of' = [frame_of EXCEPT ![p] = Min(first_frame)]
          /\ frames' = frames \cup {Min(first_frame)}
          /\ UNCHANGED halted
       \/ /\ first_frame = {}
          /\ halted' = "out_of_memory"
          /\ UNCHANGED <<frame_of, frames>>

(* paging_fini. *)
fini_page0 ==
    /\ At("page0")
    /\ get_page(0)
    /\ frames' = frames \cup {0}
    /\ i' = 1
    /\ pc' = "identity"
    /\ UNCHANGED <<bootVars, frame_of, hs, halted>>

(* Its first three loops.  The third goes on to plp + SLACK, as plp is     *)
(* when that is tested.                                                    *)
InKernel_AtPlp(p) == p < LOW \/ p * PAGE < plp

InKernel(p) == p < LOW \/ p * PAGE < plp + SLACK * PAGE

fini_identity ==
    /\ At("identity")
    /\ InKernel(i)
    /\ get_page(i)
    /\ alloc_dma_frame(i)
    /\ i' = i + 1
    /\ UNCHANGED <<bootVars, hs, pc, halted>>

HeapStart ==
    IF KHEAP_START * PAGE < plp + SLACK * PAGE THEN plp \div PAGE + GAP
                                               ELSE KHEAP_START

fini_heap_start ==
    /\ At("identity")
    /\ ~InKernel(i)
    /\ hs' = HeapStart
    /\ i' = (plp + SLACK * PAGE) \div PAGE
    /\ start' = i
    /\ quiet' = (frames \cap i .. HeapStart - 1 = {})
    /\ pc' = "map"
    /\ UNCHANGED <<plp, nframes, frames, tables, frame_of, halted>>

(* "map map map!": the pages up to the heap. *)
fini_map ==
    /\ At("map")
    /\ i < hs
    /\ get_page(i)
    /\ alloc_frame(i)
    /\ i' = i + 1
    /\ UNCHANGED <<bootVars, hs, pc>>

fini_map_done ==
    /\ At("map")
    /\ i >= hs
    /\ i' = hs
    /\ pc' = "heap"
    /\ UNCHANGED <<bootVars, plp, frames, tables, frame_of, hs, halted>>

(* The page tables of the heap, without frames. *)
HeapEnd_Short == KHEAP_END - TABLE

HeapEnd == KHEAP_END

fini_heap_Stays ==
    /\ At("heap")
    /\ i < HeapEnd
    /\ get_page(i)
    /\ UNCHANGED <<bootVars, frames, frame_of, i, hs, pc, halted>>

fini_heap ==
    /\ At("heap")
    /\ i < HeapEnd
    /\ get_page(i)
    /\ i' = i + 1
    /\ UNCHANGED <<bootVars, frames, frame_of, hs, pc, halted>>

switch_page_dir ==
    /\ At("heap")
    /\ i >= HeapEnd
    /\ pc' = "online"
    /\ UNCHANGED <<bootVars, plp, frames, tables, frame_of, i, hs, halted>>

(* Memory is set up, or panic("Out of memory"). *)
Done == (pc = "online" \/ halted # "no") /\ UNCHANGED vars

Step ==
    \/ set_nframes \/ arch_do_mboot
    \/ fini_page0 \/ fini_identity \/ fini_heap_start
    \/ fini_map \/ fini_map_done
    \/ fini_heap \/ switch_page_dir

Next == Step \/ Done

Spec == Init /\ [][Next]_vars

FairSpec == Spec /\ WF_vars(Step)

-----------------------------------------------------------------------------
TypeOK ==
    /\ plp \in Nat
    /\ nframes \in RamSizes
    /\ frames \subseteq 0 .. nframes - 1
    /\ tables \subseteq 0 .. KHEAP_END \div TABLE
    /\ frame_of \in [Pages -> Nat]
    /\ i \in 0 .. KHEAP_END /\ hs \in 0 .. KHEAP_END
    /\ pc \in {"set_nframes", "mboot", "page0", "identity", "map", "heap", "online"}
    /\ halted \in {"no", "out_of_memory"}

Online == pc = "online" /\ halted = "no"

(***************************************************************************)
(* When the heap takes over, every frame below plp is marked as used (the  *)
(* kernel, the bitmap, kernel_dir, and the page tables that were still     *)
(* being made while the frames were marked), so none is ever handed out,   *)
(* whatever junk the bitmap held and whichever regions are reserved.       *)
(***************************************************************************)
KernelFramesSet ==
    Online => \A p \in 0 .. nframes - 1 : p * PAGE < plp => p \in frames

(***************************************************************************)
(* And every page from there down to page 1 is mapped to its own frame, so *)
(* that the page tables are found where they were written, if no bit       *)
(* between the kernel and the heap was set before.                         *)
(***************************************************************************)
KernelIdentityMapped ==
    (Online /\ quiet) => \A p \in Pages \ {0} : p * PAGE < plp => frame_of[p] = p

(***************************************************************************)
(* No two pages share a frame.                                             *)
(***************************************************************************)
FramesNotShared ==
    \A p, q \in Pages : (frame_of[p] = frame_of[q] /\ frame_of[p] # 0) => p = q

(***************************************************************************)
(* The memory of the kernel survives the change to paging: with the parts  *)
(* above, in every state that boot goes through.                           *)
(***************************************************************************)
KernelKept ==
    /\ TypeOK
    /\ KernelFramesSet /\ KernelIdentityMapped
    /\ FramesNotShared

(***************************************************************************)
(* No page of the heap needs a new page table, which could not be made     *)
(* any more: __kmalloc panics on an aligned request once the heap is       *)
(* online.                                                                 *)
(***************************************************************************)
TablesComplete == Online => \A p \in Pages : p \div TABLE \in tables

(***************************************************************************)
(* Boot gets through paging_fini although its third loop runs after a      *)
(* bound that the loop itself moves, or it runs out of memory.             *)
(***************************************************************************)
BootEnds == <>(pc = "online" \/ halted # "no")
=============================================================================
