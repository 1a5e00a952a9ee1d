------------------------------ MODULE FrameMap ------------------------------
(***************************************************************************)
(* The bitmap of physical page frames (mm/frame.c), shared by the modules  *)
(* that allocate from it.  frames is the set of the bits that are set.     *)
(* set_nframes gives the array nframes/4 bytes, BITS bits in all, more     *)
(* than the NFRAMES frames of RAM that it is for.                          *)
(***************************************************************************)
EXTENDS Integers, FiniteSets

CONSTANTS
    NFRAMES,    \* frames of RAM (nframes)
    BITS        \* bits in the array

ASSUME FrameMapAssumption ==
    /\ NFRAMES \in Nat \ {0}
    /\ BITS \in Nat /\ BITS >= NFRAMES

VARIABLE frames

Run(f, n) == f .. f + n - 1

(* Whether n frames from f on are clear, as first_n_frames tests them.     *)
(* Only the first frame is kept below nframes.                             *)
Clear(f, n) == Run(f, n) \cap frames = {}

(* f is the value that first_n_frames(n) returns, when it finds a run. *)
first_n_frames(f, n) ==
    /\ f \in 0 .. NFRAMES - 1
    /\ Clear(f, n)
    /\ \A g \in 0 .. NFRAMES - 1 : Clear(g, n) => f <= g

(* When it finds none it returns 0xFFFFFFFF, and mm_alloc_pages turns that *)
(* into the address 0xFFFFF000 instead of NULL, without a page mapped.     *)
NoRun(n) == \A f \in 0 .. NFRAMES - 1 : ~Clear(f, n)

(* alloc_dma_frame sets no bit for a frame past the end of RAM. *)
set_frames_FirstOnly(f, n) == frames' = frames \cup {f}

set_frames(f, n) == frames' = frames \cup (Run(f, n) \cap 0 .. NFRAMES - 1)
=============================================================================
