------------------------------- MODULE Alloc -------------------------------
(***************************************************************************)
(* What the callers of kmalloc and new_free rely on: a set of pieces of    *)
(* memory, <<address, length>>, that never overlap, one more after each    *)
(* allocation and one less after each free.  Once the allocator is broken, *)
(* because its memory has been given to someone else too, it promises      *)
(* nothing any more.                                                       *)
(***************************************************************************)
EXTENDS Integers

VARIABLES live, broken

Overlap(x, y) ==
    /\ x[1] < y[1] + y[2]
    /\ y[1] < x[1] + x[2]

Init == live = {} /\ ~broken

Allocate(x) ==
    /\ \A y \in live : x[1] # y[1] /\ ~Overlap(x, y)
    /\ live' = live \cup {x}

Release(x) ==
    /\ x \in live
    /\ live' = live \ {x}

Next ==
    \/ /\ ~broken /\ ~broken'
       /\ \/ \E x \in live' \ live : Allocate(x)
          \/ \E x \in live : Release(x)
    \/ broken'

Spec == Init /\ [][Next]_<<live, broken>>
=============================================================================
