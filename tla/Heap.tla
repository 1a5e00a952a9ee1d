-------------------------------- MODULE Heap --------------------------------
(***************************************************************************)
(* The kernel heap (mm/heap.c, liballoc) from heap_install on: malloc with *)
(* its search through the blocks, and free.                                *)
(*                                                                         *)
(* An address is a number, in units that the sizes below share, and NULL   *)
(* is 0 (frame 0 is never handed out).  majors and minors hold the         *)
(* structures of the live blocks and allocations, by address: a minor with *)
(* the magic number is in minors, a dead one is not.  malloc is one action *)
(* per turn of its loop over the blocks; the loop over the minors of a     *)
(* block, which finds the first gap in list order, is a choice by address, *)
(* as the list is in address order (ListsSorted).                          *)
(*                                                                         *)
(* The machine stops when the frames run out ("page_fault": the block      *)
(* structure is written to 0xFFFFF000) and when free_frame meets a page    *)
(* that is not mapped or a word without a frame ("free_panic").  The       *)
(* release of an emptied block clears the bits of other frames than its    *)
(* own, see mm_free_pages, and the calls go on with that bitmap.  used and *)
(* damage record what it has done: from damage = "bits" on some frame in   *)
(* use looks free, from damage = "memory" on memory in use was handed out  *)
(* again, or a structure was overwritten, or lies where there is no RAM.   *)
(* What happens then depends on what two owners write; no call begins in   *)
(* the model any more, and nothing is claimed of the calls that follow.    *)
(***************************************************************************)
EXTENDS FrameMap, FiniteSetsExt

CONSTANTS
    PAGE,           \* l_pageSize
    PAGE_COUNT,     \* l_pageCount, the least number of pages of a block
    MAJOR,          \* sizeof(struct liballoc_major)
    MINOR,          \* sizeof(struct liballoc_minor)
    ALIGNMENT,
    ALIGN_INFO,
    Requests,       \* the sizes callers ask for
    RESERVED        \* the frames in use when the heap goes online

ASSUME HeapAssumption ==
    /\ {PAGE, PAGE_COUNT, MAJOR, MINOR, ALIGNMENT, ALIGN_INFO} \subseteq Nat \ {0}
    /\ Requests \subseteq Nat
    /\ 0 \in RESERVED /\ RESERVED \subseteq 0 .. BITS - 1
    /\ MAJOR + MINOR < PAGE

VARIABLES
    majors,         \* address -> struct liballoc_major
    minors,         \* address -> struct liballoc_minor
    l_memRoot, l_bestBet, l_allocated, l_inuse,
    call,           \* the locals of the malloc in progress
    pc,             \* "idle": the lock is free
    halted,
    used,           \* history: the frames in use, whatever their bits say
    damage          \* history: "none", "bits" or "memory"

heapVars == <<majors, minors, l_memRoot, l_allocated, l_inuse>>
vars == <<frames, heapVars, l_bestBet, call, pc, halted, used, damage>>

NULL == 0

(* With the room that ALIGN may take. *)
Size(req) == req + ALIGNMENT + ALIGN_INFO

Need(req) == Size(req) + MINOR

BlockSize(M) == M.pages * PAGE

FreeSpace(M) == BlockSize(M) - M.usage

(* ALIGN and UNALIGN: the pointer a caller gets for the minor at a, the    *)
(* distance that ALIGN leaves in front of it, and the way back.            *)
Align(p) ==
    LET q == p + ALIGN_INFO
        diff == q % ALIGNMENT
    IN  IF diff = 0 THEN q ELSE q + ALIGNMENT - diff

Pointer(a) == Align(a + MINOR)

Unalign(p, diff) == IF diff < ALIGNMENT + ALIGN_INFO THEN p - diff ELSE p

NoCall == [req |-> 0, maj |-> NULL, startedBet |-> FALSE, bestSize |-> 0,
           pages |-> 0]

Going == halted = "no" /\ damage # "memory"

EmptyMap == [x \in {} |-> NULL]

Init ==
    /\ frames \in {RESERVED, RESERVED \cup NFRAMES .. BITS - 1}
    /\ majors = EmptyMap
    /\ minors = EmptyMap
    /\ l_memRoot = NULL
    /\ l_bestBet = NULL
    /\ l_allocated = 0
    /\ l_inuse = 0
    /\ call = NoCall
    /\ pc = "idle"
    /\ halted = "no"
    /\ used = RESERVED
    /\ damage = "none"

-----------------------------------------------------------------------------
(* Frames are handed out. *)
Take(S) ==
    /\ used' = used \cup S
    /\ damage' = IF S \cap used = {} THEN damage ELSE "memory"

PageAddresses == {f * PAGE : f \in 0 .. NFRAMES - 1}

(* allocate_new_page: a block for size behind the block prv, at frame f. *)
PagesFor(size) ==
    Max({PAGE_COUNT, (size + MAJOR + MINOR + PAGE - 1) \div PAGE})

(* No request is larger than RAM, so that test_frame stays in the bitmap.  *)
ASSUME RequestAssumption ==
    \A req \in Requests : PagesFor(Size(req)) <= BITS - NFRAMES + 1

(* Only the first frame must be one of RAM.                              *)
NewMajor(f, prv, st) ==
    /\ first_n_frames(f, st)
    /\ set_frames(f, st)
    /\ Take(Run(f, st))
    /\ majors' = [m \in DOMAIN majors \cup {f * PAGE} |->
          IF m = f * PAGE
          THEN [prev |-> prv, next |-> NULL, pages |-> st, usage |-> MAJOR,
                first |-> NULL]
          ELSE IF m = prv THEN [majors[m] EXCEPT !.next = f * PAGE]
          ELSE majors[m]]
    /\ l_allocated' = l_allocated + st * PAGE

(* It returns a ... *)
allocate_new_page(size, prv, a) ==
    LET st == PagesFor(size) IN
    /\ NewMajor(a \div PAGE, prv, st)
    /\ UNCHANGED <<minors, l_inuse, halted>>

(* ... or the machine stops. *)
no_new_page(size) ==
    LET st == PagesFor(size) IN
    /\ NoRun(st)
    /\ halted' = "page_fault"
    /\ UNCHANGED <<frames, heapVars, call, pc, used, damage>>

-----------------------------------------------------------------------------
(* malloc, up to its loop. *)
StartFrom(req) ==
    LET bestSize == IF l_bestBet = NULL THEN 0 ELSE FreeSpace(majors[l_bestBet])
        bet == l_bestBet # NULL /\ bestSize > Need(req)
    IN  [req |-> req, startedBet |-> bet, bestSize |-> bestSize, pages |-> 0,
         maj |-> IF bet THEN l_bestBet ELSE l_memRoot]

malloc(req) ==
    /\ pc = "idle" /\ Going
    /\ l_memRoot # NULL
    /\ call' = StartFrom(req)
    /\ pc' = "search"
    /\ UNCHANGED <<frames, heapVars, l_bestBet, halted, used, damage>>

malloc_first(req) ==
    /\ pc = "idle" /\ Going
    /\ l_memRoot = NULL
    /\ \/ \E a \in PageAddresses :
             /\ allocate_new_page(Size(req), NULL, a)
             /\ l_memRoot' = a
             /\ call' = [StartFrom(req) EXCEPT !.maj = a]
             /\ pc' = "search"
       \/ no_new_page(Size(req))
    /\ UNCHANGED l_bestBet

-----------------------------------------------------------------------------
(***************************************************************************)
(* The loop, at the block call.maj.                                        *)
(***************************************************************************)
Searching == pc = "search" /\ Going

M == majors[call.maj]

Enough == FreeSpace(M) >= Need(call.req)

(* The best bet is brought up to date at the top of every turn. *)
Better == call.bestSize < FreeSpace(M)

Remembered == IF Better THEN [call EXCEPT !.bestSize = FreeSpace(M)] ELSE call

Remember == l_bestBet' = IF Better THEN call.maj ELSE l_bestBet

InBlock(m) == {a \in DOMAIN minors : minors[a].block = m}

End(a) == a + MINOR + minors[a].size

(* The free space behind the minor at a, up to the next one or to the end. *)
GapAfter(a) ==
    (IF minors[a].next = NULL THEN minors[a].block + BlockSize(majors[minors[a].block])
                              ELSE minors[a].next) - End(a)

FrontGap == M.first - call.maj - MAJOR

Fits(a) == GapAfter(a) >= Need(call.req)

FirstAfter_Kept(a, prv) == M.first

FirstAfter(a, prv) == IF prv = NULL THEN a ELSE M.first

(* The minor of the request, put at a between the minors prv and nxt.      *)
(* Where a block reaches past the end of RAM there may be no memory.       *)
Place(a, prv, nxt) ==
    LET size == Size(call.req)
        new == [prev |-> prv, next |-> nxt, block |-> call.maj, size |-> size,
                req_size |-> call.req,
                diff |-> Pointer(a) - (a + MINOR)]
    IN  /\ minors' = [m \in DOMAIN minors \cup {a} |->
              IF m = a THEN new
              ELSE IF m = prv THEN [minors[m] EXCEPT !.next = a]
              ELSE IF m = nxt THEN [minors[m] EXCEPT !.prev = a]
              ELSE minors[m]]
        /\ majors' = [majors EXCEPT
              ![call.maj].usage = @ + size + MINOR,
              ![call.maj].first = FirstAfter(a, prv)]
        /\ l_inuse' = l_inuse + size
        /\ call' = NoCall
        /\ pc' = "idle"
        /\ damage' \in IF a + MINOR + size > NFRAMES * PAGE
                       THEN {damage, "memory"} ELSE {damage}
        /\ UNCHANGED <<frames, l_memRoot, l_allocated, halted, used>>

(* On to the next block, or once more from the root. *)
Hop ==
    /\ M.next # NULL
    /\ call' = [Remembered EXCEPT !.maj = M.next]
    /\ UNCHANGED <<frames, heapVars, pc, halted, used, damage>>

Restart_KeepsBet ==
    /\ M.next = NULL /\ call.startedBet
    /\ call' = [Remembered EXCEPT !.maj = l_memRoot]
    /\ UNCHANGED <<frames, heapVars, pc, halted, used, damage>>

Restart ==
    /\ M.next = NULL /\ call.startedBet
    /\ call' = [Remembered EXCEPT !.maj = l_memRoot, !.startedBet = FALSE]
    /\ UNCHANGED <<frames, heapVars, pc, halted, used, damage>>

(* A new block behind the last one.  Case 1 goes on to use it at once,     *)
(* case 5 with another turn of the loop.                                   *)
Grow(next_pc) ==
    /\ M.next = NULL /\ ~call.startedBet
    /\ \/ \E a \in PageAddresses :
             /\ allocate_new_page(Size(call.req), call.maj, a)
             /\ call' = [Remembered EXCEPT !.maj = a]
             /\ pc' = next_pc
             /\ UNCHANGED l_memRoot
       \/ no_new_page(Size(call.req))

case1 ==
    /\ Searching /\ ~Enough
    /\ Hop \/ Restart \/ Grow("fresh")
    /\ Remember

case2 ==
    /\ Searching /\ Enough /\ M.first = NULL
    /\ Place(call.maj + MAJOR, NULL, NULL)
    /\ Remember

case2_fresh ==
    /\ pc = "fresh" /\ Going
    /\ Place(call.maj + MAJOR, NULL, NULL)
    /\ UNCHANGED l_bestBet

case3 ==
    /\ Searching /\ Enough /\ M.first # NULL
    /\ FrontGap >= Need(call.req)
    /\ Place(call.maj + MAJOR, NULL, M.first)
    /\ Remember

case4 ==
    /\ Searching /\ Enough /\ M.first # NULL
    /\ FrontGap < Need(call.req)
    /\ \E a \in InBlock(call.maj) :
          /\ Fits(a)
          /\ \A b \in InBlock(call.maj) : Fits(b) => a <= b
          /\ Place(End(a), a, minors[a].next)
    /\ Remember

case5 ==
    /\ Searching /\ Enough /\ M.first # NULL
    /\ FrontGap < Need(call.req)
    /\ \A a \in InBlock(call.maj) : ~Fits(a)
    /\ Hop \/ Restart \/ Grow("search")
    /\ Remember

-----------------------------------------------------------------------------
(***************************************************************************)
(* free of the pointer of a live allocation.  (free(NULL), and the free of *)
(* a pointer whose magic is gone, only count a warning.)                   *)
(***************************************************************************)
Unlinked_OneWay(a) ==
    [m \in DOMAIN minors \ {a} |->
        IF m = minors[a].prev THEN [minors[m] EXCEPT !.next = minors[a].next]
        ELSE minors[m]]

Unlinked(a) ==
    [m \in DOMAIN minors \ {a} |->
        IF m = minors[a].prev THEN [minors[m] EXCEPT !.next = minors[a].next]
        ELSE IF m = minors[a].next THEN [minors[m] EXCEPT !.prev = minors[a].prev]
        ELSE minors[m]]

(* The block of a, without a. *)
Lighter(a) ==
    [majors[minors[a].block] EXCEPT
        !.usage = @ - (minors[a].size + MINOR),
        !.first = IF minors[a].prev = NULL THEN minors[a].next ELSE @]

(* The minor that free finds from the pointer of the minor at b. *)
FreedMinor(b) == Unalign(Pointer(b), minors[b].diff) - MINOR

(* Other allocations are left in the block. *)
free(b) ==
    LET a == FreedMinor(b)
        m == minors[a].block
        left == Lighter(a)
    IN  /\ pc = "idle" /\ Going
        /\ left.first # NULL
        /\ l_inuse' = l_inuse - minors[a].size
        /\ minors' = Unlinked(a)
        /\ majors' = [majors EXCEPT ![m] = left]
        /\ l_bestBet' =
              IF l_bestBet # NULL
                 /\ FreeSpace(left) > FreeSpace(IF l_bestBet = m THEN left
                                                ELSE majors[l_bestBet])
              THEN m ELSE l_bestBet
        /\ UNCHANGED <<frames, l_memRoot, l_allocated, call, pc, halted, used, damage>>

RootAfterRelease(m) == IF l_memRoot = m THEN majors[m].next ELSE l_memRoot

BetAfterRelease(m) == IF l_bestBet = m THEN NULL ELSE l_bestBet

(* The block is left empty: it is taken out of the list... *)
free_last(b) ==
    LET a == FreedMinor(b)
        m == minors[a].block
        left == Lighter(a)
    IN  /\ pc = "idle" /\ Going
        /\ left.first = NULL
        /\ l_inuse' = l_inuse - minors[a].size
        /\ minors' = Unlinked(a)
        /\ l_memRoot' = RootAfterRelease(m)
        /\ l_bestBet' = BetAfterRelease(m)
        /\ majors' = [n \in DOMAIN majors \ {m} |->
              IF n = left.prev THEN [majors[n] EXCEPT !.next = left.next]
              ELSE IF n = left.next THEN [majors[n] EXCEPT !.prev = left.prev]
              ELSE majors[n]]
        /\ l_allocated' = l_allocated - BlockSize(left)
        /\ call' = [NoCall EXCEPT !.maj = m, !.pages = left.pages]
        /\ pc' = "release"
        /\ used' = used \ Run(m \div PAGE, left.pages)
        /\ UNCHANGED <<frames, halted, damage>>

(***************************************************************************)
(* ... and its pages are given to mm_free_pages.  That hands addresses to  *)
(* free_frame, which expects page table entries: the word at the start of  *)
(* each of as many pages below the block is taken for one, the bit of the  *)
(* frame that it names is cleared, and its frame field is zeroed.  The     *)
(* bits of the block itself stay set.  In a block the word is the prev of  *)
(* its header, elsewhere it may be anything; BITS stands for the frames    *)
(* behind the bitmap, whose bits are other memory of the kernel.           *)
(***************************************************************************)
Releasing == pc = "release" /\ Going

Below == call.maj - PAGE

Words ==
    IF Below \in DOMAIN majors THEN {majors[Below].prev \div PAGE} ELSE 0 .. BITS

(* The zeroed word belongs to the header of a block, or to a minor or the  *)
(* mark in front of the pointer.                                           *)
Zeroed ==
    \/ Below \in DOMAIN majors
    \/ \E a \in DOMAIN minors : a <= Below /\ Below < Pointer(a)

Cleared(word) ==
    IF Zeroed THEN {"memory"}
    ELSE {IF word \in used THEN "bits" ELSE damage}
         \cup (IF word = BITS \/ Below \div PAGE \in RESERVED THEN {"memory"} ELSE {})

free_frame ==
    /\ Below # NULL
    /\ \E word \in Words \ {0} :
          /\ frames' = frames \ {word}
          /\ damage' \in Cleared(word)
    /\ call' = [call EXCEPT !.maj = Below, !.pages = @ - 1]
    /\ pc' = IF call.pages = 1 THEN "idle" ELSE "release"
    /\ UNCHANGED halted

free_frame_panics ==
    /\ Below # NULL /\ 0 \in Words
    /\ halted' = "free_panic"
    /\ UNCHANGED <<frames, call, pc, damage>>

(* The pages that mm_alloc_pages handed out are mapped. *)
free_frame_faults ==
    /\ Below \div PAGE \notin used \ RESERVED
    /\ halted' = "page_fault"
    /\ UNCHANGED <<frames, call, pc, damage>>

mm_free_pages ==
    /\ Releasing
    /\ free_frame \/ free_frame_panics \/ free_frame_faults
    /\ UNCHANGED <<heapVars, l_bestBet, used>>

(* The stack of a new thread comes straight from mm_alloc_pages. *)
sched_create_stack ==
    /\ pc = "idle" /\ Going
    /\ \/ \E f \in 0 .. NFRAMES - 1 :
             first_n_frames(f, 1) /\ set_frames(f, 1) /\ Take({f}) /\ UNCHANGED halted
       \/ NoRun(1) /\ halted' = "page_fault" /\ UNCHANGED <<frames, used, damage>>
    /\ UNCHANGED <<heapVars, l_bestBet, call, pc>>

Stopped == ~Going /\ UNCHANGED vars

Loop == case1 \/ case2 \/ case2_fresh \/ case3 \/ case4 \/ case5

Next ==
    \/ \E req \in Requests : malloc(req) \/ malloc_first(req)
    \/ Loop
    \/ \E a \in DOMAIN minors : free(a) \/ free_last(a)
    \/ mm_free_pages
    \/ sched_create_stack
    \/ Stopped

Spec == Init /\ [][Next]_vars

(* A malloc under way is executed to its end. *)
FairSpec == Spec /\ WF_vars(Loop)

-----------------------------------------------------------------------------
TypeOK ==
    /\ frames \subseteq 0 .. BITS - 1
    /\ majors \in [DOMAIN majors ->
          [prev : Nat, next : Nat, pages : Nat, usage : Nat, first : Nat]]
    /\ minors \in [DOMAIN minors ->
          [prev : Nat, next : Nat, block : Nat, size : Nat, req_size : Requests,
           diff : Nat]]
    /\ l_memRoot \in DOMAIN majors \cup {NULL}
    /\ l_allocated \in Nat /\ l_inuse \in Nat
    /\ pc \in {"idle", "search", "fresh", "release"}
    /\ pc \in {"search", "fresh"} => call.maj \in DOMAIN majors
    /\ halted \in {"no", "page_fault", "free_panic"}
    /\ used \subseteq Nat

(***************************************************************************)
(* The extents of the allocations lie in their blocks, behind the block    *)
(* header, and overlap neither each other nor, the blocks being made of    *)
(* different frames, those of another block: whatever gap malloc chose.    *)
(***************************************************************************)
Disjoint ==
    /\ \A a \in DOMAIN minors :
          LET m == minors[a].block IN
          /\ m \in DOMAIN majors
          /\ m + MAJOR <= a /\ End(a) <= m + BlockSize(majors[m])
    /\ \A a, b \in DOMAIN minors : a < b => End(a) <= b
    /\ \A m, n \in DOMAIN majors : m < n => m + BlockSize(majors[m]) <= n

(***************************************************************************)
(* The pointer a caller holds is aligned, its memory lies inside its own   *)
(* allocation, the mark of ALIGN in front of it too, and free finds the    *)
(* allocation again from the mark.                                         *)
(***************************************************************************)
PointersSound ==
    damage # "memory" => \A a \in DOMAIN minors :
        /\ Pointer(a) % ALIGNMENT = 0
        /\ Pointer(a) - ALIGN_INFO >= a + MINOR
        /\ Pointer(a) + minors[a].req_size <= End(a)
        /\ FreedMinor(a) = a

(***************************************************************************)
(* The list of a block links exactly its allocations, in address order and *)
(* both ways.                                                              *)
(***************************************************************************)
ListsSorted ==
    /\ \A m \in DOMAIN majors :
          IF InBlock(m) = {} THEN majors[m].first = NULL
                             ELSE majors[m].first = Min(InBlock(m))
    /\ \A a \in DOMAIN minors :
          LET above == {b \in InBlock(minors[a].block) : b > a}
              below == {b \in InBlock(minors[a].block) : b < a}
          IN  /\ minors[a].next = IF above = {} THEN NULL ELSE Min(above)
              /\ minors[a].prev = IF below = {} THEN NULL ELSE Max(below)

(***************************************************************************)
(* The list of blocks starts at l_memRoot, is linked both ways and has one *)
(* start and one end: no block is lost.                                    *)
(***************************************************************************)
BlocksLinked ==
    /\ \A m \in DOMAIN majors :
          /\ majors[m].prev = NULL <=> m = l_memRoot
          /\ majors[m].prev # NULL =>
                majors[m].prev \in DOMAIN majors /\ majors[majors[m].prev].next = m
          /\ majors[m].next # NULL =>
                majors[m].next \in DOMAIN majors /\ majors[majors[m].next].prev = m
    /\ l_memRoot = NULL <=> majors = EmptyMap

(***************************************************************************)
(* The three running totals are the sums they stand for.                   *)
(***************************************************************************)
Held == [a \in DOMAIN minors |-> minors[a].size]

Extents == [a \in DOMAIN minors |-> MINOR + minors[a].size]

Lengths == [m \in DOMAIN majors |-> BlockSize(majors[m])]

TotalsExact ==
    /\ \A m \in DOMAIN majors :
          majors[m].usage = MAJOR + SumFunctionOnSet(Extents, InBlock(m))
    /\ l_inuse = SumFunction(Held)
    /\ l_allocated = SumFunction(Lengths)

(***************************************************************************)
(* The best bet, which malloc reads through without a test, is a block     *)
(* that still exists.                                                      *)
(***************************************************************************)
BestBetLives == l_bestBet \in DOMAIN majors \cup {NULL}

(***************************************************************************)
(* Between calls every block has an allocation: an emptied one is given    *)
(* back, and one that malloc adds is used by that malloc.                  *)
(***************************************************************************)
NoIdleBlock ==
    (pc = "idle" /\ halted = "no") => \A m \in DOMAIN majors : majors[m].first # NULL

(* Every frame in use is marked (behind RAM, the reserved ones are).       *)
Marked == (used \cap 0 .. NFRAMES - 1) \cup RESERVED \subseteq frames

(***************************************************************************)
(* The two levels of lists, the totals and the pointers of liballoc are    *)
(* consistent after any sequence of allocations and frees, with the parts  *)
(* above, also when releases have cleared the bits of frames in use, for   *)
(* as long as none of these was handed out again; and before that the      *)
(* bitmap is right.                                                        *)
(***************************************************************************)
HeapSound ==
    /\ damage # "memory" =>
          /\ TypeOK
          /\ Disjoint
          /\ ListsSorted /\ BlocksLinked
          /\ TotalsExact
          /\ BestBetLives /\ NoIdleBlock
    /\ PointersSound
    /\ damage = "none" => Marked

(***************************************************************************)
(* No sequence of calls damages anything by itself: memory is handed out   *)
(* twice only after the release of an emptied block, and overwritten only  *)
(* by one, or when a block reaches past the end of RAM (first_n_frames     *)
(* keeps only the first frame below nframes).                              *)
(***************************************************************************)
PastRam == \E m \in DOMAIN majors : m + BlockSize(majors[m]) > NFRAMES * PAGE

OnlyReleaseDamages ==
    [][damage = "none" /\ damage' # "none" => pc = "release" \/ PastRam]_vars

(***************************************************************************)
(* malloc ends, although it may go round the blocks twice (from the best   *)
(* bet, then from the root).                                               *)
(***************************************************************************)
MallocEnds == (pc = "search") ~> (pc = "idle" \/ ~Going)

(***************************************************************************)
(* What a caller sees is an allocator of disjoint pieces of memory, also   *)
(* with a wrong bitmap, up to the step that damages memory.                *)
(***************************************************************************)
Abstract == INSTANCE Alloc WITH
    live <- {<<Pointer(a), minors[a].req_size>> : a \in DOMAIN minors},
    broken <- damage = "memory"

ImplementsAlloc == Abstract!Spec
=============================================================================
