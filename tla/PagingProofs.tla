---------------------------- MODULE PagingProofs ----------------------------
(***************************************************************************)
(* paging_fini keeps the kernel's memory for every size of pages and page  *)
(* tables, every size of the RAM, every content of the uncleared bitmap    *)
(* and every place where a kernel may end.                                 *)
(***************************************************************************)
EXTENDS Paging, FiniteSetTheorems, WellFoundedInduction, TLAPS

NumTables == KHEAP_END \div TABLE

(* What the page tables that are still missing would take from plp. *)
Missing == 2 * PAGE * (NumTables - Cardinality(tables))

(***************************************************************************)
(* Where plp is: for the directory, before the first page table; then at   *)
(* the start of a page, with room for all page tables, and, once the start *)
(* of the heap is known, with that room in front of it.                    *)
(***************************************************************************)
PageStart == \E u \in Nat : plp = u * PAGE

PlpBounds ==
    /\ pc = "set_nframes" => plp \in KernelEnds
    /\ pc \in {"mboot", "page0"} =>
          \E k \in KernelEnds : k <= plp /\ plp <= k + 1 + PAGE + DIR
    /\ pc \in {"set_nframes", "mboot", "page0"} => tables = {}
    /\ pc \in {"identity", "map", "heap", "online"} => PageStart
    /\ pc = "identity" =>
          /\ \E k \in KernelEnds :
                k <= plp /\ plp + Missing <= k + 1 + PAGE + DIR + AllTables
          /\ 1 <= i /\ i * PAGE <= plp + SLACK * PAGE
    /\ pc \in {"map", "heap", "online"} => plp + Missing <= hs * PAGE /\ i <= KHEAP_END
    /\ pc = "map" => 1 <= i /\ i <= hs
    /\ pc \in {"heap", "online"} => hs <= i

Tables ==
    /\ tables \subseteq 0 .. NumTables - 1
    /\ pc \in {"identity", "map", "heap", "online"} =>
          \A p \in Pages : p < i => p \div TABLE \in tables
    /\ pc = "online" => i >= KHEAP_END

(* The pages that are behind the loops of paging_fini. *)
Passed == IF pc \in {"heap", "online"} THEN hs ELSE i

(***************************************************************************)
(* Every frame below the page of the loop is marked, whether its page was  *)
(* mapped to it or took a later frame since its own was marked before; the *)
(* frames that pages are mapped to are marked, as far as the bitmap goes.  *)
(***************************************************************************)
Marked ==
    pc \in {"identity", "map", "heap", "online"} /\ halted = "no" =>
        /\ 0 \in frames
        /\ \A f \in 0 .. nframes - 1 : f < Passed => f \in frames
        /\ \A p \in Pages : frame_of[p] < nframes => frame_of[p] \in frames
        /\ \A p \in Pages : p = 0 \/ p >= Passed => frame_of[p] = 0

(* Page and frame are the same, if nothing was marked between.             *)
Identity ==
    /\ pc \in {"set_nframes", "mboot", "page0"} => \A p \in Pages : frame_of[p] = 0
    /\ pc = "identity" => \A p \in Pages : 1 <= p /\ p < i => frame_of[p] = p
    /\ pc \in {"map", "heap", "online"} /\ halted = "no" /\ quiet =>
          /\ pc = "map" => frames \cap i .. hs - 1 = {}
          /\ \A p \in Pages : 1 <= p /\ p < Passed => frame_of[p] = p

PInv ==
    /\ TypeOK /\ quiet \in BOOLEAN
    /\ 0 < nframes
    /\ PlpBounds /\ Tables /\ Marked /\ Identity /\ FramesNotShared

-----------------------------------------------------------------------------
LEMMA Sizes ==
    /\ PAGE \in Nat \ {0} /\ LOW \in Nat \ {0} /\ SLACK \in Nat \ {0} /\ GAP \in Nat \ {0}
    /\ TABLE \in Nat \ {0} /\ DIR \in Nat \ {0} /\ WORD \in Nat \ {0}
    /\ KHEAP_START \in Nat /\ KHEAP_END \in Nat /\ KHEAP_START <= KHEAP_END
    /\ KernelEnds \subseteq Nat /\ RamSizes \subseteq Nat
BY PagingAssumption

(* Addresses and pages. *)
LEMMA Times ==
    ASSUME NEW a \in Nat, NEW b \in Nat
    PROVE  /\ a * PAGE \in Nat
           /\ a * PAGE < b * PAGE <=> a < b
           /\ a * PAGE <= b * PAGE <=> a <= b
           /\ (a + b) * PAGE = a * PAGE + b * PAGE
<1> USE Sizes
<1>1. ASSUME NEW x \in Nat, NEW y \in Nat, x < y
      PROVE  x * PAGE < y * PAGE
  <2>1. y - x - 1 \in Nat /\ y = x + 1 + (y - x - 1)
    BY <1>1
  <2>2. PICK z \in Nat : y = x + 1 + z
    BY <2>1
  <2>3. y * PAGE = x * PAGE + PAGE + z * PAGE /\ z * PAGE \in Nat /\ x * PAGE \in Nat
    BY <2>2
  <2> QED BY <2>3
<1>2. a * PAGE \in Nat /\ b * PAGE \in Nat /\ (a + b) * PAGE = a * PAGE + b * PAGE
  OBVIOUS
<1>3. a < b => a * PAGE < b * PAGE
  BY <1>1
<1>4. b < a => b * PAGE < a * PAGE
  BY <1>1
<1>5. a < b \/ a = b \/ b < a
  OBVIOUS
<1> DEFINE x == a * PAGE
           y == b * PAGE
<1>6. x \in Nat /\ y \in Nat /\ (a < b => x < y) /\ (b < a => y < x) /\ (a = b => x = y)
  BY <1>2, <1>3, <1>4
<1> HIDE DEF x, y
<1>7. (x < y <=> a < b) /\ (x <= y <=> a <= b)
  BY <1>5, <1>6
<1> QED BY <1>2, <1>7 DEF x, y

LEMMA Quotient ==
    ASSUME NEW m \in Nat \ {0}, NEW a \in Nat
    PROVE  /\ a \div m \in Nat /\ a % m \in 0 .. m - 1
           /\ a = m * (a \div m) + (a % m)
OBVIOUS

LEMMA QuotientUnique ==
    ASSUME NEW m \in Nat \ {0}, NEW a \in Nat, NEW q \in Nat, NEW d \in 0 .. m - 1,
           a = m * q + d
    PROVE  a \div m = q
OBVIOUS

(* The page of an address that is the start of a page. *)
LEMMA PageOf ==
    ASSUME NEW u \in Nat
    PROVE  (u * PAGE) \div PAGE = u
<1>1. PAGE \in Nat \ {0} /\ u * PAGE = PAGE * u + 0 /\ 0 \in 0 .. PAGE - 1 /\ u * PAGE \in Nat
  BY Sizes
<1> QED BY <1>1, QuotientUnique, Zenon

(* __kmalloc with alignment goes on to a page by at most a page. *)
LEMMA AlignedIs ==
    ASSUME NEW a \in Nat
    PROVE  /\ Aligned(a) \in Nat /\ a <= Aligned(a) /\ Aligned(a) <= a + PAGE
           /\ \E u \in Nat : Aligned(a) + PAGE = u * PAGE
<1> DEFINE q == a \div PAGE
           d == a % PAGE
<1>1. q \in Nat /\ d \in 0 .. PAGE - 1 /\ a = PAGE * q + d
  BY Sizes, Quotient
<1>2. Aligned(a) = q * PAGE + PAGE
  BY DEF Aligned
<1> HIDE DEF q, d
<1>3. q * PAGE = PAGE * q /\ PAGE * q \in Nat /\ (q + 2) * PAGE = q * PAGE + PAGE + PAGE
  BY <1>1, Sizes
<1>4. q + 2 \in Nat
  BY <1>1
<1>5. Aligned(a) + PAGE = (q + 2) * PAGE
  BY <1>1, <1>2, <1>3, Sizes
<1>6. Aligned(a) \in Nat /\ a <= Aligned(a) /\ Aligned(a) <= a + PAGE
  BY <1>1, <1>2, <1>3, Sizes
<1> QED BY <1>4, <1>5, <1>6

(* The page tables of all pages. *)
LEMMA TableOf ==
    ASSUME NEW p \in Pages
    PROVE  p \div TABLE \in 0 .. NumTables - 1
<1> DEFINE q == p \div TABLE
           d == p % TABLE
           n == NumTables
<1>1. q \in Nat /\ d \in 0 .. TABLE - 1 /\ p = TABLE * q + d
  <2>1. p \in Nat
    BY Sizes DEF Pages
  <2> QED BY <2>1, Sizes, Quotient
<1>2. n \in Nat /\ KHEAP_END = TABLE * n + 0
  BY Sizes, Quotient, PagingAssumption DEF NumTables
<1> HIDE DEF q, d, n
<1>3. TABLE * q + d < TABLE * n
  BY <1>1, <1>2, Sizes DEF Pages
<1>4. q < n
  <2> SUFFICES ASSUME q >= n PROVE FALSE
    BY <1>1, <1>2
  <2>1. PICK z \in Nat : q = n + z
    <3>1. q - n \in Nat /\ q = n + (q - n)
      BY <1>1, <1>2
    <3> QED BY <3>1
  <2>2. TABLE * q = TABLE * n + TABLE * z /\ TABLE * z \in Nat /\ TABLE * n \in Nat
    BY <1>2, <2>1, Sizes
  <2> QED BY <1>1, <1>3, <2>2
<1> QED BY <1>1, <1>2, <1>4 DEF q, n

LEMMA TableCount ==
    ASSUME NEW S \in SUBSET (0 .. NumTables - 1)
    PROVE  /\ NumTables \in Nat /\ IsFiniteSet(S) /\ Cardinality(S) \in Nat
           /\ Cardinality(S) <= NumTables
<1>1. NumTables \in Nat
  BY Sizes, Quotient DEF NumTables
<1>2. IsFiniteSet(0 .. NumTables - 1) /\ Cardinality(0 .. NumTables - 1) = NumTables
  BY <1>1, FS_Interval
<1>3. IsFiniteSet(S) /\ Cardinality(S) <= NumTables
  BY <1>2, FS_Subset
<1> QED BY <1>1, <1>3, FS_CardinalityType

(* Each page table that is missing keeps two pages of room. *)
LEMMA MissingIs ==
    ASSUME tables \subseteq 0 .. NumTables - 1
    PROVE  /\ IsFiniteSet(tables) /\ Cardinality(tables) \in Nat
           /\ Cardinality(tables) <= NumTables /\ NumTables \in Nat
           /\ Missing \in Nat /\ Missing <= AllTables /\ AllTables \in Nat
<1>1. /\ NumTables \in Nat /\ IsFiniteSet(tables) /\ Cardinality(tables) \in Nat
      /\ Cardinality(tables) <= NumTables
  BY TableCount
<1> DEFINE c == Cardinality(tables)
           n == NumTables
<1>5. c \in Nat /\ n \in Nat /\ c <= n
  BY <1>1
<1>6. AllTables = 2 * PAGE * n /\ Missing = 2 * PAGE * (n - c)
  BY DEF AllTables, NumTables, Missing
<1> HIDE DEF c, n
<1>7. PICK z \in Nat : n = c + z
  <2>1. n - c \in Nat /\ n = c + (n - c)
    BY <1>5
  <2> QED BY <2>1
<1>8. n - c = z
  BY <1>5, <1>7
<1>9. /\ 2 * PAGE * n = 2 * PAGE * c + 2 * PAGE * z
      /\ 2 * PAGE * c \in Nat /\ 2 * PAGE * z \in Nat
  BY <1>5, <1>7, Sizes
<1>10. Missing \in Nat /\ Missing <= AllTables /\ AllTables \in Nat
  BY <1>6, <1>8, <1>9
<1> QED BY <1>1, <1>10

(* get_page takes its table from the room for the missing ones. *)
LEMMA GetPage ==
    ASSUME NEW p \in Pages, plp \in Nat, tables \subseteq 0 .. NumTables - 1, get_page(p)
    PROVE  /\ tables' \subseteq 0 .. NumTables - 1
           /\ p \div TABLE \in tables' /\ tables \subseteq tables'
           /\ plp' \in Nat /\ plp <= plp'
           /\ \A b \in Int : b <= plp => b <= plp'
           /\ \A b \in Int : plp + Missing <= b => plp' + Missing' <= b
           /\ PageStart \/ tables = {} => PageStart'
<1>1. tables' = tables \cup {p \div TABLE} /\ p \div TABLE \in 0 .. NumTables - 1
  BY TableOf DEF get_page
<1>2. tables' \subseteq 0 .. NumTables - 1 /\ tables \subseteq tables' /\ p \div TABLE \in tables'
  BY <1>1
<1> DEFINE Goal == /\ plp' \in Nat /\ plp <= plp' /\ plp' + Missing' <= plp + Missing
                   /\ Missing' \in Nat
                   /\ PageStart \/ tables = {} => PageStart'
<1>3. ASSUME p \div TABLE \in tables PROVE Goal
  <2>1. tables' = tables /\ plp' = plp
    BY <1>1, <1>3 DEF get_page
  <2>2. Missing' = Missing
    BY <2>1 DEF Missing
  <2>3. Missing \in Nat
    BY MissingIs
  <2>4. plp' \in Nat /\ plp <= plp' /\ plp' + Missing' <= plp + Missing /\ Missing' \in Nat
    BY <2>1, <2>2, <2>3
  <2>5. PageStart \/ tables = {} => PageStart'
    BY <1>3, <2>1 DEF PageStart
  <2> QED BY <2>4, <2>5
<1>4. ASSUME p \div TABLE \notin tables PROVE Goal
  <2>1. plp' = Aligned(plp) + PAGE
    BY <1>4 DEF get_page
  <2>2. /\ Aligned(plp) \in Nat /\ plp <= Aligned(plp) /\ Aligned(plp) <= plp + PAGE
        /\ PageStart'
    BY <2>1, AlignedIs DEF PageStart
  <2>3. IsFiniteSet(tables)
    BY MissingIs
  <2>4. Cardinality(tables') = Cardinality(tables) + 1 /\ IsFiniteSet(tables')
    BY <1>1, <1>4, <2>3, FS_AddElement
  <2>5. Cardinality(tables') <= NumTables
    BY <1>2, TableCount
  <2>6. Missing' + (2 * PAGE) = Missing /\ Missing' \in Nat
    <3> DEFINE c == Cardinality(tables)
               n == NumTables
    <3>1. c \in Nat /\ n \in Nat /\ c + 1 <= n
      BY <2>4, <2>5, MissingIs
    <3>2. Missing = 2 * PAGE * (n - c) /\ Missing' = 2 * PAGE * (n - (c + 1))
      BY <2>4 DEF Missing
    <3> HIDE DEF c, n
    <3>3. PICK z \in Nat : n = c + 1 + z
      <4>1. n - c - 1 \in Nat /\ n = c + 1 + (n - c - 1)
        BY <3>1
      <4> QED BY <4>1
    <3>4. n - c = z + 1 /\ n - (c + 1) = z
      BY <3>1, <3>3
    <3>5. 2 * PAGE * (z + 1) = 2 * PAGE * z + (2 * PAGE) /\ 2 * PAGE * z \in Nat
      BY <3>3, Sizes
    <3> QED BY <3>2, <3>4, <3>5
  <2>7. plp' \in Nat /\ plp <= plp' /\ plp' + Missing' <= plp + Missing
    BY <2>1, <2>2, <2>6, Sizes
  <2> QED BY <2>2, <2>6, <2>7
<1>5. /\ plp' \in Nat /\ plp <= plp' /\ plp' + Missing' <= plp + Missing
      /\ Missing' \in Nat
      /\ PageStart \/ tables = {} => PageStart'
  BY <1>3, <1>4
<1>6. /\ \A b \in Int : b <= plp => b <= plp'
      /\ \A b \in Int : plp + Missing <= b => plp' + Missing' <= b
  <2> DEFINE a == plp'
             m == Missing'
             n == Missing
  <2>1. a \in Nat /\ m \in Nat /\ n \in Nat /\ plp <= a /\ a + m <= plp + n
    BY <1>5, MissingIs
  <2> HIDE DEF a, m, n
  <2>2. /\ \A b \in Int : b <= plp => b <= a
        /\ \A b \in Int : plp + n <= b => a + m <= b
    BY <2>1
  <2> QED BY <2>2 DEF a, m, n
<1> QED BY <1>2, <1>5, <1>6

-----------------------------------------------------------------------------
LEMMA InitPInv == Init => PInv
<1> SUFFICES ASSUME Init PROVE PInv
  OBVIOUS
<1> USE Sizes DEF Init
<1>1. quiet \in BOOLEAN /\ plp \in Nat /\ nframes \in RamSizes /\ nframes \in Nat
  OBVIOUS
<1>2. 0 < nframes
  <2>1. LOW * PAGE <= plp /\ plp <= nframes * PAGE
    BY LayoutAssumption
  <2>2. LOW * PAGE \in Nat /\ nframes * PAGE \in Nat
    BY <1>1
  <2>3. LOW * PAGE <= nframes * PAGE
    BY <1>1, <2>1, <2>2
  <2>4. LOW <= nframes
    BY <1>1, <2>3, Times
  <2> QED BY <1>1, <2>4
<1>3. KHEAP_END \div TABLE \in Nat
  BY Quotient
<1>4. TypeOK
  BY <1>1, <1>3 DEF TypeOK
<1>5. PlpBounds /\ Tables /\ Marked
  BY DEF PlpBounds, Tables, Marked
<1>6. Identity /\ FramesNotShared
  BY DEF Identity, FramesNotShared
<1> QED BY <1>1, <1>2, <1>4, <1>5, <1>6 DEF PInv

(* The variables that the set-up of the bitmap leaves alone. *)
LEMMA SetFramesPInv ==
    ASSUME PInv, set_nframes
    PROVE  PInv'
<1> USE Sizes DEF At, bootVars
<1>1. /\ pc = "set_nframes" /\ pc' = "mboot" /\ plp \in Nat
      /\ UNCHANGED <<nframes, start, quiet, tables, frame_of, i, hs, halted>>
  BY DEF set_nframes, PInv, TypeOK
<1>2. plp \in KernelEnds /\ tables = {}
  BY <1>1 DEF PInv, PlpBounds
<1>3. frames' \subseteq 0 .. nframes - 1
  BY DEF set_nframes, Uncleared
<1>4. /\ plp' = Aligned(plp + 1) + DIR /\ plp' \in Nat
      /\ plp <= plp' /\ plp' <= plp + 1 + PAGE + DIR
  <2>1. plp' = Aligned(plp + 1) + DIR
    BY DEF set_nframes
  <2>2. /\ Aligned(plp + 1) \in Nat /\ plp + 1 <= Aligned(plp + 1)
        /\ Aligned(plp + 1) <= plp + 1 + PAGE
    BY <1>1, AlignedIs
  <2> QED BY <1>1, <2>1, <2>2
<1>5. TypeOK' /\ quiet' \in BOOLEAN /\ 0 < nframes'
  BY <1>1, <1>3, <1>4 DEF PInv, TypeOK
<1>6. PlpBounds'
  BY <1>1, <1>2, <1>4 DEF PlpBounds
<1>7. Tables' /\ Marked' /\ Identity' /\ FramesNotShared'
  BY <1>1 DEF PInv, Tables, Marked, Identity, FramesNotShared
<1> QED BY <1>5, <1>6, <1>7 DEF PInv

LEMMA MbootPInv ==
    ASSUME PInv, arch_do_mboot
    PROVE  PInv'
<1> USE Sizes DEF At, bootVars
<1>1. /\ pc = "mboot" /\ pc' = "page0"
      /\ UNCHANGED <<nframes, start, quiet, plp, tables, frame_of, i, hs, halted>>
  BY DEF arch_do_mboot
<1>2. frames' \subseteq 0 .. nframes - 1
  BY PagingAssumption DEF arch_do_mboot, PInv, TypeOK
<1>3. TypeOK' /\ quiet' \in BOOLEAN /\ 0 < nframes'
  BY <1>1, <1>2 DEF PInv, TypeOK
<1>4. PlpBounds' /\ Tables' /\ Marked' /\ Identity' /\ FramesNotShared'
  BY <1>1 DEF PInv, PlpBounds, Tables, Marked, Identity, FramesNotShared
<1> QED BY <1>3, <1>4 DEF PInv

(* Inequalities of addresses. *)
LEMMA Further ==
    ASSUME NEW a \in Int, NEW b \in Int, NEW c \in Int, NEW d \in Int, a <= b + c, b <= d
    PROVE  a <= d + c
OBVIOUS

(* The layout that the assumptions give for a kernel that ends at k. *)
LEMMA Layout ==
    ASSUME NEW k \in KernelEnds
    PROVE  /\ k \in Nat /\ LOW * PAGE <= k /\ AllTables \in Nat
           /\ \/ k + 1 + PAGE + DIR + AllTables <= KHEAP_START * PAGE
              \/ k >= KHEAP_START * PAGE /\ GAP * PAGE >= AllTables
           /\ k + 1 + PAGE + DIR + AllTables + GAP * PAGE <= KHEAP_END * PAGE
           /\ 0 < KHEAP_END /\ SLACK * PAGE <= GAP * PAGE
<1>1. /\ k \in Nat /\ LOW * PAGE <= k
      /\ \/ k + 1 + PAGE + DIR + AllTables <= KHEAP_START * PAGE
         \/ k >= KHEAP_START * PAGE /\ GAP * PAGE >= AllTables
      /\ k + 1 + PAGE + DIR + AllTables + GAP * PAGE <= KHEAP_END * PAGE
      /\ SLACK <= GAP
  BY LayoutAssumption, Sizes
<1>2. AllTables \in Nat
  <2>1. NumTables \in Nat
    BY TableCount
  <2> QED BY <2>1, Sizes DEF AllTables, NumTables
<1>3. SLACK * PAGE <= GAP * PAGE
  BY <1>1, Sizes, Times
<1>4. 0 < KHEAP_END
  <2> SUFFICES ASSUME KHEAP_END = 0 PROVE FALSE
    BY Sizes
  <2>1. KHEAP_END * PAGE = 0 /\ GAP * PAGE \in Nat
    BY Sizes
  <2> QED BY <1>1, <1>2, <2>1, Sizes
<1> QED BY <1>1, <1>2, <1>3, <1>4

LEMMA Page0PInv ==
    ASSUME PInv, fini_page0
    PROVE  PInv'
<1> USE Sizes DEF At, bootVars
<1>1. /\ pc = "page0" /\ pc' = "identity" /\ i' = 1 /\ frames' = frames \cup {0}
      /\ UNCHANGED <<nframes, start, quiet, frame_of, hs, halted>>
      /\ plp \in Nat /\ nframes \in Nat /\ 0 < nframes /\ frames \subseteq 0 .. nframes - 1
      /\ frame_of \in [Pages -> Nat]
  BY DEF fini_page0, PInv, TypeOK
<1>2. PICK k \in KernelEnds : k <= plp /\ plp <= k + 1 + PAGE + DIR
  BY <1>1 DEF PInv, PlpBounds
<1>3. tables = {} /\ get_page(0) /\ 0 \in Pages
  BY <1>1, Layout DEF PInv, PlpBounds, fini_page0, Pages
<1>4. /\ tables' \subseteq 0 .. NumTables - 1 /\ 0 \div TABLE \in tables'
      /\ plp' \in Nat /\ plp <= plp' /\ PageStart'
  BY <1>1, <1>3, GetPage
<1>5. Missing = AllTables
  <2>1. Cardinality(tables) = 0
    BY <1>3, FS_EmptySet
  <2>2. NumTables - 0 = NumTables
    <3>1. {} \in SUBSET (0 .. NumTables - 1)
      OBVIOUS
    <3>2. NumTables \in Nat
      BY <3>1, TableCount
    <3> QED BY <3>2
  <2> QED BY <2>1, <2>2 DEF Missing, AllTables, NumTables
<1>6. PlpBounds'
  <2>1. k <= plp' /\ plp' + Missing' <= k + 1 + PAGE + DIR + AllTables
    <3>1. k \in Int /\ k + 1 + PAGE + DIR + AllTables \in Int
      BY Layout
    <3>2. k <= plp /\ plp + Missing <= k + 1 + PAGE + DIR + AllTables
      BY <1>1, <1>2, <1>5, Layout
    <3>3. tables \subseteq 0 .. NumTables - 1
      BY <1>3
    <3> QED BY <1>1, <1>3, <3>1, <3>2, <3>3, GetPage, Zenon
  <2>2. 1 <= i' /\ i' * PAGE <= plp' + SLACK * PAGE
    <3> DEFINE x == 1 * PAGE
               y == SLACK * PAGE
    <3>1. x <= y /\ x \in Nat /\ y \in Nat
      BY Times
    <3> HIDE DEF x, y
    <3>2. x <= plp' + y
      <4> DEFINE z == plp'
      <4>1. z \in Nat
        BY <1>4
      <4> HIDE DEF z
      <4>2. x <= z + y
        BY <3>1, <4>1
      <4> QED BY <4>2 DEF z
    <3> QED BY <1>1, <3>2 DEF x, y
  <2> QED BY <1>1, <1>4, <2>1, <2>2 DEF PlpBounds
<1>7. Tables'
  BY <1>1, <1>4 DEF Tables, Pages
<1>8. TypeOK' /\ quiet' \in BOOLEAN /\ 0 < nframes'
  <2>1. quiet' \in BOOLEAN
    BY <1>1 DEF PInv
  <2>2. tables' \subseteq 0 .. KHEAP_END \div TABLE
    BY <1>4, TableCount DEF NumTables
  <2>3. i' \in 0 .. KHEAP_END
    BY <1>1, <1>2, Layout
  <2> QED BY <1>1, <1>4, <2>1, <2>2, <2>3 DEF PInv, TypeOK
<1>9. \A p \in Pages : frame_of[p] = 0
  BY <1>1 DEF PInv, Identity
<1>10. Marked' /\ Identity'
  BY <1>1, <1>9 DEF Marked, Identity, Passed, Pages
<1>11. FramesNotShared'
  BY <1>1 DEF PInv, FramesNotShared
<1> QED BY <1>6, <1>7, <1>8, <1>10, <1>11 DEF PInv

(* A page of the kernel is mapped to itself. *)
LEMMA IdentityPInv ==
    ASSUME PInv, fini_identity
    PROVE  PInv'
<1> USE Sizes DEF At, bootVars
<1>1. /\ pc = "identity" /\ pc' = "identity" /\ i' = i + 1 /\ halted = "no"
      /\ UNCHANGED <<nframes, start, quiet, hs, halted>>
      /\ plp \in Nat /\ nframes \in Nat /\ 0 < nframes /\ frames \subseteq 0 .. nframes - 1
      /\ frame_of \in [Pages -> Nat] /\ i \in Nat /\ 1 <= i
      /\ tables \subseteq 0 .. NumTables - 1 /\ PageStart
  BY DEF fini_identity, PInv, TypeOK, PlpBounds, Tables
<1>2. PICK k \in KernelEnds : k <= plp /\ plp + Missing <= k + 1 + PAGE + DIR + AllTables
  BY <1>1 DEF PInv, PlpBounds
<1>3. Missing \in Nat
  BY <1>1, MissingIs
<1>4. PICK u \in Nat : plp = u * PAGE
  BY <1>1 DEF PageStart
<1>5. i + 1 <= u + SLACK
  <2>1. LOW <= u
    <3>1. LOW * PAGE \in Nat /\ LOW * PAGE <= u * PAGE
      BY <1>1, <1>2, <1>4, Layout
    <3> QED BY <1>4, <3>1, Times
  <2>2. CASE i < LOW
    BY <1>1, <1>4, <2>1, <2>2
  <2>3. CASE i * PAGE < plp + SLACK * PAGE
    <3>1. i * PAGE < (u + SLACK) * PAGE
      BY <1>4, <2>3, Times
    <3>2. u + SLACK \in Nat
      BY <1>4
    <3>3. i < u + SLACK
      BY <1>1, <3>1, <3>2, Times
    <3> QED BY <1>1, <1>4, <3>3
  <2> QED BY <2>2, <2>3 DEF fini_identity, InKernel
<1>6. (i + 1) * PAGE <= plp + SLACK * PAGE
  <2>1. i + 1 \in Nat /\ u + SLACK \in Nat
    BY <1>1, <1>4
  <2>2. (i + 1) * PAGE <= (u + SLACK) * PAGE
    BY <1>5, <2>1, Times
  <2> QED BY <1>4, <2>2, Times
<1>7. i + 1 <= KHEAP_END
  <2>1. plp + SLACK * PAGE <= KHEAP_END * PAGE
    <3>1. SLACK * PAGE \in Nat /\ GAP * PAGE \in Nat /\ KHEAP_END * PAGE \in Nat
      BY Times
    <3> QED BY <1>1, <1>2, <1>3, <3>1, Layout
  <2>2. (i + 1) * PAGE <= KHEAP_END * PAGE
    <3>1. (i + 1) * PAGE \in Nat /\ SLACK * PAGE \in Nat /\ KHEAP_END * PAGE \in Nat
      BY <1>1, Times
    <3> QED BY <1>1, <1>6, <2>1, <3>1
  <2>3. i + 1 \in Nat
    BY <1>1
  <2> QED BY <2>2, <2>3, Times
<1>8. i \in Pages /\ get_page(i)
  BY <1>1, <1>7 DEF Pages, fini_identity
<1>9. /\ tables' \subseteq 0 .. NumTables - 1 /\ i \div TABLE \in tables'
      /\ tables \subseteq tables'
      /\ plp' \in Nat /\ plp <= plp' /\ PageStart'
  BY <1>1, <1>8, GetPage
<1>10. PlpBounds'
  <2>1. k <= plp' /\ plp' + Missing' <= k + 1 + PAGE + DIR + AllTables
    <3>1. k \in Int /\ k + 1 + PAGE + DIR + AllTables \in Int
      BY Layout
    <3> QED BY <1>1, <1>2, <1>8, <3>1, GetPage, Zenon
  <2>2. 1 <= i' /\ i' * PAGE <= plp' + SLACK * PAGE
    <3>1. (i + 1) * PAGE \in Nat /\ SLACK * PAGE \in Nat
      BY <1>1, Times
    <3>2. /\ plp \in Int /\ plp' \in Int /\ plp <= plp' /\ (i + 1) * PAGE \in Int
          /\ SLACK * PAGE \in Int
      BY <1>1, <1>9, <3>1
    <3>3. (i + 1) * PAGE <= plp' + SLACK * PAGE
      BY <1>6, <3>2, Further, Zenon
    <3> QED BY <1>1, <3>3
  <2> QED BY <1>1, <1>9, <2>1, <2>2 DEF PlpBounds
<1>11. Tables'
  <2> SUFFICES ASSUME NEW p \in Pages, p < i + 1 PROVE p \div TABLE \in tables'
    BY <1>1, <1>9 DEF Tables
  <2>1. p = i \/ p < i
    BY <1>1 DEF Pages
  <2> QED BY <1>1, <1>9, <2>1 DEF PInv, Tables
<1>12. /\ frame_of' = [frame_of EXCEPT ![i] = i]
       /\ frames' = frames \cup ({i} \cap 0 .. nframes - 1)
  BY DEF fini_identity, alloc_dma_frame
<1>13. TypeOK' /\ quiet' \in BOOLEAN /\ 0 < nframes'
  <2>1. quiet' \in BOOLEAN
    BY <1>1 DEF PInv
  <2>2. tables' \subseteq 0 .. KHEAP_END \div TABLE
    BY <1>9, TableCount DEF NumTables
  <2>3. i' \in 0 .. KHEAP_END /\ frames' \subseteq 0 .. nframes - 1
    BY <1>1, <1>7, <1>12
  <2>4. frame_of' \in [Pages -> Nat]
    BY <1>1, <1>12
  <2> QED BY <1>1, <1>9, <2>1, <2>2, <2>3, <2>4 DEF PInv, TypeOK
<1>14. Marked'
  <2>1. 0 \in frames' /\ \A f \in 0 .. nframes - 1 : f < i + 1 => f \in frames'
    BY <1>1, <1>12 DEF PInv, Marked, Passed
  <2>2. \A p \in Pages : frame_of'[p] < nframes => frame_of'[p] \in frames'
    BY <1>1, <1>12 DEF PInv, Marked, Passed, Pages
  <2>3. \A p \in Pages : p = 0 \/ p >= i + 1 => frame_of'[p] = 0
    BY <1>1, <1>12 DEF PInv, Marked, Passed, Pages
  <2> QED BY <1>1, <2>1, <2>2, <2>3 DEF Marked, Passed
<1>15. Identity'
  BY <1>1, <1>12 DEF PInv, Identity, Pages
<1>16. FramesNotShared'
  <2>1. \A p \in Pages : frame_of'[p] = 0 \/ frame_of'[p] = p
    BY <1>1, <1>12 DEF PInv, Identity, Marked, Passed, Pages
  <2> QED BY <2>1 DEF FramesNotShared
<1> QED BY <1>10, <1>11, <1>13, <1>14, <1>15, <1>16 DEF PInv

(***************************************************************************)
(* The start of the heap is chosen: behind plp and the room for the page   *)
(* tables that are still missing.                                          *)
(***************************************************************************)
LEMMA HeapStartPInv ==
    ASSUME PInv, fini_heap_start
    PROVE  PInv'
<1> USE Sizes DEF At, bootVars
<1>1. /\ pc = "identity" /\ pc' = "map" /\ halted = "no"
      /\ UNCHANGED <<plp, nframes, frames, tables, frame_of, halted>>
      /\ plp \in Nat /\ i \in Nat /\ 1 <= i /\ tables \subseteq 0 .. NumTables - 1 /\ PageStart
      /\ hs' = HeapStart
  BY DEF fini_heap_start, PInv, TypeOK, PlpBounds, Tables
<1>2. PICK k \in KernelEnds : k <= plp /\ plp + Missing <= k + 1 + PAGE + DIR + AllTables
  BY <1>1 DEF PInv, PlpBounds
<1>3. PICK u \in Nat : plp = u * PAGE
  BY <1>1 DEF PageStart
<1>4. plp + SLACK * PAGE = (u + SLACK) * PAGE /\ u + SLACK \in Nat
  BY <1>3, Times
<1>5. i = u + SLACK
  <2>1. i * PAGE <= (u + SLACK) * PAGE
    BY <1>1, <1>4 DEF PInv, PlpBounds
  <2>2. ~(i * PAGE < (u + SLACK) * PAGE)
    BY <1>4 DEF fini_heap_start, InKernel
  <2>3. i <= u + SLACK /\ ~(i < u + SLACK)
    BY <1>1, <1>4, <2>1, <2>2, Times
  <2> QED BY <1>1, <1>4, <2>3
<1>6. i' = i
  <2>1. i' = (plp + SLACK * PAGE) \div PAGE
    BY DEF fini_heap_start
  <2> QED BY <1>4, <1>5, <2>1, PageOf, Zenon
<1>7. plp \div PAGE = u
  BY <1>3, PageOf, Zenon
<1>8. /\ hs' \in Nat /\ i <= hs' /\ hs' <= KHEAP_END
      /\ plp + Missing <= hs' * PAGE
  <2> DEFINE m == Missing
             S == SLACK * PAGE
             G == GAP * PAGE
             K == KHEAP_START * PAGE
             E == KHEAP_END * PAGE
             A == AllTables
  <2>1. /\ m \in Nat /\ A \in Nat /\ m <= A
        /\ S \in Nat /\ G \in Nat /\ K \in Nat /\ E \in Nat /\ 0 < S /\ S <= G
    <3>1. 0 * PAGE < SLACK * PAGE /\ 0 * PAGE = 0
      BY Times
    <3>2. SLACK * PAGE \in Nat /\ GAP * PAGE \in Nat /\ KHEAP_START * PAGE \in Nat
          /\ KHEAP_END * PAGE \in Nat
      BY Times
    <3> QED BY <1>1, <3>1, <3>2, MissingIs, Layout
  <2>2. /\ k \in Nat /\ plp + m <= k + 1 + PAGE + DIR + A /\ k <= plp
        /\ k + 1 + PAGE + DIR + A <= K \/ (k >= K /\ G >= A)
        /\ k + 1 + PAGE + DIR + A + G <= E
    BY <1>2, Layout
  <2>3. CASE ~(KHEAP_START * PAGE < plp + SLACK * PAGE)
    <3>1. hs' = KHEAP_START
      BY <1>1, <2>3 DEF HeapStart
    <3>2. ~(K < plp + S)
      BY <2>3
    <3>3. i * PAGE <= KHEAP_START * PAGE
      BY <1>4, <1>5, <2>3, Times
    <3>4. i <= KHEAP_START
      BY <1>1, <3>3, Times
    <3> HIDE DEF m, S, G, K, E, A
    <3>5. plp + m <= K
      BY <1>1, <2>1, <2>2, <3>2
    <3> QED BY <3>1, <3>4, <3>5 DEF m, K
  <2>4. CASE KHEAP_START * PAGE < plp + SLACK * PAGE
    <3>1. hs' = u + GAP
      BY <1>1, <1>7, <2>4 DEF HeapStart
    <3>2. u + GAP \in Nat /\ (u + GAP) * PAGE = plp + G
      BY <1>3, Times
    <3>3. K < plp + S
      BY <2>4
    <3>4. i <= u + GAP
      BY <1>3, <1>5, LayoutAssumption
    <3>5. (u + GAP) * PAGE <= KHEAP_END * PAGE /\ plp + Missing <= (u + GAP) * PAGE
      <4> HIDE DEF m, S, G, K, E, A
      <4>1. plp + G <= E /\ plp + m <= plp + G
        BY <1>1, <2>1, <2>2, <3>3
      <4> QED BY <3>2, <4>1 DEF m, E
    <3>6. u + GAP <= KHEAP_END
      BY <3>2, <3>5, Times
    <3> QED BY <3>1, <3>2, <3>4, <3>5, <3>6
  <2> QED BY <2>3, <2>4
<1>9. Missing' = Missing /\ PageStart'
  BY <1>1 DEF Missing, PageStart
<1>10. PlpBounds'
  <2>1. i' <= KHEAP_END
    BY <1>1, <1>6, <1>8
  <2> QED BY <1>1, <1>6, <1>8, <1>9, <2>1 DEF PlpBounds
<1>11. Tables' /\ Marked' /\ FramesNotShared'
  BY <1>1, <1>6 DEF PInv, Tables, Marked, Passed, FramesNotShared
<1>12. quiet' \in BOOLEAN /\ (quiet' => frames \cap i .. hs' - 1 = {})
  BY <1>1, Zenon DEF fini_heap_start
<1>13. Identity'
  BY <1>1, <1>6, <1>12 DEF PInv, Identity, Passed
<1>14. TypeOK' /\ 0 < nframes'
  <2>1. i' \in 0 .. KHEAP_END /\ hs' \in 0 .. KHEAP_END
    BY <1>1, <1>6, <1>8
  <2> QED BY <1>1, <2>1 DEF PInv, TypeOK
<1> QED BY <1>10, <1>11, <1>12, <1>13, <1>14 DEF PInv

(***************************************************************************)
(* The first clear frame, when all below i are set: it is not below i, and *)
(* it is i if i is clear.                                                  *)
(***************************************************************************)
LEMMA FirstFrame ==
    ASSUME first_frame # {}, nframes \in Nat
    PROVE  /\ Min(first_frame) \in 0 .. nframes - 1
           /\ Min(first_frame) \notin frames
           /\ Min(first_frame) \in first_frame
           /\ \A f \in first_frame : Min(first_frame) <= f
<1> DEFINE n == (nframes \div WORD) * WORD
<1>1. n \in Nat /\ n <= nframes
  <2> DEFINE q == nframes \div WORD
             d == nframes % WORD
  <2>1. q \in Nat /\ d \in 0 .. WORD - 1 /\ nframes = WORD * q + d /\ WORD \in Nat
    BY Sizes, Quotient
  <2>2. n = q * WORD
    OBVIOUS
  <2> HIDE DEF q, d, n
  <2>3. q * WORD = WORD * q /\ WORD * q \in Nat
    BY <2>1
  <2> QED BY <2>1, <2>2, <2>3
<1>2. first_frame = {f \in 0 .. n - 1 : f \notin frames}
  BY DEF first_frame
<1> HIDE DEF n
<1>3. first_frame \subseteq Nat /\ first_frame # {}
  BY <1>1, <1>2
<1>4. Min(first_frame) \in first_frame /\ \A f \in first_frame : Min(first_frame) <= f
  <2>1. \E x \in first_frame : \A y \in first_frame : x <= y
    <3> DEFINE R == OpToRel(<, Nat)
    <3>1. IsWellFoundedOn(R, Nat)
      BY NatLessThanWellFounded
    <3>2. \A x, y \in Nat : x < y => <<x, y>> \in R
      BY DEF OpToRel
    <3> HIDE DEF R
    <3>3. PICK x \in first_frame : \A y \in first_frame : ~(<<y, x>> \in R)
      BY <1>3, <3>1, WFMin
    <3>4. \A y \in first_frame : ~(y < x)
      BY <1>3, <3>2, <3>3
    <3>5. \A y \in first_frame : x <= y
      BY <1>3, <3>4
    <3> QED BY <3>5
  <2> QED BY <2>1, Zenon DEF Min
<1> QED BY <1>1, <1>2, <1>4

(* A page in front of the heap gets the first clear frame. *)
LEMMA MapPInv ==
    ASSUME PInv, fini_map
    PROVE  PInv'
<1> USE Sizes DEF At, bootVars
<1>1. /\ pc = "map" /\ pc' = "map" /\ halted = "no" /\ i' = i + 1 /\ i < hs
      /\ UNCHANGED <<nframes, start, quiet, hs>>
      /\ plp \in Nat /\ i \in Nat /\ 1 <= i /\ tables \subseteq 0 .. NumTables - 1 /\ PageStart
      /\ hs \in 0 .. KHEAP_END /\ nframes \in Nat /\ 0 < nframes
      /\ frames \subseteq 0 .. nframes - 1 /\ frame_of \in [Pages -> Nat]
      /\ nframes \in RamSizes
  BY DEF fini_map, PInv, TypeOK, PlpBounds, Tables
<1>2. i \in Pages /\ get_page(i) /\ alloc_frame(i)
  BY <1>1 DEF Pages, fini_map
<1>3. /\ tables' \subseteq 0 .. NumTables - 1 /\ i \div TABLE \in tables'
      /\ tables \subseteq tables' /\ plp' \in Nat /\ PageStart'
  BY <1>1, <1>2, GetPage
<1>4. plp' + Missing' <= hs * PAGE
  <2>1. plp + Missing <= hs * PAGE /\ hs * PAGE \in Int
    BY <1>1, Times DEF PInv, PlpBounds
  <2> QED BY <1>1, <1>2, <2>1, GetPage, Zenon
<1>5. PlpBounds'
  BY <1>1, <1>3, <1>4 DEF PlpBounds
<1>6. Tables'
  <2> SUFFICES ASSUME NEW p \in Pages, p < i + 1 PROVE p \div TABLE \in tables'
    BY <1>1, <1>3 DEF Tables
  <2>1. p = i \/ p < i
    BY <1>1 DEF Pages
  <2> QED BY <1>1, <1>3, <2>1 DEF PInv, Tables
<1>7. /\ 0 \in frames
      /\ \A f \in 0 .. nframes - 1 : f < i => f \in frames
      /\ \A p \in Pages : frame_of[p] < nframes => frame_of[p] \in frames
      /\ \A p \in Pages : p = 0 \/ p >= i => frame_of[p] = 0
  BY <1>1 DEF PInv, Marked, Passed
<1>8. quiet => /\ frames \cap i .. hs - 1 = {}
               /\ \A p \in Pages : 1 <= p /\ p < i => frame_of[p] = p
  BY <1>1 DEF PInv, Identity, Passed
<1>9. CASE first_frame = {}
  <2>1. frame_of' = frame_of /\ frames' = frames /\ halted' = "out_of_memory"
    BY <1>2, <1>9 DEF alloc_frame
  <2>2. Marked' /\ Identity' /\ FramesNotShared'
    BY <1>1, <2>1 DEF PInv, Marked, Identity, FramesNotShared
  <2>3. TypeOK' /\ quiet' \in BOOLEAN /\ 0 < nframes'
    <3>1. quiet' \in BOOLEAN
      BY <1>1 DEF PInv
    <3>2. tables' \subseteq 0 .. KHEAP_END \div TABLE
      BY <1>3, TableCount DEF NumTables
    <3>3. i' \in 0 .. KHEAP_END
      BY <1>1
    <3> QED BY <1>1, <1>3, <2>1, <3>1, <3>2, <3>3 DEF TypeOK
  <2> QED BY <1>5, <1>6, <2>2, <2>3 DEF PInv
<1>10. CASE first_frame # {}
  <2> DEFINE g == Min(first_frame)
  <2>1. /\ frame_of' = [frame_of EXCEPT ![i] = g] /\ frames' = frames \cup {g}
        /\ halted' = "no" /\ frame_of[i] = 0
    BY <1>1, <1>2, <1>10 DEF alloc_frame
  <2>2. g \in 0 .. nframes - 1 /\ g \notin frames /\ \A f \in first_frame : g <= f
    BY <1>1, <1>10, FirstFrame
  <2>3. i <= g /\ g # 0
    BY <1>1, <1>7, <2>2
  <2>4. i \in 0 .. nframes - 1 /\ i \notin frames => g = i
    <3> SUFFICES ASSUME i \in 0 .. nframes - 1, i \notin frames PROVE g = i
      OBVIOUS
    <3>1. g \in first_frame
      BY <1>1, <1>10, FirstFrame
    <3>2. i \in first_frame
      BY <1>1, <2>3, <3>1 DEF first_frame
    <3> QED BY <1>1, <2>2, <2>3, <3>2
  <2> HIDE DEF g
  <2>5. TypeOK' /\ quiet' \in BOOLEAN /\ 0 < nframes'
    <3>1. quiet' \in BOOLEAN
      BY <1>1 DEF PInv
    <3>2. tables' \subseteq 0 .. KHEAP_END \div TABLE
      BY <1>3, TableCount DEF NumTables
    <3>3. i' \in 0 .. KHEAP_END
      BY <1>1
    <3>4. frame_of' \in [Pages -> Nat] /\ frames' \subseteq 0 .. nframes - 1
      <4>1. g \in Nat /\ nframes \in Nat
        BY <1>1, <2>2
      <4>2. frame_of' \in [Pages -> Nat]
        BY <1>1, <2>1, <4>1
      <4>3. frames' \subseteq 0 .. nframes - 1
        BY <1>1, <2>1, <2>2
      <4> QED BY <4>2, <4>3
    <3> QED BY <1>1, <1>3, <2>1, <3>1, <3>2, <3>3, <3>4 DEF TypeOK
  <2>6. Marked'
    <3>1. 0 \in frames' /\ \A f \in 0 .. nframes - 1 : f < i + 1 => f \in frames'
      BY <1>1, <1>7, <2>1, <2>4
    <3>2. \A p \in Pages : frame_of'[p] < nframes => frame_of'[p] \in frames'
      BY <1>1, <1>7, <2>1
    <3>3. \A p \in Pages : p = 0 \/ p >= i + 1 => frame_of'[p] = 0
      BY <1>1, <1>7, <2>1 DEF Pages
    <3> QED BY <1>1, <3>1, <3>2, <3>3 DEF Marked, Passed
  <2>7. Identity'
    <3> SUFFICES ASSUME quiet
                 PROVE  /\ frames' \cap i + 1 .. hs - 1 = {}
                        /\ \A p \in Pages : 1 <= p /\ p < i + 1 => frame_of'[p] = p
      BY <1>1 DEF Identity, Passed
    <3>1. i \notin frames
      BY <1>1, <1>8
    <3>2. i \in 0 .. nframes - 1
      BY <1>1, <2>2, <2>3
    <3>3. g = i
      BY <2>4, <3>1, <3>2
    <3> QED BY <1>1, <1>8, <2>1, <3>3 DEF Pages
  <2>8. FramesNotShared'
    <3>1. \A p \in Pages : frame_of[p] # g
      BY <1>1, <1>7, <2>2
    <3> QED BY <1>1, <1>2, <2>1, <3>1 DEF PInv, FramesNotShared
  <2> QED BY <1>5, <1>6, <2>5, <2>6, <2>7, <2>8 DEF PInv
<1> QED BY <1>9, <1>10

(* The rest of paging_fini, which marks no more frames. *)
LEMMA MapDonePInv ==
    ASSUME PInv, fini_map_done
    PROVE  PInv'
<1> USE Sizes DEF At, bootVars
<1>1. /\ pc = "map" /\ pc' = "heap" /\ halted = "no" /\ i \in Nat /\ hs \in 0 .. KHEAP_END
      /\ UNCHANGED <<nframes, start, quiet, plp, frames, tables, frame_of, hs, halted>>
      /\ i' = i /\ i = hs
  BY DEF fini_map_done, PInv, TypeOK, PlpBounds
<1>2. TypeOK' /\ quiet' \in BOOLEAN /\ 0 < nframes'
  BY <1>1 DEF PInv, TypeOK
<1>3. Missing' = Missing /\ (PageStart => PageStart')
  BY <1>1 DEF Missing, PageStart
<1>4. PlpBounds'
  BY <1>1, <1>3 DEF PInv, PlpBounds
<1>5. Tables' /\ Marked' /\ Identity' /\ FramesNotShared'
  BY <1>1 DEF PInv, Tables, Marked, Identity, Passed, FramesNotShared
<1> QED BY <1>2, <1>4, <1>5 DEF PInv

LEMMA HeapPInv ==
    ASSUME PInv, fini_heap
    PROVE  PInv'
<1> USE Sizes DEF At, bootVars, HeapEnd
<1>1. /\ pc = "heap" /\ pc' = "heap" /\ halted = "no" /\ i' = i + 1 /\ i < KHEAP_END
      /\ UNCHANGED <<nframes, start, quiet, frames, frame_of, hs, halted>>
      /\ plp \in Nat /\ i \in Nat /\ tables \subseteq 0 .. NumTables - 1 /\ PageStart
      /\ hs \in 0 .. KHEAP_END /\ hs <= i
  BY DEF fini_heap, PInv, TypeOK, PlpBounds, Tables
<1>2. i \in Pages /\ get_page(i)
  BY <1>1 DEF Pages, fini_heap
<1>3. /\ tables' \subseteq 0 .. NumTables - 1 /\ i \div TABLE \in tables'
      /\ tables \subseteq tables' /\ plp' \in Nat /\ PageStart'
  BY <1>1, <1>2, GetPage
<1>4. plp' + Missing' <= hs * PAGE
  <2>1. plp + Missing <= hs * PAGE /\ hs * PAGE \in Int
    BY <1>1, Times DEF PInv, PlpBounds
  <2> QED BY <1>1, <1>2, <2>1, GetPage, Zenon
<1>5. PlpBounds'
  BY <1>1, <1>3, <1>4 DEF PlpBounds
<1>6. Tables'
  <2> SUFFICES ASSUME NEW p \in Pages, p < i + 1 PROVE p \div TABLE \in tables'
    BY <1>1, <1>3 DEF Tables
  <2>1. p = i \/ p < i
    BY <1>1 DEF Pages
  <2> QED BY <1>1, <1>3, <2>1 DEF PInv, Tables
<1>7. TypeOK' /\ quiet' \in BOOLEAN /\ 0 < nframes'
  <2>1. tables' \subseteq 0 .. KHEAP_END \div TABLE
    BY <1>3, TableCount DEF NumTables
  <2>2. i' \in 0 .. KHEAP_END
    BY <1>1
  <2>3. quiet' \in BOOLEAN
    BY <1>1 DEF PInv
  <2> QED BY <1>1, <1>3, <2>1, <2>2, <2>3 DEF PInv, TypeOK
<1>8. Marked' /\ Identity' /\ FramesNotShared'
  BY <1>1 DEF PInv, Marked, Identity, Passed, FramesNotShared
<1> QED BY <1>5, <1>6, <1>7, <1>8 DEF PInv

LEMMA SwitchPInv ==
    ASSUME PInv, switch_page_dir
    PROVE  PInv'
<1> USE Sizes DEF At, bootVars, HeapEnd
<1>1. /\ pc = "heap" /\ pc' = "online" /\ i >= KHEAP_END
      /\ UNCHANGED <<nframes, start, quiet, plp, frames, tables, frame_of, i, hs, halted>>
  BY DEF switch_page_dir
<1>2. TypeOK' /\ quiet' \in BOOLEAN /\ 0 < nframes'
  BY <1>1 DEF PInv, TypeOK
<1>3. Missing' = Missing /\ (PageStart => PageStart')
  BY <1>1 DEF Missing, PageStart
<1>4. PlpBounds'
  BY <1>1, <1>3 DEF PInv, PlpBounds
<1>5. Tables' /\ Marked' /\ Identity' /\ FramesNotShared'
  BY <1>1 DEF PInv, Tables, Marked, Identity, Passed, FramesNotShared
<1> QED BY <1>2, <1>4, <1>5 DEF PInv

LEMMA NextPInv == PInv /\ [Next]_vars => PInv'
<1> SUFFICES ASSUME PInv, [Next]_vars PROVE PInv'
  OBVIOUS
<1>1. CASE UNCHANGED vars
  <2>1. Missing' = Missing /\ (PageStart => PageStart')
    BY <1>1 DEF vars, Missing, PageStart
  <2>2. TypeOK' /\ quiet' \in BOOLEAN /\ 0 < nframes'
    BY <1>1 DEF vars, PInv, TypeOK
  <2>3. PlpBounds'
    BY <1>1, <2>1 DEF vars, PInv, PlpBounds
  <2>4. Tables' /\ Marked' /\ Identity' /\ FramesNotShared'
    BY <1>1 DEF vars, PInv, Tables, Marked, Identity, Passed, FramesNotShared
  <2> QED BY <2>2, <2>3, <2>4 DEF PInv
<1> QED BY <1>1, SetFramesPInv, MbootPInv, Page0PInv, IdentityPInv, HeapStartPInv, MapPInv,
           MapDonePInv, HeapPInv, SwitchPInv
        DEF Next, Step, Done

-----------------------------------------------------------------------------
(***************************************************************************)
(* The inductive invariant: plp keeps room for the page tables that are    *)
(* missing, and the frames behind the loops are marked and mapped.         *)
(***************************************************************************)
THEOREM PagingInductive == Spec => []PInv
BY InitPInv, NextPInv, PTL DEF Spec

(***************************************************************************)
(* The frames of the kernel and of the page tables are marked, and mapped  *)
(* to themselves, when the heap takes over (paging_fini, page.c).          *)
(***************************************************************************)
THEOREM KernelSurvives == Spec => []KernelKept
<1>1. PInv => KernelKept
  <2> SUFFICES ASSUME PInv PROVE KernelKept
    OBVIOUS
  <2>1. ASSUME Online, NEW p \in Nat, p * PAGE < plp
        PROVE  p < hs
    <3>1. plp \in Nat /\ hs \in Nat /\ plp + Missing <= hs * PAGE
      BY <2>1, Sizes DEF PInv, TypeOK, PlpBounds, Online
    <3>2. Missing \in Nat
      BY MissingIs DEF PInv, Tables
    <3> DEFINE x == p * PAGE
               y == hs * PAGE
    <3>3. x \in Nat /\ y \in Nat /\ x < plp /\ plp + Missing <= y
      BY <2>1, <3>1, Times
    <3> HIDE DEF x, y
    <3>4. x < y
      BY <3>1, <3>2, <3>3
    <3> QED BY <2>1, <3>1, <3>4, Times DEF x, y
  <2>2. KernelFramesSet
    <3> SUFFICES ASSUME Online, NEW p \in 0 .. nframes - 1, p * PAGE < plp
                 PROVE  p \in frames
      BY DEF KernelFramesSet
    <3>1. p \in Nat /\ p < hs
      BY <2>1
    <3> QED BY <3>1 DEF PInv, Marked, Passed, Online
  <2>3. KernelIdentityMapped
    <3> SUFFICES ASSUME Online, quiet, NEW p \in Pages \ {0}, p * PAGE < plp
                 PROVE  frame_of[p] = p
      BY DEF KernelIdentityMapped
    <3>1. p \in Nat /\ 1 <= p
      BY Sizes DEF Pages
    <3>2. p < hs
      BY <2>1, <3>1
    <3> QED BY <3>1, <3>2 DEF PInv, Identity, Passed, Online
  <2> QED BY <2>2, <2>3 DEF PInv, KernelKept
<1> QED BY <1>1, PagingInductive, PTL

(* The heap finds all of its page tables (page.c:134-135). *)
THEOREM TablesReady == Spec => []TablesComplete
<1>1. PInv => TablesComplete
  <2> SUFFICES ASSUME PInv, Online, NEW p \in Pages PROVE p \div TABLE \in tables
    BY DEF TablesComplete
  <2>1. i \in Nat /\ i >= KHEAP_END
    BY DEF PInv, TypeOK, Tables, Online
  <2>2. p \in Nat /\ p < i
    BY Sizes, <2>1 DEF Pages
  <2> QED BY <2>2 DEF PInv, Tables, Online
<1> QED BY <1>1, PagingInductive, PTL
=============================================================================
