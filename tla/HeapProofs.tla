----------------------------- MODULE HeapProofs -----------------------------
(***************************************************************************)
(* The lists and totals of liballoc, the pointers it hands out and the     *)
(* allocator that its callers see, for every size of the machine and of    *)
(* the structures, every set of requests and any sequence of calls.        *)
(***************************************************************************)
EXTENDS Heap, FiniteSetTheorems, WellFoundedInduction, TLAPS

(***************************************************************************)
(* The invariant.  The tables are finite, and a malloc under way is for    *)
(* one of the requests.                                                    *)
(***************************************************************************)
Calls == [req : Nat, maj : Int, startedBet : BOOLEAN, bestSize : Int, pages : Int]

Tables ==
    /\ IsFiniteSet(DOMAIN majors) /\ IsFiniteSet(DOMAIN minors)
    /\ DOMAIN majors \subseteq Nat \ {0} /\ DOMAIN minors \subseteq Nat \ {0}
    /\ call \in Calls
    /\ pc \in {"search", "fresh"} => call.req \in Requests

(* A block is a run of frames that starts in RAM.  They are its own,       *)
(* whatever the bitmap says.                                               *)
Framed(m, f) ==
    /\ m = f * PAGE
    /\ majors[m].pages > 0
    /\ Run(f, majors[m].pages) \subseteq used \ RESERVED

InFrames ==
    /\ RESERVED \subseteq used
    /\ \A m \in DOMAIN majors : \E f \in 1 .. NFRAMES - 1 : Framed(m, f)

(* What malloc wrote into a minor. *)
Written ==
    \A a \in DOMAIN minors :
        /\ minors[a].size = Size(minors[a].req_size)
        /\ minors[a].diff = Pointer(a) - (a + MINOR)

(***************************************************************************)
(* The lists, said without Min and Max: the neighbour of an allocation is  *)
(* in the same block, with nothing between.  B are the allocations of a    *)
(* block, b is one of them.                                                *)
(***************************************************************************)
FirstOf(B, f) ==
    IF f = NULL THEN B = {} ELSE f \in B /\ \A c \in B : f <= c

NextOf(B, b, n) ==
    IF n = NULL THEN \A c \in B : c <= b
    ELSE n \in B /\ b < n /\ \A c \in B : c <= b \/ n <= c

PrevOf(B, b, p) ==
    IF p = NULL THEN \A c \in B : b <= c
    ELSE p \in B /\ p < b /\ \A c \in B : b <= c \/ c <= p

Lists ==
    /\ \A m \in DOMAIN majors : FirstOf(InBlock(m), majors[m].first)
    /\ \A a \in DOMAIN minors :
          /\ NextOf(InBlock(minors[a].block), a, minors[a].next)
          /\ PrevOf(InBlock(minors[a].block), a, minors[a].prev)

(* The blocks can be numbered along their list, which is thus no circle. *)
Ranked ==
    \E rank \in [DOMAIN majors -> Nat] :
        \A m \in DOMAIN majors :
            majors[m].next # NULL => rank[m] < rank[majors[m].next]

(* Only the block that malloc looks at may be empty, and the request fits  *)
(* into it then.                                                           *)
EmptyBlocks ==
    halted = "no" =>
        /\ pc \in {"idle", "release"} => \A m \in DOMAIN majors : majors[m].first # NULL
        /\ pc \in {"search", "fresh"} =>
              \A m \in DOMAIN majors :
                  majors[m].first = NULL =>
                      m = call.maj /\ MAJOR + Need(call.req) <= BlockSize(majors[m])
        /\ pc = "fresh" => majors[call.maj].first = NULL

HInv ==
    /\ TypeOK /\ Tables
    /\ InFrames /\ Disjoint
    /\ Written
    /\ Lists
    /\ BlocksLinked /\ Ranked
    /\ TotalsExact
    /\ BestBetLives /\ EmptyBlocks

-----------------------------------------------------------------------------
(* Every set of natural numbers that is not empty has a least element,     *)
(* which stands for induction in what follows.                             *)
LEMMA Least ==
    ASSUME NEW S \in SUBSET Nat, S # {}
    PROVE  \E u \in S : \A v \in S : u <= v
<1> DEFINE R == OpToRel(<, Nat)
<1>1. IsWellFoundedOn(R, Nat)
  BY NatLessThanWellFounded
<1>2. \A u, v \in Nat : u < v => <<u, v>> \in R
  BY DEF OpToRel
<1> HIDE DEF R
<1>3. PICK u \in S : \A v \in S : ~(<<v, u>> \in R)
  BY <1>1, WFMin
<1>4. \A v \in S : ~(v < u)
  BY <1>2, <1>3
<1>5. \A v \in S : u <= v
  BY <1>4
<1> QED BY <1>5

(***************************************************************************)
(* Sums over finite sets.  The recursion of SumFunctionOnSet takes out the *)
(* element that Any chooses; g solves it on the sets in D.                 *)
(***************************************************************************)
Any(s) == CHOOSE x \in s : TRUE

SumStep(g, f, s) == IF s = {} THEN 0 ELSE f[Any(s)] + g[s \ {Any(s)}]

IsSum(g, f, D) == g = [s \in D |-> SumStep(g, f, s)]

LEMMA AnyIn ==
    ASSUME NEW S, NEW s \in SUBSET S, IsFiniteSet(S), s # {}
    PROVE  /\ Any(s) \in s /\ Any(s) \in S
           /\ s \ {Any(s)} \in SUBSET S
           /\ Cardinality(s) \in Nat \ {0} /\ Cardinality(s \ {Any(s)}) = Cardinality(s) - 1
<1>1. Any(s) \in s
  BY DEF Any
<1>2. IsFiniteSet(s)
  BY FS_Subset
<1>3. Cardinality(s) \in Nat /\ Cardinality(s) # 0
  BY <1>2, FS_CardinalityType, FS_EmptySet
<1>4. Cardinality(s \ {Any(s)}) = Cardinality(s) - 1
  BY <1>1, <1>2, FS_RemoveElement
<1> QED BY <1>1, <1>3, <1>4

LEMMA SumExists ==
    ASSUME NEW S, IsFiniteSet(S), NEW f
    PROVE  \E g : IsSum(g, f, SUBSET S)
<1> DEFINE Level(n) == {s \in SUBSET S : Cardinality(s) <= n}
           Bad == {n \in Nat : ~ \E g : IsSum(g, f, Level(n))}
<1>1. \A s \in SUBSET S : Cardinality(s) \in Nat /\ Cardinality(s) <= Cardinality(S)
  BY FS_Subset, FS_CardinalityType
<1>2. Cardinality(S) \in Nat /\ Level(Cardinality(S)) = SUBSET S
  BY <1>1
<1>3. ASSUME Bad # {} PROVE FALSE
  <2>1. PICK k \in Bad : \A j \in Bad : k <= j
    BY <1>3, Least
  <2>2. k \in Nat /\ ~ \E g : IsSum(g, f, Level(k))
    OBVIOUS
  <2>3. CASE k = 0
    <3>1. \A s \in Level(0) : s = {}
      <4> SUFFICES ASSUME NEW s \in Level(0), s # {} PROVE FALSE
        OBVIOUS
      <4>1. Cardinality(s) \in Nat \ {0} /\ Cardinality(s) <= 0
        BY AnyIn
      <4> QED BY <4>1
    <3> DEFINE g == [s \in Level(0) |-> 0]
    <3>2. IsSum(g, f, Level(0))
      BY <3>1 DEF IsSum, SumStep
    <3> QED BY <2>2, <2>3, <3>2
  <2>4. CASE k # 0
    <3>1. k - 1 \in Nat /\ ~(k <= k - 1)
      BY <2>2, <2>4
    <3>2. PICK h : IsSum(h, f, Level(k - 1))
      BY <2>1, <3>1
    <3> DEFINE g == [s \in Level(k) |-> SumStep(h, f, s)]
    <3>3. ASSUME NEW s \in Level(k - 1) PROVE s \in Level(k) /\ g[s] = h[s]
      <4>1. s \in Level(k)
        BY <1>1, <2>2
      <4>2. h[s] = SumStep(h, f, s)
        BY <3>2 DEF IsSum
      <4> QED BY <4>1, <4>2
    <3>4. ASSUME NEW s \in Level(k), s # {} PROVE s \ {Any(s)} \in Level(k - 1)
      <4>1. /\ s \ {Any(s)} \in SUBSET S /\ Cardinality(s) \in Nat
            /\ Cardinality(s \ {Any(s)}) = Cardinality(s) - 1
        BY <3>4, AnyIn
      <4> QED BY <2>2, <4>1
    <3>5. ASSUME NEW s \in Level(k) PROVE SumStep(h, f, s) = SumStep(g, f, s)
      <4>1. CASE s = {}
        BY <4>1 DEF SumStep
      <4>2. CASE s # {}
        <5>1. g[s \ {Any(s)}] = h[s \ {Any(s)}]
          BY <3>3, <3>4, <4>2
        <5> HIDE DEF g
        <5> QED BY <5>1 DEF SumStep
      <4> QED BY <4>1, <4>2
    <3>6. \A s \in Level(k) : g[s] = SumStep(h, f, s)
      OBVIOUS
    <3>7. g = [s \in Level(k) |-> g[s]]
      OBVIOUS
    <3> HIDE DEF g
    <3>8. IsSum(g, f, Level(k))
      BY <3>5, <3>6, <3>7 DEF IsSum
    <3> QED BY <2>2, <3>8
  <2> QED BY <2>3, <2>4
<1>4. \E g : IsSum(g, f, Level(Cardinality(S)))
  BY <1>2, <1>3
<1> QED BY <1>2, <1>4

LEMMA SumIs ==
    ASSUME NEW S, IsFiniteSet(S), NEW f
    PROVE  \E g : IsSum(g, f, SUBSET S) /\ SumFunctionOnSet(f, S) = g[S]
<1>1. \E g : IsSum(g, f, SUBSET S)
  BY SumExists
<1> DEFINE g == CHOOSE g : IsSum(g, f, SUBSET S)
<1>2. SumFunctionOnSet(f, S) = g[S]
  BY DEF SumFunctionOnSet, FoldFunctionOnSet, MapThenFoldSet, IsSum, SumStep, Any
<1>3. IsSum(g, f, SUBSET S)
  BY <1>1
<1> QED BY <1>2, <1>3

(* Two solutions agree where the summed functions do. *)
Agree(f, h, T) == \A x \in T : f[x] = h[x]

LEMMA SumsAgree ==
    ASSUME NEW S, NEW T, T \subseteq S, IsFiniteSet(S), NEW f, NEW h, Agree(f, h, T),
           NEW g, IsSum(g, f, SUBSET S), NEW k, IsSum(k, h, SUBSET T)
    PROVE  Agree(g, k, {T})
<1> DEFINE Bad == {n \in Nat : \E s \in SUBSET T : Cardinality(s) = n /\ g[s] # k[s]}
<1>1. IsFiniteSet(T)
  BY FS_Subset
<1>2. ASSUME Bad # {} PROVE FALSE
  <2>1. PICK n \in Bad : \A j \in Bad : n <= j
    BY <1>2, Least
  <2>2. PICK s \in SUBSET T : Cardinality(s) = n /\ g[s] # k[s]
    OBVIOUS
  <2>3. g[s] = SumStep(g, f, s) /\ k[s] = SumStep(k, h, s)
    BY DEF IsSum
  <2>4. s # {}
    BY <2>2, <2>3 DEF SumStep
  <2>5. /\ Any(s) \in T /\ s \ {Any(s)} \in SUBSET T
        /\ n \in Nat \ {0} /\ Cardinality(s \ {Any(s)}) = n - 1
    BY <1>1, <2>2, <2>4, AnyIn
  <2>6. n - 1 \in Nat /\ ~(n <= n - 1)
    BY <2>5
  <2>7. g[s \ {Any(s)}] = k[s \ {Any(s)}]
    BY <2>1, <2>5, <2>6
  <2> QED BY <2>2, <2>3, <2>4, <2>5, <2>7 DEF SumStep, Agree
<1>3. Cardinality(T) \in Nat
  BY <1>1, FS_CardinalityType
<1>4. g[T] = k[T]
  BY <1>2, <1>3
<1> QED BY <1>4 DEF Agree

LEMMA SumCongruence ==
    ASSUME NEW S, IsFiniteSet(S), NEW f, NEW h, \A x \in S : f[x] = h[x]
    PROVE  SumFunctionOnSet(f, S) = SumFunctionOnSet(h, S)
<1>1. PICK g : IsSum(g, f, SUBSET S) /\ SumFunctionOnSet(f, S) = g[S]
  BY SumIs
<1>2. PICK k : IsSum(k, h, SUBSET S) /\ SumFunctionOnSet(h, S) = k[S]
  BY SumIs
<1>3. S \subseteq S /\ Agree(f, h, S)
  BY DEF Agree
<1>a. Agree(g, k, {S})
  BY <1>1, <1>2, <1>3, SumsAgree, Zenon
<1>4. g[S] = k[S]
  BY <1>a DEF Agree
<1> QED BY <1>1, <1>2, <1>4

LEMMA SumOfNone ==
    ASSUME NEW f
    PROVE  SumFunctionOnSet(f, {}) = 0
<1>1. IsFiniteSet({})
  BY FS_EmptySet
<1>2. PICK g : IsSum(g, f, SUBSET {}) /\ SumFunctionOnSet(f, {}) = g[{}]
  BY <1>1, SumIs
<1> QED BY <1>2 DEF IsSum, SumStep

LEMMA SumTakesAny ==
    ASSUME NEW S, IsFiniteSet(S), S # {}, NEW f
    PROVE  SumFunctionOnSet(f, S) = f[Any(S)] + SumFunctionOnSet(f, S \ {Any(S)})
<1> DEFINE T == S \ {Any(S)}
<1>1. T \subseteq S /\ IsFiniteSet(T)
  BY FS_Subset
<1>2. PICK g : IsSum(g, f, SUBSET S) /\ SumFunctionOnSet(f, S) = g[S]
  BY SumIs
<1>3. PICK k : IsSum(k, f, SUBSET T) /\ SumFunctionOnSet(f, T) = k[T]
  BY <1>1, SumIs
<1>4. g[S] = f[Any(S)] + g[T]
  BY <1>2 DEF IsSum, SumStep
<1> HIDE DEF T
<1>a. Agree(f, f, T)
  BY DEF Agree
<1>b. Agree(g, k, {T})
  BY <1>1, <1>2, <1>3, <1>a, SumsAgree, Zenon
<1>5. g[T] = k[T]
  BY <1>b DEF Agree
<1>6. SumFunctionOnSet(f, S) = f[Any(S)] + SumFunctionOnSet(f, T)
  BY <1>2, <1>3, <1>4, <1>5
<1> QED BY <1>6 DEF T

LEMMA SumType ==
    ASSUME NEW S, IsFiniteSet(S), NEW f, \A x \in S : f[x] \in Nat
    PROVE  SumFunctionOnSet(f, S) \in Nat
<1> DEFINE Sum(s) == SumFunctionOnSet(f, s)
           Bad == {n \in Nat : \E s \in SUBSET S : Cardinality(s) = n /\ Sum(s) \notin Nat}
<1>1. ASSUME Bad # {} PROVE FALSE
  <2>1. PICK n \in Bad : \A j \in Bad : n <= j
    BY <1>1, Least
  <2>2. PICK s \in SUBSET S : Cardinality(s) = n /\ Sum(s) \notin Nat
    OBVIOUS
  <2>3. s # {}
    BY <2>2, SumOfNone
  <2>4. /\ Any(s) \in S /\ s \ {Any(s)} \in SUBSET S
        /\ n \in Nat \ {0} /\ Cardinality(s \ {Any(s)}) = n - 1
    BY <2>2, <2>3, AnyIn
  <2>5. n - 1 \in Nat /\ ~(n <= n - 1)
    BY <2>4
  <2>6. Sum(s \ {Any(s)}) \in Nat
    BY <2>1, <2>4, <2>5
  <2>7. IsFiniteSet(s)
    BY FS_Subset
  <2>8. Sum(s) = f[Any(s)] + Sum(s \ {Any(s)})
    BY <2>3, <2>7, SumTakesAny
  <2> QED BY <2>2, <2>4, <2>6, <2>8
<1>2. Cardinality(S) \in Nat
  BY FS_CardinalityType
<1>3. Sum(S) \in Nat
  BY <1>1, <1>2
<1> QED BY <1>3

(* Any element can be taken out first. *)
LEMMA SumTakes ==
    ASSUME NEW S, IsFiniteSet(S), NEW f, \A x \in S : f[x] \in Nat, NEW e \in S
    PROVE  SumFunctionOnSet(f, S) = f[e] + SumFunctionOnSet(f, S \ {e})
<1> DEFINE Sum(s) == SumFunctionOnSet(f, s)
           Bad == {n \in Nat : \E s \in SUBSET S : \E x \in s :
                      Cardinality(s) = n /\ Sum(s) # f[x] + Sum(s \ {x})}
<1>1. ASSUME Bad # {} PROVE FALSE
  <2>1. PICK n \in Bad : \A j \in Bad : n <= j
    BY <1>1, Least
  <2>a. PICK s \in SUBSET S : \E x \in s : Cardinality(s) = n /\ Sum(s) # f[x] + Sum(s \ {x})
    OBVIOUS
  <2>2. PICK x \in s : Cardinality(s) = n /\ Sum(s) # f[x] + Sum(s \ {x})
    BY <2>a
  <2>3. IsFiniteSet(s) /\ IsFiniteSet(s \ {x}) /\ IsFiniteSet(s \ {Any(s)})
    BY FS_Subset
  <2>4. /\ Any(s) \in s /\ Any(s) \in S /\ s \ {Any(s)} \in SUBSET S
        /\ n \in Nat \ {0} /\ Cardinality(s \ {Any(s)}) = n - 1
    BY <2>2, AnyIn
  <2>5. n - 1 \in Nat /\ ~(n <= n - 1)
    BY <2>4
  <2>6. Sum(s) = f[Any(s)] + Sum(s \ {Any(s)})
    BY <2>3, SumTakesAny
  <2>7. x # Any(s)
    BY <2>2, <2>6
  <2>8. Cardinality(s \ {x}) = n - 1 /\ s \ {x} \in SUBSET S
    BY <2>2, <2>3, FS_RemoveElement
  <2>9. \A t \in SUBSET S : \A v \in t : Cardinality(t) = n - 1 => Sum(t) = f[v] + Sum(t \ {v})
    BY <2>1, <2>5
  <2> DEFINE r == s \ {x, Any(s)}
  <2>10. r = (s \ {x}) \ {Any(s)} /\ r = (s \ {Any(s)}) \ {x}
    OBVIOUS
  <2>11. Sum(s \ {x}) = f[Any(s)] + Sum(r)
    BY <2>4, <2>7, <2>8, <2>9, <2>10
  <2>12. Sum(s \ {Any(s)}) = f[x] + Sum(r)
    BY <2>2, <2>4, <2>7, <2>9, <2>10
  <2>13. IsFiniteSet(r) /\ \A y \in r : f[y] \in Nat
    BY FS_Subset
  <2>14. Sum(r) \in Nat
    BY <2>13, SumType
  <2>15. f[x] \in Nat /\ f[Any(s)] \in Nat
    BY <2>2, <2>4
  <2> QED BY <2>2, <2>6, <2>11, <2>12, <2>14, <2>15
<1>2. Cardinality(S) \in Nat
  BY FS_CardinalityType
<1>3. Cardinality(S) \notin Bad
  BY <1>1
<1> HIDE DEF Sum
<1>4. \A s \in SUBSET S : \A x \in s : Cardinality(s) = Cardinality(S) => Sum(s) = f[x] + Sum(s \ {x})
  BY <1>2, <1>3
<1>5. Sum(S) = f[e] + Sum(S \ {e})
  BY <1>4, Zenon
<1> QED BY <1>5 DEF Sum

(* One element more, and one less, while the other terms stay. *)
LEMMA SumGrows ==
    ASSUME NEW S, IsFiniteSet(S), NEW e, e \notin S, NEW f, NEW h,
           Agree(f, h, S), h[e] \in Nat, \A x \in S : f[x] \in Nat
    PROVE  /\ SumFunctionOnSet(f, S) \in Nat
           /\ SumFunctionOnSet(h, S \cup {e}) = h[e] + SumFunctionOnSet(f, S)
<1> DEFINE T == S \cup {e}
<1>1. IsFiniteSet(T) /\ e \in T /\ T \ {e} = S /\ \A x \in T : h[x] \in Nat
  BY FS_AddElement DEF Agree
<1>2. SumFunctionOnSet(h, T) = h[e] + SumFunctionOnSet(h, T \ {e})
  BY <1>1, SumTakes
<1>3. SumFunctionOnSet(h, S) = SumFunctionOnSet(f, S)
  BY SumCongruence DEF Agree
<1>4. SumFunctionOnSet(f, S) \in Nat
  BY SumType
<1> QED BY <1>1, <1>2, <1>3, <1>4

NatOn(f, S) == \A x \in S : f[x] \in Nat

LEMMA SumShrinks ==
    ASSUME NEW S, IsFiniteSet(S), NEW e, e \in S, NEW f, NEW h,
           Agree(f, h, S \ {e}), NatOn(f, S)
    PROVE  /\ SumFunctionOnSet(h, S \ {e}) \in Nat
           /\ SumFunctionOnSet(f, S) = f[e] + SumFunctionOnSet(h, S \ {e})
<1> USE DEF NatOn
<1>1. IsFiniteSet(S \ {e}) /\ \A x \in S \ {e} : h[x] \in Nat
  BY FS_Subset DEF Agree
<1>2. SumFunctionOnSet(f, S) = f[e] + SumFunctionOnSet(f, S \ {e})
  BY SumTakes
<1>3. SumFunctionOnSet(f, S \ {e}) = SumFunctionOnSet(h, S \ {e})
  BY <1>1, SumCongruence DEF Agree
<1>4. SumFunctionOnSet(h, S \ {e}) \in Nat
  BY <1>1, SumType
<1> QED BY <1>2, <1>3, <1>4

LEMMA SumStays ==
    ASSUME NEW S, IsFiniteSet(S), NEW f, NEW h, Agree(f, h, S)
    PROVE  SumFunctionOnSet(h, S) = SumFunctionOnSet(f, S)
BY SumCongruence DEF Agree

-----------------------------------------------------------------------------
LEMMA Sizes ==
    /\ PAGE \in Nat \ {0} /\ PAGE_COUNT \in Nat \ {0}
    /\ MAJOR \in Nat \ {0} /\ MINOR \in Nat \ {0}
    /\ ALIGNMENT \in Nat \ {0} /\ ALIGN_INFO \in Nat \ {0}
    /\ NFRAMES \in Nat \ {0} /\ BITS \in Nat /\ NFRAMES <= BITS
BY HeapAssumption, FrameMapAssumption

LEMMA RequestSize ==
    ASSUME NEW req \in Requests
    PROVE  /\ req \in Nat /\ Size(req) \in Nat /\ Need(req) \in Nat \ {0}
           /\ Need(req) = Size(req) + MINOR /\ Size(req) = req + ALIGNMENT + ALIGN_INFO
<1>1. req \in Nat
  BY HeapAssumption
<1> QED BY <1>1, Sizes DEF Size, Need

(* Multiples of a page. *)
LEMMA Times ==
    ASSUME NEW a \in Nat, NEW b \in Nat
    PROVE  /\ a * PAGE \in Nat /\ b * PAGE \in Nat
           /\ a < b => a * PAGE < b * PAGE
           /\ a <= b => a * PAGE <= b * PAGE
           /\ (a + b) * PAGE = a * PAGE + b * PAGE
<1> USE Sizes
<1>1. a * PAGE \in Nat /\ b * PAGE \in Nat /\ (a + b) * PAGE = a * PAGE + b * PAGE
  OBVIOUS
<1>2. ASSUME a < b PROVE a * PAGE < b * PAGE
  <2>1. b - a - 1 \in Nat /\ b = a + 1 + (b - a - 1)
    BY <1>2
  <2>2. PICK z \in Nat : b = a + 1 + z
    BY <2>1
  <2>3. b * PAGE = a * PAGE + PAGE + z * PAGE /\ z * PAGE \in Nat /\ a * PAGE \in Nat
    BY <2>2
  <2> QED BY <2>3
<1>3. ASSUME a <= b PROVE a * PAGE <= b * PAGE
  <2>1. a < b \/ a = b
    BY <1>3
  <2>2. ASSUME a < b PROVE a * PAGE <= b * PAGE
    BY <1>1, <1>2, <2>2
  <2> QED BY <1>1, <2>1, <2>2
<1> QED BY <1>1, <1>2, <1>3

LEMMA RunsApart ==
    ASSUME NEW a \in Nat, NEW k \in Nat, NEW b \in Nat, a + k <= b, a < b
    PROVE  /\ a * PAGE \in Nat /\ k * PAGE \in Nat /\ b * PAGE \in Nat
           /\ a * PAGE + k * PAGE <= b * PAGE /\ a * PAGE < b * PAGE
<1>1. PICK c \in Nat : c = a + k
  OBVIOUS
<1>2. c <= b
  BY <1>1
<1>3. c * PAGE <= b * PAGE /\ b * PAGE \in Nat
  BY <1>2, Times, Zenon
<1>4. (a + k) * PAGE = a * PAGE + k * PAGE /\ a * PAGE \in Nat /\ k * PAGE \in Nat
  BY Times, Zenon
<1>5. a * PAGE < b * PAGE
  BY Times, Zenon
<1> QED BY <1>1, <1>3, <1>4, <1>5, Zenon

LEMMA Quotient ==
    ASSUME NEW m \in Nat \ {0}, NEW a \in Nat
    PROVE  /\ a \div m \in Nat /\ a % m \in 0 .. m - 1
           /\ a = m * (a \div m) + (a % m)
OBVIOUS

LEMMA QuotientUnique ==
    ASSUME NEW m \in Nat \ {0}, NEW a \in Nat, NEW q \in Nat, NEW d \in 0 .. m - 1,
           a = m * q + d
    PROVE  a \div m = q /\ a % m = d
OBVIOUS

LEMMA PageOf ==
    ASSUME NEW u \in Nat
    PROVE  (u * PAGE) \div PAGE = u
<1>1. PAGE \in Nat \ {0} /\ u * PAGE = PAGE * u + 0 /\ 0 \in 0 .. PAGE - 1 /\ u * PAGE \in Nat
  BY Sizes
<1> QED BY <1>1, QuotientUnique, Zenon

(* The pages of a new block hold its header and the request. *)
LEMMA PagesHold ==
    ASSUME NEW size \in Nat
    PROVE  /\ PagesFor(size) \in Nat \ {0}
           /\ MAJOR + size + MINOR <= PagesFor(size) * PAGE
<1> DEFINE n == size + MAJOR + MINOR
           u == (n + PAGE - 1) \div PAGE
           d == (n + PAGE - 1) % PAGE
<1>1. n \in Nat /\ n + PAGE - 1 \in Nat /\ PAGE \in Nat \ {0}
  BY Sizes
<1>2. u \in Nat /\ d \in 0 .. PAGE - 1 /\ n + PAGE - 1 = PAGE * u + d
  BY <1>1, Quotient, Zenon
<1>3. u * PAGE \in Nat /\ n <= u * PAGE
  <2> HIDE DEF u, d, n
  <2> QED BY <1>1, <1>2
<1>4. /\ PagesFor(size) \in {PAGE_COUNT, u}
      /\ PagesFor(size) >= PAGE_COUNT /\ PagesFor(size) >= u
  <2>1. \E k \in {PAGE_COUNT, u} : \A j \in {PAGE_COUNT, u} : k >= j
    <3> HIDE DEF u
    <3> QED BY <1>2, Sizes
  <2>2. PagesFor(size) = CHOOSE k \in {PAGE_COUNT, u} : \A j \in {PAGE_COUNT, u} : k >= j
    BY DEF PagesFor, Max
  <2> HIDE DEF u
  <2> QED BY <2>1, <2>2
<1>5. PagesFor(size) \in Nat \ {0} /\ u <= PagesFor(size)
  <2> HIDE DEF u
  <2> QED BY <1>2, <1>4, Sizes
<1>6. u * PAGE <= PagesFor(size) * PAGE /\ PagesFor(size) * PAGE \in Nat
  BY <1>2, <1>5, Times
<1>7. MAJOR + size + MINOR = n
  BY Sizes
<1> HIDE DEF u, n
<1> QED BY <1>1, <1>3, <1>5, <1>6, <1>7

(* What ALIGN does to the address behind the minor. *)
LEMMA AlignIs ==
    ASSUME NEW p \in Nat
    PROVE  /\ Align(p) \in Nat /\ Align(p) % ALIGNMENT = 0
           /\ p + ALIGN_INFO <= Align(p) /\ Align(p) < p + ALIGN_INFO + ALIGNMENT
<1> DEFINE q == p + ALIGN_INFO
           u == q \div ALIGNMENT
           d == q % ALIGNMENT
<1>1. q \in Nat /\ ALIGNMENT \in Nat \ {0} /\ 0 \in 0 .. ALIGNMENT - 1
  BY Sizes
<1>2. u \in Nat /\ d \in 0 .. ALIGNMENT - 1 /\ q = ALIGNMENT * u + d
  BY <1>1, Quotient, Zenon
<1>3. Align(p) = IF d = 0 THEN q ELSE q + ALIGNMENT - d
  BY DEF Align
<1> HIDE DEF q, u, d
<1>4. CASE d = 0
  <2>1. q % ALIGNMENT = 0
    BY <1>1, <1>2, <1>4, QuotientUnique, Zenon
  <2> QED BY <1>1, <1>3, <1>4, <2>1 DEF q
<1>5. CASE d # 0
  <2> DEFINE r == q + ALIGNMENT - d
  <2>1. /\ r \in Nat /\ u + 1 \in Nat /\ r = ALIGNMENT * (u + 1) + 0
        /\ q <= r /\ r < q + ALIGNMENT
    BY <1>1, <1>2, <1>5
  <2>2. Align(p) = r
    BY <1>3, <1>5
  <2> HIDE DEF r
  <2>3. r % ALIGNMENT = 0
    BY <1>1, <2>1, QuotientUnique, Zenon
  <2> QED BY <2>1, <2>2, <2>3 DEF q
<1> QED BY <1>4, <1>5

LEMMA PointerIs ==
    ASSUME NEW a \in Nat
    PROVE  /\ Pointer(a) \in Nat /\ Pointer(a) % ALIGNMENT = 0
           /\ a + MINOR + ALIGN_INFO <= Pointer(a)
           /\ Pointer(a) < a + MINOR + ALIGN_INFO + ALIGNMENT
<1>1. a + MINOR \in Nat
  BY Sizes
<1>2. PICK p \in Nat : p = a + MINOR
  BY <1>1
<1> QED BY <1>2, AlignIs DEF Pointer

(***************************************************************************)
(* The pointers are right whenever malloc wrote the minors: this needs     *)
(* nothing of the lists.                                                   *)
(***************************************************************************)
LEMMA WrittenPointers ==
    ASSUME TypeOK, Tables, Written
    PROVE  \A a \in DOMAIN minors :
              /\ Pointer(a) % ALIGNMENT = 0
              /\ Pointer(a) - ALIGN_INFO >= a + MINOR
              /\ Pointer(a) + minors[a].req_size <= End(a)
              /\ FreedMinor(a) = a
<1> SUFFICES ASSUME NEW a \in DOMAIN minors
             PROVE  /\ Pointer(a) % ALIGNMENT = 0
                    /\ Pointer(a) - ALIGN_INFO >= a + MINOR
                    /\ Pointer(a) + minors[a].req_size <= End(a)
                    /\ FreedMinor(a) = a
  OBVIOUS
<1>1. a \in Nat /\ minors[a].req_size \in Requests
  BY DEF Tables, TypeOK
<1>2. /\ minors[a].req_size \in Nat
      /\ Size(minors[a].req_size) = minors[a].req_size + ALIGNMENT + ALIGN_INFO
  BY <1>1, RequestSize
<1>3. /\ minors[a].size = minors[a].req_size + ALIGNMENT + ALIGN_INFO
      /\ minors[a].diff = Pointer(a) - (a + MINOR)
  BY <1>2 DEF Written
<1>4. /\ Pointer(a) \in Nat /\ Pointer(a) % ALIGNMENT = 0
      /\ a + MINOR + ALIGN_INFO <= Pointer(a)
      /\ Pointer(a) < a + MINOR + ALIGN_INFO + ALIGNMENT
  BY <1>1, PointerIs
<1>5. Pointer(a) + minors[a].req_size <= End(a)
  BY <1>1, <1>2, <1>3, <1>4, Sizes DEF End
<1>6. FreedMinor(a) = a
  BY <1>1, <1>3, <1>4, Sizes DEF FreedMinor, Unalign
<1> QED BY <1>1, <1>4, <1>5, <1>6, Sizes

-----------------------------------------------------------------------------
(***************************************************************************)
(* The list of a block when an allocation is put in or taken out.  a has   *)
(* its place between p and n when every other one is at p or below, or at  *)
(* n or above.                                                             *)
(***************************************************************************)
Between(B, a, p, n) ==
    /\ a \in Nat \ {0} /\ \A b \in B : b \in Nat \ {0}
    /\ p # NULL => p \in B /\ p < a
    /\ n # NULL => n \in B /\ a < n
    /\ \A b \in B : (p # NULL /\ b <= p) \/ (n # NULL /\ n <= b)

LEMMA InsertAt ==
    ASSUME NEW B, NEW a, NEW p \in Nat, NEW n \in Nat, Between(B, a, p, n)
    PROVE  /\ a \notin B
           /\ NextOf(B \cup {a}, a, n)
           /\ PrevOf(B \cup {a}, a, p)
           /\ (p # NULL /\ n # NULL) => p # n
BY DEF Between, NextOf, PrevOf, NULL

LEMMA InsertFirst ==
    ASSUME NEW B, NEW a, NEW p \in Nat, NEW n \in Nat, Between(B, a, p, n), NEW f \in Nat, FirstOf(B, f)
    PROVE  FirstOf(B \cup {a}, IF p = NULL THEN a ELSE f)
BY DEF Between, FirstOf, NULL

LEMMA InsertNext ==
    ASSUME NEW B, NEW a, NEW p \in Nat, NEW n \in Nat, Between(B, a, p, n),
           NEW b \in B, NEW nb \in Nat, NextOf(B, b, nb)
    PROVE  NextOf(B \cup {a}, b, IF b = p THEN a ELSE nb)
<1>1. CASE b = p
  BY <1>1 DEF Between, NextOf, NULL
<1>2. CASE b # p
  BY <1>2 DEF Between, NextOf, NULL
<1> QED BY <1>1, <1>2

LEMMA InsertPrev ==
    ASSUME NEW B, NEW a, NEW p \in Nat, NEW n \in Nat, Between(B, a, p, n),
           NEW b \in B, NEW pb \in Nat, PrevOf(B, b, pb)
    PROVE  PrevOf(B \cup {a}, b, IF b = n THEN a ELSE pb)
<1>1. CASE b = n
  BY <1>1 DEF Between, PrevOf, NULL
<1>2. CASE b # n
  BY <1>2 DEF Between, PrevOf, NULL
<1> QED BY <1>1, <1>2

LEMMA RemoveFirst ==
    ASSUME NEW B, \A c \in B : c \in Nat \ {0}, NEW a \in B, NEW p \in Nat, NEW n \in Nat,
           NextOf(B, a, n), PrevOf(B, a, p), NEW f \in Nat, FirstOf(B, f)
    PROVE  FirstOf(B \ {a}, IF p = NULL THEN n ELSE f)
<1>1. CASE p = NULL
  BY <1>1 DEF NextOf, PrevOf, FirstOf, NULL
<1>2. CASE p # NULL
  BY <1>2 DEF NextOf, PrevOf, FirstOf, NULL
<1> QED BY <1>1, <1>2

LEMMA RemoveNext ==
    ASSUME NEW B, \A c \in B : c \in Nat \ {0}, NEW a \in B, NEW p \in Nat, NEW n \in Nat,
           NextOf(B, a, n), PrevOf(B, a, p),
           NEW b \in B \ {a}, NEW nb \in Nat, NextOf(B, b, nb)
    PROVE  NextOf(B \ {a}, b, IF b = p THEN n ELSE nb)
<1>1. CASE b = p
  BY <1>1 DEF NextOf, PrevOf, NULL
<1>2. CASE b # p
  <2>1. nb # a
    BY <1>2 DEF NextOf, PrevOf, NULL
  <2> QED BY <1>2, <2>1 DEF NextOf, NULL
<1> QED BY <1>1, <1>2

LEMMA RemovePrev ==
    ASSUME NEW B, \A c \in B : c \in Nat \ {0}, NEW a \in B, NEW p \in Nat, NEW n \in Nat,
           NextOf(B, a, n), PrevOf(B, a, p),
           NEW b \in B \ {a}, NEW pb \in Nat, PrevOf(B, b, pb)
    PROVE  PrevOf(B \ {a}, b, IF b = n THEN p ELSE pb)
<1>1. CASE b = n
  BY <1>1 DEF NextOf, PrevOf, NULL
<1>2. CASE b # n
  <2>1. pb # a
    BY <1>2 DEF NextOf, PrevOf, NULL
  <2> QED BY <1>2, <2>1 DEF PrevOf, NULL
<1> QED BY <1>1, <1>2

(* Neighbours in a list. *)
LEMMA NeighboursDiffer ==
    ASSUME NEW B, \A c \in B : c \in Nat \ {0}, NEW a \in B, NEW p \in Nat, NEW n \in Nat,
           NextOf(B, a, n), PrevOf(B, a, p)
    PROVE  (p # NULL /\ n # NULL) => p # n
BY DEF NextOf, PrevOf, NULL

-----------------------------------------------------------------------------
(* What the records hold. *)
LEMMA Fields ==
    ASSUME TypeOK, Tables
    PROVE  /\ \A m \in DOMAIN majors :
                 /\ m \in Nat \ {0}
                 /\ majors[m] \in [prev : Nat, next : Nat, pages : Nat, usage : Nat, first : Nat]
                 /\ majors[m].prev \in Nat /\ majors[m].next \in Nat /\ majors[m].pages \in Nat
                 /\ majors[m].usage \in Nat /\ majors[m].first \in Nat
                 /\ BlockSize(majors[m]) \in Nat
           /\ \A a \in DOMAIN minors :
                 /\ a \in Nat \ {0}
                 /\ minors[a] \in [prev : Nat, next : Nat, block : Nat, size : Nat,
                                   req_size : Requests, diff : Nat]
                 /\ minors[a].prev \in Nat /\ minors[a].next \in Nat /\ minors[a].block \in Nat
                 /\ minors[a].size \in Nat /\ minors[a].req_size \in Requests
                 /\ minors[a].diff \in Nat /\ End(a) \in Nat /\ a < End(a)
<1>1. ASSUME NEW m \in DOMAIN majors
      PROVE  /\ m \in Nat \ {0}
             /\ majors[m] \in [prev : Nat, next : Nat, pages : Nat, usage : Nat, first : Nat]
             /\ majors[m].prev \in Nat /\ majors[m].next \in Nat /\ majors[m].pages \in Nat
             /\ majors[m].usage \in Nat /\ majors[m].first \in Nat
             /\ BlockSize(majors[m]) \in Nat
  <2>1. m \in Nat \ {0}
    BY DEF Tables
  <2>2. majors[m] \in [prev : Nat, next : Nat, pages : Nat, usage : Nat, first : Nat]
    BY DEF TypeOK
  <2>3. majors[m].pages * PAGE \in Nat
    BY <2>2, Sizes
  <2> QED BY <2>1, <2>2, <2>3 DEF BlockSize
<1>2. ASSUME NEW a \in DOMAIN minors
      PROVE  /\ a \in Nat \ {0}
             /\ minors[a] \in [prev : Nat, next : Nat, block : Nat, size : Nat,
                               req_size : Requests, diff : Nat]
             /\ minors[a].prev \in Nat /\ minors[a].next \in Nat /\ minors[a].block \in Nat
             /\ minors[a].size \in Nat /\ minors[a].req_size \in Requests
             /\ minors[a].diff \in Nat /\ End(a) \in Nat /\ a < End(a)
  <2>1. a \in Nat \ {0}
    BY DEF Tables
  <2>2. minors[a] \in [prev : Nat, next : Nat, block : Nat, size : Nat,
                       req_size : Requests, diff : Nat]
    BY DEF TypeOK
  <2> QED BY <2>1, <2>2, Sizes DEF End
<1> QED BY <1>1, <1>2, Zenon

(***************************************************************************)
(* A place for the request at a, between the minors p and n of call.maj,   *)
(* as each of the cases of malloc finds one.                               *)
(***************************************************************************)
Slot(a, p, n) ==
    /\ call.req \in Requests /\ call.maj \in DOMAIN majors
    /\ a \in Nat /\ p \in Nat /\ n \in Nat
    /\ call.maj + MAJOR <= a
    /\ IF p = NULL THEN n = majors[call.maj].first
       ELSE p \in InBlock(call.maj) /\ End(p) <= a /\ n = minors[p].next
    /\ IF n = NULL THEN a + Need(call.req) <= call.maj + BlockSize(majors[call.maj])
       ELSE a + Need(call.req) <= n

LEMMA SlotIsClear ==
    ASSUME TypeOK, Tables, Disjoint, Lists, NEW a, NEW p, NEW n, Slot(a, p, n)
    PROVE  /\ Between(InBlock(call.maj), a, p, n)
           /\ a + Need(call.req) <= call.maj + BlockSize(majors[call.maj])
           /\ \A b \in DOMAIN minors : End(b) <= a \/ a + Need(call.req) <= b
           /\ a \notin DOMAIN minors
<1> DEFINE m == call.maj
           B == InBlock(m)
           need == Need(call.req)
           top == m + BlockSize(majors[m])
<1>1. /\ m \in DOMAIN majors /\ m \in Nat \ {0} /\ a \in Nat /\ p \in Nat /\ n \in Nat
      /\ need \in Nat \ {0} /\ top \in Nat /\ m + MAJOR <= a /\ a \in Nat \ {0}
  <2>1. m \in DOMAIN majors /\ a \in Nat /\ p \in Nat /\ n \in Nat /\ m + MAJOR <= a
    BY DEF Slot
  <2>2. need \in Nat \ {0}
    BY RequestSize DEF Slot
  <2>3. m \in Nat \ {0} /\ BlockSize(majors[m]) \in Nat
    BY <2>1, Fields
  <2> QED BY <2>1, <2>2, <2>3, Sizes
<1>2. \A b \in B : /\ b \in DOMAIN minors /\ minors[b].block = m
                   /\ b \in Nat \ {0} /\ End(b) \in Nat /\ b < End(b)
                   /\ End(b) <= top
  BY Fields DEF InBlock, Disjoint
<1>3. /\ p # NULL => p \in B /\ End(p) <= a /\ p < a
      /\ n # NULL => n \in B /\ a < n /\ a + need <= n
      /\ \A b \in B : (p # NULL /\ b <= p) \/ (n # NULL /\ n <= b)
      /\ a + need <= top
  <2> HIDE DEF B, m, need, top
  <2>1. /\ IF p = NULL THEN n = majors[m].first
           ELSE p \in B /\ End(p) <= a /\ n = minors[p].next
        /\ IF n = NULL THEN a + need <= top ELSE a + need <= n
    BY DEF Slot, B, m, need, top
  <2>2. FirstOf(B, majors[m].first)
    BY <1>1 DEF Lists, B
  <2>3. p # NULL => NextOf(B, p, minors[p].next)
    <3>1. p # NULL => p \in B
      BY <2>1
    <3>2. \A b \in B : NextOf(B, b, minors[b].next)
      BY <1>2 DEF Lists, B
    <3> QED BY <3>1, <3>2
  <2>4. CASE p = NULL
    <3>1. /\ n = majors[m].first
          /\ IF n = NULL THEN B = {} ELSE n \in B /\ \A c \in B : n <= c
      BY <2>1, <2>2, <2>4 DEF FirstOf
    <3> QED BY <1>1, <1>2, <2>1, <2>4, <3>1
  <2>5. CASE p # NULL
    <3>1. /\ p \in B /\ End(p) <= a
          /\ IF n = NULL THEN \A c \in B : c <= p
             ELSE n \in B /\ p < n /\ \A c \in B : c <= p \/ n <= c
      BY <2>1, <2>3, <2>5 DEF NextOf
    <3>2. p < a
      BY <1>1, <1>2, <3>1
    <3>3. CASE n = NULL
      BY <2>1, <2>5, <3>1, <3>2, <3>3
    <3>4. CASE n # NULL
      BY <1>1, <1>2, <2>1, <2>5, <3>1, <3>2, <3>4
    <3> QED BY <3>3, <3>4
  <2> QED BY <2>4, <2>5
<1>4. Between(B, a, p, n)
  <2> HIDE DEF B, m, need, top
  <2> QED BY <1>1, <1>2, <1>3 DEF Between
<1>5. ASSUME NEW b \in DOMAIN minors PROVE End(b) <= a \/ a + need <= b
  <2>1. /\ minors[b].block \in DOMAIN majors /\ b \in Nat /\ End(b) \in Nat
        /\ minors[b].block + MAJOR <= b
        /\ End(b) <= minors[b].block + BlockSize(majors[minors[b].block])
    BY Fields DEF Disjoint
  <2>2. CASE minors[b].block = m
    <3>1. b \in B
      BY <2>2 DEF InBlock
    <3>2. CASE p # NULL /\ b <= p
      <4>1. b = p \/ b < p
        BY <1>1, <2>1, <3>2
      <4>2. b < p => End(b) <= p
        BY <1>2, <1>3, <3>2 DEF Disjoint
      <4> HIDE DEF need
      <4> QED BY <1>1, <1>3, <2>1, <3>2, <4>1, <4>2
    <3>3. CASE n # NULL /\ n <= b
      <4> HIDE DEF need
      <4> QED BY <1>1, <1>3, <2>1, <3>3
    <3> HIDE DEF B
    <3> QED BY <1>3, <3>1, <3>2, <3>3
  <2>3. CASE minors[b].block # m
    <3> DEFINE o == minors[b].block
    <3>1. o \in Nat /\ BlockSize(majors[o]) \in Nat
      BY <2>1, Fields
    <3>2. o < m \/ m < o
      BY <1>1, <2>3, <3>1
    <3>3. (o < m => o + BlockSize(majors[o]) <= m) /\ (m < o => top <= o)
      BY <1>1, <2>1 DEF Disjoint
    <3> HIDE DEF top, need, m, o
    <3>4. End(b) <= o + BlockSize(majors[o]) /\ o + MAJOR <= b
      BY <2>1 DEF o
    <3>5. CASE o < m
      BY <1>1, <2>1, <3>1, <3>3, <3>4, <3>5, Sizes
    <3>6. CASE m < o
      BY <1>1, <1>3, <2>1, <3>1, <3>3, <3>4, <3>6, Sizes
    <3> QED BY <3>2, <3>5, <3>6
  <2> QED BY <2>2, <2>3
<1>6. a \notin DOMAIN minors
  <2> SUFFICES ASSUME a \in DOMAIN minors PROVE FALSE
    OBVIOUS
  <2>1. End(a) \in Nat /\ a < End(a)
    BY Fields
  <2> HIDE DEF need
  <2> QED BY <1>1, <1>5, <2>1
<1> QED BY <1>3, <1>4, <1>5, <1>6

(* The records after Place. *)
Placed(a, p, n) ==
    /\ DOMAIN minors' = DOMAIN minors \cup {a}
    /\ minors'[a] \in [prev : Nat, next : Nat, block : Nat, size : Nat,
                       req_size : Requests, diff : Nat]
    /\ minors'[a].prev = p /\ minors'[a].next = n /\ minors'[a].block = call.maj
    /\ minors'[a].size = Size(call.req) /\ minors'[a].req_size = call.req
    /\ minors'[a].diff = Pointer(a) - (a + MINOR)
    /\ \A b \in DOMAIN minors :
          /\ b # a
          /\ minors'[b] \in [prev : Nat, next : Nat, block : Nat, size : Nat,
                             req_size : Requests, diff : Nat]
          /\ minors'[b].block = minors[b].block /\ minors'[b].size = minors[b].size
          /\ minors'[b].req_size = minors[b].req_size /\ minors'[b].diff = minors[b].diff
          /\ minors'[b].next = IF b = p THEN a ELSE minors[b].next
          /\ minors'[b].prev = IF b = n THEN a ELSE minors[b].prev
    /\ minors' = [b \in DOMAIN minors' |-> minors'[b]]
    /\ DOMAIN majors' = DOMAIN majors
    /\ majors' = [m \in DOMAIN majors' |-> majors'[m]]
    /\ \A m \in DOMAIN majors :
          /\ majors'[m] \in [prev : Nat, next : Nat, pages : Nat, usage : Nat, first : Nat]
          /\ majors'[m].prev = majors[m].prev /\ majors'[m].next = majors[m].next
          /\ majors'[m].pages = majors[m].pages
          /\ majors'[m].usage = IF m = call.maj THEN majors[m].usage + Need(call.req)
                                ELSE majors[m].usage
          /\ majors'[m].first = IF m = call.maj /\ p = NULL THEN a ELSE majors[m].first

LEMMA PlaceFields ==
    ASSUME TypeOK, Tables, NEW a, NEW p, NEW n, Slot(a, p, n), a \notin DOMAIN minors,
           (p # NULL /\ n # NULL) => p # n, Place(a, p, n)
    PROVE  Placed(a, p, n)
<1> DEFINE mi == [prev : Nat, next : Nat, block : Nat, size : Nat, req_size : Requests, diff : Nat]
           new == [prev |-> p, next |-> n, block |-> call.maj, size |-> Size(call.req),
                   req_size |-> call.req, diff |-> Pointer(a) - (a + MINOR)]
           Upd(m) == IF m = a THEN new
                     ELSE IF m = p THEN [minors[m] EXCEPT !.next = a]
                     ELSE IF m = n THEN [minors[m] EXCEPT !.prev = a]
                     ELSE minors[m]
<1>1. minors' = [m \in DOMAIN minors \cup {a} |-> Upd(m)]
  BY Zenon DEF Place
<1>2. /\ a \in Nat /\ p \in Nat /\ n \in Nat /\ call.maj \in DOMAIN majors /\ call.maj \in Nat
      /\ call.req \in Requests /\ Size(call.req) \in Nat
      /\ Need(call.req) \in Nat /\ Need(call.req) = Size(call.req) + MINOR
  BY Fields, RequestSize DEF Slot
<1>3. Pointer(a) - (a + MINOR) \in Nat
  BY <1>2, PointerIs, Sizes
<1>4. new \in mi
  BY <1>2, <1>3
<1>5. /\ DOMAIN minors' = DOMAIN minors \cup {a}
      /\ minors' = [b \in DOMAIN minors' |-> minors'[b]]
      /\ minors'[a] = new
      /\ \A b \in DOMAIN minors : b # a /\ minors'[b] = Upd(b)
  <2> HIDE DEF Upd, new
  <2>1. DOMAIN minors' = DOMAIN minors \cup {a} /\ minors'[a] = Upd(a)
        /\ \A b \in DOMAIN minors : b # a /\ minors'[b] = Upd(b)
    BY <1>1
  <2>2. minors' = [b \in DOMAIN minors' |-> minors'[b]]
    BY <1>1
  <2> QED BY <2>1, <2>2 DEF Upd
<1>6. ASSUME NEW b \in DOMAIN minors
      PROVE  /\ minors'[b] \in mi
             /\ minors'[b].block = minors[b].block /\ minors'[b].size = minors[b].size
             /\ minors'[b].req_size = minors[b].req_size /\ minors'[b].diff = minors[b].diff
             /\ minors'[b].next = IF b = p THEN a ELSE minors[b].next
             /\ minors'[b].prev = IF b = n THEN a ELSE minors[b].prev
  <2>1. minors[b] \in mi /\ b # NULL
    BY Fields DEF NULL
  <2>2. minors'[b] = Upd(b) /\ b # a
    BY <1>5
  <2>3. CASE b = p
    <3>1. minors'[b] = [minors[b] EXCEPT !.next = a] /\ b # n
      BY <2>1, <2>2, <2>3
    <3> QED BY <1>2, <2>1, <2>3, <3>1
  <2>4. CASE b # p /\ b = n
    <3>1. minors'[b] = [minors[b] EXCEPT !.prev = a]
      BY <2>2, <2>4
    <3> QED BY <1>2, <2>1, <2>4, <3>1
  <2>5. CASE b # p /\ b # n
    <3>1. minors'[b] = minors[b]
      BY <2>2, <2>5
    <3> QED BY <2>1, <2>5, <3>1
  <2> QED BY <2>3, <2>4, <2>5
<1>7. majors' = [majors EXCEPT ![call.maj].usage = @ + Size(call.req) + MINOR,
                               ![call.maj].first = FirstAfter(a, p)]
  BY Zenon DEF Place
<1>8. /\ DOMAIN majors' = DOMAIN majors
      /\ majors' = [m \in DOMAIN majors' |-> majors'[m]]
  <2>1. majors = [m \in DOMAIN majors |-> majors[m]]
    BY DEF TypeOK
  <2> QED BY <1>7, <2>1
<1>9. ASSUME NEW m \in DOMAIN majors
      PROVE  /\ majors'[m] \in [prev : Nat, next : Nat, pages : Nat, usage : Nat, first : Nat]
             /\ majors'[m].prev = majors[m].prev /\ majors'[m].next = majors[m].next
             /\ majors'[m].pages = majors[m].pages
             /\ majors'[m].usage = IF m = call.maj THEN majors[m].usage + Need(call.req)
                                   ELSE majors[m].usage
             /\ majors'[m].first = IF m = call.maj /\ p = NULL THEN a ELSE majors[m].first
  <2>1. majors[m] \in [prev : Nat, next : Nat, pages : Nat, usage : Nat, first : Nat]
    BY Fields
  <2>2. CASE m # call.maj
    <3>1. majors'[m] = majors[m]
      BY <1>2, <1>7, <2>2
    <3> QED BY <2>1, <2>2, <3>1
  <2>3. CASE m = call.maj
    <3> DEFINE u == majors[m].usage + Size(call.req) + MINOR
               f == IF p = NULL THEN a ELSE majors[m].first
    <3>1. majors'[m] = [majors[m] EXCEPT !.usage = u, !.first = f]
      BY <1>2, <1>7, <2>3 DEF FirstAfter, M
    <3>2. u \in Nat /\ u = majors[m].usage + Need(call.req) /\ f \in Nat
      BY <1>2, <2>1, Sizes
    <3> HIDE DEF u
    <3> QED BY <2>1, <2>3, <3>1, <3>2
  <2> QED BY <2>2, <2>3
<1>10. /\ minors'[a] \in mi
       /\ minors'[a].prev = p /\ minors'[a].next = n /\ minors'[a].block = call.maj
       /\ minors'[a].size = Size(call.req) /\ minors'[a].req_size = call.req
       /\ minors'[a].diff = Pointer(a) - (a + MINOR)
  <2>1. minors'[a] = new
    BY <1>5
  <2> QED BY <1>4, <2>1
<1> QED BY <1>5, <1>6, <1>8, <1>9, <1>10, Zenon DEF Placed

(* InBlock for the minors of either state. *)
Of(mins, m) == {b \in DOMAIN mins : mins[b].block = m}

LEMMA PlaceKeepsLists ==
    ASSUME TypeOK, Tables, Disjoint, Lists, NEW a, NEW p, NEW n, Slot(a, p, n), Place(a, p, n)
    PROVE  /\ Lists' /\ Disjoint'
           /\ \A m : Of(minors', m) = IF m = call.maj THEN InBlock(m) \cup {a} ELSE InBlock(m)
           /\ Placed(a, p, n) /\ a \notin DOMAIN minors /\ a # 0
<1> DEFINE B == InBlock(call.maj)
<1>1. /\ Between(B, a, p, n) /\ a \notin DOMAIN minors
      /\ a + Need(call.req) <= call.maj + BlockSize(majors[call.maj])
      /\ \A b \in DOMAIN minors : End(b) <= a \/ a + Need(call.req) <= b
  BY SlotIsClear
<1>2. /\ a \in Nat /\ p \in Nat /\ n \in Nat /\ call.maj \in DOMAIN majors
      /\ call.maj + MAJOR <= a /\ call.req \in Requests
  BY DEF Slot
<1>3. /\ NextOf(B \cup {a}, a, n) /\ PrevOf(B \cup {a}, a, p)
      /\ (p # NULL /\ n # NULL) => p # n
  <2> HIDE DEF B
  <2> QED BY <1>1, <1>2, InsertAt
<1>a. Placed(a, p, n)
  BY <1>1, <1>3, PlaceFields, Zenon
<1>4. /\ DOMAIN minors' = DOMAIN minors \cup {a} /\ DOMAIN majors' = DOMAIN majors
      /\ minors'[a].prev = p /\ minors'[a].next = n /\ minors'[a].block = call.maj
      /\ minors'[a].size = Size(call.req)
  BY <1>a, Zenon DEF Placed
<1>5. \A b \in DOMAIN minors :
         /\ minors'[b].block = minors[b].block /\ minors'[b].size = minors[b].size
         /\ minors'[b].next = IF b = p THEN a ELSE minors[b].next
         /\ minors'[b].prev = IF b = n THEN a ELSE minors[b].prev
  BY <1>a, Zenon DEF Placed
<1>6. \A m \in DOMAIN majors :
         /\ majors'[m].pages = majors[m].pages
         /\ majors'[m].first = IF m = call.maj /\ p = NULL THEN a ELSE majors[m].first
  BY <1>a, Zenon DEF Placed
<1>7. \A m : Of(minors', m) = IF m = call.maj THEN InBlock(m) \cup {a} ELSE InBlock(m)
  BY <1>1, <1>4, <1>5 DEF InBlock, Of
<1>8. Lists'
  <2>1. ASSUME NEW m \in DOMAIN majors'
        PROVE  FirstOf(Of(minors', m), majors'[m].first)
    <3>1. m \in DOMAIN majors /\ FirstOf(InBlock(m), majors[m].first) /\ majors[m].first \in Nat
      BY <1>4, Fields DEF Lists
    <3>2. CASE m = call.maj
      <4>1. FirstOf(InBlock(m) \cup {a}, IF p = NULL THEN a ELSE majors[m].first)
        BY <1>1, <1>2, <3>1, <3>2, InsertFirst
      <4>2. majors'[m].first = IF p = NULL THEN a ELSE majors[m].first
        BY <1>6, <3>1, <3>2
      <4>3. Of(minors', m) = InBlock(m) \cup {a}
        BY <1>7, <3>2
      <4> QED BY <4>1, <4>2, <4>3, Zenon
    <3>3. CASE m # call.maj
      <4>1. majors'[m].first = majors[m].first /\ Of(minors', m) = InBlock(m)
        BY <1>6, <1>7, <3>1, <3>3
      <4> QED BY <3>1, <4>1, Zenon
    <3> QED BY <3>2, <3>3
  <2>2. ASSUME NEW b \in DOMAIN minors'
        PROVE  /\ NextOf(Of(minors', minors'[b].block), b, minors'[b].next)
               /\ PrevOf(Of(minors', minors'[b].block), b, minors'[b].prev)
    <3>1. CASE b = a
      <4>1. Of(minors', minors'[b].block) = B \cup {a} /\ minors'[b].next = n /\ minors'[b].prev = p
        BY <1>4, <1>7, <3>1
      <4> QED BY <1>3, <3>1, <4>1, Zenon
    <3>2. CASE b # a
      <4>1. b \in DOMAIN minors
        BY <1>4, <3>2
      <4>2. /\ NextOf(InBlock(minors[b].block), b, minors[b].next)
            /\ PrevOf(InBlock(minors[b].block), b, minors[b].prev)
            /\ minors[b].next \in Nat /\ minors[b].prev \in Nat
        BY <4>1, Fields DEF Lists
      <4>3. minors'[b].block = minors[b].block
        BY <1>5, <4>1
      <4>5. CASE minors[b].block = call.maj
        <5>1. b \in B /\ InBlock(minors[b].block) = B
          BY <4>1, <4>5 DEF InBlock
        <5>2. Of(minors', minors'[b].block) = B \cup {a}
          BY <1>7, <4>3, <4>5
        <5> HIDE DEF B
        <5>4. /\ NextOf(B \cup {a}, b, IF b = p THEN a ELSE minors[b].next)
              /\ PrevOf(B \cup {a}, b, IF b = n THEN a ELSE minors[b].prev)
          BY <1>1, <1>2, <4>2, <5>1, InsertNext, InsertPrev
        <5> QED BY <1>5, <4>1, <5>2, <5>4, Zenon
      <4>6. CASE minors[b].block # call.maj
        <5>1. Of(minors', minors'[b].block) = InBlock(minors[b].block)
          BY <1>7, <4>3, <4>6
        <5>2. b # p /\ b # n
          BY <1>1, <4>1, <4>6, Fields DEF Between, InBlock, NULL
        <5>3. minors'[b].next = minors[b].next /\ minors'[b].prev = minors[b].prev
          BY <1>5, <4>1, <5>2
        <5> QED BY <4>2, <5>1, <5>3, Zenon
      <4> QED BY <4>5, <4>6
    <3> QED BY <3>1, <3>2
  <2> QED BY <2>1, <2>2, Zenon DEF Lists, InBlock, Of
<1>9. /\ \A b \in DOMAIN minors : End(b)' = End(b) /\ b \in Nat /\ End(b) \in Nat /\ b < End(b)
      /\ End(a)' = a + Need(call.req) /\ Need(call.req) \in Nat \ {0}
  <2>1. /\ Need(call.req) = Size(call.req) + MINOR /\ Size(call.req) \in Nat
        /\ Need(call.req) \in Nat \ {0}
    BY <1>2, RequestSize
  <2>2. \A b \in DOMAIN minors : End(b)' = End(b)
    BY <1>5 DEF End
  <2>3. End(a)' = a + MINOR + Size(call.req)
    BY <1>4 DEF End
  <2> QED BY <1>2, <2>1, <2>2, <2>3, Fields, Sizes
<1>10. \A m \in DOMAIN majors : BlockSize(majors'[m]) = BlockSize(majors[m])
  BY <1>6 DEF BlockSize
<1>11. Disjoint'
  <2>1. ASSUME NEW b \in DOMAIN minors'
        PROVE  LET m == minors'[b].block IN
               /\ m \in DOMAIN majors'
               /\ m + MAJOR <= b /\ End(b)' <= m + BlockSize(majors'[m])
    <3>1. CASE b = a
      BY <1>1, <1>2, <1>4, <1>9, <1>10, <3>1
    <3>2. CASE b # a
      <4>1. b \in DOMAIN minors /\ minors'[b].block = minors[b].block /\ End(b)' = End(b)
        BY <1>4, <1>5, <1>9, <3>2
      <4> QED BY <1>4, <1>10, <4>1 DEF Disjoint
    <3> QED BY <3>1, <3>2
  <2>2. ASSUME NEW b \in DOMAIN minors', NEW c \in DOMAIN minors', b < c
        PROVE  End(b)' <= c
    <3> DEFINE need == Need(call.req)
    <3>1. need \in Nat \ {0} /\ End(a)' = a + need
          /\ \A d \in DOMAIN minors : End(d) <= a \/ a + need <= d
      BY <1>1, <1>9
    <3> HIDE DEF need
    <3>2. CASE b = a
      BY <1>2, <1>4, <1>9, <2>2, <3>1, <3>2
    <3>3. CASE b # a /\ c = a
      BY <1>2, <1>4, <1>9, <2>2, <3>1, <3>3
    <3>4. CASE b # a /\ c # a
      BY <1>4, <1>9, <2>2, <3>4 DEF Disjoint
    <3> QED BY <3>2, <3>3, <3>4
  <2>3. \A m, o \in DOMAIN majors' : m < o => m + BlockSize(majors'[m]) <= o
    BY <1>4, <1>10 DEF Disjoint
  <2> QED BY <2>1, <2>2, <2>3 DEF Disjoint
<1> QED BY <1>1, <1>7, <1>8, <1>11, <1>a DEF Between

(* The totals, as sums over sets. *)
LEMMA Totals ==
    ASSUME TotalsExact
    PROVE  /\ \A m \in DOMAIN majors :
                 majors[m].usage = MAJOR + SumFunctionOnSet(Extents, InBlock(m))
           /\ l_inuse = SumFunctionOnSet(Held, DOMAIN minors)
           /\ l_allocated = SumFunctionOnSet(Lengths, DOMAIN majors)
<1>1. DOMAIN Held = DOMAIN minors /\ DOMAIN Lengths = DOMAIN majors
  BY DEF Held, Lengths
<1> QED BY <1>1 DEF TotalsExact, SumFunction

(* Block sizes, when the pages of the blocks stay. *)
LEMMA SameLengths ==
    ASSUME TypeOK, Tables, DOMAIN majors' = DOMAIN majors,
           \A m \in DOMAIN majors : majors'[m].pages = majors[m].pages
    PROVE  SumFunctionOnSet(Lengths', DOMAIN majors) = SumFunctionOnSet(Lengths, DOMAIN majors)
<1>1. Agree(Lengths, Lengths', DOMAIN majors)
  BY DEF Agree, Lengths, BlockSize
<1> QED BY <1>1, SumStays DEF Tables

LEMMA PlaceKeepsTotals ==
    ASSUME TypeOK, Tables, TotalsExact, NEW a, NEW p, NEW n, Slot(a, p, n), Place(a, p, n),
           Placed(a, p, n), a \notin DOMAIN minors,
           \A m : Of(minors', m) = IF m = call.maj THEN InBlock(m) \cup {a} ELSE InBlock(m)
    PROVE  TotalsExact' /\ l_inuse' \in Nat
<1>1. call.req \in Requests /\ call.maj \in DOMAIN majors
  BY DEF Slot
<1>2. /\ Need(call.req) = Size(call.req) + MINOR /\ Size(call.req) \in Nat
      /\ Need(call.req) \in Nat
  BY <1>1, RequestSize
<1>3. /\ DOMAIN minors' = DOMAIN minors \cup {a} /\ DOMAIN majors' = DOMAIN majors
      /\ minors'[a].size = Size(call.req)
      /\ \A b \in DOMAIN minors : b # a /\ minors'[b].size = minors[b].size
  BY Zenon DEF Placed
<1>4. \A m \in DOMAIN majors :
         /\ majors'[m].pages = majors[m].pages
         /\ majors'[m].usage = IF m = call.maj THEN majors[m].usage + Need(call.req)
                               ELSE majors[m].usage
  BY Zenon DEF Placed
<1>5. l_inuse' = l_inuse + Size(call.req) /\ l_allocated' = l_allocated
  BY DEF Place
<1>6. /\ \A b \in DOMAIN minors : /\ Held[b] \in Nat /\ Held'[b] = Held[b]
                                  /\ Extents[b] \in Nat /\ Extents'[b] = Extents[b]
      /\ Held'[a] = Size(call.req) /\ Extents'[a] = Need(call.req)
      /\ DOMAIN Held' = DOMAIN minors' /\ DOMAIN Lengths' = DOMAIN majors'
  BY <1>2, <1>3, Fields, Sizes DEF Held, Extents, Lengths
<1>7. /\ SumFunctionOnSet(Held', DOMAIN minors') = Size(call.req) + l_inuse
      /\ l_inuse \in Nat
  <2>1. Agree(Held, Held', DOMAIN minors) /\ IsFiniteSet(DOMAIN minors)
    BY <1>6 DEF Agree, Tables
  <2>2. PICK h : h = Held'
    OBVIOUS
  <2>3. /\ SumFunctionOnSet(Held, DOMAIN minors) \in Nat
        /\ SumFunctionOnSet(h, DOMAIN minors \cup {a})
              = h[a] + SumFunctionOnSet(Held, DOMAIN minors)
    BY <1>2, <1>6, <2>1, <2>2, SumGrows
  <2>4. l_inuse = SumFunctionOnSet(Held, DOMAIN minors)
    BY Totals
  <2> QED BY <1>3, <1>6, <2>2, <2>3, <2>4
<1>8. SumFunctionOnSet(Lengths', DOMAIN majors') = l_allocated
  <2>1. SumFunctionOnSet(Lengths', DOMAIN majors) = SumFunctionOnSet(Lengths, DOMAIN majors)
    BY <1>3, <1>4, SameLengths
  <2>2. l_allocated = SumFunctionOnSet(Lengths, DOMAIN majors)
    BY Totals
  <2> QED BY <1>3, <2>1, <2>2
<1>9. ASSUME NEW m \in DOMAIN majors
      PROVE  majors'[m].usage = MAJOR + SumFunctionOnSet(Extents', Of(minors', m))
  <2> DEFINE B == InBlock(m)
  <2>1. /\ B \subseteq DOMAIN minors /\ IsFiniteSet(B) /\ a \notin B
        /\ Agree(Extents, Extents', B) /\ \A b \in B : Extents[b] \in Nat
    <3>1. B \subseteq DOMAIN minors
      BY DEF InBlock
    <3>2. IsFiniteSet(B)
      BY <3>1, FS_Subset DEF Tables
    <3> QED BY <1>6, <3>1, <3>2 DEF Agree
  <2>2. majors[m].usage = MAJOR + SumFunctionOnSet(Extents, B)
    BY Totals
  <2>3. PICK h : h = Extents'
    OBVIOUS
  <2>4. CASE m = call.maj
    <3>1. Of(minors', m) = B \cup {a}
      BY <2>4
    <3> HIDE DEF B
    <3>a. h[a] \in Nat /\ Agree(Extents, h, B)
      BY <1>2, <1>6, <2>1, <2>3
    <3>2. /\ SumFunctionOnSet(Extents, B) \in Nat
          /\ SumFunctionOnSet(h, B \cup {a}) = h[a] + SumFunctionOnSet(Extents, B)
      BY <2>1, <3>a, SumGrows, Zenon
    <3>3. h[a] = Need(call.req) /\ majors'[m].usage = majors[m].usage + Need(call.req)
      BY <1>4, <1>6, <2>3, <2>4
    <3>4. SumFunctionOnSet(Extents', Of(minors', m)) = Need(call.req) + SumFunctionOnSet(Extents, B)
      BY <2>3, <3>1, <3>2, <3>3
    <3> QED BY <1>2, <2>2, <3>2, <3>3, <3>4, Sizes
  <2>5. CASE m # call.maj
    <3>1. Of(minors', m) = B /\ majors'[m].usage = majors[m].usage
      BY <1>4, <2>5
    <3> HIDE DEF B
    <3>2. SumFunctionOnSet(h, B) = SumFunctionOnSet(Extents, B)
      BY <2>1, <2>3, SumStays
    <3> QED BY <2>2, <2>3, <3>1, <3>2
  <2> QED BY <2>4, <2>5
<1>10. /\ l_inuse' = SumFunctionOnSet(Held', DOMAIN Held')
       /\ l_allocated' = SumFunctionOnSet(Lengths', DOMAIN Lengths')
  BY <1>2, <1>5, <1>6, <1>7, <1>8
<1>11. \A m \in DOMAIN majors' : majors'[m].usage = MAJOR + SumFunctionOnSet(Extents', InBlock(m)')
  BY <1>3, <1>9 DEF InBlock, Of
<1>12. TotalsExact'
  BY <1>10, <1>11 DEF TotalsExact, SumFunction
<1> QED BY <1>2, <1>5, <1>7, <1>12

LEMMA PlaceKeeps ==
    ASSUME HInv, NEW a, NEW p, NEW n, Slot(a, p, n), Place(a, p, n), halted = "no",
           pc \in {"search", "fresh"}, l_bestBet' \in DOMAIN majors \cup {NULL}
    PROVE  HInv'
<1> USE DEF HInv
<1>1. /\ Lists' /\ Disjoint'
      /\ \A m : Of(minors', m) = IF m = call.maj THEN InBlock(m) \cup {a} ELSE InBlock(m)
      /\ Placed(a, p, n) /\ a \notin DOMAIN minors /\ a # 0
  BY PlaceKeepsLists, Zenon
<1>2. TotalsExact' /\ l_inuse' \in Nat
  BY <1>1, PlaceKeepsTotals, Zenon
<1> USE DEF NULL
<1>3. /\ DOMAIN minors' = DOMAIN minors \cup {a} /\ DOMAIN majors' = DOMAIN majors
      /\ minors' = [b \in DOMAIN minors' |-> minors'[b]]
      /\ majors' = [m \in DOMAIN majors' |-> majors'[m]]
  BY <1>1, Zenon DEF Placed
<1>4. /\ frames' = frames /\ l_memRoot' = l_memRoot /\ l_allocated' = l_allocated
      /\ halted' = halted /\ pc' = "idle" /\ used' = used
  BY DEF Place
<1>5. \A m \in DOMAIN majors :
         /\ majors'[m] \in [prev : Nat, next : Nat, pages : Nat, usage : Nat, first : Nat]
         /\ majors'[m].prev = majors[m].prev /\ majors'[m].next = majors[m].next
         /\ majors'[m].pages = majors[m].pages
         /\ majors'[m].first = IF m = call.maj /\ p = NULL THEN a ELSE majors[m].first
  BY <1>1, Zenon DEF Placed
<1>6. TypeOK'
  <2>1. majors' \in [DOMAIN majors' ->
                       [prev : Nat, next : Nat, pages : Nat, usage : Nat, first : Nat]]
    BY <1>3, <1>5
  <2>2. minors' \in [DOMAIN minors' ->
                       [prev : Nat, next : Nat, block : Nat, size : Nat, req_size : Requests,
                        diff : Nat]]
    <3>1. \A b \in DOMAIN minors' : minors'[b] \in
                       [prev : Nat, next : Nat, block : Nat, size : Nat, req_size : Requests,
                        diff : Nat]
      BY <1>1, <1>3 DEF Placed
    <3> QED BY <1>3, <3>1
  <2> QED BY <1>2, <1>3, <1>4, <2>1, <2>2 DEF TypeOK
<1>7. Tables'
  <2>1. IsFiniteSet(DOMAIN minors \cup {a}) /\ a \in Nat
    BY FS_AddElement DEF Tables, Slot
  <2>2. call' \in Calls
    BY DEF Place, NoCall, Calls
  <2> QED BY <1>1, <1>3, <1>4, <2>1, <2>2 DEF Tables
<1>8. InFrames'
  <2>1. \A m \in DOMAIN majors : \A f : Framed(m, f) => Framed(m, f)'
    BY <1>4, <1>5 DEF Framed
  <2>2. \A m \in DOMAIN majors : \E f \in 1 .. NFRAMES - 1 : Framed(m, f)'
    BY <2>1 DEF InFrames
  <2> QED BY <1>3, <1>4, <2>2 DEF InFrames
<1>9. Written'
  BY <1>1, <1>3 DEF Written, Placed
<1>10. BlocksLinked'
  <2>1. majors = EmptyMap => call.maj \notin DOMAIN majors
    BY DEF EmptyMap
  <2>2. majors' = EmptyMap => DOMAIN majors' = {}
    BY DEF EmptyMap
  <2>3. call.maj \in DOMAIN majors
    BY DEF Slot
  <2>4. ASSUME NEW m \in DOMAIN majors
        PROVE  /\ majors'[m].prev = NULL <=> m = l_memRoot
               /\ majors'[m].prev # NULL =>
                     majors'[m].prev \in DOMAIN majors /\ majors'[majors'[m].prev].next = m
               /\ majors'[m].next # NULL =>
                     majors'[m].next \in DOMAIN majors /\ majors'[majors'[m].next].prev = m
    BY <1>5 DEF BlocksLinked
  <2>5. l_memRoot = NULL <=> majors' = EmptyMap
    BY <1>3, <2>1, <2>2, <2>3 DEF BlocksLinked
  <2> QED BY <1>3, <1>4, <2>4, <2>5 DEF BlocksLinked
<1>11. Ranked'
  BY <1>3, <1>5 DEF Ranked
<1>12. BestBetLives'
  BY <1>3 DEF BestBetLives
<1>13. EmptyBlocks'
  <2>1. ASSUME NEW m \in DOMAIN majors, majors'[m].first = NULL PROVE FALSE
    <3>1. m = call.maj /\ majors[m].first = NULL /\ p # NULL
      BY <1>1, <1>5, <2>1 DEF EmptyBlocks
    <3>2. p \in InBlock(m)
      BY <3>1 DEF Slot
    <3>3. InBlock(m) = {}
      BY <3>1 DEF Lists, FirstOf
    <3> QED BY <3>2, <3>3
  <2> QED BY <1>3, <1>4, <2>1 DEF EmptyBlocks
<1> QED BY <1>1, <1>2, <1>6, <1>7, <1>8, <1>9, <1>10, <1>11, <1>12, <1>13

-----------------------------------------------------------------------------
(* The records, and the frames, after allocate_new_page for req. *)
New(req, prv, a) ==
    /\ a \in Nat \ {0} /\ a \notin DOMAIN majors
    /\ DOMAIN majors' = DOMAIN majors \cup {a}
    /\ majors' = [m \in DOMAIN majors' |-> majors'[m]]
    /\ majors'[a] \in [prev : Nat, next : Nat, pages : Nat, usage : Nat, first : Nat]
    /\ majors'[a].prev = prv /\ majors'[a].next = NULL
    /\ majors'[a].usage = MAJOR /\ majors'[a].first = NULL
    /\ \A m \in DOMAIN majors :
          /\ m # a
          /\ majors'[m] \in [prev : Nat, next : Nat, pages : Nat, usage : Nat, first : Nat]
          /\ majors'[m].prev = majors[m].prev
          /\ majors'[m].next = IF m = prv THEN a ELSE majors[m].next
          /\ majors'[m].pages = majors[m].pages /\ majors'[m].usage = majors[m].usage
          /\ majors'[m].first = majors[m].first
          /\ m < a => m + BlockSize(majors[m]) <= a
          /\ a < m => a + BlockSize(majors'[a]) <= m
    /\ MAJOR + Need(req) <= BlockSize(majors'[a]) /\ BlockSize(majors'[a]) \in Nat
    /\ InFrames' /\ frames' \subseteq 0 .. BITS - 1 /\ used' \subseteq Nat
    /\ l_allocated' = l_allocated + BlockSize(majors'[a])
    /\ UNCHANGED <<minors, l_inuse, halted>>

LEMMA NewFields ==
    ASSUME TypeOK, Tables, InFrames, damage' # "memory", NEW req \in Requests,
           NEW prv \in DOMAIN majors \cup {NULL}, NEW a \in PageAddresses,
           allocate_new_page(Size(req), prv, a)
    PROVE  New(req, prv, a)
<1> DEFINE st == PagesFor(Size(req))
           new == [prev |-> prv, next |-> NULL, pages |-> st, usage |-> MAJOR, first |-> NULL]
           Upd(m) == IF m = a THEN new
                     ELSE IF m = prv THEN [majors[m] EXCEPT !.next = a]
                     ELSE majors[m]
           ma == [prev : Nat, next : Nat, pages : Nat, usage : Nat, first : Nat]
<1> USE DEF NULL
<1>1. PICK f \in 0 .. NFRAMES - 1 : a = f * PAGE
  BY DEF PageAddresses
<1>2. f \in Nat /\ a \in Nat /\ a \div PAGE = f
  BY <1>1, PageOf, Times, Sizes
<1>3. /\ st \in Nat \ {0} /\ MAJOR + Need(req) <= st * PAGE /\ st * PAGE \in Nat
      /\ Size(req) \in Nat
  <2>1. Size(req) \in Nat /\ Need(req) = Size(req) + MINOR
    BY RequestSize
  <2>2. st \in Nat \ {0} /\ MAJOR + Size(req) + MINOR <= st * PAGE
    BY <2>1, PagesHold
  <2> QED BY <2>1, <2>2, Times, Sizes
<1>4. /\ NewMajor(f, prv, st)
      /\ UNCHANGED <<minors, l_inuse, halted>>
  BY <1>2 DEF allocate_new_page
<1>5. /\ Run(f, st) \cap used = {} /\ used' = used \cup Run(f, st)
      /\ frames' = frames \cup (Run(f, st) \cap 0 .. NFRAMES - 1)
      /\ l_allocated' = l_allocated + st * PAGE
  BY <1>4 DEF NewMajor, Take, set_frames
<1>6. majors' = [m \in DOMAIN majors \cup {a} |-> Upd(m)]
  BY <1>1, <1>4, Zenon DEF NewMajor
<1> HIDE DEF st
<1>7. /\ f \in Run(f, st) /\ f # 0 /\ a # 0
      /\ Run(f, st) \subseteq used' \ RESERVED /\ Run(f, st) \subseteq Nat
  <2>1. f \in Run(f, st) /\ Run(f, st) \subseteq Nat
    BY <1>2, <1>3 DEF Run
  <2>2. f # 0
    BY <1>5, <2>1, HeapAssumption DEF InFrames
  <2>3. 0 < f /\ 0 * PAGE = 0
    BY <1>2, <2>2, Sizes
  <2>4. 0 * PAGE < f * PAGE
    BY <1>2, <2>3, Times
  <2>5. Run(f, st) \subseteq used' \ RESERVED
    BY <1>5 DEF InFrames
  <2> QED BY <1>1, <1>2, <2>1, <2>2, <2>3, <2>4, <2>5
<1>8. ASSUME NEW m \in DOMAIN majors
      PROVE  /\ m # a
             /\ m < a => m + BlockSize(majors[m]) <= a
             /\ a < m => a + st * PAGE <= m
  <2>1. PICK g \in 1 .. NFRAMES - 1 : Framed(m, g)
    BY DEF InFrames
  <2> DEFINE k == majors[m].pages
  <2>2. k \in Nat /\ k > 0 /\ g \in Nat /\ m = g * PAGE /\ Run(g, k) \subseteq used
    BY <2>1, Fields, Sizes DEF Framed
  <2>3. BlockSize(majors[m]) = k * PAGE
    BY DEF BlockSize
  <2> HIDE DEF k
  <2>4. g # f
    <3>1. g \in Run(g, k)
      BY <2>2 DEF Run
    <3> QED BY <1>5, <1>7, <2>2, <3>1
  <2>5. CASE g < f
    <3>1. g + k <= f
      <4> SUFFICES ASSUME f < g + k PROVE FALSE
        BY <1>2, <2>2
      <4>1. f \in Run(g, k)
        BY <1>2, <2>2, <2>5 DEF Run
      <4> QED BY <1>5, <1>7, <2>2, <4>1
    <3>2. g * PAGE + k * PAGE <= f * PAGE /\ g * PAGE < f * PAGE /\ g * PAGE \in Nat
      BY <1>2, <2>2, <2>5, <3>1, RunsApart, Zenon
    <3>4. m + BlockSize(majors[m]) <= a /\ m < a
      BY <1>1, <2>2, <2>3, <3>2, Zenon
    <3>5. m \in Nat
      BY <2>2, <3>2, Zenon
    <3> QED BY <1>2, <3>4, <3>5
  <2>6. CASE f < g
    <3>1. f + st <= g
      <4> SUFFICES ASSUME g < f + st PROVE FALSE
        BY <1>2, <1>3, <2>2
      <4>1. g \in Run(f, st) /\ g \in Run(g, k)
        BY <1>2, <1>3, <2>2, <2>6 DEF Run
      <4> QED BY <1>5, <2>2, <4>1
    <3>2. f * PAGE + st * PAGE <= g * PAGE /\ f * PAGE < g * PAGE /\ g * PAGE \in Nat
      <4>1. st \in Nat
        BY <1>3
      <4> QED BY <1>2, <2>2, <2>6, <3>1, <4>1, RunsApart, Zenon
    <3>4. a + st * PAGE <= m /\ a < m
      BY <1>1, <2>2, <3>2, Zenon
    <3>5. m \in Nat
      BY <2>2, <3>2, Zenon
    <3> QED BY <1>2, <3>4, <3>5
  <2> QED BY <1>2, <2>2, <2>4, <2>5, <2>6
<1>9. new \in ma
  <2>1. prv \in Nat
    BY DEF Tables
  <2> QED BY <1>3, <2>1, Sizes
<1>10. /\ DOMAIN majors' = DOMAIN majors \cup {a}
       /\ majors' = [m \in DOMAIN majors' |-> majors'[m]]
       /\ majors'[a] = new
       /\ \A m \in DOMAIN majors : majors'[m] = Upd(m)
  <2> HIDE DEF new, Upd
  <2>1. DOMAIN majors' = DOMAIN majors \cup {a} /\ majors'[a] = Upd(a)
        /\ \A m \in DOMAIN majors : majors'[m] = Upd(m)
    BY <1>6
  <2>2. majors' = [m \in DOMAIN majors' |-> majors'[m]]
    BY <1>6
  <2> QED BY <2>1, <2>2 DEF Upd
<1>11. ASSUME NEW m \in DOMAIN majors
       PROVE  /\ majors'[m] \in ma
              /\ majors'[m].prev = majors[m].prev
              /\ majors'[m].next = IF m = prv THEN a ELSE majors[m].next
              /\ majors'[m].pages = majors[m].pages /\ majors'[m].usage = majors[m].usage
              /\ majors'[m].first = majors[m].first
  <2>1. majors[m] \in ma /\ m # a /\ majors'[m] = Upd(m)
    BY <1>8, <1>10, Fields
  <2>2. CASE m = prv
    <3>1. majors'[m] = [majors[m] EXCEPT !.next = a]
      BY <2>1, <2>2
    <3> QED BY <1>2, <2>1, <2>2, <3>1
  <2>3. CASE m # prv
    <3>1. majors'[m] = majors[m]
      BY <2>1, <2>3
    <3> QED BY <2>1, <2>3, <3>1
  <2> QED BY <2>2, <2>3
<1>12. /\ majors'[a] \in ma /\ majors'[a].prev = prv /\ majors'[a].next = NULL
       /\ majors'[a].usage = MAJOR /\ majors'[a].first = NULL /\ majors'[a].pages = st
       /\ BlockSize(majors'[a]) = st * PAGE
  <2>1. majors'[a] = new
    BY <1>10
  <2> QED BY <1>9, <2>1 DEF BlockSize
<1>13. InFrames'
  <2>1. ASSUME NEW m \in DOMAIN majors, NEW g, Framed(m, g) PROVE Framed(m, g)'
    <3>1. majors'[m].pages = majors[m].pages /\ used \subseteq used'
      BY <1>5, <1>11
    <3> QED BY <2>1, <3>1 DEF Framed
  <2>2. Framed(a, f)' /\ f \in 1 .. NFRAMES - 1
    BY <1>1, <1>3, <1>7, <1>12, Sizes DEF Framed
  <2>3. \A m \in DOMAIN majors' : \E g \in 1 .. NFRAMES - 1 : Framed(m, g)'
    BY <1>10, <2>1, <2>2 DEF InFrames
  <2> QED BY <1>5, <2>3 DEF InFrames
<1>14. frames' \subseteq 0 .. BITS - 1 /\ used' \subseteq Nat
  BY <1>5, <1>7, Sizes DEF TypeOK
<1>15. /\ a \in Nat \ {0} /\ a \notin DOMAIN majors
       /\ MAJOR + Need(req) <= BlockSize(majors'[a]) /\ BlockSize(majors'[a]) \in Nat
       /\ l_allocated' = l_allocated + BlockSize(majors'[a])
  BY <1>2, <1>3, <1>5, <1>7, <1>8, <1>12
<1>16. \A m \in DOMAIN majors :
          /\ m # a
          /\ m < a => m + BlockSize(majors[m]) <= a
          /\ a < m => a + BlockSize(majors'[a]) <= m
  BY <1>8, <1>12
<1> HIDE DEF new, Upd
<1> QED BY <1>4, <1>10, <1>11, <1>12, <1>13, <1>14, <1>15, <1>16, Zenon DEF New

LEMMA NewKeeps ==
    ASSUME HInv, halted = "no", NEW req \in Requests, NEW prv \in DOMAIN majors \cup {NULL},
           NEW a, New(req, prv, a),
           IF prv = NULL THEN l_memRoot = NULL /\ l_memRoot' = a
           ELSE l_memRoot' = l_memRoot /\ majors[prv].next = NULL,
           \A m \in DOMAIN majors : majors[m].first # NULL,
           call' \in Calls, call'.req = req, call'.maj = a, pc' \in {"search", "fresh"},
           l_bestBet' \in DOMAIN majors \cup {NULL}
    PROVE  HInv'
<1> USE DEF HInv, NULL
<1>1. /\ a \in Nat \ {0} /\ a \notin DOMAIN majors
      /\ DOMAIN majors' = DOMAIN majors \cup {a}
      /\ majors' = [m \in DOMAIN majors' |-> majors'[m]]
      /\ frames' \subseteq 0 .. BITS - 1 /\ InFrames' /\ used' \subseteq Nat
      /\ minors' = minors /\ l_inuse' = l_inuse /\ halted' = halted
      /\ BlockSize(majors'[a]) \in Nat /\ MAJOR + Need(req) <= BlockSize(majors'[a])
      /\ l_allocated' = l_allocated + BlockSize(majors'[a])
  BY Zenon DEF New
<1>2. /\ majors'[a] \in [prev : Nat, next : Nat, pages : Nat, usage : Nat, first : Nat]
      /\ majors'[a].prev = prv /\ majors'[a].next = NULL
      /\ majors'[a].usage = MAJOR /\ majors'[a].first = NULL
  BY Zenon DEF New
<1>3. \A m \in DOMAIN majors :
          /\ m # a
          /\ majors'[m] \in [prev : Nat, next : Nat, pages : Nat, usage : Nat, first : Nat]
          /\ majors'[m].prev = majors[m].prev
          /\ majors'[m].next = IF m = prv THEN a ELSE majors[m].next
          /\ majors'[m].pages = majors[m].pages /\ majors'[m].usage = majors[m].usage
          /\ majors'[m].first = majors[m].first
          /\ m < a => m + BlockSize(majors[m]) <= a
          /\ a < m => a + BlockSize(majors'[a]) <= m
  BY Zenon DEF New
<1>4. \A m \in DOMAIN majors : BlockSize(majors'[m]) = BlockSize(majors[m])
  BY <1>3 DEF BlockSize
<1>5. \A b \in DOMAIN minors : minors[b].block \in DOMAIN majors
  BY DEF Disjoint
<1>6. /\ \A m : InBlock(m)' = InBlock(m)
      /\ InBlock(a) = {} /\ \A b : End(b)' = End(b)
  BY <1>1, <1>5 DEF InBlock, End
<1>7. TypeOK'
  <2>1. majors' \in [DOMAIN majors' ->
                       [prev : Nat, next : Nat, pages : Nat, usage : Nat, first : Nat]]
    BY <1>1, <1>2, <1>3
  <2>2. l_memRoot' \in DOMAIN majors' \cup {NULL}
    BY <1>1 DEF TypeOK
  <2>3. l_allocated' \in Nat
    BY <1>1 DEF TypeOK
  <2> QED BY <1>1, <2>1, <2>2, <2>3 DEF TypeOK
<1>8. Tables'
  <2>1. IsFiniteSet(DOMAIN majors \cup {a})
    BY FS_AddElement DEF Tables
  <2> QED BY <1>1, <2>1 DEF Tables
<1>9. Disjoint'
  <2>1. \A b \in DOMAIN minors' :
           LET m == minors'[b].block IN
           /\ m \in DOMAIN majors'
           /\ m + MAJOR <= b /\ End(b)' <= m + BlockSize(majors'[m])
    BY <1>1, <1>4, <1>6 DEF Disjoint
  <2>2. \A b, c \in DOMAIN minors' : b < c => End(b)' <= c
    BY <1>1, <1>6 DEF Disjoint
  <2>3. ASSUME NEW m \in DOMAIN majors', NEW o \in DOMAIN majors', m < o
        PROVE  m + BlockSize(majors'[m]) <= o
    <3>1. CASE m = a
      BY <1>1, <1>3, <2>3, <3>1
    <3>2. CASE o = a /\ m # a
      BY <1>1, <1>3, <1>4, <2>3, <3>2
    <3>3. CASE m # a /\ o # a
      BY <1>1, <1>4, <2>3, <3>3 DEF Disjoint
    <3> QED BY <3>1, <3>2, <3>3
  <2> QED BY <2>1, <2>2, <2>3 DEF Disjoint
<1>10. Written'
  BY <1>1 DEF Written
<1>11. Lists'
  <2>1. ASSUME NEW m \in DOMAIN majors' PROVE FirstOf(InBlock(m)', majors'[m].first)
    <3>1. CASE m = a
      BY <1>2, <1>6, <3>1 DEF FirstOf
    <3>2. CASE m # a
      BY <1>1, <1>3, <1>6, <3>2 DEF Lists
    <3> QED BY <3>1, <3>2
  <2>2. \A b \in DOMAIN minors :
           /\ NextOf(Of(minors, minors[b].block), b, minors[b].next)
           /\ PrevOf(Of(minors, minors[b].block), b, minors[b].prev)
    BY Zenon DEF Lists, InBlock, Of
  <2>3. \A b \in DOMAIN minors' :
           /\ NextOf(Of(minors', minors'[b].block), b, minors'[b].next)
           /\ PrevOf(Of(minors', minors'[b].block), b, minors'[b].prev)
    BY <1>1, <2>2, Zenon
  <2> QED BY <2>1, <2>3, Zenon DEF Lists, InBlock, Of
<1>12. BlocksLinked'
  <2>1. ASSUME NEW m \in DOMAIN majors'
        PROVE  /\ majors'[m].prev = NULL <=> m = l_memRoot'
               /\ majors'[m].prev # NULL =>
                     majors'[m].prev \in DOMAIN majors' /\ majors'[majors'[m].prev].next = m
               /\ majors'[m].next # NULL =>
                     majors'[m].next \in DOMAIN majors' /\ majors'[majors'[m].next].prev = m
    <3>1. CASE prv = NULL
      <4>1. majors = EmptyMap /\ l_memRoot' = a
        BY <3>1 DEF BlocksLinked
      <4>2. DOMAIN majors = {}
        BY <4>1 DEF EmptyMap
      <4> QED BY <1>1, <1>2, <3>1, <4>1, <4>2
    <3>2. CASE prv # NULL
      <4>1. /\ prv \in DOMAIN majors /\ majors[prv].next = NULL /\ l_memRoot' = l_memRoot
            /\ l_memRoot # a
        <5>1. prv \in DOMAIN majors /\ majors[prv].next = NULL /\ l_memRoot' = l_memRoot
          BY <3>2
        <5>2. l_memRoot # a
          BY <1>1 DEF TypeOK
        <5> QED BY <5>1, <5>2
      <4>2. CASE m = a
        BY <1>1, <1>2, <1>3, <3>2, <4>1, <4>2
      <4>3. CASE m # a
        <5>1. m \in DOMAIN majors
          BY <1>1, <4>3
        <5>2. /\ majors[m].prev = NULL <=> m = l_memRoot
              /\ majors[m].prev # NULL =>
                     majors[m].prev \in DOMAIN majors /\ majors[majors[m].prev].next = m
              /\ majors[m].next # NULL =>
                     majors[m].next \in DOMAIN majors /\ majors[majors[m].next].prev = m
          BY <5>1 DEF BlocksLinked
        <5>3. majors[m].prev # prv
          BY <3>2, <4>1, <5>1, <5>2, Fields
        <5>4. majors'[m].prev # NULL => majors'[majors'[m].prev].next = m
          BY <1>3, <5>1, <5>2, <5>3
        <5>5. CASE m = prv
          BY <1>1, <1>2, <1>3, <4>1, <5>1, <5>2, <5>4, <5>5
        <5>6. CASE m # prv
          BY <1>1, <1>3, <4>1, <5>1, <5>2, <5>4, <5>6
        <5> QED BY <5>5, <5>6
      <4> QED BY <4>2, <4>3
    <3> QED BY <3>1, <3>2
  <2>2. l_memRoot' # NULL /\ majors' # EmptyMap
    <3>1. majors' # EmptyMap
      BY <1>1 DEF EmptyMap
    <3>2. prv # NULL => l_memRoot # NULL
      <4>1. majors = EmptyMap => DOMAIN majors = {}
        BY DEF EmptyMap
      <4> QED BY <4>1 DEF BlocksLinked
    <3> QED BY <1>1, <3>1, <3>2
  <2> QED BY <2>1, <2>2 DEF BlocksLinked
<1>13. Ranked'
  <2>1. PICK rank \in [DOMAIN majors -> Nat] :
           \A m \in DOMAIN majors : majors[m].next # NULL => rank[m] < rank[majors[m].next]
    BY DEF Ranked
  <2> DEFINE top == IF prv = NULL THEN 0 ELSE rank[prv] + 1
             r == [m \in DOMAIN majors' |-> IF m = a THEN top ELSE rank[m]]
  <2>2. r \in [DOMAIN majors' -> Nat]
    BY <1>1
  <2>3. ASSUME NEW m \in DOMAIN majors', majors'[m].next # NULL
        PROVE  r[m] < r[majors'[m].next]
    <3>1. m # a /\ m \in DOMAIN majors
      BY <1>1, <1>2, <2>3
    <3>2. CASE m = prv
      <4>1. majors'[m].next = a /\ m # NULL
        BY <1>3, <3>1, <3>2, Fields
      <4> QED BY <1>1, <3>1, <3>2, <4>1
    <3>3. CASE m # prv
      <4>1. majors'[m].next = majors[m].next /\ majors[m].next \in DOMAIN majors
        BY <1>3, <2>3, <3>1, <3>3 DEF BlocksLinked
      <4>2. r[m] = rank[m] /\ r[majors[m].next] = rank[majors[m].next]
        BY <1>1, <3>1, <4>1
      <4> QED BY <2>1, <2>3, <3>1, <4>1, <4>2
    <3> QED BY <3>2, <3>3
  <2> HIDE DEF r
  <2> QED BY <2>2, <2>3 DEF Ranked
<1>14. TotalsExact'
  <2>1. /\ DOMAIN Held' = DOMAIN minors /\ DOMAIN Lengths' = DOMAIN majors \cup {a}
        /\ Held' = Held /\ Extents' = Extents
    BY <1>1 DEF Held, Extents, Lengths
  <2>2. l_inuse' = SumFunctionOnSet(Held', DOMAIN Held')
    BY <1>1, <2>1, Totals
  <2>3. ASSUME NEW m \in DOMAIN majors'
        PROVE  majors'[m].usage = MAJOR + SumFunctionOnSet(Extents', InBlock(m)')
    <3>1. CASE m = a
      <4>1. SumFunctionOnSet(Extents', {}) = 0
        BY SumOfNone
      <4>2. InBlock(m)' = {} /\ majors'[m].usage = MAJOR
        BY <1>2, <1>6, <3>1
      <4>3. majors'[m].usage = MAJOR + 0
        BY <4>2, Sizes
      <4> QED BY <4>1, <4>2, <4>3, Zenon
    <3>2. CASE m # a
      <4>1. m \in DOMAIN majors /\ majors'[m].usage = majors[m].usage /\ InBlock(m)' = InBlock(m)
        BY <1>1, <1>3, <1>6, <3>2
      <4> QED BY <2>1, <4>1, Totals
    <3> QED BY <3>1, <3>2
  <2>4. l_allocated' = SumFunctionOnSet(Lengths', DOMAIN Lengths')
    <3>1. /\ \A m \in DOMAIN majors : Lengths[m] \in Nat /\ Lengths'[m] = Lengths[m]
          /\ Lengths'[a] = BlockSize(majors'[a])
      BY <1>1, <1>4, Fields DEF Lengths
    <3>2. PICK h : h = Lengths'
      OBVIOUS
    <3>3. IsFiniteSet(DOMAIN majors) /\ Agree(Lengths, h, DOMAIN majors) /\ h[a] \in Nat
      BY <1>1, <3>1, <3>2 DEF Tables, Agree
    <3>4. /\ SumFunctionOnSet(Lengths, DOMAIN majors) \in Nat
          /\ SumFunctionOnSet(h, DOMAIN majors \cup {a})
                = h[a] + SumFunctionOnSet(Lengths, DOMAIN majors)
      <4>1. \A m \in DOMAIN majors : Lengths[m] \in Nat
        BY <3>1
      <4>2. a \notin DOMAIN majors
        BY <1>1
      <4> HIDE DEF HInv, NULL
      <4> QED BY <3>3, <4>1, <4>2, SumGrows, Zenon
    <3>5. l_allocated = SumFunctionOnSet(Lengths, DOMAIN majors)
      BY Totals
    <3>6. SumFunctionOnSet(Lengths', DOMAIN Lengths') = h[a] + l_allocated
      BY <2>1, <3>2, <3>4, <3>5
    <3> QED BY <1>1, <3>1, <3>2, <3>4, <3>5, <3>6
  <2> QED BY <2>2, <2>3, <2>4 DEF TotalsExact, SumFunction
<1>15. BestBetLives' /\ EmptyBlocks'
  <2>1. BestBetLives'
    BY <1>1 DEF BestBetLives
  <2>2. \A m \in DOMAIN majors' : majors'[m].first = NULL => m = a
    BY <1>1, <1>3
  <2> QED BY <1>1, <1>2, <2>1, <2>2 DEF EmptyBlocks
<1> QED BY <1>1, <1>7, <1>8, <1>9, <1>10, <1>11, <1>12, <1>13, <1>14, <1>15

-----------------------------------------------------------------------------
(* The steps that leave the lists alone. *)
LEMMA CallKeeps ==
    ASSUME HInv, UNCHANGED heapVars, frames' \subseteq 0 .. BITS - 1,
           used \subseteq used', used' \subseteq Nat,
           halted' \in {"no", "page_fault", "free_panic"},
           call' \in Calls, pc' \in {"idle", "search", "fresh", "release"},
           pc' \in {"search", "fresh"} => call'.maj \in DOMAIN majors /\ call'.req \in Requests,
           l_bestBet' \in DOMAIN majors \cup {NULL}, EmptyBlocks'
    PROVE  HInv'
<1> USE DEF HInv
<1>1. /\ majors' = majors /\ minors' = minors /\ l_memRoot' = l_memRoot
      /\ l_allocated' = l_allocated /\ l_inuse' = l_inuse
  BY DEF heapVars
<1>2. TypeOK' /\ Tables' /\ BestBetLives'
  BY <1>1 DEF TypeOK, Tables, BestBetLives
<1>3. Disjoint' /\ Written'
  BY <1>1 DEF Disjoint, Written, End
<1>4. Lists'
  BY <1>1, Zenon DEF Lists, InBlock
<1>5. BlocksLinked' /\ Ranked'
  BY <1>1, Zenon DEF BlocksLinked, Ranked
<1>6. TotalsExact'
  BY <1>1, Zenon DEF TotalsExact, Extents, Held, Lengths, InBlock
<1>7. InFrames'
  <2>1. \A m, f : Framed(m, f) => Framed(m, f)'
    BY <1>1 DEF Framed
  <2> QED BY <1>1, <2>1 DEF InFrames
<1> QED BY <1>2, <1>3, <1>4, <1>5, <1>6, <1>7

LEMMA InitHInv ==
    ASSUME Init
    PROVE  HInv
<1> USE DEF Init
<1>1. DOMAIN majors = {} /\ DOMAIN minors = {} /\ IsFiniteSet({})
  BY FS_EmptySet DEF EmptyMap
<1>2. TypeOK
  <2>1. frames \subseteq 0 .. BITS - 1
    BY HeapAssumption, Sizes
  <2>2. /\ majors \in [DOMAIN majors ->
             [prev : Nat, next : Nat, pages : Nat, usage : Nat, first : Nat]]
        /\ minors \in [DOMAIN minors ->
             [prev : Nat, next : Nat, block : Nat, size : Nat, req_size : Requests,
              diff : Nat]]
    BY DEF EmptyMap
  <2>3. used \subseteq Nat
    BY HeapAssumption, Sizes
  <2> QED BY <2>1, <2>2, <2>3 DEF TypeOK
<1>3. Tables
  BY <1>1 DEF Tables, Calls, NoCall, NULL
<1>4. InFrames
  <2>1. RESERVED \subseteq used
    OBVIOUS
  <2> QED BY <1>1, <2>1 DEF InFrames
<1>5. Disjoint /\ Written /\ Lists /\ BestBetLives /\ EmptyBlocks
  BY <1>1 DEF Disjoint, Written, Lists, BestBetLives, EmptyBlocks
<1>6. BlocksLinked
  BY <1>1 DEF BlocksLinked
<1>7. Ranked
  <2>1. [m \in {} |-> 0] \in [DOMAIN majors -> Nat]
    BY <1>1
  <2> QED BY <1>1, <2>1 DEF Ranked
<1>8. TotalsExact
  <2>1. DOMAIN Held = {} /\ DOMAIN Lengths = {}
    BY <1>1 DEF Held, Lengths
  <2>2. SumFunctionOnSet(Held, {}) = 0 /\ SumFunctionOnSet(Lengths, {}) = 0
    BY SumOfNone
  <2> QED BY <1>1, <2>1, <2>2 DEF TotalsExact, SumFunction
<1> QED BY <1>2, <1>3, <1>4, <1>5, <1>6, <1>7, <1>8 DEF HInv

LEMMA StoppedForGood ==
    ASSUME HInv, NEW size, no_new_page(size), l_bestBet' \in DOMAIN majors \cup {NULL}
    PROVE  HInv'
<1>1. /\ UNCHANGED heapVars /\ frames' = frames /\ call' = call /\ pc' = pc
      /\ halted' = "page_fault" /\ used' = used
  BY DEF no_new_page
<1>2. frames' \subseteq 0 .. BITS - 1 /\ used \subseteq used' /\ used' \subseteq Nat
  BY <1>1 DEF HInv, TypeOK
<1>3. EmptyBlocks'
  BY <1>1 DEF EmptyBlocks
<1>4. /\ call' \in Calls /\ pc' \in {"idle", "search", "fresh", "release"}
      /\ pc' \in {"search", "fresh"} => call'.maj \in DOMAIN majors /\ call'.req \in Requests
  BY <1>1 DEF HInv, TypeOK, Tables
<1>5. halted' # "no" /\ halted' \in {"no", "page_fault", "free_panic"}
  BY <1>1
<1> QED BY <1>1, <1>2, <1>3, <1>4, <1>5, CallKeeps

LEMMA StartIs ==
    ASSUME HInv, NEW req \in Requests
    PROVE  /\ StartFrom(req) \in Calls /\ StartFrom(req).req = req
           /\ StartFrom(req).maj \in DOMAIN majors \cup {NULL}
           /\ l_memRoot # NULL => StartFrom(req).maj \in DOMAIN majors
<1>1. l_bestBet \in DOMAIN majors \cup {NULL} /\ l_memRoot \in DOMAIN majors \cup {NULL}
  BY DEF HInv, BestBetLives, TypeOK
<1>2. l_bestBet # NULL => FreeSpace(majors[l_bestBet]) \in Int
  BY <1>1, Fields DEF HInv, FreeSpace
<1>3. req \in Nat /\ \A m \in DOMAIN majors : m \in Nat
  BY RequestSize, Fields DEF HInv
<1> DEFINE best == IF l_bestBet = NULL THEN 0 ELSE FreeSpace(majors[l_bestBet])
           bet == l_bestBet # NULL /\ best > Need(req)
           start == IF bet THEN l_bestBet ELSE l_memRoot
<1>4. StartFrom(req) = [req |-> req, startedBet |-> bet, bestSize |-> best, pages |-> 0,
                        maj |-> start]
  BY DEF StartFrom
<1>5. best \in Int /\ bet \in BOOLEAN
  BY <1>2
<1>6. /\ start \in DOMAIN majors \cup {NULL} /\ start \in Nat
      /\ l_memRoot # NULL => start \in DOMAIN majors
  BY <1>1, <1>3 DEF NULL
<1> HIDE DEF best, bet, start
<1> QED BY <1>3, <1>4, <1>5, <1>6 DEF Calls

LEMMA MallocKeeps ==
    ASSUME HInv, NEW req \in Requests, malloc(req)
    PROVE  HInv'
<1>1. /\ pc = "idle" /\ halted = "no" /\ l_memRoot # NULL /\ call' = StartFrom(req)
      /\ pc' = "search" /\ frames' = frames /\ UNCHANGED heapVars /\ l_bestBet' = l_bestBet
      /\ halted' = halted /\ used' = used
  BY DEF malloc, Going
<1>2. call' \in Calls /\ call'.req = req /\ call'.maj \in DOMAIN majors
  BY <1>1, StartIs
<1>3. \A m \in DOMAIN majors : majors[m].first # NULL
  BY <1>1 DEF HInv, EmptyBlocks
<1>4. EmptyBlocks'
  BY <1>1, <1>3 DEF EmptyBlocks, heapVars
<1>5. /\ frames' \subseteq 0 .. BITS - 1 /\ l_bestBet' \in DOMAIN majors \cup {NULL}
      /\ used' \subseteq Nat /\ used \subseteq used' /\ halted' \in {"no", "page_fault", "free_panic"}
  BY <1>1 DEF HInv, TypeOK, BestBetLives
<1> QED BY <1>1, <1>2, <1>4, <1>5, CallKeeps

LEMMA MallocFirstKeeps ==
    ASSUME HInv, damage' # "memory", NEW req \in Requests, malloc_first(req)
    PROVE  HInv'
<1>1. pc = "idle" /\ halted = "no" /\ l_memRoot = NULL /\ l_bestBet' = l_bestBet
  BY DEF malloc_first, Going
<1>2. l_bestBet' \in DOMAIN majors \cup {NULL} /\ \A m \in DOMAIN majors : majors[m].first # NULL
  BY <1>1 DEF HInv, BestBetLives, EmptyBlocks
<1>3. ASSUME NEW a \in PageAddresses, allocate_new_page(Size(req), NULL, a), l_memRoot' = a,
             call' = [StartFrom(req) EXCEPT !.maj = a], pc' = "search"
      PROVE  HInv'
  <2>1. NULL \in DOMAIN majors \cup {NULL}
    OBVIOUS
  <2>2. New(req, NULL, a)
    BY <1>1, <1>3, <2>1, NewFields DEF HInv
  <2>3. a \in Nat
    BY <2>2 DEF New
  <2>4. call' \in Calls /\ call'.req = req /\ call'.maj = a
    BY <1>3, <2>3, StartIs DEF Calls
  <2>5. IF NULL = NULL THEN l_memRoot = NULL /\ l_memRoot' = a
        ELSE l_memRoot' = l_memRoot /\ majors[NULL].next = NULL
    BY <1>1, <1>3
  <2>6. pc' \in {"search", "fresh"}
    BY <1>3
  <2> QED BY <1>1, <1>2, <2>1, <2>2, <2>4, <2>5, <2>6, NewKeeps, Zenon
<1>4. ASSUME no_new_page(Size(req)) PROVE HInv'
  BY <1>2, <1>4, StoppedForGood
<1> QED BY <1>3, <1>4, Zenon DEF malloc_first

-----------------------------------------------------------------------------
(* The loop of malloc.  An empty block is always large enough. *)
LEMMA LoopFacts ==
    ASSUME HInv, pc \in {"search", "fresh"}, halted = "no"
    PROVE  /\ call.maj \in DOMAIN majors /\ call.req \in Requests /\ call \in Calls
           /\ M = majors[call.maj] /\ FreeSpace(M) \in Int
           /\ M.first = NULL => FreeSpace(M) = BlockSize(M) - MAJOR /\ Enough
           /\ M.first # NULL => \A m \in DOMAIN majors : majors[m].first # NULL
<1>1. /\ call.maj \in DOMAIN majors /\ call.req \in Requests /\ call \in Calls
      /\ M = majors[call.maj]
  BY DEF HInv, TypeOK, Tables, M
<1>2. BlockSize(M) \in Nat /\ M.usage \in Nat /\ Need(call.req) \in Nat
  BY <1>1, Fields, RequestSize DEF HInv
<1>3. FreeSpace(M) \in Int
  BY <1>2 DEF FreeSpace
<1>4. ASSUME M.first = NULL PROVE FreeSpace(M) = BlockSize(M) - MAJOR /\ Enough
  <2>1. InBlock(call.maj) = {}
    BY <1>1, <1>4 DEF HInv, Lists, FirstOf
  <2>2. M.usage = MAJOR + SumFunctionOnSet(Extents, {})
    BY <1>1, <2>1, Totals DEF HInv
  <2>3. M.usage = MAJOR
    BY <2>2, SumOfNone, Sizes
  <2>4. MAJOR + Need(call.req) <= BlockSize(M)
    BY <1>1, <1>4 DEF HInv, EmptyBlocks
  <2> QED BY <1>2, <2>3, <2>4, Sizes DEF FreeSpace, Enough
<1>5. ASSUME M.first # NULL PROVE \A m \in DOMAIN majors : majors[m].first # NULL
  BY <1>1, <1>5 DEF HInv, EmptyBlocks
<1> QED BY <1>1, <1>3, <1>4, <1>5

LEMMA RememberIs ==
    ASSUME HInv, pc \in {"search", "fresh"}, halted = "no"
    PROVE  /\ Remember => l_bestBet' \in DOMAIN majors \cup {NULL}
           /\ \A m \in Nat : \A b \in BOOLEAN :
                 /\ [Remembered EXCEPT !.maj = m] \in Calls
                 /\ [Remembered EXCEPT !.maj = m].maj = m
                 /\ [Remembered EXCEPT !.maj = m].req = call.req
                 /\ [Remembered EXCEPT !.maj = m, !.startedBet = b] \in Calls
                 /\ [Remembered EXCEPT !.maj = m, !.startedBet = b].maj = m
                 /\ [Remembered EXCEPT !.maj = m, !.startedBet = b].req = call.req
<1>1. call.maj \in DOMAIN majors /\ call \in Calls /\ FreeSpace(M) \in Int
  BY LoopFacts
<1>2. Remember => l_bestBet' \in DOMAIN majors \cup {NULL}
  BY <1>1 DEF Remember, HInv, BestBetLives
<1>4. Remembered \in Calls /\ Remembered.req = call.req
  <2>1. CASE Better
    <3>1. Remembered = [call EXCEPT !.bestSize = FreeSpace(M)]
      BY <2>1 DEF Remembered
    <3> QED BY <1>1, <3>1 DEF Calls
  <2>2. CASE ~Better
    <3>1. Remembered = call
      BY <2>2 DEF Remembered
    <3> QED BY <1>1, <3>1
  <2> QED BY <2>1, <2>2
<1>5. ASSUME NEW m \in Nat, NEW b \in BOOLEAN
      PROVE  /\ [Remembered EXCEPT !.maj = m] \in Calls
             /\ [Remembered EXCEPT !.maj = m].maj = m
             /\ [Remembered EXCEPT !.maj = m].req = call.req
             /\ [Remembered EXCEPT !.maj = m, !.startedBet = b] \in Calls
             /\ [Remembered EXCEPT !.maj = m, !.startedBet = b].maj = m
             /\ [Remembered EXCEPT !.maj = m, !.startedBet = b].req = call.req
  <2>1. PICK r \in Calls : r = Remembered
    BY <1>4
  <2>2. r.req = call.req
    BY <1>4, <2>1
  <2>3. /\ [r EXCEPT !.maj = m] \in Calls /\ [r EXCEPT !.maj = m].maj = m
        /\ [r EXCEPT !.maj = m].req = r.req
        /\ [r EXCEPT !.maj = m, !.startedBet = b] \in Calls
        /\ [r EXCEPT !.maj = m, !.startedBet = b].maj = m
        /\ [r EXCEPT !.maj = m, !.startedBet = b].req = r.req
    <3>1. [r EXCEPT !.maj = m] \in Calls
      BY DEF Calls
    <3>2. [r EXCEPT !.maj = m].maj = m /\ [r EXCEPT !.maj = m].req = r.req
      BY DEF Calls
    <3>3. [r EXCEPT !.maj = m, !.startedBet = b] \in Calls
      <4>1. PICK q \in Calls : q = [r EXCEPT !.maj = m]
        BY <3>1
      <4>2. [q EXCEPT !.startedBet = b] \in Calls
        BY DEF Calls
      <4>3. [q EXCEPT !.startedBet = b] = [r EXCEPT !.maj = m, !.startedBet = b]
        BY <4>1 DEF Calls
      <4> QED BY <4>2, <4>3
    <3>4. /\ [r EXCEPT !.maj = m, !.startedBet = b].maj = m
          /\ [r EXCEPT !.maj = m, !.startedBet = b].req = r.req
      BY DEF Calls
    <3> QED BY <3>1, <3>2, <3>3, <3>4
  <2> QED BY <2>1, <2>2, <2>3, Zenon
<1> QED BY <1>2, <1>5

(* On to another block, when none is empty. *)
LEMMA MoveKeeps ==
    ASSUME HInv, damage' # "memory", Searching, Remember,
           \A m \in DOMAIN majors : majors[m].first # NULL,
           NEW next_pc \in {"search", "fresh"}, Hop \/ Restart \/ Grow(next_pc)
    PROVE  HInv'
<1>1. pc = "search" /\ halted = "no" /\ pc \in {"search", "fresh"}
  BY DEF Searching, Going
<1>2. /\ call.maj \in DOMAIN majors /\ call.req \in Requests /\ M = majors[call.maj]
      /\ l_bestBet' \in DOMAIN majors \cup {NULL}
  BY <1>1, LoopFacts, RememberIs
<1>3. ASSUME UNCHANGED <<frames, heapVars, pc, halted, used>>, call' \in Calls,
             call'.maj \in DOMAIN majors, call'.req = call.req
      PROVE  HInv'
  <2>1. EmptyBlocks'
    BY <1>1, <1>3 DEF EmptyBlocks, heapVars
  <2>2. /\ frames' \subseteq 0 .. BITS - 1 /\ used' \subseteq Nat /\ used \subseteq used'
        /\ halted' \in {"no", "page_fault", "free_panic"}
    BY <1>3 DEF HInv, TypeOK
  <2> QED BY <1>1, <1>2, <1>3, <2>1, <2>2, CallKeeps
<1>4. CASE Hop
  <2>1. /\ M.next \in DOMAIN majors /\ UNCHANGED <<frames, heapVars, pc, halted, used>>
        /\ call' = [Remembered EXCEPT !.maj = M.next]
    BY <1>2, <1>4 DEF Hop, HInv, BlocksLinked
  <2>2. M.next \in Nat
    BY <2>1, Fields DEF HInv
  <2>3. call' \in Calls /\ call'.maj = M.next /\ call'.req = call.req
    <3>1. TRUE \in BOOLEAN
      OBVIOUS
    <3> QED BY <1>1, <2>1, <2>2, <3>1, RememberIs, Zenon
  <2> QED BY <1>3, <2>1, <2>3
<1>5. CASE Restart
  <2>1. /\ UNCHANGED <<frames, heapVars, pc, halted, used>>
        /\ call' = [Remembered EXCEPT !.maj = l_memRoot, !.startedBet = FALSE]
    BY <1>5 DEF Restart
  <2>2. l_memRoot \in DOMAIN majors
    <3>1. majors = EmptyMap => DOMAIN majors = {}
      BY DEF EmptyMap
    <3> QED BY <1>2, <3>1 DEF HInv, BlocksLinked, TypeOK
  <2>3. l_memRoot \in Nat /\ FALSE \in BOOLEAN
    BY <2>2, Fields DEF HInv
  <2>4. call' \in Calls /\ call'.maj = l_memRoot /\ call'.req = call.req
    BY <1>1, <2>1, <2>3, RememberIs, Zenon
  <2> QED BY <1>3, <2>1, <2>2, <2>4
<1>6. CASE Grow(next_pc)
  <2>1. ASSUME NEW a \in PageAddresses, allocate_new_page(Size(call.req), call.maj, a),
               call' = [Remembered EXCEPT !.maj = a], pc' = next_pc, UNCHANGED l_memRoot
        PROVE  HInv'
    <3>1. New(call.req, call.maj, a)
      BY <1>1, <1>2, <2>1, NewFields DEF HInv
    <3>2. a \in Nat /\ TRUE \in BOOLEAN
      BY <3>1 DEF New
    <3>3. call' \in Calls /\ call'.maj = a /\ call'.req = call.req
      BY <1>1, <2>1, <3>2, RememberIs, Zenon
    <3>4. /\ call.maj \in DOMAIN majors \cup {NULL}
          /\ IF call.maj = NULL THEN l_memRoot = NULL /\ l_memRoot' = a
             ELSE l_memRoot' = l_memRoot /\ majors[call.maj].next = NULL
      <4>1. call.maj # NULL
        BY <1>2, Fields DEF HInv, NULL
      <4>2. majors[call.maj].next = NULL
        BY <1>2, <1>6 DEF Grow
      <4> QED BY <1>2, <2>1, <4>1, <4>2
    <3>5. pc' \in {"search", "fresh"}
      BY <2>1
    <3> QED BY <1>1, <1>2, <3>1, <3>3, <3>4, <3>5, NewKeeps, Zenon
  <2>2. ASSUME no_new_page(Size(call.req)) PROVE HInv'
    BY <1>2, <2>2, StoppedForGood
  <2> QED BY <1>6, <2>1, <2>2, Zenon DEF Grow
<1> QED BY <1>4, <1>5, <1>6

LEMMA Case1Keeps ==
    ASSUME HInv, damage' # "memory", case1
    PROVE  HInv'
<1>1. Searching /\ ~Enough /\ Remember /\ (Hop \/ Restart \/ Grow("fresh"))
  BY DEF case1
<1>2. \A m \in DOMAIN majors : majors[m].first # NULL
  BY <1>1, LoopFacts DEF Searching, Going
<1> QED BY <1>1, <1>2, MoveKeeps

LEMMA Case5Keeps ==
    ASSUME HInv, damage' # "memory", case5
    PROVE  HInv'
<1>1. Searching /\ M.first # NULL /\ Remember /\ (Hop \/ Restart \/ Grow("search"))
  BY DEF case5
<1>2. \A m \in DOMAIN majors : majors[m].first # NULL
  BY <1>1, LoopFacts DEF Searching, Going
<1> QED BY <1>1, <1>2, MoveKeeps

(* The cases that find a place. *)
LEMMA FrontSlot ==
    ASSUME HInv, pc \in {"search", "fresh"}, halted = "no",
           IF M.first = NULL THEN TRUE ELSE FrontGap >= Need(call.req)
    PROVE  Slot(call.maj + MAJOR, NULL, M.first)
<1>1. /\ call.maj \in DOMAIN majors /\ call.req \in Requests /\ M = majors[call.maj]
      /\ M.first = NULL => FreeSpace(M) = BlockSize(M) - MAJOR /\ Enough
  BY LoopFacts
<1>2. /\ call.maj \in Nat /\ M.first \in Nat /\ BlockSize(M) \in Nat /\ Need(call.req) \in Nat
  BY <1>1, Fields, RequestSize DEF HInv
<1>3. IF M.first = NULL THEN call.maj + MAJOR + Need(call.req) <= call.maj + BlockSize(M)
      ELSE call.maj + MAJOR + Need(call.req) <= M.first
  <2>1. CASE M.first = NULL
    BY <1>1, <1>2, <2>1, Sizes DEF Enough
  <2>2. CASE M.first # NULL
    BY <1>2, <2>2, Sizes DEF FrontGap
  <2> QED BY <2>1, <2>2
<1> QED BY <1>1, <1>2, <1>3, Sizes DEF Slot, NULL

LEMMA GapSlot ==
    ASSUME HInv, Searching, NEW a \in InBlock(call.maj), Fits(a)
    PROVE  Slot(End(a), a, minors[a].next)
<1>1. /\ call.maj \in DOMAIN majors /\ call.req \in Requests
  BY LoopFacts DEF Searching, Going
<1>2. a \in DOMAIN minors /\ minors[a].block = call.maj
  BY DEF InBlock
<1>3. /\ call.maj \in Nat /\ BlockSize(majors[call.maj]) \in Nat /\ Need(call.req) \in Nat
      /\ a \in Nat \ {0} /\ End(a) \in Nat /\ a < End(a) /\ minors[a].next \in Nat
  BY <1>1, <1>2, Fields, RequestSize DEF HInv
<1>4. call.maj + MAJOR <= a
  BY <1>2 DEF HInv, Disjoint
<1>5. IF minors[a].next = NULL
      THEN End(a) + Need(call.req) <= call.maj + BlockSize(majors[call.maj])
      ELSE End(a) + Need(call.req) <= minors[a].next
  <2>1. CASE minors[a].next = NULL
    BY <1>2, <1>3, <2>1 DEF Fits, GapAfter
  <2>2. CASE minors[a].next # NULL
    BY <1>2, <1>3, <2>2 DEF Fits, GapAfter
  <2> QED BY <2>1, <2>2
<1>6. a # NULL /\ call.maj + MAJOR <= End(a)
  BY <1>3, <1>4, Sizes DEF NULL
<1> QED BY <1>1, <1>3, <1>5, <1>6 DEF Slot

(* Where the cases put the request. *)
LEMMA CasePlaces ==
    ASSUME HInv, case2 \/ case2_fresh \/ case3 \/ case4
    PROVE  /\ pc \in {"search", "fresh"} /\ halted = "no"
           /\ \E a, p, n : Slot(a, p, n) /\ Place(a, p, n)
           /\ l_bestBet' \in DOMAIN majors \cup {NULL}
<1>1. CASE case2
  <2>1. /\ pc = "search" /\ halted = "no" /\ M.first = NULL /\ Remember
        /\ Place(call.maj + MAJOR, NULL, NULL)
    BY <1>1 DEF case2, Searching, Going
  <2>2. Slot(call.maj + MAJOR, NULL, M.first)
    BY <2>1, FrontSlot
  <2> QED BY <2>1, <2>2, RememberIs
<1>2. CASE case2_fresh
  <2>1. /\ pc = "fresh" /\ halted = "no" /\ l_bestBet' = l_bestBet
        /\ Place(call.maj + MAJOR, NULL, NULL)
    BY <1>2 DEF case2_fresh, Going
  <2>2. M.first = NULL
    BY <2>1 DEF HInv, EmptyBlocks, M
  <2>3. Slot(call.maj + MAJOR, NULL, M.first)
    BY <2>1, <2>2, FrontSlot
  <2> QED BY <2>1, <2>2, <2>3 DEF HInv, BestBetLives
<1>3. CASE case3
  <2>1. /\ pc = "search" /\ halted = "no" /\ FrontGap >= Need(call.req) /\ Remember
        /\ Place(call.maj + MAJOR, NULL, M.first)
    BY <1>3 DEF case3, Searching, Going
  <2>2. Slot(call.maj + MAJOR, NULL, M.first)
    BY <2>1, FrontSlot
  <2> QED BY <2>1, <2>2, RememberIs
<1>4. CASE case4
  <2>1. Searching /\ pc = "search" /\ halted = "no" /\ Remember
    BY <1>4 DEF case4, Searching, Going
  <2>2. PICK a \in InBlock(call.maj) : Fits(a) /\ Place(End(a), a, minors[a].next)
    BY <1>4 DEF case4
  <2>3. Slot(End(a), a, minors[a].next)
    BY <2>1, <2>2, GapSlot
  <2> QED BY <2>1, <2>2, <2>3, RememberIs
<1> QED BY <1>1, <1>2, <1>3, <1>4

LEMMA LoopKeeps ==
    ASSUME HInv, damage' # "memory", Loop
    PROVE  HInv'
<1>1. ASSUME case2 \/ case2_fresh \/ case3 \/ case4 PROVE HInv'
  <2>1. PICK a, p, n : Slot(a, p, n) /\ Place(a, p, n)
    BY <1>1, CasePlaces
  <2>2. /\ pc \in {"search", "fresh"} /\ halted = "no"
        /\ l_bestBet' \in DOMAIN majors \cup {NULL}
    BY <1>1, CasePlaces
  <2> QED BY <2>1, <2>2, PlaceKeeps, Zenon
<1> QED BY <1>1, Case1Keeps, Case5Keeps DEF Loop

-----------------------------------------------------------------------------
(* free: what is left without the minor at a. *)
Gone(a) ==
    /\ DOMAIN minors' = DOMAIN minors \ {a}
    /\ minors' = [b \in DOMAIN minors' |-> minors'[b]]
    /\ \A b \in DOMAIN minors' :
          /\ b \in DOMAIN minors /\ b # a
          /\ minors'[b] \in [prev : Nat, next : Nat, block : Nat, size : Nat,
                             req_size : Requests, diff : Nat]
          /\ minors'[b].block = minors[b].block /\ minors'[b].size = minors[b].size
          /\ minors'[b].req_size = minors[b].req_size /\ minors'[b].diff = minors[b].diff
          /\ minors'[b].next = IF b = minors[a].prev THEN minors[a].next ELSE minors[b].next
          /\ minors'[b].prev = IF b = minors[a].next THEN minors[a].prev ELSE minors[b].prev
    /\ \A m : Of(minors', m) = IF m = minors[a].block THEN InBlock(m) \ {a} ELSE InBlock(m)

(* The allocation and its neighbours in the list. *)
LEMMA Neighbours ==
    ASSUME HInv, NEW a \in DOMAIN minors
    PROVE  /\ minors[a].block \in DOMAIN majors /\ a \in InBlock(minors[a].block)
           /\ \A c \in InBlock(minors[a].block) : c \in Nat \ {0}
           /\ NextOf(InBlock(minors[a].block), a, minors[a].next)
           /\ PrevOf(InBlock(minors[a].block), a, minors[a].prev)
           /\ minors[a].next \in Nat /\ minors[a].prev \in Nat
           /\ (minors[a].prev # NULL /\ minors[a].next # NULL) =>
                 minors[a].prev # minors[a].next
<1>1. minors[a].block \in DOMAIN majors
  BY DEF HInv, Disjoint
<1>2. a \in InBlock(minors[a].block)
  BY DEF InBlock
<1>3. \A c \in InBlock(minors[a].block) : c \in Nat \ {0}
  BY Fields DEF InBlock, HInv
<1>4. /\ NextOf(InBlock(minors[a].block), a, minors[a].next)
      /\ PrevOf(InBlock(minors[a].block), a, minors[a].prev)
  BY Zenon DEF HInv, Lists
<1>5. minors[a].next \in Nat /\ minors[a].prev \in Nat
  BY Fields DEF HInv
<1>6. (minors[a].prev # NULL /\ minors[a].next # NULL) => minors[a].prev # minors[a].next
  BY <1>2, <1>3, <1>4, <1>5, NeighboursDiffer, Zenon
<1> QED BY <1>1, <1>2, <1>3, <1>4, <1>5, <1>6, Zenon

LEMMA UnlinkFields ==
    ASSUME HInv, NEW a \in DOMAIN minors, minors' = Unlinked(a)
    PROVE  Gone(a)
<1> DEFINE mi == [prev : Nat, next : Nat, block : Nat, size : Nat, req_size : Requests, diff : Nat]
           p == minors[a].prev
           n == minors[a].next
           Upd(m) == IF m = p THEN [minors[m] EXCEPT !.next = n]
                     ELSE IF m = n THEN [minors[m] EXCEPT !.prev = p]
                     ELSE minors[m]
<1>1. minors' = [m \in DOMAIN minors \ {a} |-> Upd(m)]
  BY DEF Unlinked
<1>2. p \in Nat /\ n \in Nat /\ ((p # NULL /\ n # NULL) => p # n)
  BY Neighbours
<1> HIDE DEF p, n
<1>3. /\ DOMAIN minors' = DOMAIN minors \ {a}
      /\ minors' = [b \in DOMAIN minors' |-> minors'[b]]
      /\ \A b \in DOMAIN minors' : b \in DOMAIN minors /\ b # a /\ minors'[b] = Upd(b)
  <2> HIDE DEF Upd
  <2>1. DOMAIN minors' = DOMAIN minors \ {a}
    BY <1>1
  <2>2. \A b \in DOMAIN minors \ {a} : minors'[b] = Upd(b)
    BY <1>1
  <2>3. minors' = [b \in DOMAIN minors' |-> minors'[b]]
    BY <1>1
  <2> QED BY <2>1, <2>2, <2>3
<1>4. ASSUME NEW b \in DOMAIN minors'
      PROVE  /\ minors'[b] \in mi
             /\ minors'[b].block = minors[b].block /\ minors'[b].size = minors[b].size
             /\ minors'[b].req_size = minors[b].req_size /\ minors'[b].diff = minors[b].diff
             /\ minors'[b].next = IF b = p THEN n ELSE minors[b].next
             /\ minors'[b].prev = IF b = n THEN p ELSE minors[b].prev
  <2>1. minors[b] \in mi /\ b # NULL /\ minors'[b] = Upd(b)
    BY <1>3, Fields DEF NULL, HInv
  <2>3. CASE b = p
    <3>1. minors'[b] = [minors[b] EXCEPT !.next = n] /\ b # n
      BY <1>2, <2>1, <2>3
    <3> QED BY <1>2, <2>1, <2>3, <3>1
  <2>4. CASE b # p /\ b = n
    <3>1. minors'[b] = [minors[b] EXCEPT !.prev = p]
      BY <2>1, <2>4
    <3> QED BY <1>2, <2>1, <2>4, <3>1
  <2>5. CASE b # p /\ b # n
    <3>1. minors'[b] = minors[b]
      BY <2>1, <2>5
    <3> QED BY <2>1, <2>5, <3>1
  <2> QED BY <2>3, <2>4, <2>5
<1>5. \A m : Of(minors', m) = IF m = minors[a].block THEN InBlock(m) \ {a} ELSE InBlock(m)
  <2>1. \A b \in DOMAIN minors' : minors'[b].block = minors[b].block
    BY <1>4
  <2> QED BY <1>3, <2>1 DEF Of, InBlock
<1> HIDE DEF Upd
<1> QED BY <1>3, <1>4, <1>5, Zenon DEF Gone, p, n

(* The first allocation of each block afterwards, as Lighter finds it. *)
FirstLeft(a, m) ==
    IF m = minors[a].block /\ minors[a].prev = NULL THEN minors[a].next ELSE majors[m].first

LEMMA UnlinkLists ==
    ASSUME HInv, NEW a \in DOMAIN minors, Gone(a)
    PROVE  /\ \A m \in DOMAIN majors : FirstOf(Of(minors', m), FirstLeft(a, m))
           /\ \A b \in DOMAIN minors' :
                 /\ NextOf(Of(minors', minors'[b].block), b, minors'[b].next)
                 /\ PrevOf(Of(minors', minors'[b].block), b, minors'[b].prev)
<1> DEFINE k == minors[a].block
           B == InBlock(k)
           p == minors[a].prev
           n == minors[a].next
<1>1. /\ a \in B /\ p \in Nat /\ n \in Nat
      /\ \A c \in B : c \in Nat \ {0}
      /\ NextOf(B, a, n) /\ PrevOf(B, a, p)
  BY Neighbours, Zenon
<1>2. \A m : Of(minors', m) = IF m = k THEN InBlock(m) \ {a} ELSE InBlock(m)
  BY Zenon DEF Gone
<1>3. ASSUME NEW m \in DOMAIN majors PROVE FirstOf(Of(minors', m), FirstLeft(a, m))
  <2>1. FirstOf(InBlock(m), majors[m].first) /\ majors[m].first \in Nat
    BY Fields DEF HInv, Lists
  <2>2. CASE m = k
    <3>1. Of(minors', m) = B \ {a} /\ FirstLeft(a, m) = IF p = NULL THEN n ELSE majors[m].first
      BY <1>2, <2>2 DEF FirstLeft
    <3>2. FirstOf(B, majors[m].first)
      BY <2>1, <2>2
    <3> HIDE DEF B, p, n, k
    <3>3. FirstOf(B \ {a}, IF p = NULL THEN n ELSE majors[m].first)
      BY <1>1, <2>1, <3>2, RemoveFirst, Zenon
    <3> QED BY <3>1, <3>3, Zenon
  <2>3. CASE m # k
    <3>1. Of(minors', m) = InBlock(m) /\ FirstLeft(a, m) = majors[m].first
      BY <1>2, <2>3 DEF FirstLeft
    <3> QED BY <2>1, <3>1, Zenon
  <2> QED BY <2>2, <2>3
<1>4. ASSUME NEW b \in DOMAIN minors'
      PROVE  /\ NextOf(Of(minors', minors'[b].block), b, minors'[b].next)
             /\ PrevOf(Of(minors', minors'[b].block), b, minors'[b].prev)
  <2>1. /\ b \in DOMAIN minors /\ b # a /\ minors'[b].block = minors[b].block
        /\ minors'[b].next = IF b = p THEN n ELSE minors[b].next
        /\ minors'[b].prev = IF b = n THEN p ELSE minors[b].prev
    BY Zenon DEF Gone
  <2>2. /\ NextOf(InBlock(minors[b].block), b, minors[b].next)
        /\ PrevOf(InBlock(minors[b].block), b, minors[b].prev)
        /\ minors[b].next \in Nat /\ minors[b].prev \in Nat /\ b \in InBlock(minors[b].block)
        /\ b # NULL
    BY <2>1, Neighbours, Fields DEF NULL, HInv
  <2>3. CASE minors[b].block = k
    <3>1. b \in B \ {a} /\ NextOf(B, b, minors[b].next) /\ PrevOf(B, b, minors[b].prev)
      BY <2>1, <2>2, <2>3
    <3>2. Of(minors', minors'[b].block) = B \ {a}
      BY <1>2, <2>1, <2>3
    <3> HIDE DEF B, p, n, k
    <3>3. NextOf(B \ {a}, b, IF b = p THEN n ELSE minors[b].next)
      BY <1>1, <2>2, <3>1, RemoveNext, Zenon
    <3>4. PrevOf(B \ {a}, b, IF b = n THEN p ELSE minors[b].prev)
      BY <1>1, <2>2, <3>1, RemovePrev, Zenon
    <3> QED BY <2>1, <3>2, <3>3, <3>4, Zenon
  <2>4. CASE minors[b].block # k
    <3>1. Of(minors', minors'[b].block) = InBlock(minors[b].block)
      BY <1>2, <2>1, <2>4
    <3>2. b \notin B
      BY <2>4 DEF InBlock
    <3>3. b # p /\ b # n
      BY <1>1, <2>2, <3>2 DEF NextOf, PrevOf
    <3>4. minors'[b].next = minors[b].next /\ minors'[b].prev = minors[b].prev
      BY <2>1, <3>3, Zenon
    <3> QED BY <2>2, <3>1, <3>4, Zenon
  <2> QED BY <2>3, <2>4
<1> QED BY <1>3, <1>4, Zenon

(* The totals of the blocks afterwards, as Lighter reckons them. *)
UsageLeft(a, m) ==
    IF m = minors[a].block THEN majors[m].usage - (minors[a].size + MINOR) ELSE majors[m].usage

LEMMA UnlinkTotals ==
    ASSUME HInv, NEW a \in DOMAIN minors, Gone(a)
    PROVE  /\ l_inuse - minors[a].size = SumFunctionOnSet(Held', DOMAIN minors')
           /\ l_inuse - minors[a].size \in Nat
           /\ \A m \in DOMAIN majors :
                 /\ UsageLeft(a, m) \in Nat
                 /\ UsageLeft(a, m) = MAJOR + SumFunctionOnSet(Extents', Of(minors', m))
<1>1. /\ DOMAIN minors' = DOMAIN minors \ {a}
      /\ \A b \in DOMAIN minors' : minors'[b].size = minors[b].size
      /\ \A m : Of(minors', m) = IF m = minors[a].block THEN InBlock(m) \ {a} ELSE InBlock(m)
  BY Zenon DEF Gone
<1>2. /\ \A b \in DOMAIN minors : Held[b] \in Nat /\ Extents[b] \in Nat
      /\ \A b \in DOMAIN minors \ {a} : Held'[b] = Held[b] /\ Extents'[b] = Extents[b]
      /\ Held[a] = minors[a].size /\ Extents[a] = minors[a].size + MINOR
      /\ minors[a].size \in Nat
  BY <1>1, Fields, Sizes DEF Held, Extents, HInv
<1>3. /\ l_inuse - minors[a].size = SumFunctionOnSet(Held', DOMAIN minors')
      /\ l_inuse - minors[a].size \in Nat
  <2>1. PICK h : h = Held'
    OBVIOUS
  <2>2. /\ IsFiniteSet(DOMAIN minors) /\ Agree(Held, h, DOMAIN minors \ {a})
        /\ NatOn(Held, DOMAIN minors)
    BY <1>2, <2>1 DEF Agree, NatOn, HInv, Tables
  <2>3. /\ SumFunctionOnSet(h, DOMAIN minors \ {a}) \in Nat
        /\ SumFunctionOnSet(Held, DOMAIN minors)
              = Held[a] + SumFunctionOnSet(h, DOMAIN minors \ {a})
    BY <2>2, SumShrinks
  <2>4. l_inuse = SumFunctionOnSet(Held, DOMAIN minors)
    BY Totals DEF HInv
  <2> QED BY <1>1, <1>2, <2>1, <2>3, <2>4
<1>4. ASSUME NEW m \in DOMAIN majors
      PROVE  /\ UsageLeft(a, m) \in Nat
             /\ UsageLeft(a, m) = MAJOR + SumFunctionOnSet(Extents', Of(minors', m))
  <2> DEFINE B == InBlock(m)
  <2>1. PICK h : h = Extents'
    OBVIOUS
  <2>2. majors[m].usage = MAJOR + SumFunctionOnSet(Extents, B) /\ majors[m].usage \in Nat
    BY Totals, Fields DEF HInv
  <2>3. B \subseteq DOMAIN minors /\ IsFiniteSet(B)
    <3>1. B \subseteq DOMAIN minors
      BY DEF InBlock
    <3> QED BY <3>1, FS_Subset DEF HInv, Tables
  <2>4. NatOn(Extents, B)
    BY <1>2, <2>3 DEF NatOn
  <2>5. CASE m = minors[a].block
    <3>1. a \in B /\ Of(minors', m) = B \ {a}
      BY <1>1, <2>5 DEF InBlock
    <3> HIDE DEF B
    <3>2. Agree(Extents, h, B \ {a})
      BY <1>2, <2>1, <2>3 DEF Agree
    <3>3. /\ SumFunctionOnSet(h, B \ {a}) \in Nat
          /\ SumFunctionOnSet(Extents, B) = Extents[a] + SumFunctionOnSet(h, B \ {a})
      BY <2>3, <2>4, <3>1, <3>2, SumShrinks
    <3>4. UsageLeft(a, m) = MAJOR + SumFunctionOnSet(h, B \ {a})
      BY <1>2, <2>2, <2>5, <3>3, Sizes DEF UsageLeft
    <3> QED BY <2>1, <3>1, <3>3, <3>4, Sizes
  <2>6. CASE m # minors[a].block
    <3>1. a \notin B /\ Of(minors', m) = B /\ UsageLeft(a, m) = majors[m].usage
      BY <1>1, <2>6 DEF InBlock, UsageLeft
    <3> HIDE DEF B
    <3>2. Agree(Extents, h, B)
      BY <1>2, <2>1, <2>3, <3>1 DEF Agree
    <3>3. SumFunctionOnSet(h, B) = SumFunctionOnSet(Extents, B)
      BY <2>3, <3>2, SumStays, Zenon
    <3> QED BY <2>1, <2>2, <3>1, <3>3
  <2> QED BY <2>5, <2>6
<1> QED BY <1>3, <1>4, Zenon

(* What free leaves of the block, and what stays of the allocations. *)
LEMMA LighterIs ==
    ASSUME HInv, NEW a \in DOMAIN minors, Gone(a)
    PROVE  LET m == minors[a].block IN
           /\ m \in DOMAIN majors
           /\ Lighter(a) \in [prev : Nat, next : Nat, pages : Nat, usage : Nat, first : Nat]
           /\ Lighter(a).prev = majors[m].prev /\ Lighter(a).next = majors[m].next
           /\ Lighter(a).pages = majors[m].pages
           /\ Lighter(a).usage = UsageLeft(a, m) /\ Lighter(a).first = FirstLeft(a, m)
<1> DEFINE m == minors[a].block
           u == majors[m].usage - (minors[a].size + MINOR)
           f == IF minors[a].prev = NULL THEN minors[a].next ELSE majors[m].first
<1>1. m \in DOMAIN majors /\ minors[a].next \in Nat
  BY Neighbours
<1>2. /\ majors[m] \in [prev : Nat, next : Nat, pages : Nat, usage : Nat, first : Nat]
      /\ majors[m].first \in Nat
  BY <1>1, Fields DEF HInv
<1>3. Lighter(a) = [majors[m] EXCEPT !.usage = u, !.first = f]
  BY <1>2 DEF Lighter
<1>4. u = UsageLeft(a, m) /\ f = FirstLeft(a, m)
  BY DEF UsageLeft, FirstLeft
<1>5. u \in Nat /\ f \in Nat
  BY <1>1, <1>2, <1>4, UnlinkTotals
<1> HIDE DEF u, f
<1>6. /\ Lighter(a) \in [prev : Nat, next : Nat, pages : Nat, usage : Nat, first : Nat]
      /\ Lighter(a).prev = majors[m].prev /\ Lighter(a).next = majors[m].next
      /\ Lighter(a).pages = majors[m].pages /\ Lighter(a).usage = u /\ Lighter(a).first = f
  BY <1>2, <1>3, <1>5
<1> QED BY <1>1, <1>4, <1>6

LEMMA UnlinkMinors ==
    ASSUME HInv, NEW a \in DOMAIN minors, Gone(a)
    PROVE  /\ minors' \in [DOMAIN minors' ->
                 [prev : Nat, next : Nat, block : Nat, size : Nat, req_size : Requests,
                  diff : Nat]]
           /\ IsFiniteSet(DOMAIN minors') /\ DOMAIN minors' \subseteq Nat \ {0}
           /\ Written'
           /\ \A b \in DOMAIN minors' : b \in DOMAIN minors /\ End(b)' = End(b)
                                        /\ minors'[b].block = minors[b].block
<1>1. DOMAIN minors' \subseteq DOMAIN minors
  BY Zenon DEF Gone
<1>2. IsFiniteSet(DOMAIN minors') /\ DOMAIN minors' \subseteq Nat \ {0}
  BY <1>1, FS_Subset DEF HInv, Tables
<1>3. minors' \in [DOMAIN minors' ->
                 [prev : Nat, next : Nat, block : Nat, size : Nat, req_size : Requests,
                  diff : Nat]]
  BY DEF Gone
<1>4. \A b \in DOMAIN minors' :
         /\ b \in DOMAIN minors /\ minors'[b].block = minors[b].block
         /\ minors'[b].size = minors[b].size
         /\ minors'[b].req_size = minors[b].req_size /\ minors'[b].diff = minors[b].diff
  BY Zenon DEF Gone
<1>5. Written' /\ \A b \in DOMAIN minors' : End(b)' = End(b)
  BY <1>4 DEF HInv, Written, End
<1> QED BY <1>2, <1>3, <1>4, <1>5

LEMMA FreedIs ==
    ASSUME HInv, NEW b \in DOMAIN minors
    PROVE  FreedMinor(b) = b
BY WrittenPointers, Zenon DEF HInv

LEMMA FreeKeeps ==
    ASSUME HInv, NEW a \in DOMAIN minors, free(a)
    PROVE  HInv'
<1> DEFINE m == minors[a].block
           left == Lighter(a)
<1>1. FreedMinor(a) = a
  BY FreedIs
<1>2. /\ pc = "idle" /\ halted = "no" /\ left.first # NULL
      /\ l_inuse' = l_inuse - minors[a].size
      /\ minors' = Unlinked(a)
      /\ majors' = [majors EXCEPT ![m] = left]
      /\ l_bestBet' \in {m, l_bestBet}
      /\ frames' = frames /\ l_memRoot' = l_memRoot /\ l_allocated' = l_allocated
      /\ call' = call /\ pc' = pc /\ halted' = halted /\ used' = used
  BY <1>1 DEF free, Going
<1>3. Gone(a)
  BY <1>2, UnlinkFields
<1>4. /\ m \in DOMAIN majors
      /\ left \in [prev : Nat, next : Nat, pages : Nat, usage : Nat, first : Nat]
      /\ left.prev = majors[m].prev /\ left.next = majors[m].next
      /\ left.pages = majors[m].pages
      /\ left.usage = UsageLeft(a, m) /\ left.first = FirstLeft(a, m)
  BY <1>3, LighterIs
<1> HIDE DEF left
<1>5. /\ DOMAIN majors' = DOMAIN majors
      /\ \A o \in DOMAIN majors : majors'[o] = IF o = m THEN left ELSE majors[o]
      /\ majors' \in [DOMAIN majors' ->
            [prev : Nat, next : Nat, pages : Nat, usage : Nat, first : Nat]]
  <2>1. majors \in [DOMAIN majors ->
            [prev : Nat, next : Nat, pages : Nat, usage : Nat, first : Nat]]
    BY DEF HInv, TypeOK
  <2> HIDE DEF m
  <2> QED BY <1>2, <1>4, <2>1
<1>6. \A o \in DOMAIN majors :
         /\ majors'[o].prev = majors[o].prev /\ majors'[o].next = majors[o].next
         /\ majors'[o].pages = majors[o].pages
         /\ majors'[o].usage = UsageLeft(a, o) /\ majors'[o].first = FirstLeft(a, o)
  <2>1. \A o \in DOMAIN majors \ {m} :
           UsageLeft(a, o) = majors[o].usage /\ FirstLeft(a, o) = majors[o].first
    BY DEF UsageLeft, FirstLeft
  <2> HIDE DEF m
  <2> QED BY <1>4, <1>5, <2>1
<1>7. /\ minors' \in [DOMAIN minors' ->
            [prev : Nat, next : Nat, block : Nat, size : Nat, req_size : Requests, diff : Nat]]
      /\ IsFiniteSet(DOMAIN minors') /\ DOMAIN minors' \subseteq Nat \ {0}
      /\ Written'
      /\ \A b \in DOMAIN minors' : b \in DOMAIN minors /\ End(b)' = End(b)
                                   /\ minors'[b].block = minors[b].block
  BY <1>3, UnlinkMinors
<1>8. /\ l_inuse' = SumFunctionOnSet(Held', DOMAIN minors') /\ l_inuse' \in Nat
      /\ \A o \in DOMAIN majors :
            UsageLeft(a, o) = MAJOR + SumFunctionOnSet(Extents', Of(minors', o))
  BY <1>2, <1>3, UnlinkTotals
<1>9. TypeOK' /\ Tables' /\ BestBetLives'
  <2> HIDE DEF m
  <2> QED BY <1>2, <1>4, <1>5, <1>7, <1>8 DEF HInv, TypeOK, Tables, BestBetLives
<1>10. InFrames'
  <2>1. \A o \in DOMAIN majors : \A f : Framed(o, f) => Framed(o, f)'
    BY <1>2, <1>6 DEF Framed
  <2> QED BY <1>2, <1>5, <2>1 DEF HInv, InFrames
<1>11. Disjoint'
  <2>1. \A o \in DOMAIN majors : BlockSize(majors'[o]) = BlockSize(majors[o])
    BY <1>6 DEF BlockSize
  <2> QED BY <1>5, <1>7, <2>1 DEF HInv, Disjoint
<1>12. Lists'
  <2>1. \A o \in DOMAIN majors' : FirstOf(Of(minors', o), majors'[o].first)
    BY <1>3, <1>5, <1>6, UnlinkLists
  <2>2. \A b \in DOMAIN minors' :
           /\ NextOf(Of(minors', minors'[b].block), b, minors'[b].next)
           /\ PrevOf(Of(minors', minors'[b].block), b, minors'[b].prev)
    BY <1>3, UnlinkLists
  <2> QED BY <2>1, <2>2, Zenon DEF Lists, InBlock, Of
<1>13. BlocksLinked'
  <2>1. ASSUME NEW o \in DOMAIN majors
        PROVE  /\ majors'[o].prev = NULL <=> o = l_memRoot
               /\ majors'[o].prev # NULL =>
                     majors'[o].prev \in DOMAIN majors /\ majors'[majors'[o].prev].next = o
               /\ majors'[o].next # NULL =>
                     majors'[o].next \in DOMAIN majors /\ majors'[majors'[o].next].prev = o
    BY <1>6 DEF HInv, BlocksLinked
  <2>2. l_memRoot # NULL /\ majors' # EmptyMap
    <3>1. \A g : g = EmptyMap => DOMAIN g = {}
      BY DEF EmptyMap
    <3> QED BY <1>4, <1>5, <3>1 DEF HInv, BlocksLinked
  <2> QED BY <1>2, <1>5, <2>1, <2>2 DEF BlocksLinked
<1>14. Ranked'
  BY <1>5, <1>6 DEF HInv, Ranked
<1>15. TotalsExact'
  <2>1. DOMAIN Held' = DOMAIN minors' /\ DOMAIN Lengths' = DOMAIN majors'
    BY DEF Held, Lengths
  <2>2. SumFunctionOnSet(Lengths', DOMAIN majors) = SumFunctionOnSet(Lengths, DOMAIN majors)
    BY <1>5, <1>6, SameLengths DEF HInv
  <2>3. l_allocated' = SumFunctionOnSet(Lengths', DOMAIN majors')
    BY <1>2, <1>5, <2>2, Totals DEF HInv
  <2>4. \A o \in DOMAIN majors' : majors'[o].usage = MAJOR + SumFunctionOnSet(Extents', InBlock(o)')
    BY <1>5, <1>6, <1>8 DEF Of, InBlock
  <2> QED BY <1>8, <2>1, <2>3, <2>4 DEF TotalsExact, SumFunction
<1>16. EmptyBlocks'
  <2>1. \A o \in DOMAIN majors : majors[o].first # NULL
    BY <1>2 DEF HInv, EmptyBlocks
  <2>2. \A o \in DOMAIN majors : majors'[o].first # NULL
    BY <1>2, <1>5, <2>1
  <2> QED BY <1>2, <1>5, <2>2 DEF EmptyBlocks
<1> QED BY <1>7, <1>9, <1>10, <1>11, <1>12, <1>13, <1>14, <1>15, <1>16 DEF HInv

(***************************************************************************)
(* A block taken out of the list of blocks.                                *)
(***************************************************************************)
Dropped(m) ==
    /\ DOMAIN majors' = DOMAIN majors \ {m}
    /\ \A o \in DOMAIN majors' :
          /\ o \in DOMAIN majors /\ o # m
          /\ majors'[o] \in [prev : Nat, next : Nat, pages : Nat, usage : Nat, first : Nat]
          /\ majors'[o].next = IF o = majors[m].prev THEN majors[m].next ELSE majors[o].next
          /\ majors'[o].prev = IF o = majors[m].next THEN majors[m].prev ELSE majors[o].prev
          /\ majors'[o].pages = majors[o].pages /\ majors'[o].usage = majors[o].usage
          /\ majors'[o].first = majors[o].first
    /\ majors' \in [DOMAIN majors' ->
          [prev : Nat, next : Nat, pages : Nat, usage : Nat, first : Nat]]

(* No block is its own neighbour, and its two neighbours differ. *)
LEMMA BlocksApart ==
    ASSUME HInv, NEW m \in DOMAIN majors
    PROVE  /\ majors[m].prev # m /\ majors[m].next # m
           /\ majors[m].prev # NULL => majors[m].prev # majors[m].next
<1>1. PICK rank \in [DOMAIN majors -> Nat] :
         \A o \in DOMAIN majors : majors[o].next # NULL => rank[o] < rank[majors[o].next]
  BY DEF HInv, Ranked
<1>2. m # NULL
  BY Fields DEF HInv, NULL
<1>3. /\ majors[m].prev # NULL =>
            majors[m].prev \in DOMAIN majors /\ majors[majors[m].prev].next = m
      /\ majors[m].next # NULL => majors[m].next \in DOMAIN majors
  BY DEF HInv, BlocksLinked
<1>4. majors[m].prev # NULL => rank[majors[m].prev] < rank[m]
  BY <1>1, <1>2, <1>3
<1>5. majors[m].next # NULL => rank[m] < rank[majors[m].next]
  BY <1>1
<1>6. \A o \in DOMAIN majors : rank[o] \in Nat
  OBVIOUS
<1> QED BY <1>2, <1>3, <1>4, <1>5, <1>6

(* The block at the root is the only one when it has no next one. *)
LEMMA AloneAtRoot ==
    ASSUME HInv, l_memRoot \in DOMAIN majors, majors[l_memRoot].next = NULL
    PROVE  DOMAIN majors = {l_memRoot}
<1> DEFINE S == DOMAIN majors \ {l_memRoot}
<1> SUFFICES ASSUME S # {} PROVE FALSE
  OBVIOUS
<1>1. PICK rank \in [DOMAIN majors -> Nat] :
         \A o \in DOMAIN majors : majors[o].next # NULL => rank[o] < rank[majors[o].next]
  BY DEF HInv, Ranked
<1>2. PICK o \in S : \A q \in S : rank[o] <= rank[q]
  <2> DEFINE R == {rank[q] : q \in S}
  <2>1. R \in SUBSET Nat /\ R # {}
    OBVIOUS
  <2>2. PICK r \in R : \A s \in R : r <= s
    BY <2>1, Least
  <2> QED BY <2>2
<1>3. o \in DOMAIN majors /\ o # l_memRoot /\ o # NULL
  BY Fields DEF HInv, NULL
<1>4. majors[o].prev \in DOMAIN majors /\ majors[majors[o].prev].next = o
  BY <1>3 DEF HInv, BlocksLinked
<1>5. rank[majors[o].prev] < rank[o]
  BY <1>1, <1>3, <1>4
<1>6. majors[o].prev = l_memRoot
  <2> SUFFICES ASSUME majors[o].prev # l_memRoot PROVE FALSE
    OBVIOUS
  <2>1. rank[o] <= rank[majors[o].prev]
    BY <1>2, <1>4
  <2>2. rank[o] \in Nat /\ rank[majors[o].prev] \in Nat
    BY <1>3, <1>4
  <2> QED BY <1>5, <2>1, <2>2
<1> QED BY <1>3, <1>4, <1>6

LEMMA DropKeepsLinks ==
    ASSUME HInv, NEW m \in DOMAIN majors, Dropped(m), l_memRoot' = RootAfterRelease(m)
    PROVE  BlocksLinked' /\ Ranked' /\ l_memRoot' \in DOMAIN majors' \cup {NULL}
<1> DEFINE P == majors[m].prev
           N == majors[m].next
<1>1. P # m /\ N # m /\ (P # NULL => P # N)
  BY BlocksApart
<1>2. /\ P = NULL <=> m = l_memRoot
      /\ P # NULL => P \in DOMAIN majors /\ majors[P].next = m
      /\ N # NULL => N \in DOMAIN majors /\ majors[N].prev = m
  BY DEF HInv, BlocksLinked
<1>3. m # NULL /\ \A o \in DOMAIN majors : o # NULL
  BY Fields DEF HInv, NULL
<1>4. /\ DOMAIN majors' = DOMAIN majors \ {m}
      /\ \A o \in DOMAIN majors' :
            /\ o \in DOMAIN majors /\ o # m
            /\ majors'[o].next = IF o = P THEN N ELSE majors[o].next
            /\ majors'[o].prev = IF o = N THEN P ELSE majors[o].prev
  BY Zenon DEF Dropped
<1>5. \A o \in DOMAIN majors :
         /\ majors[o].prev = NULL <=> o = l_memRoot
         /\ majors[o].prev # NULL =>
               majors[o].prev \in DOMAIN majors /\ majors[majors[o].prev].next = o
         /\ majors[o].next # NULL =>
               majors[o].next \in DOMAIN majors /\ majors[majors[o].next].prev = o
  BY DEF HInv, BlocksLinked
<1>6. l_memRoot' = IF l_memRoot = m THEN N ELSE l_memRoot
  BY DEF RootAfterRelease
<1>7. l_memRoot \in DOMAIN majors
  <2>1. \A g : g = EmptyMap => DOMAIN g = {}
    BY DEF EmptyMap
  <2> QED BY <2>1 DEF HInv, BlocksLinked, TypeOK
<1> HIDE DEF P, N
<1>8. l_memRoot' \in DOMAIN majors' \cup {NULL}
  BY <1>1, <1>2, <1>4, <1>6, <1>7
<1>9. ASSUME NEW o \in DOMAIN majors'
      PROVE  /\ majors'[o].prev = NULL <=> o = l_memRoot'
             /\ majors'[o].prev # NULL =>
                   majors'[o].prev \in DOMAIN majors' /\ majors'[majors'[o].prev].next = o
             /\ majors'[o].next # NULL =>
                   majors'[o].next \in DOMAIN majors' /\ majors'[majors'[o].next].prev = o
  <2>1. o \in DOMAIN majors /\ o # m /\ o # NULL
    BY <1>3, <1>4
  <2>2. majors'[o].prev = NULL <=> o = l_memRoot'
    <3>1. CASE o = N
      BY <1>2, <1>3, <1>4, <1>5, <1>6, <2>1, <3>1
    <3>2. CASE o # N
      BY <1>4, <1>5, <1>6, <2>1, <3>2
    <3> QED BY <3>1, <3>2
  <2>3. ASSUME majors'[o].prev # NULL
        PROVE  majors'[o].prev \in DOMAIN majors' /\ majors'[majors'[o].prev].next = o
    <3>1. CASE o = N
      <4>1. majors'[o].prev = P
        BY <1>4, <3>1
      <4>2. P \in DOMAIN majors'
        BY <1>1, <1>2, <1>4, <2>3, <4>1
      <4> QED BY <1>4, <3>1, <4>1, <4>2
    <3>2. CASE o # N
      <4>1. /\ majors'[o].prev = majors[o].prev /\ majors[o].prev \in DOMAIN majors
            /\ majors[majors[o].prev].next = o
        BY <1>4, <1>5, <2>1, <2>3, <3>2
      <4>2. majors[o].prev # m /\ majors[o].prev # P
        BY <1>2, <1>3, <2>1, <3>2, <4>1 DEF N
      <4>3. majors[o].prev \in DOMAIN majors'
        BY <1>4, <4>1, <4>2
      <4> QED BY <1>4, <4>1, <4>2, <4>3
    <3> QED BY <3>1, <3>2
  <2>4. ASSUME majors'[o].next # NULL
        PROVE  majors'[o].next \in DOMAIN majors' /\ majors'[majors'[o].next].prev = o
    <3>1. CASE o = P
      <4>1. majors'[o].next = N
        BY <1>4, <3>1
      <4>2. N \in DOMAIN majors'
        BY <1>1, <1>2, <1>4, <2>4, <4>1
      <4> QED BY <1>4, <3>1, <4>1, <4>2
    <3>2. CASE o # P
      <4>1. /\ majors'[o].next = majors[o].next /\ majors[o].next \in DOMAIN majors
            /\ majors[majors[o].next].prev = o
        <5>1. majors'[o].next = majors[o].next /\ majors[o].next # NULL
          BY <1>4, <2>4, <3>2
        <5> QED BY <1>5, <2>1, <5>1
      <4>2. majors[o].next # m /\ majors[o].next # N
        BY <1>2, <1>3, <2>1, <3>2, <4>1 DEF P
      <4>3. majors[o].next \in DOMAIN majors'
        BY <1>4, <4>1, <4>2
      <4> QED BY <1>4, <4>1, <4>2, <4>3
    <3> QED BY <3>1, <3>2
  <2> QED BY <2>2, <2>3, <2>4
<1>10. l_memRoot' = NULL <=> majors' = EmptyMap
  <2>1. majors' = EmptyMap <=> DOMAIN majors' = {}
    <3>1. \A g : g = EmptyMap => DOMAIN g = {}
      BY DEF EmptyMap
    <3>2. majors' = [o \in DOMAIN majors' |-> majors'[o]]
      BY DEF Dropped
    <3>3. DOMAIN majors' = {} => majors' = EmptyMap
      BY <3>2 DEF EmptyMap
    <3> QED BY <3>1, <3>3
  <2>2. ASSUME l_memRoot' = NULL PROVE DOMAIN majors' = {}
    <3>1. l_memRoot = m /\ N = NULL
      BY <1>3, <1>6, <1>7, <2>2
    <3>2. DOMAIN majors = {m}
      BY <1>7, <3>1, AloneAtRoot DEF N
    <3> QED BY <1>4, <3>2
  <2>3. ASSUME DOMAIN majors' = {} PROVE l_memRoot' = NULL
    BY <1>8, <2>3
  <2> QED BY <2>1, <2>2, <2>3
<1>11. BlocksLinked'
  BY <1>9, <1>10 DEF BlocksLinked
<1>12. Ranked'
  <2>1. PICK rank \in [DOMAIN majors -> Nat] :
           \A o \in DOMAIN majors : majors[o].next # NULL => rank[o] < rank[majors[o].next]
    BY DEF HInv, Ranked
  <2> DEFINE r == [o \in DOMAIN majors' |-> rank[o]]
  <2>2. r \in [DOMAIN majors' -> Nat]
    BY <1>4
  <2>3. ASSUME NEW o \in DOMAIN majors', majors'[o].next # NULL
        PROVE  r[o] < r[majors'[o].next]
    <3>1. o \in DOMAIN majors /\ majors'[o].next \in DOMAIN majors'
      BY <1>4, <1>9, <2>3
    <3>2. r[o] = rank[o] /\ r[majors'[o].next] = rank[majors'[o].next]
      BY <3>1
    <3>3. CASE o = P
      <4>1. majors'[o].next = N /\ N # NULL /\ o # NULL
        BY <1>3, <1>4, <2>3, <3>1, <3>3
      <4>2. majors[P].next = m /\ N \in DOMAIN majors
        BY <1>2, <3>3, <4>1
      <4>3. rank[P] < rank[m]
        BY <1>3, <2>1, <3>1, <3>3, <4>2
      <4>4. rank[m] < rank[N]
        BY <2>1, <4>1 DEF N
      <4>5. rank[P] \in Nat /\ rank[m] \in Nat /\ rank[N] \in Nat
        BY <3>1, <3>3, <4>2
      <4> QED BY <3>2, <3>3, <4>1, <4>3, <4>4, <4>5
    <3>4. CASE o # P
      <4>1. majors'[o].next = majors[o].next
        BY <1>4, <3>4
      <4> QED BY <2>1, <2>3, <3>1, <3>2, <4>1
    <3> QED BY <3>3, <3>4
  <2> HIDE DEF r
  <2> QED BY <2>2, <2>3 DEF Ranked
<1> QED BY <1>8, <1>11, <1>12

(* Blocks that do not overlap have frames of their own. *)
LEMMA RunsOfBlocks ==
    ASSUME HInv, NEW m \in DOMAIN majors, NEW o \in DOMAIN majors, m # o,
           NEW f \in Nat, NEW g \in Nat, Framed(m, f), Framed(o, g)
    PROVE  Run(f, majors[m].pages) \cap Run(g, majors[o].pages) = {}
<1>1. PICK j, k \in Nat : j = majors[m].pages /\ k = majors[o].pages
  BY Fields DEF HInv
<1>2. /\ m = f * PAGE /\ o = g * PAGE /\ m \in Nat /\ o \in Nat
      /\ m < o => m + j * PAGE <= o
      /\ o < m => o + k * PAGE <= m
  BY <1>1, Fields DEF HInv, Disjoint, BlockSize, Framed
<1>3. ASSUME NEW u \in Nat, NEW v \in Nat, NEW n \in Nat, u * PAGE + n * PAGE <= v * PAGE
      PROVE  u + n <= v
  <2> SUFFICES ASSUME v < u + n PROVE FALSE
    BY <1>3
  <2>0. u + n \in Nat
    OBVIOUS
  <2>1. v * PAGE < (u + n) * PAGE /\ v * PAGE \in Nat
    BY <2>0, Times, Zenon
  <2>2. (u + n) * PAGE = u * PAGE + n * PAGE /\ u * PAGE \in Nat /\ n * PAGE \in Nat
    BY Times
  <2> QED BY <1>3, <2>1, <2>2
<1>4. f + j <= g \/ g + k <= f
  BY <1>1, <1>2, <1>3
<1> QED BY <1>1, <1>4 DEF Run

LEMMA FreeLastKeeps ==
    ASSUME HInv, NEW a \in DOMAIN minors, free_last(a)
    PROVE  HInv'
<1> DEFINE m == minors[a].block
           left == Lighter(a)
           ma == [prev : Nat, next : Nat, pages : Nat, usage : Nat, first : Nat]
<1>1. FreedMinor(a) = a
  BY FreedIs
<1>2. /\ pc = "idle" /\ halted = "no" /\ left.first = NULL
      /\ l_inuse' = l_inuse - minors[a].size
      /\ minors' = Unlinked(a)
      /\ l_memRoot' = RootAfterRelease(m)
      /\ l_bestBet' = BetAfterRelease(m)
      /\ majors' = [n \in DOMAIN majors \ {m} |->
              IF n = left.prev THEN [majors[n] EXCEPT !.next = left.next]
              ELSE IF n = left.next THEN [majors[n] EXCEPT !.prev = left.prev]
              ELSE majors[n]]
      /\ l_allocated' = l_allocated - BlockSize(left)
      /\ call' = [NoCall EXCEPT !.maj = m, !.pages = left.pages]
      /\ pc' = "release" /\ frames' = frames /\ halted' = halted
      /\ used' = used \ Run(m \div PAGE, left.pages)
  BY <1>1, Zenon DEF free_last, Going
<1>3. Gone(a)
  BY <1>2, UnlinkFields
<1>4. /\ m \in DOMAIN majors
      /\ left.prev = majors[m].prev /\ left.next = majors[m].next
      /\ left.pages = majors[m].pages /\ left.first = FirstLeft(a, m)
  BY <1>3, LighterIs
<1> HIDE DEF left
<1>5. Dropped(m)
  <2> DEFINE P == majors[m].prev
             N == majors[m].next
             Upd(n) == IF n = P THEN [majors[n] EXCEPT !.next = N]
                       ELSE IF n = N THEN [majors[n] EXCEPT !.prev = P]
                       ELSE majors[n]
  <2>1. majors' = [n \in DOMAIN majors \ {m} |-> Upd(n)]
    BY <1>2, <1>4
  <2>2. P \in Nat /\ N \in Nat /\ (P # NULL => P # N)
    BY <1>4, BlocksApart, Fields DEF HInv
  <2> HIDE DEF P, N, m
  <2>3. /\ DOMAIN majors' = DOMAIN majors \ {m}
        /\ \A o \in DOMAIN majors' : o \in DOMAIN majors /\ o # m /\ majors'[o] = Upd(o)
    <3> HIDE DEF Upd
    <3> QED BY <2>1
  <2>4. ASSUME NEW o \in DOMAIN majors'
        PROVE  /\ majors'[o] \in ma
               /\ majors'[o].next = IF o = P THEN N ELSE majors[o].next
               /\ majors'[o].prev = IF o = N THEN P ELSE majors[o].prev
               /\ majors'[o].pages = majors[o].pages /\ majors'[o].usage = majors[o].usage
               /\ majors'[o].first = majors[o].first
    <3>1. majors[o] \in ma /\ majors'[o] = Upd(o) /\ o # NULL
      BY <2>3, Fields DEF HInv, NULL
    <3>2. CASE o = P
      <4>1. majors'[o] = [majors[o] EXCEPT !.next = N] /\ o # N
        BY <2>2, <3>1, <3>2
      <4> QED BY <2>2, <3>1, <3>2, <4>1
    <3>3. CASE o # P /\ o = N
      <4>1. majors'[o] = [majors[o] EXCEPT !.prev = P]
        BY <3>1, <3>3
      <4> QED BY <2>2, <3>1, <3>3, <4>1
    <3>4. CASE o # P /\ o # N
      <4>1. majors'[o] = majors[o]
        BY <3>1, <3>4
      <4> QED BY <3>1, <3>4, <4>1
    <3> QED BY <3>2, <3>3, <3>4
  <2>5. majors' \in [DOMAIN majors' -> ma]
    <3>1. majors' = [n \in DOMAIN majors' |-> Upd(n)]
      BY <2>1, <2>3
    <3>2. \A o \in DOMAIN majors' : Upd(o) \in ma
      BY <2>3, <2>4
    <3> HIDE DEF Upd
    <3> QED BY <3>1, <3>2
  <2> HIDE DEF Upd
  <2> QED BY <2>3, <2>4, <2>5, Zenon DEF Dropped, P, N
<1>6. BlocksLinked' /\ Ranked' /\ l_memRoot' \in DOMAIN majors' \cup {NULL}
  BY <1>2, <1>4, <1>5, DropKeepsLinks
<1>7. /\ DOMAIN majors' = DOMAIN majors \ {m}
      /\ majors' \in [DOMAIN majors' -> ma]
      /\ \A o \in DOMAIN majors' :
            /\ o \in DOMAIN majors /\ o # m
            /\ majors'[o].pages = majors[o].pages /\ majors'[o].usage = majors[o].usage
            /\ majors'[o].first = majors[o].first
  BY <1>5, Zenon DEF Dropped
<1>8. /\ minors' \in [DOMAIN minors' ->
            [prev : Nat, next : Nat, block : Nat, size : Nat, req_size : Requests, diff : Nat]]
      /\ IsFiniteSet(DOMAIN minors') /\ DOMAIN minors' \subseteq Nat \ {0}
      /\ Written'
      /\ \A b \in DOMAIN minors' : b \in DOMAIN minors /\ End(b)' = End(b)
                                   /\ minors'[b].block = minors[b].block
  BY <1>3, UnlinkMinors
<1>9. /\ l_inuse' = SumFunctionOnSet(Held', DOMAIN minors') /\ l_inuse' \in Nat
      /\ \A o \in DOMAIN majors :
            UsageLeft(a, o) = MAJOR + SumFunctionOnSet(Extents', Of(minors', o))
  BY <1>2, <1>3, UnlinkTotals
<1>10. /\ \A o \in DOMAIN majors : FirstOf(Of(minors', o), FirstLeft(a, o))
       /\ \A b \in DOMAIN minors' :
             /\ NextOf(Of(minors', minors'[b].block), b, minors'[b].next)
             /\ PrevOf(Of(minors', minors'[b].block), b, minors'[b].prev)
  BY <1>3, UnlinkLists
<1>11. \A b \in DOMAIN minors' : minors'[b].block \in DOMAIN majors'
  <2>1. Of(minors', m) = {}
    BY <1>2, <1>4, <1>10 DEF FirstOf
  <2>2. \A b \in DOMAIN minors' : minors'[b].block # m
    BY <2>1 DEF Of
  <2>3. \A b \in DOMAIN minors' : minors[b].block \in DOMAIN majors
    BY <1>8 DEF HInv, Disjoint
  <2> QED BY <1>7, <1>8, <2>2, <2>3
<1>12. \A o \in DOMAIN majors' :
          /\ BlockSize(majors'[o]) = BlockSize(majors[o])
          /\ UsageLeft(a, o) = majors[o].usage /\ FirstLeft(a, o) = majors[o].first
  BY <1>7 DEF BlockSize, UsageLeft, FirstLeft
<1>13. TotalsExact' /\ l_allocated' \in Nat
  <2>1. DOMAIN Held' = DOMAIN minors' /\ DOMAIN Lengths' = DOMAIN majors'
    BY DEF Held, Lengths
  <2>2. \A o \in DOMAIN majors' : majors'[o].usage = MAJOR + SumFunctionOnSet(Extents', InBlock(o)')
    BY <1>7, <1>9, <1>12 DEF Of, InBlock
  <2>3. /\ \A o \in DOMAIN majors : Lengths[o] \in Nat
        /\ \A o \in DOMAIN majors' : Lengths'[o] = Lengths[o]
        /\ Lengths[m] = BlockSize(left)
    <3>1. Lengths[m] = BlockSize(left)
      BY <1>4 DEF Lengths, BlockSize
    <3> HIDE DEF m
    <3> QED BY <1>7, <1>12, <3>1, Fields DEF Lengths, HInv
  <2>4. PICK h : h = Lengths'
    OBVIOUS
  <2>5. /\ IsFiniteSet(DOMAIN majors) /\ NatOn(Lengths, DOMAIN majors)
        /\ Agree(Lengths, h, DOMAIN majors \ {m})
    BY <1>7, <2>3, <2>4 DEF NatOn, Agree, HInv, Tables
  <2>6. /\ SumFunctionOnSet(h, DOMAIN majors \ {m}) \in Nat
        /\ SumFunctionOnSet(Lengths, DOMAIN majors)
              = Lengths[m] + SumFunctionOnSet(h, DOMAIN majors \ {m})
    <3>1. PICK f, S, e : f = Lengths /\ S = DOMAIN majors /\ e = m
      OBVIOUS
    <3>2. IsFiniteSet(S) /\ e \in S /\ NatOn(f, S) /\ Agree(f, h, S \ {e})
      BY <1>4, <2>5, <3>1
    <3>3. /\ SumFunctionOnSet(h, S \ {e}) \in Nat
          /\ SumFunctionOnSet(f, S) = f[e] + SumFunctionOnSet(h, S \ {e})
      BY <3>2, SumShrinks
    <3> QED BY <3>1, <3>3
  <2>7. l_allocated = SumFunctionOnSet(Lengths, DOMAIN majors) /\ Lengths[m] \in Nat
    BY <1>4, <2>3, Totals DEF HInv
  <2>8. l_allocated' = SumFunctionOnSet(Lengths', DOMAIN majors') /\ l_allocated' \in Nat
    BY <1>2, <1>7, <2>3, <2>4, <2>6, <2>7
  <2> QED BY <1>9, <2>1, <2>2, <2>8 DEF TotalsExact, SumFunction
<1>14. TypeOK' /\ BestBetLives' /\ EmptyBlocks'
  <2>1. /\ frames' \subseteq 0 .. BITS - 1 /\ l_bestBet \in DOMAIN majors \cup {NULL}
        /\ used' \subseteq Nat /\ halted' \in {"no", "page_fault", "free_panic"}
    BY <1>2 DEF HInv, TypeOK, BestBetLives
  <2>2. l_bestBet' \in DOMAIN majors' \cup {NULL}
    BY <1>2, <1>7, <2>1 DEF BetAfterRelease
  <2>3. \A o \in DOMAIN majors' : majors'[o].first # NULL
    BY <1>2, <1>7 DEF HInv, EmptyBlocks
  <2> QED BY <1>2, <1>6, <1>7, <1>8, <1>9, <1>13, <2>1, <2>2, <2>3 DEF TypeOK, BestBetLives, EmptyBlocks
<1>15. Tables'
  <2>1. IsFiniteSet(DOMAIN majors') /\ DOMAIN majors' \subseteq Nat \ {0} /\ m \in Nat
    BY <1>4, <1>7, FS_Subset DEF HInv, Tables
  <2>2. call' \in Calls
    <3>1. call' = [req |-> 0, maj |-> m, startedBet |-> FALSE, bestSize |-> 0,
                   pages |-> left.pages]
      BY <1>2 DEF NoCall
    <3>2. left.pages \in Nat
      BY <1>4, Fields DEF HInv
    <3> HIDE DEF m
    <3> QED BY <2>1, <3>1, <3>2 DEF Calls
  <2> QED BY <1>2, <1>8, <2>1, <2>2 DEF Tables
<1>16. InFrames'
  <2>1. PICK f \in 1 .. NFRAMES - 1 : Framed(m, f)
    BY <1>4 DEF HInv, InFrames
  <2>2. used' = used \ Run(f, majors[m].pages)
    <3>1. m = f * PAGE /\ f \in Nat
      BY <2>1, Sizes DEF Framed
    <3>2. m \div PAGE = f
      <4> HIDE DEF m
      <4>1. (f * PAGE) \div PAGE = f
        BY <3>1, PageOf, Zenon
      <4> QED BY <3>1, <4>1, Zenon
    <3> HIDE DEF m
    <3> QED BY <1>2, <1>4, <3>2, Zenon
  <2>3. ASSUME NEW o \in DOMAIN majors', NEW g \in 1 .. NFRAMES - 1, Framed(o, g)
        PROVE  Framed(o, g)'
    <3>1. o \in DOMAIN majors /\ o # m /\ majors'[o].pages = majors[o].pages
      BY <1>7
    <3>2. Run(g, majors[o].pages) \cap Run(f, majors[m].pages) = {}
      BY <1>4, <2>1, <2>3, <3>1, RunsOfBlocks
    <3> QED BY <2>2, <2>3, <3>1, <3>2 DEF Framed
  <2>4. \A o \in DOMAIN majors' : \E g \in 1 .. NFRAMES - 1 : Framed(o, g)
    BY <1>7 DEF HInv, InFrames
  <2>5. RESERVED \subseteq used'
    BY <2>1, <2>2 DEF HInv, InFrames, Framed
  <2> QED BY <2>3, <2>4, <2>5 DEF InFrames
<1>17. Disjoint'
  <2>1. \A b \in DOMAIN minors' :
           LET k == minors'[b].block IN
           /\ k \in DOMAIN majors'
           /\ k + MAJOR <= b /\ End(b)' <= k + BlockSize(majors'[k])
    BY <1>8, <1>11, <1>12 DEF HInv, Disjoint
  <2>2. \A b, c \in DOMAIN minors' : b < c => End(b)' <= c
    BY <1>8 DEF HInv, Disjoint
  <2>3. \A o, k \in DOMAIN majors' : o < k => o + BlockSize(majors'[o]) <= k
    BY <1>7, <1>12 DEF HInv, Disjoint
  <2> QED BY <2>1, <2>2, <2>3 DEF Disjoint
<1>18. Lists'
  <2>1. \A o \in DOMAIN majors' : FirstOf(Of(minors', o), majors'[o].first)
    BY <1>7, <1>10, <1>12
  <2> QED BY <1>10, <2>1, Zenon DEF Lists, InBlock, Of
<1> QED BY <1>6, <1>8, <1>13, <1>14, <1>15, <1>16, <1>17, <1>18 DEF HInv

-----------------------------------------------------------------------------
(* The release of a block, and the stack of a thread.  What a release may  *)
(* have overwritten is not claimed of the lists any more.                  *)
LEMMA ReleaseKeeps ==
    ASSUME HInv, mm_free_pages
    PROVE  HInv'
<1>1. /\ UNCHANGED heapVars /\ l_bestBet' = l_bestBet /\ used' = used
      /\ pc = "release" /\ halted = "no"
  BY DEF mm_free_pages, Releasing, Going
<1>2. call.maj \in Int /\ call \in Calls /\ Below \in Int
  BY Sizes DEF HInv, Tables, Calls, Below
<1>3. /\ frames' \subseteq frames /\ halted' \in {"no", "page_fault", "free_panic"}
      /\ pc' \in {"idle", "release"} /\ call' \in Calls
  <2>1. CASE free_frame
    <3>1. frames' \subseteq frames /\ halted' = "no" /\ pc' \in {"idle", "release"}
      BY <1>1, <2>1 DEF free_frame
    <3>2. PICK q \in Int : q = Below
      BY <1>2
    <3>3. call' = [call EXCEPT !.maj = q, !.pages = @ - 1]
      BY <2>1, <3>2, Zenon DEF free_frame
    <3>4. PICK c \in Calls : c = call
      BY <1>2
    <3>5. [c EXCEPT !.maj = q, !.pages = @ - 1] \in Calls
      <4>1. [c EXCEPT !.maj = q] \in Calls
        BY DEF Calls
      <4>2. PICK d \in Calls : d = [c EXCEPT !.maj = q]
        BY <4>1
      <4>3. [d EXCEPT !.pages = @ - 1] \in Calls
        BY DEF Calls
      <4>4. [d EXCEPT !.pages = @ - 1] = [c EXCEPT !.maj = q, !.pages = @ - 1]
        BY <4>2 DEF Calls
      <4> QED BY <4>3, <4>4
    <3> QED BY <3>1, <3>3, <3>4, <3>5
  <2>2. CASE free_frame_panics \/ free_frame_faults
    BY <1>1, <1>2, <2>2 DEF free_frame_panics, free_frame_faults
  <2> QED BY <2>1, <2>2 DEF mm_free_pages
<1>4. EmptyBlocks'
  BY <1>1, <1>3 DEF HInv, EmptyBlocks, heapVars
<1>5. /\ frames' \subseteq 0 .. BITS - 1 /\ used' \subseteq Nat
      /\ l_bestBet' \in DOMAIN majors \cup {NULL}
  BY <1>1, <1>3 DEF HInv, TypeOK, BestBetLives
<1> QED BY <1>1, <1>3, <1>4, <1>5, CallKeeps

LEMMA StackKeeps ==
    ASSUME HInv, sched_create_stack
    PROVE  HInv'
<1>1. /\ UNCHANGED heapVars /\ l_bestBet' = l_bestBet /\ call' = call /\ pc' = pc
      /\ halted = "no" /\ pc = "idle"
  BY DEF sched_create_stack, Going
<1>2. /\ frames' \subseteq 0 .. BITS - 1
      /\ halted' \in {"no", "page_fault", "free_panic"}
      /\ used \subseteq used' /\ used' \subseteq Nat
  <2>1. frames \subseteq 0 .. BITS - 1 /\ used \subseteq Nat
    BY DEF HInv, TypeOK
  <2>2. CASE NoRun(1) /\ halted' = "page_fault" /\ UNCHANGED <<frames, used, damage>>
    BY <2>1, <2>2
  <2>3. ASSUME NEW f \in 0 .. NFRAMES - 1, set_frames(f, 1), Take({f}), halted' = halted
        PROVE  /\ frames' \subseteq 0 .. BITS - 1 /\ halted' = "no"
               /\ used \subseteq used' /\ used' \subseteq Nat
    BY <1>1, <2>1, <2>3, Sizes DEF set_frames, Run, Take
  <2> QED BY <2>2, <2>3 DEF sched_create_stack
<1>3. EmptyBlocks'
  BY <1>1 DEF HInv, EmptyBlocks, heapVars
<1>4. /\ call' \in Calls /\ pc' \in {"idle", "search", "fresh", "release"}
      /\ pc' \notin {"search", "fresh"} /\ l_bestBet' \in DOMAIN majors \cup {NULL}
  BY <1>1 DEF HInv, Tables, BestBetLives
<1> QED BY <1>1, <1>2, <1>3, <1>4, CallKeeps

LEMMA SameKeeps ==
    ASSUME HInv, UNCHANGED vars
    PROVE  HInv'
<1>1. /\ UNCHANGED heapVars /\ frames' = frames /\ l_bestBet' = l_bestBet
      /\ call' = call /\ pc' = pc /\ halted' = halted /\ used' = used
  BY DEF vars
<1>2. EmptyBlocks'
  BY <1>1 DEF HInv, EmptyBlocks, heapVars
<1>3. /\ frames' \subseteq 0 .. BITS - 1 /\ used \subseteq used' /\ used' \subseteq Nat
      /\ halted' \in {"no", "page_fault", "free_panic"}
      /\ call' \in Calls /\ pc' \in {"idle", "search", "fresh", "release"}
      /\ pc' \in {"search", "fresh"} => call'.maj \in DOMAIN majors /\ call'.req \in Requests
      /\ l_bestBet' \in DOMAIN majors \cup {NULL}
  BY <1>1 DEF HInv, TypeOK, Tables, BestBetLives
<1> QED BY <1>1, <1>2, <1>3, CallKeeps

LEMMA NextHInv ==
    ASSUME HInv, [Next]_vars, damage' # "memory"
    PROVE  HInv'
<1>1. ASSUME NEW req \in Requests, malloc(req) \/ malloc_first(req) PROVE HInv'
  BY <1>1, MallocKeeps, MallocFirstKeeps
<1>2. ASSUME Loop PROVE HInv'
  BY <1>2, LoopKeeps
<1>3. ASSUME NEW a \in DOMAIN minors, free(a) \/ free_last(a) PROVE HInv'
  BY <1>3, FreeKeeps, FreeLastKeeps
<1>4. ASSUME mm_free_pages \/ sched_create_stack PROVE HInv'
  BY <1>4, ReleaseKeeps, StackKeeps
<1>5. ASSUME UNCHANGED vars PROVE HInv'
  BY <1>5, SameKeeps
<1>6. ASSUME Stopped PROVE HInv'
  BY <1>5, <1>6 DEF Stopped
<1> QED BY <1>1, <1>2, <1>3, <1>4, <1>5, <1>6 DEF Next

(* Damage is not undone, and what is damaged is where the model ends. *)
LEMMA DamageStays ==
    ASSUME [Next]_vars, damage = "memory"
    PROVE  damage' = "memory"
<1>1. ~Going
  BY DEF Going
<1>2. ASSUME Next PROVE UNCHANGED vars
  <2>1. ASSUME NEW req PROVE ~malloc(req) /\ ~malloc_first(req)
    BY <1>1, Zenon DEF malloc, malloc_first
  <2>2. ~Loop
    BY <1>1, Zenon DEF Loop, case1, case2, case2_fresh, case3, case4, case5, Searching
  <2>3. ASSUME NEW a PROVE ~free(a) /\ ~free_last(a)
    BY <1>1, Zenon DEF free, free_last
  <2>4. ~mm_free_pages /\ ~sched_create_stack
    BY <1>1, Zenon DEF mm_free_pages, Releasing, sched_create_stack
  <2> QED BY <1>2, <2>1, <2>2, <2>3, <2>4, Zenon DEF Next, Stopped
<1> QED BY <1>2, Zenon DEF vars

(***************************************************************************)
(* The inductive invariant of the heap holds in every reachable state in   *)
(* which no memory is damaged, whatever bits releases have cleared.        *)
(***************************************************************************)
HeapInv == damage # "memory" => HInv

THEOREM HeapInvariant == Spec => []HeapInv
<1>1. Init => HeapInv
  BY InitHInv DEF HeapInv
<1>2. HeapInv /\ [Next]_vars => HeapInv'
  BY NextHInv, DamageStays DEF HeapInv
<1> QED BY <1>1, <1>2, PTL DEF Spec

-----------------------------------------------------------------------------
(***************************************************************************)
(* The lists in the words of ListsSorted.                                  *)
(***************************************************************************)
LEMMA MinIs ==
    ASSUME NEW S, \A c \in S : c \in Nat, NEW n \in S, \A c \in S : n <= c
    PROVE  Min(S) = n
<1>1. \A x \in S : (\A y \in S : x =< y) => x = n
  OBVIOUS
<1> QED BY <1>1 DEF Min

LEMMA MaxIs ==
    ASSUME NEW S, \A c \in S : c \in Nat, NEW n \in S, \A c \in S : c <= n
    PROVE  Max(S) = n
<1>1. \A x \in S : (\A y \in S : x >= y) => x = n
  OBVIOUS
<1> QED BY <1>1 DEF Max

LEMMA NextIs ==
    ASSUME NEW B, \A c \in B : c \in Nat \ {0}, NEW a \in B, NEW n, NextOf(B, a, n)
    PROVE  n = IF {b \in B : b > a} = {} THEN NULL ELSE Min({b \in B : b > a})
<1> DEFINE S == {b \in B : b > a}
<1>1. CASE n = NULL
  <2>1. S = {}
    BY <1>1 DEF NextOf
  <2> QED BY <1>1, <2>1
<1>2. CASE n # NULL
  <2>1. n \in B /\ a < n /\ \A c \in B : c <= a \/ n <= c
    BY <1>2 DEF NextOf
  <2>2. n \in S /\ (\A c \in S : n <= c) /\ (\A c \in S : c \in Nat)
    BY <2>1
  <2> HIDE DEF S
  <2>3. Min(S) = n
    BY <2>2, MinIs
  <2> QED BY <2>2, <2>3 DEF S
<1> QED BY <1>1, <1>2

LEMMA PrevIs ==
    ASSUME NEW B, \A c \in B : c \in Nat \ {0}, NEW a \in B, NEW p, PrevOf(B, a, p)
    PROVE  p = IF {b \in B : b < a} = {} THEN NULL ELSE Max({b \in B : b < a})
<1> DEFINE S == {b \in B : b < a}
<1>1. CASE p = NULL
  <2>1. S = {}
    BY <1>1 DEF PrevOf
  <2> QED BY <1>1, <2>1
<1>2. CASE p # NULL
  <2>1. p \in B /\ p < a /\ \A c \in B : a <= c \/ c <= p
    BY <1>2 DEF PrevOf
  <2>2. p \in S /\ (\A c \in S : c <= p) /\ (\A c \in S : c \in Nat)
    BY <2>1
  <2> HIDE DEF S
  <2>3. Max(S) = p
    BY <2>2, MaxIs
  <2> QED BY <2>2, <2>3 DEF S
<1> QED BY <1>1, <1>2

LEMMA SortedLists ==
    ASSUME HInv
    PROVE  ListsSorted
<1>1. ASSUME NEW m \in DOMAIN majors
      PROVE  IF InBlock(m) = {} THEN majors[m].first = NULL
                                ELSE majors[m].first = Min(InBlock(m))
  <2>1. FirstOf(InBlock(m), majors[m].first) /\ \A c \in InBlock(m) : c \in Nat
    BY Fields DEF HInv, Lists, InBlock
  <2>2. PICK B, f : B = InBlock(m) /\ f = majors[m].first
    OBVIOUS
  <2>3. CASE f = NULL
    BY <2>1, <2>2, <2>3 DEF FirstOf
  <2>4. CASE f # NULL
    <3>1. f \in B /\ (\A c \in B : f <= c) /\ (\A c \in B : c \in Nat)
      BY <2>1, <2>2, <2>4 DEF FirstOf
    <3>2. Min(B) = f
      BY <3>1, MinIs
    <3> QED BY <2>2, <3>1, <3>2
  <2> QED BY <2>3, <2>4
<1>2. ASSUME NEW a \in DOMAIN minors
      PROVE  LET above == {b \in InBlock(minors[a].block) : b > a}
                 below == {b \in InBlock(minors[a].block) : b < a}
             IN  /\ minors[a].next = IF above = {} THEN NULL ELSE Min(above)
                 /\ minors[a].prev = IF below = {} THEN NULL ELSE Max(below)
  <2>1. PICK B, n, p : B = InBlock(minors[a].block) /\ n = minors[a].next /\ p = minors[a].prev
    OBVIOUS
  <2>2. a \in B /\ (\A c \in B : c \in Nat \ {0}) /\ NextOf(B, a, n) /\ PrevOf(B, a, p)
    BY <2>1, Neighbours, Zenon
  <2>3. /\ n = IF {b \in B : b > a} = {} THEN NULL ELSE Min({b \in B : b > a})
        /\ p = IF {b \in B : b < a} = {} THEN NULL ELSE Max({b \in B : b < a})
    BY <2>2, NextIs, PrevIs, Zenon
  <2> QED BY <2>1, <2>3, Zenon
<1> QED BY <1>1, <1>2, Zenon DEF ListsSorted

-----------------------------------------------------------------------------
(***************************************************************************)
(* Where the bitmap is right: no frame in use is clear, and a frame behind *)
(* RAM, which has no bit of its own set, is in use only by a block that    *)
(* also has the last frame of RAM.                                         *)
(***************************************************************************)
InBlockRun(g) ==
    \E m \in DOMAIN majors : \E f \in 1 .. NFRAMES - 1 :
        m = f * PAGE /\ g \in Run(f, majors[m].pages)

Beyond == \A g \in used \ RESERVED : g < NFRAMES \/ InBlockRun(g)

MarkInv == damage = "none" => Marked /\ Beyond

(* A run that first_n_frames finds then is in nobody's use. *)
LEMMA FreshRun ==
    ASSUME HInv, Marked, Beyond, NEW f \in 0 .. NFRAMES - 1, NEW n \in Nat \ {0}, Clear(f, n)
    PROVE  Run(f, n) \cap used = {}
<1> SUFFICES ASSUME NEW g \in Run(f, n), g \in used PROVE FALSE
  OBVIOUS
<1>1. g \notin frames /\ g \in Nat /\ f <= g /\ g < f + n
  BY Sizes DEF Clear, Run
<1>2. g \notin RESERVED /\ ~(g < NFRAMES)
  BY <1>1, Sizes DEF Marked
<1>3. PICK m \in DOMAIN majors, h \in 1 .. NFRAMES - 1 :
          m = h * PAGE /\ g \in Run(h, majors[m].pages)
  BY <1>2 DEF Beyond, InBlockRun
<1>4. PICK k \in 1 .. NFRAMES - 1 : Framed(m, k)
  BY DEF HInv, InFrames
<1>5. k = h
  <2>1. (k * PAGE) \div PAGE = k /\ (h * PAGE) \div PAGE = h
    BY PageOf, Sizes
  <2> QED BY <1>3, <1>4, <2>1, Zenon DEF Framed
<1>6. NFRAMES - 1 \in Run(h, majors[m].pages)
  BY <1>1, <1>2, <1>3, Fields, Sizes DEF Run, HInv
<1>7. NFRAMES - 1 \in used /\ NFRAMES - 1 \in 0 .. NFRAMES - 1
  BY <1>4, <1>5, <1>6, Sizes DEF Framed
<1>8. NFRAMES - 1 \in Run(f, n) /\ NFRAMES - 1 \in frames
  BY <1>1, <1>2, <1>7, Sizes DEF Run, Marked
<1> QED BY <1>8 DEF Clear

(* What a step does to the bitmap and to what is in use. *)
LEMMA NewMarks ==
    ASSUME HInv, Marked, Beyond, damage = "none", NEW req \in Requests,
           NEW prv \in DOMAIN majors \cup {NULL}, NEW a \in PageAddresses,
           allocate_new_page(Size(req), prv, a)
    PROVE  damage' = "none" /\ Marked' /\ Beyond'
<1> DEFINE st == PagesFor(Size(req))
<1>1. PICK f \in 0 .. NFRAMES - 1 : a = f * PAGE
  BY DEF PageAddresses
<1>2. a \div PAGE = f /\ f \in Nat /\ st \in Nat \ {0}
  <2>1. Size(req) \in Nat
    BY RequestSize
  <2> QED BY <1>1, <2>1, PageOf, PagesHold, Sizes
<1>3. Clear(f, st) /\ set_frames(f, st) /\ Take(Run(f, st))
  BY <1>2, Zenon DEF allocate_new_page, NewMajor, first_n_frames
<1> HIDE DEF st
<1>4. damage' = "none" /\ used' = used \cup Run(f, st)
  BY <1>2, <1>3, FreshRun DEF Take
<1>5. Marked'
  BY <1>3, <1>4 DEF Marked, set_frames
<1>6. New(req, prv, a)
  BY <1>4, NewFields DEF HInv
<1>7. /\ DOMAIN majors' = DOMAIN majors \cup {a}
      /\ \A m \in DOMAIN majors : majors'[m].pages = majors[m].pages
  BY <1>6, Zenon DEF New
<1>8. majors'[a].pages = st
  <2>1. majors'[a] = [prev |-> prv, next |-> NULL, pages |-> st, usage |-> MAJOR, first |-> NULL]
    <3> DEFINE Upd(m) == IF m = prv THEN [majors[m] EXCEPT !.next = a] ELSE majors[m]
               new == [prev |-> prv, next |-> NULL, pages |-> st, usage |-> MAJOR, first |-> NULL]
    <3>1. majors' = [m \in DOMAIN majors \cup {a} |-> IF m = a THEN new ELSE Upd(m)]
      BY <1>1, <1>2, Zenon DEF allocate_new_page, NewMajor, st
    <3> HIDE DEF new, Upd
    <3>2. majors'[a] = new
      BY <3>1
    <3> QED BY <3>2 DEF new
  <2> QED BY <2>1
<1>9. f \in 1 .. NFRAMES - 1
  <2>1. a # 0 /\ 0 * PAGE = 0
    BY <1>6, Sizes DEF New
  <2> QED BY <1>1, <2>1
<1>10. Beyond'
  <2>1. ASSUME NEW g \in used' \ RESERVED PROVE g < NFRAMES \/ InBlockRun(g)'
    <3>1. CASE g \in Run(f, st)
      BY <1>1, <1>7, <1>8, <1>9, <3>1 DEF InBlockRun
    <3>2. CASE g \notin Run(f, st)
      <4>1. g < NFRAMES \/ InBlockRun(g)
        BY <1>4, <2>1, <3>2 DEF Beyond
      <4> QED BY <1>7, <4>1 DEF InBlockRun
    <3> QED BY <3>1, <3>2
  <2> QED BY <2>1 DEF Beyond
<1> QED BY <1>4, <1>5, <1>10

LEMMA StackMarks ==
    ASSUME HInv, Marked, Beyond, damage = "none", sched_create_stack
    PROVE  damage' = "none" /\ Marked' /\ Beyond'
<1>1. majors' = majors
  BY DEF sched_create_stack, heapVars
<1>2. ASSUME NEW f \in 0 .. NFRAMES - 1, first_n_frames(f, 1), set_frames(f, 1), Take({f})
      PROVE  damage' = "none" /\ Marked' /\ Beyond'
  <2>1. Run(f, 1) = {f}
    BY Sizes DEF Run
  <2>2. damage' = "none" /\ used' = used \cup {f}
    BY <1>2, <2>1, FreshRun DEF Take, first_n_frames
  <2>3. Marked'
    BY <1>2, <2>1, <2>2 DEF Marked, set_frames
  <2>4. f < NFRAMES /\ \A g : InBlockRun(g)' <=> InBlockRun(g)
    BY <1>1, Sizes DEF InBlockRun
  <2>5. Beyond'
    BY <2>2, <2>4 DEF Beyond
  <2> QED BY <2>2, <2>3, <2>5
<1>3. ASSUME UNCHANGED <<frames, used, damage>>
      PROVE  damage' = "none" /\ Marked' /\ Beyond'
  BY <1>1, <1>3 DEF Marked, Beyond, InBlockRun
<1> QED BY <1>2, <1>3 DEF sched_create_stack

LEMMA FreeLastMarks ==
    ASSUME HInv, Marked, Beyond, damage = "none", NEW b \in DOMAIN minors, free_last(b)
    PROVE  damage' = "none" /\ Marked' /\ Beyond'
<1> DEFINE m == minors[b].block
           left == Lighter(b)
<1>1. FreedMinor(b) = b
  BY FreedIs
<1>2. /\ minors' = Unlinked(b)
      /\ majors' = [n \in DOMAIN majors \ {m} |->
              IF n = left.prev THEN [majors[n] EXCEPT !.next = left.next]
              ELSE IF n = left.next THEN [majors[n] EXCEPT !.prev = left.prev]
              ELSE majors[n]]
      /\ used' = used \ Run(m \div PAGE, left.pages)
      /\ frames' = frames /\ damage' = damage
  BY <1>1, Zenon DEF free_last
<1>3. m \in DOMAIN majors /\ left.pages = majors[m].pages
  <2>1. Gone(b)
    BY <1>2, UnlinkFields
  <2> QED BY <2>1, LighterIs
<1> HIDE DEF left, m
<1>4. ASSUME NEW o \in DOMAIN majors, o # m
      PROVE  o \in DOMAIN majors' /\ majors'[o].pages = majors[o].pages
  <2>1. majors[o] \in [prev : Nat, next : Nat, pages : Nat, usage : Nat, first : Nat]
    BY Fields DEF HInv
  <2>2. majors'[o] \in {[majors[o] EXCEPT !.next = left.next],
                        [majors[o] EXCEPT !.prev = left.prev], majors[o]}
    BY <1>2, <1>4
  <2>3. o \in DOMAIN majors'
    BY <1>2, <1>4
  <2> QED BY <2>1, <2>2, <2>3
<1>5. ASSUME NEW g \in used' \ RESERVED PROVE g < NFRAMES \/ InBlockRun(g)'
  <2>1. CASE g < NFRAMES
    BY <2>1
  <2>2. CASE ~(g < NFRAMES)
    <3>1. PICK o \in DOMAIN majors, f \in 1 .. NFRAMES - 1 :
             o = f * PAGE /\ g \in Run(f, majors[o].pages)
      BY <1>2, <1>5, <2>2 DEF Beyond, InBlockRun
    <3>2. o # m
      <4>1. o \div PAGE = f
        BY <3>1, PageOf, Sizes
      <4> QED BY <1>2, <1>3, <1>5, <3>1, <4>1
    <3> QED BY <1>4, <3>1, <3>2 DEF InBlockRun
  <2> QED BY <2>1, <2>2
<1>6. Marked'
  BY <1>2 DEF Marked
<1> QED BY <1>2, <1>5, <1>6 DEF Beyond

LEMMA ReleaseMarks ==
    ASSUME HInv, Marked, Beyond, mm_free_pages, damage' = "none"
    PROVE  Marked' /\ Beyond'
<1>1. majors' = majors /\ used' = used
  BY DEF mm_free_pages, heapVars
<1>2. Beyond'
  BY <1>1 DEF Beyond, InBlockRun
<1>3. CASE free_frame
  <2>1. PICK word \in Words \ {0} : frames' = frames \ {word} /\ damage' \in Cleared(word)
    BY <1>3 DEF free_frame
  <2>2. word \notin used
    BY <2>1 DEF Cleared
  <2>3. RESERVED \subseteq used
    BY DEF HInv, InFrames
  <2> QED BY <1>1, <1>2, <2>1, <2>2, <2>3 DEF Marked
<1>4. CASE free_frame_panics \/ free_frame_faults
  BY <1>1, <1>2, <1>4 DEF free_frame_panics, free_frame_faults, Marked
<1> QED BY <1>3, <1>4 DEF mm_free_pages

(* The steps that take no frame. *)
SameBitmap ==
    /\ frames' = frames /\ used' = used
    /\ DOMAIN majors' = DOMAIN majors
    /\ \A m \in DOMAIN majors : majors'[m].pages = majors[m].pages

LEMMA SameMarks ==
    ASSUME Marked, Beyond, SameBitmap
    PROVE  Marked' /\ Beyond'
BY DEF SameBitmap, Marked, Beyond, InBlockRun

LEMMA PlaceMarks ==
    ASSUME HInv, NEW a, NEW p, NEW n, Slot(a, p, n), Place(a, p, n)
    PROVE  /\ SameBitmap
           /\ damage' = damage \/ PastRam
<1>1. Placed(a, p, n)
  BY PlaceKeepsLists, Zenon DEF HInv
<1>2. SameBitmap
  <2>1. frames' = frames /\ used' = used
    BY DEF Place
  <2>2. /\ DOMAIN majors' = DOMAIN majors
        /\ \A m \in DOMAIN majors : majors'[m].pages = majors[m].pages
    BY <1>1, Zenon DEF Placed
  <2> QED BY <2>1, <2>2 DEF SameBitmap
<1>3. ASSUME damage' # damage PROVE PastRam
  <2>1. a + MINOR + Size(call.req) > NFRAMES * PAGE
    BY <1>3 DEF Place
  <2>2. /\ call.maj \in DOMAIN majors
        /\ a + Need(call.req) <= call.maj + BlockSize(majors[call.maj])
    BY SlotIsClear DEF HInv, Slot
  <2>3. /\ a + MINOR + Size(call.req) \in Nat /\ NFRAMES * PAGE \in Nat
        /\ call.maj + BlockSize(majors[call.maj]) \in Nat
    BY <2>2, Fields, RequestSize, Sizes, Times DEF HInv, Slot
  <2>4. a + Need(call.req) = a + MINOR + Size(call.req)
    BY <2>3, RequestSize, Sizes DEF HInv, Slot
  <2>5. call.maj + BlockSize(majors[call.maj]) > NFRAMES * PAGE
    BY <2>1, <2>2, <2>3, <2>4
  <2> QED BY <2>2, <2>5, Zenon DEF PastRam
<1> QED BY <1>2, <1>3

LEMMA FreeMarks ==
    ASSUME HInv, NEW a \in DOMAIN minors, free(a)
    PROVE  SameBitmap /\ damage' = damage
<1>1. FreedMinor(a) = a
  BY FreedIs
<1>2. /\ minors' = Unlinked(a) /\ majors' = [majors EXCEPT ![minors[a].block] = Lighter(a)]
      /\ frames' = frames /\ used' = used /\ damage' = damage
  BY <1>1, Zenon DEF free
<1>3. Lighter(a).pages = majors[minors[a].block].pages
  <2>1. Gone(a)
    BY <1>2, UnlinkFields
  <2> QED BY <2>1, LighterIs
<1>4. PICK m, left : m = minors[a].block /\ left = Lighter(a)
  OBVIOUS
<1>5. majors' = [majors EXCEPT ![m] = left] /\ left.pages = majors[m].pages
  BY <1>2, <1>3, <1>4
<1>6. /\ DOMAIN majors' = DOMAIN majors
      /\ \A o \in DOMAIN majors : majors'[o] = IF o = m THEN left ELSE majors[o]
  BY <1>5
<1> QED BY <1>2, <1>5, <1>6 DEF SameBitmap

(* The other steps, and all of them together. *)
LEMMA QuietMarks ==
    ASSUME Marked, Beyond,
           UNCHANGED <<frames, heapVars, used, damage>>
    PROVE  damage' = damage /\ Marked' /\ Beyond'
BY SameMarks DEF SameBitmap, heapVars

LEMMA GrowMarks ==
    ASSUME HInv, Marked, Beyond, damage = "none", NEW next_pc, Searching, Grow(next_pc)
    PROVE  damage' = "none" /\ Marked' /\ Beyond'
<1>1. call.maj \in DOMAIN majors /\ call.req \in Requests
  BY LoopFacts DEF Searching, Going
<1>2. ASSUME NEW a \in PageAddresses, allocate_new_page(Size(call.req), call.maj, a)
      PROVE  damage' = "none" /\ Marked' /\ Beyond'
  <2>1. call.maj \in DOMAIN majors \cup {NULL}
    BY <1>1
  <2> QED BY <1>1, <1>2, <2>1, NewMarks
<1>3. ASSUME no_new_page(Size(call.req)) PROVE damage' = "none" /\ Marked' /\ Beyond'
  BY <1>3, QuietMarks DEF no_new_page
<1> QED BY <1>2, <1>3, Zenon DEF Grow

LEMMA NextMarks ==
    ASSUME HInv, Marked, Beyond, damage = "none", [Next]_vars
    PROVE  /\ damage' = "none" => Marked' /\ Beyond'
           /\ damage' = "none" \/ pc = "release" \/ PastRam
<1>1. ASSUME NEW req \in Requests, malloc(req) \/ malloc_first(req)
      PROVE  damage' = "none" /\ Marked' /\ Beyond'
  <2>1. CASE malloc(req)
    BY <2>1, QuietMarks DEF malloc
  <2>2. CASE no_new_page(Size(req))
    BY <2>2, QuietMarks DEF no_new_page
  <2>3. ASSUME NEW a \in PageAddresses, allocate_new_page(Size(req), NULL, a)
        PROVE  damage' = "none" /\ Marked' /\ Beyond'
    BY <2>3, NewMarks
  <2> QED BY <1>1, <2>1, <2>2, <2>3, Zenon DEF malloc_first
<1>2. ASSUME case1 \/ case5 PROVE damage' = "none" /\ Marked' /\ Beyond'
  <2>1. PICK next_pc : Searching /\ (Hop \/ Restart \/ Grow(next_pc))
    BY <1>2, Zenon DEF case1, case5
  <2>2. CASE Hop \/ Restart
    BY <2>2, QuietMarks DEF Hop, Restart
  <2>3. CASE Grow(next_pc)
    BY <2>1, <2>3, GrowMarks
  <2> QED BY <2>1, <2>2, <2>3
<1>3. ASSUME case2 \/ case2_fresh \/ case3 \/ case4
      PROVE  Marked' /\ Beyond' /\ (damage' = "none" \/ PastRam)
  <2>1. PICK a, p, n : Slot(a, p, n) /\ Place(a, p, n)
    BY <1>3, CasePlaces
  <2> QED BY <2>1, PlaceMarks, SameMarks
<1>4. ASSUME NEW a \in DOMAIN minors, free(a) \/ free_last(a)
      PROVE  damage' = "none" /\ Marked' /\ Beyond'
  BY <1>4, FreeMarks, SameMarks, FreeLastMarks
<1>5. ASSUME mm_free_pages
      PROVE  pc = "release" /\ (damage' = "none" => Marked' /\ Beyond')
  BY <1>5, ReleaseMarks DEF mm_free_pages, Releasing
<1>6. ASSUME sched_create_stack PROVE damage' = "none" /\ Marked' /\ Beyond'
  BY <1>6, StackMarks
<1>7. ASSUME Stopped \/ UNCHANGED vars PROVE damage' = "none" /\ Marked' /\ Beyond'
  BY <1>7, QuietMarks DEF Stopped, vars
<1> QED BY <1>1, <1>2, <1>3, <1>4, <1>5, <1>6, <1>7 DEF Next, Loop

(* Bits once wrong stay under suspicion. *)
LEMMA NoneIsFirst ==
    ASSUME [Next]_vars, damage' = "none"
    PROVE  damage = "none"
<1>1. ASSUME NEW S, Take(S) PROVE damage = "none"
  BY <1>1 DEF Take
<1>2. ASSUME UNCHANGED damage PROVE damage = "none"
  BY <1>2
<1>3. ASSUME NEW size PROVE /\ no_new_page(size) => damage = "none"
                            /\ \A prv, a : allocate_new_page(size, prv, a) => damage = "none"
  BY <1>1, <1>2, Zenon DEF no_new_page, allocate_new_page, NewMajor
<1>4. ASSUME NEW req, malloc(req) \/ malloc_first(req) PROVE damage = "none"
  BY <1>2, <1>3, <1>4, Zenon DEF malloc, malloc_first
<1>5. ASSUME NEW a, NEW p, NEW n, Place(a, p, n) PROVE damage = "none"
  BY <1>5 DEF Place
<1>6. ASSUME Loop PROVE damage = "none"
  BY <1>2, <1>3, <1>5, <1>6, Zenon
     DEF Loop, case1, case2, case2_fresh, case3, case4, case5, Hop, Restart, Grow
<1>7. ASSUME NEW a, free(a) \/ free_last(a) PROVE damage = "none"
  BY <1>2, <1>7, Zenon DEF free, free_last
<1>8. ASSUME mm_free_pages PROVE damage = "none"
  <2>1. ASSUME NEW word, damage' \in Cleared(word) PROVE damage = "none"
    BY <2>1 DEF Cleared
  <2> QED BY <1>2, <1>8, <2>1, Zenon
          DEF mm_free_pages, free_frame, free_frame_panics, free_frame_faults
<1>9. ASSUME sched_create_stack PROVE damage = "none"
  BY <1>1, <1>2, <1>9, Zenon DEF sched_create_stack
<1> QED BY <1>4, <1>6, <1>7, <1>8, <1>9, <1>2, Zenon DEF Next, Stopped, vars

LEMMA MarksHold == Spec => []MarkInv
<1>1. Init => MarkInv
  BY Sizes DEF Init, MarkInv, Marked, Beyond
<1>2. HeapInv /\ MarkInv /\ [Next]_vars => MarkInv'
  <2> SUFFICES ASSUME HeapInv, MarkInv, [Next]_vars, damage' = "none" PROVE Marked' /\ Beyond'
    BY DEF MarkInv
  <2>1. damage = "none"
    BY NoneIsFirst
  <2>2. HInv /\ Marked /\ Beyond
    BY <2>1 DEF HeapInv, MarkInv
  <2> QED BY <2>1, <2>2, NextMarks
<1> QED BY <1>1, <1>2, HeapInvariant, PTL DEF Spec

(***************************************************************************)
(* Every pointer that malloc returned is aligned, the memory behind it and *)
(* the mark of ALIGN in front of it are inside its allocation, and free    *)
(* finds the structure again: for every alignment and header size.         *)
(***************************************************************************)
THEOREM PointersAreSound == Spec => []PointersSound
<1>1. ASSUME HInv, damage # "memory" PROVE PointersSound
  BY <1>1, WrittenPointers, Zenon DEF HInv, PointersSound
<1>2. HeapInv => PointersSound
  BY <1>1, Zenon DEF HeapInv, PointersSound
<1> QED BY <1>2, HeapInvariant, PTL

(***************************************************************************)
(* After any sequence of malloc and free (the search through the blocks,   *)
(* the five cases, emptied blocks taken out and released with the wrong    *)
(* bits cleared) the extents of the allocations are disjoint and inside    *)
(* their blocks, both levels of lists are linked both ways and complete,   *)
(* the totals are the sums they stand for, l_bestBet is a block that       *)
(* exists, no idle block is left and the pointers are sound, as long as no *)
(* memory in use was handed out again or overwritten; and every frame in   *)
(* use is marked until a release clears the bit of one: for every size of  *)
(* RAM, page, header and alignment.                                        *)
(***************************************************************************)
THEOREM HeapIsSound == Spec => []HeapSound
<1>1. HInv => ListsSorted
  BY SortedLists
<1>2. HInv => NoIdleBlock
  BY DEF HInv, EmptyBlocks, NoIdleBlock
<1>3. HeapInv /\ MarkInv /\ PointersSound => HeapSound
  BY <1>1, <1>2, Zenon DEF HeapInv, HInv, MarkInv, HeapSound
<1> QED BY <1>3, HeapInvariant, MarksHold, PointersAreSound, PTL

(***************************************************************************)
(* Calls to malloc and free do no damage of themselves: first_n_frames     *)
(* hands out a frame in use, or the bit of one is cleared, only from the   *)
(* release of an emptied block on, and an allocation lies outside of RAM   *)
(* only in a block that reaches past its end.                              *)
(***************************************************************************)
THEOREM DamageComesFromRelease == Spec => OnlyReleaseDamages
<1>1. /\ HeapInv /\ MarkInv /\ [Next]_vars
      => [damage = "none" /\ damage' # "none" => pc = "release" \/ PastRam]_vars
  <2> SUFFICES ASSUME HeapInv, MarkInv, [Next]_vars, damage = "none", damage' # "none"
               PROVE  pc = "release" \/ PastRam
    OBVIOUS
  <2>1. HInv /\ Marked /\ Beyond
    BY DEF HeapInv, MarkInv
  <2> QED BY <2>1, NextMarks
<1> QED BY <1>1, HeapInvariant, MarksHold, PTL DEF Spec, OnlyReleaseDamages

-----------------------------------------------------------------------------
(***************************************************************************)
(* The allocator that callers see.  The pieces of two minors do not        *)
(* overlap when one minor ends before the other starts.                    *)
(***************************************************************************)
LEMMA PiecesApart ==
    ASSUME NEW a \in Nat, NEW b \in Nat, NEW ra \in Requests, NEW rb \in Requests,
           a + MINOR + Size(ra) <= b
    PROVE  /\ Pointer(a) # Pointer(b)
           /\ ~Abstract!Overlap(<<Pointer(a), ra>>, <<Pointer(b), rb>>)
           /\ ~Abstract!Overlap(<<Pointer(b), rb>>, <<Pointer(a), ra>>)
<1>1. ra \in Nat /\ rb \in Nat /\ Size(ra) = ra + ALIGNMENT + ALIGN_INFO
  BY RequestSize
<1>2. /\ Pointer(a) \in Nat /\ Pointer(a) < a + MINOR + ALIGN_INFO + ALIGNMENT
      /\ Pointer(b) \in Nat /\ b + MINOR + ALIGN_INFO <= Pointer(b)
  BY PointerIs
<1>3. Pointer(a) + ra < Pointer(b)
  BY <1>1, <1>2, Sizes
<1> QED BY <1>1, <1>2, <1>3 DEF Abstract!Overlap

(* The pieces of the minors in mins. *)
Pieces(mins) == {<<Pointer(a), mins[a].req_size>> : a \in DOMAIN mins}

LEMMA PlaceAllocates ==
    ASSUME HInv, NEW a, NEW p, NEW n, Slot(a, p, n), Place(a, p, n)
    PROVE  \E x \in Pieces(minors') \ Pieces(minors) : Abstract!Allocate(x)
<1>x. PICK x : x = <<Pointer(a), call.req>>
  OBVIOUS
<1>1. Placed(a, p, n) /\ a \notin DOMAIN minors
  BY PlaceKeepsLists, Zenon DEF HInv
<1>2. /\ \A b \in DOMAIN minors : End(b) <= a \/ a + Need(call.req) <= b
      /\ a \in Nat /\ call.req \in Requests
  BY SlotIsClear DEF HInv, Slot
<1>3. /\ DOMAIN minors' = DOMAIN minors \cup {a} /\ minors'[a].req_size = call.req
      /\ \A b \in DOMAIN minors : minors'[b].req_size = minors[b].req_size
  BY <1>1, Zenon DEF Placed
<1>4. ASSUME NEW b \in DOMAIN minors
      PROVE  /\ Pointer(a) # Pointer(b)
             /\ ~Abstract!Overlap(x, <<Pointer(b), minors[b].req_size>>)
  <2>1. PICK r \in Requests : r = minors[b].req_size /\ b \in Nat /\ End(b) = b + MINOR + Size(r)
    <3>1. minors[b].req_size \in Requests /\ minors[b].size = Size(minors[b].req_size) /\ b \in Nat
      BY DEF HInv, TypeOK, Tables, Written
    <3> QED BY <3>1 DEF End
  <2>2. PICK s \in Requests : s = call.req
    BY <1>2
  <2>3. b + MINOR + Size(r) <= a \/ a + MINOR + Size(s) <= b
    BY <1>2, <2>1, <2>2, RequestSize, Sizes DEF Need
  <2>4. Pointer(a) # Pointer(b) /\ ~Abstract!Overlap(<<Pointer(a), s>>, <<Pointer(b), r>>)
    BY <1>2, <2>1, <2>3, PiecesApart, Zenon
  <2> QED BY <1>x, <2>1, <2>2, <2>4
<1>5. Pieces(minors') = Pieces(minors) \cup {x}
  BY <1>x, <1>3, <1>1 DEF Pieces
<1>6. \A y \in Pieces(minors) : x[1] # y[1] /\ ~Abstract!Overlap(x, y)
  BY <1>x, <1>4 DEF Pieces
<1>7. x \notin Pieces(minors)
  BY <1>6
<1>8. Abstract!Allocate(x) /\ x \in Pieces(minors') \ Pieces(minors)
  BY <1>5, <1>6, <1>7, Zenon DEF Abstract!Allocate, Pieces
<1> QED BY <1>8, Zenon

LEMMA FreeReleases ==
    ASSUME HInv, NEW a \in DOMAIN minors, free(a) \/ free_last(a)
    PROVE  \E x \in Pieces(minors) : Abstract!Release(x)
<1>x. PICK x : x = <<Pointer(a), minors[a].req_size>>
  OBVIOUS
<1>1. minors' = Unlinked(a)
  BY FreedIs, Zenon DEF free, free_last
<1>2. Gone(a)
  BY <1>1, UnlinkFields
<1>3. /\ DOMAIN minors' = DOMAIN minors \ {a}
      /\ \A b \in DOMAIN minors' : minors'[b].req_size = minors[b].req_size
  BY <1>2, Zenon DEF Gone
<1>4. ASSUME NEW b \in DOMAIN minors, b # a
      PROVE  Pointer(a) # Pointer(b)
  <2>1. /\ minors[b].req_size \in Requests /\ minors[a].req_size \in Requests
        /\ a \in Nat /\ b \in Nat
        /\ End(a) = a + MINOR + Size(minors[a].req_size)
        /\ End(b) = b + MINOR + Size(minors[b].req_size)
    BY DEF HInv, TypeOK, Tables, Written, End
  <2>2. PICK r, s \in Requests : r = minors[a].req_size /\ s = minors[b].req_size
    BY <2>1
  <2>3. b + MINOR + Size(s) <= a \/ a + MINOR + Size(r) <= b
    <3>1. End(b) <= a \/ End(a) <= b
      BY <1>4, <2>1 DEF HInv, Disjoint
    <3> QED BY <2>1, <2>2, <3>1
  <2> QED BY <2>1, <2>3, PiecesApart, Zenon
<1>5. Pieces(minors') = Pieces(minors) \ {x}
  BY <1>x, <1>3, <1>4 DEF Pieces
<1>6. x \in Pieces(minors)
  BY <1>x DEF Pieces
<1>7. Abstract!Release(x)
  BY <1>5, <1>6, Zenon DEF Abstract!Release, Pieces
<1> QED BY <1>6, <1>7, Zenon

(* Every other step leaves the minors as they are. *)
LEMMA NextAllocates ==
    ASSUME HInv, [Next]_vars
    PROVE  \/ \E x \in Pieces(minors') \ Pieces(minors) : Abstract!Allocate(x)
           \/ \E x \in Pieces(minors) : Abstract!Release(x)
           \/ Pieces(minors') = Pieces(minors)
<1>1. ASSUME case2 \/ case2_fresh \/ case3 \/ case4
      PROVE  \E x \in Pieces(minors') \ Pieces(minors) : Abstract!Allocate(x)
  <2>1. PICK a, p, n : Slot(a, p, n) /\ Place(a, p, n)
    BY <1>1, CasePlaces
  <2> QED BY <2>1, PlaceAllocates, Zenon
<1>2. ASSUME NEW a \in DOMAIN minors, free(a) \/ free_last(a)
      PROVE  \E x \in Pieces(minors) : Abstract!Release(x)
  BY <1>2, FreeReleases
<1>3. ASSUME Hop \/ Restart PROVE minors' = minors
  BY <1>3, Zenon DEF Hop, Restart, heapVars
<1>4. ASSUME NEW size, no_new_page(size) PROVE minors' = minors
  BY <1>4, Zenon DEF no_new_page, heapVars
<1>5. ASSUME NEW size, NEW prv, NEW a, allocate_new_page(size, prv, a) PROVE minors' = minors
  BY <1>5, Zenon DEF allocate_new_page
<1>6. ASSUME NEW next_pc, Grow(next_pc) PROVE minors' = minors
  BY <1>4, <1>5, <1>6, Zenon DEF Grow
<1>7. ASSUME case1 \/ case5 PROVE minors' = minors
  BY <1>3, <1>6, <1>7, Zenon DEF case1, case5
<1>8. ASSUME NEW req \in Requests, malloc(req) \/ malloc_first(req) PROVE minors' = minors
  BY <1>4, <1>5, <1>8, Zenon DEF malloc, malloc_first, heapVars
<1>9. ASSUME mm_free_pages \/ sched_create_stack \/ Stopped \/ UNCHANGED vars PROVE minors' = minors
  BY <1>9, Zenon DEF mm_free_pages, sched_create_stack, Stopped, vars, heapVars
<1> QED BY <1>1, <1>2, <1>7, <1>8, <1>9, Zenon DEF Next, Loop

(***************************************************************************)
(* malloc and free implement the allocator of disjoint pieces of memory:   *)
(* a malloc that ends adds one piece that overlaps no live one, a free     *)
(* takes out the piece of its pointer, and no other step, in the middle of *)
(* the search or of a release, changes what the callers hold.  A release   *)
(* that clears the bits of frames in use does not end that; handing such a *)
(* frame out again does, and is the allocator's step to broken.            *)
(***************************************************************************)
THEOREM AllocImplemented == Spec => ImplementsAlloc
<1>1. Init => Abstract!Init
  BY DEF Init, EmptyMap, Abstract!Init
<1>2. HeapInv /\ [Next]_vars => [Abstract!Next]_<<Pieces(minors), damage = "memory">>
  <2> SUFFICES ASSUME HeapInv, [Next]_vars
               PROVE  \/ Abstract!Next
                      \/ /\ Pieces(minors') = Pieces(minors)
                         /\ (damage' = "memory") = (damage = "memory")
    BY Zenon
  <2>1. CASE damage' = "memory"
    BY <2>1, Zenon DEF Abstract!Next
  <2>2. CASE damage' # "memory"
    <3>1. damage # "memory" /\ HInv
      BY <2>2, DamageStays DEF HeapInv
    <3>2. CASE Pieces(minors') = Pieces(minors)
      BY <2>2, <3>1, <3>2
    <3>3. CASE \/ \E x \in Pieces(minors') \ Pieces(minors) : Abstract!Allocate(x)
               \/ \E x \in Pieces(minors) : Abstract!Release(x)
      BY <2>2, <3>1, <3>3, Zenon DEF Abstract!Next, Pieces
    <3> QED BY <3>1, <3>2, <3>3, NextAllocates, Zenon
  <2> QED BY <2>1, <2>2
<1> QED BY <1>1, <1>2, HeapInvariant, PTL DEF ImplementsAlloc, Abstract!Spec, Spec, Pieces
=============================================================================
