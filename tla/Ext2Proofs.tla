----------------------------- MODULE Ext2Proofs -----------------------------
(***************************************************************************)
(* A lookup, token by token, is what Lookup says of it as a whole; it is   *)
(* right for a plain path when strtok has nothing left; and a read gets    *)
(* the blocks it asks for: for every disk, every set of paths and every    *)
(* block size.                                                             *)
(***************************************************************************)
EXTENDS Ext2, SequenceTheorems, WellFoundedInduction, TLAPS

Found   == Inodes \cup {ENOENT}
Strings == Seq(Names)

-----------------------------------------------------------------------------
(* Every set of natural numbers that is not empty has a least element,     *)
(* which stands for induction in what follows.                             *)
LEMMA Least ==
    ASSUME NEW S \in SUBSET Nat, S # {}
    PROVE  \E x \in S : \A y \in S : x <= y
<1> DEFINE R == OpToRel(<, Nat)
<1>1. IsWellFoundedOn(R, Nat)
  BY NatLessThanWellFounded
<1>2. \A x, y \in Nat : x < y => <<x, y>> \in R
  BY DEF OpToRel
<1> HIDE DEF R
<1>3. PICK x \in S : \A y \in S : ~(<<y, x>> \in R)
  BY <1>1, WFMin
<1>4. \A y \in S : ~(y < x)
  BY <1>2, <1>3
<1> QED BY <1>4

LEMMA MinIs ==
    ASSUME NEW S \in SUBSET Nat, S # {}
    PROVE  Min(S) \in S /\ \A y \in S : Min(S) <= y
<1>1. \E x \in S : \A y \in S : x <= y
  BY Least
<1> QED BY <1>1 DEF Min

LEMMA MinOf ==
    ASSUME NEW S \in SUBSET Nat, NEW m \in S, \A y \in S : m <= y
    PROVE  Min(S) = m
<1>1. S # {}
  OBVIOUS
<1>2. Min(S) \in S /\ \A y \in S : Min(S) <= y
  BY <1>1, MinIs
<1>3. PICK x \in Nat : x = Min(S)
  BY <1>2
<1>4. m \in Nat /\ x <= m /\ m <= x
  BY <1>2, <1>3
<1> QED BY <1>3, <1>4

LEMMA Sizes ==
    /\ BS \in Nat /\ BS > 0 /\ NDIRECT \in Nat /\ MAX_POS \in Nat
    /\ Inodes \subseteq Nat /\ ROOT \in Inodes /\ ENOENT \notin Inodes
    /\ Dirs \subseteq Inodes /\ Paths \subseteq Strings /\ Counts \subseteq Nat
    /\ NULL \notin Names /\ NULL \notin Strings /\ NULL \notin Paths
BY Ext2Assumption DEF Strings, ENOENT

-----------------------------------------------------------------------------
(***************************************************************************)
(* A walk in directories dir along n components of a path, of which there  *)
(* are two: in what ext2_read_directory returns, and in what is meant.     *)
(***************************************************************************)
Into(dir, ino, n) == IF ino = ENOENT THEN ENOENT ELSE dir[ino][n]

IsWalk(g, dir, path, n) ==
    g = [i \in 0 .. n |-> IF i = 0 THEN ROOT ELSE Into(dir, g[i - 1], path[i])]

LEMMA WalkExists ==
    ASSUME NEW dir, NEW path, NEW n \in Nat
    PROVE  \E g : IsWalk(g, dir, path, n)
<1> DEFINE Bad == {k \in Nat : ~ \E g : IsWalk(g, dir, path, k)}
<1> SUFFICES ASSUME Bad # {} PROVE FALSE
  OBVIOUS
<1>1. PICK k \in Bad : \A j \in Bad : k <= j
  BY Least
<1>2. k \in Nat /\ ~ \E g : IsWalk(g, dir, path, k)
  OBVIOUS
<1>3. CASE k = 0
  <2> DEFINE g == [i \in 0 .. 0 |-> ROOT]
  <2>1. IsWalk(g, dir, path, 0)
    BY DEF IsWalk
  <2> QED BY <1>2, <1>3, <2>1
<1>4. CASE k # 0
  <2>1. k - 1 \in Nat /\ ~(k <= k - 1)
    BY <1>2, <1>4
  <2>2. PICK h : IsWalk(h, dir, path, k - 1)
    BY <1>1, <2>1
  <2> DEFINE g == [i \in 0 .. k |-> IF i < k THEN h[i] ELSE Into(dir, h[k - 1], path[k])]
  <2>3. \A i \in 0 .. k - 1 : g[i] = h[i]
    BY <1>2
  <2>4. ASSUME NEW i \in 0 .. k
        PROVE  g[i] = IF i = 0 THEN ROOT ELSE Into(dir, g[i - 1], path[i])
    <3>1. CASE i = k
      <4>1. k - 1 \in 0 .. k - 1
        BY <2>1
      <4>2. g[k - 1] = h[k - 1]
        BY <2>3, <4>1
      <4>3. g[k] = Into(dir, h[k - 1], path[k])
        BY <1>2
      <4> QED BY <1>4, <3>1, <4>2, <4>3
    <3>2. CASE i # k
      <4>1. i \in 0 .. k - 1 /\ (i # 0 => i - 1 \in 0 .. k - 1)
        BY <1>2, <3>2
      <4>2. h[i] = IF i = 0 THEN ROOT ELSE Into(dir, h[i - 1], path[i])
        BY <2>2, <4>1 DEF IsWalk
      <4>3. g[i] = h[i] /\ (i # 0 => g[i - 1] = h[i - 1])
        BY <2>3, <4>1
      <4> QED BY <4>2, <4>3
    <3> QED BY <3>1, <3>2
  <2>5. g = [i \in 0 .. k |-> g[i]]
    OBVIOUS
  <2> HIDE DEF g
  <2>6. IsWalk(g, dir, path, k)
    BY <2>4, <2>5 DEF IsWalk
  <2> QED BY <1>2, <2>6
<1> QED BY <1>3, <1>4

(* One step of a walk. *)
Walks(g, dir, path) ==
    /\ g[0] = ROOT
    /\ \A i \in 1 .. Len(path) : g[i] = Into(dir, g[i - 1], path[i])

LEMMA WalkSteps ==
    ASSUME NEW g, NEW dir, NEW path \in Strings, IsWalk(g, dir, path, Len(path))
    PROVE  Walks(g, dir, path)
<1>1. Len(path) \in Nat
  BY LenProperties DEF Strings
<1>2. g = [i \in 0 .. Len(path) |-> IF i = 0 THEN ROOT ELSE Into(dir, g[i - 1], path[i])]
  BY DEF IsWalk
<1>3. g[0] = ROOT
  BY <1>1, <1>2
<1>4. ASSUME NEW i \in 1 .. Len(path) PROVE g[i] = Into(dir, g[i - 1], path[i])
  <2>1. i \in 0 .. Len(path) /\ i # 0
    BY <1>1
  <2> QED BY <1>2, <2>1
<1> QED BY <1>3, <1>4 DEF Walks

WholeDir == [i \in Inodes |-> [n \in Names |-> ext2_read_directory(i, n)]]
MeantDir == [i \in Inodes |-> [n \in Names |-> Child(i, n)]]

LEMMA WholeWalks ==
    ASSUME NEW path \in Strings
    PROVE  Walks(Whole!Walk(path), WholeDir, path)
<1>1. Len(path) \in Nat
  BY LenProperties DEF Strings
<1>2. \E g : IsWalk(g, WholeDir, path, Len(path))
  BY <1>1, WalkExists
<1>3. Whole!Walk(path) = CHOOSE g : IsWalk(g, WholeDir, path, Len(path))
  BY DEF Whole!Walk, Whole!Enter, Whole!ROOT, Whole!ENOENT, ROOT, ENOENT, IsWalk, Into, WholeDir
<1>4. IsWalk(Whole!Walk(path), WholeDir, path, Len(path))
  BY <1>2, <1>3
<1> QED BY <1>4, WalkSteps

LEMMA MeantWalks ==
    ASSUME NEW path \in Strings
    PROVE  Walks(Meant!Walk(path), MeantDir, path)
<1>1. Len(path) \in Nat
  BY LenProperties DEF Strings
<1>2. \E g : IsWalk(g, MeantDir, path, Len(path))
  BY <1>1, WalkExists
<1>3. Meant!Walk(path) = CHOOSE g : IsWalk(g, MeantDir, path, Len(path))
  BY DEF Meant!Walk, Meant!Enter, Meant!ROOT, Meant!ENOENT, ROOT, ENOENT, IsWalk, Into, MeantDir
<1>4. IsWalk(Meant!Walk(path), MeantDir, path, Len(path))
  BY <1>2, <1>3
<1> QED BY <1>4, WalkSteps

(* A directory gives inodes. *)
DirOk(dir) == \A i \in Inodes, n \in Names : dir[i][n] \in Found

LEMMA EntryIs ==
    ASSUME NEW i \in Inodes
    PROVE  /\ Entries[i] \in Seq([name : Names, ino : Inodes])
           /\ DOMAIN Entries[i] \in SUBSET Nat
           /\ \A j \in DOMAIN Entries[i] : Entries[i][j].ino \in Inodes
<1>1. Entries[i] \in Seq([name : Names, ino : Inodes])
  BY Ext2Assumption
<1>2. DOMAIN Entries[i] = 1 .. Len(Entries[i]) /\ Len(Entries[i]) \in Nat
  BY <1>1, LenProperties
<1>3. \A j \in DOMAIN Entries[i] : Entries[i][j] \in [name : Names, ino : Inodes]
  BY <1>1, <1>2, ElementOfSeq
<1> QED BY <1>1, <1>2, <1>3

LEMMA DirsOk == DirOk(WholeDir) /\ DirOk(MeantDir)
<1>1. ASSUME NEW i \in Inodes, NEW n \in Names
      PROVE  ext2_read_directory(i, n) \in Found /\ Child(i, n) \in Found
  <2>1. PICK e : e = Entries[i]
    OBVIOUS
  <2>2. DOMAIN e \in SUBSET Nat /\ \A j \in DOMAIN e : e[j].ino \in Inodes
    BY <2>1, EntryIs
  <2>3. PICK m : m = {j \in DOMAIN e : <<n, e[j].name>> \in StartsWith}
    OBVIOUS
  <2>4. PICK q : q = {j \in DOMAIN e : e[j].name = n}
    OBVIOUS
  <2>5. m \in SUBSET Nat /\ q \in SUBSET Nat /\ m \subseteq DOMAIN e /\ q \subseteq DOMAIN e
    BY <2>2, <2>3, <2>4
  <2>6. m # {} => e[Min(m)].ino \in Inodes
    BY <2>2, <2>5, MinIs
  <2>7. q # {} => e[Min(q)].ino \in Inodes
    BY <2>2, <2>5, MinIs
  <2>8. ext2_read_directory(i, n) = IF m = {} THEN ENOENT ELSE e[Min(m)].ino
    BY <2>1, <2>3 DEF ext2_read_directory
  <2>9. Child(i, n) = IF i \in Dirs /\ q # {} THEN e[Min(q)].ino ELSE ENOENT
    BY <2>1, <2>4 DEF Child
  <2> QED BY <2>6, <2>7, <2>8, <2>9 DEF Found
<1> QED BY <1>1 DEF DirOk, WholeDir, MeantDir

(* A walk is at an inode, or has not found a name. *)
LEMMA WalkFound ==
    ASSUME NEW g, NEW dir, DirOk(dir), NEW path \in Strings, Walks(g, dir, path)
    PROVE  \A i \in 0 .. Len(path) : g[i] \in Found
<1> DEFINE Bad == {i \in 0 .. Len(path) : g[i] \notin Found}
<1>1. Len(path) \in Nat
  BY LenProperties DEF Strings
<1> SUFFICES ASSUME Bad # {} PROVE FALSE
  OBVIOUS
<1>2. Bad \in SUBSET Nat
  BY <1>1
<1>3. PICK k \in Bad : \A j \in Bad : k <= j
  BY <1>2, Least
<1>4. k \in 0 .. Len(path) /\ g[k] \notin Found
  OBVIOUS
<1>5. CASE k = 0
  BY <1>4, <1>5, Sizes DEF Found, Walks
<1>6. CASE k # 0
  <2>1. k \in 1 .. Len(path) /\ k - 1 \in 0 .. Len(path) /\ ~(k <= k - 1)
    BY <1>1, <1>4, <1>6
  <2>2. g[k - 1] \in Found
    BY <1>3, <2>1
  <2>3. path[k] \in Names
    BY <2>1, ElementOfSeq DEF Strings
  <2>4. g[k] = Into(dir, g[k - 1], path[k])
    BY <2>1 DEF Walks
  <2> QED BY <1>4, <2>2, <2>3, <2>4 DEF Into, Found, DirOk
<1> QED BY <1>5, <1>6

(* A walk that has not found a name finds nothing behind it. *)
LEMMA WalkStuck ==
    ASSUME NEW g, NEW dir, NEW path \in Strings, Walks(g, dir, path),
           NEW i \in 0 .. Len(path), g[i] = ENOENT
    PROVE  \A k \in i .. Len(path) : g[k] = ENOENT
<1> DEFINE Bad == {k \in i .. Len(path) : g[k] # ENOENT}
<1>1. Len(path) \in Nat /\ i \in Nat
  BY LenProperties DEF Strings
<1> SUFFICES ASSUME Bad # {} PROVE FALSE
  OBVIOUS
<1>2. Bad \in SUBSET Nat
  BY <1>1
<1>3. PICK k \in Bad : \A j \in Bad : k <= j
  BY <1>2, Least
<1>4. k \in i .. Len(path) /\ g[k] # ENOENT
  OBVIOUS
<1>5. k # i
  BY <1>4
<1>6. k \in 1 .. Len(path) /\ k - 1 \in i .. Len(path) /\ ~(k <= k - 1)
  BY <1>1, <1>4, <1>5
<1>7. g[k - 1] = ENOENT
  BY <1>3, <1>6
<1>8. g[k] = Into(dir, g[k - 1], path[k])
  BY <1>6 DEF Walks
<1> QED BY <1>4, <1>7, <1>8 DEF Into

-----------------------------------------------------------------------------
(***************************************************************************)
(* What Lookup says of a whole lookup, where the walk ends.                *)
(***************************************************************************)
LEMMA ResolveIs ==
    ASSUME NEW str \in Strings
    PROVE  /\ Whole!Resolve(str) = Whole!Walk(str)[Len(str)] /\ Whole!Resolve(str) \in Found
           /\ Resolve(str) = Meant!Walk(str)[Len(str)] /\ Resolve(str) \in Found
<1>1. Len(str) \in Nat /\ Len(str) \in 0 .. Len(str)
  BY LenProperties DEF Strings
<1>2. PICK g : g = Whole!Walk(str)
  OBVIOUS
<1>3. PICK h : h = Meant!Walk(str)
  OBVIOUS
<1>4. Walks(g, WholeDir, str) /\ Walks(h, MeantDir, str)
  BY <1>2, <1>3, WholeWalks, MeantWalks
<1>5. g[Len(str)] \in Found
  BY <1>1, <1>4, WalkFound, DirsOk
<1>6. h[Len(str)] \in Found
  BY <1>1, <1>4, WalkFound, DirsOk
<1>7. Whole!Resolve(str) = g[Len(str)] /\ Resolve(str) = h[Len(str)]
  BY <1>2, <1>3 DEF Whole!Resolve, Resolve, Meant!Resolve
<1> QED BY <1>2, <1>3, <1>5, <1>6, <1>7

LEMMA FindEnded ==
    ASSUME NEW str \in Strings, Whole!Resolve(str) # ENOENT
    PROVE  Whole!FindIn(str) = [ino |-> Whole!Resolve(str), left |-> NULL]
<1>1. Len(str) \in Nat
  BY LenProperties DEF Strings
<1>2. PICK g : g = Whole!Walk(str)
  OBVIOUS
<1>3. Walks(g, WholeDir, str) /\ g[Len(str)] # ENOENT
  BY <1>2, WholeWalks, ResolveIs
<1>4. ASSUME NEW i \in 1 .. Len(str), g[i] = ENOENT PROVE FALSE
  <2>1. i \in 0 .. Len(str) /\ Len(str) \in i .. Len(str)
    BY <1>1
  <2> QED BY <1>3, <1>4, <2>1, WalkStuck
<1>5. Whole!Missing(str) = {}
  BY <1>2, <1>4 DEF Whole!Missing, Whole!ENOENT, ENOENT
<1> QED BY <1>5 DEF Whole!FindIn

LEMMA FindFailed ==
    ASSUME NEW str \in Strings, NEW i \in 1 .. Len(str),
           Whole!Walk(str)[i - 1] # ENOENT, Whole!Walk(str)[i] = ENOENT
    PROVE  /\ Whole!FindIn(str) = [ino |-> ENOENT, left |-> SubSeq(str, i + 1, Len(str))]
           /\ Whole!Resolve(str) = ENOENT
<1>1. Len(str) \in Nat /\ i \in Nat /\ Len(str) \in i .. Len(str) /\ i \in 0 .. Len(str)
  BY LenProperties DEF Strings
<1>2. PICK g : g = Whole!Walk(str)
  OBVIOUS
<1>3. Walks(g, WholeDir, str) /\ g[i - 1] # ENOENT /\ g[i] = ENOENT
  BY <1>2, WholeWalks
<1>4. ASSUME NEW j \in 1 .. Len(str), g[j] = ENOENT PROVE i <= j
  <2> SUFFICES ASSUME ~(i <= j) PROVE FALSE
    OBVIOUS
  <2>1. j \in 0 .. Len(str) /\ i - 1 \in j .. Len(str)
    BY <1>1
  <2> QED BY <1>3, <1>4, <2>1, WalkStuck
<1>5. PICK m : m = {j \in 1 .. Len(str) : g[j] = ENOENT}
  OBVIOUS
<1>6. m \in SUBSET Nat /\ i \in m /\ \A j \in m : i <= j
  BY <1>1, <1>3, <1>4, <1>5
<1>7. Min(m) = i
  BY <1>6, MinOf
<1>8. Whole!Missing(str) = m /\ m # {}
  BY <1>2, <1>5, <1>6 DEF Whole!Missing, Whole!ENOENT, ENOENT
<1>9. Whole!FindIn(str) = [ino |-> ENOENT, left |-> SubSeq(str, Min(m) + 1, Len(str))]
  BY <1>8 DEF Whole!FindIn, Whole!ENOENT, ENOENT, Whole!Min, Min
<1>10. g[Len(str)] = ENOENT
  BY <1>1, <1>3, WalkStuck
<1> QED BY <1>2, <1>7, <1>9, <1>10, ResolveIs

(***************************************************************************)
(* The walk of a plain path is the one that is meant.                      *)
(***************************************************************************)
LEMMA PlainEntry ==
    ASSUME NEW d \in Dirs, NEW n \in Names,
           \A j \in DOMAIN Entries[d] :
              <<n, Entries[d][j].name>> \in StartsWith => Entries[d][j].name = n
    PROVE  ext2_read_directory(d, n) = Child(d, n)
<1>1. <<n, n>> \in StartsWith
  BY Ext2Assumption
<1>2. PICK e : e = Entries[d]
  OBVIOUS
<1>3. {j \in DOMAIN e : <<n, e[j].name>> \in StartsWith} = {j \in DOMAIN e : e[j].name = n}
  BY <1>1, <1>2
<1>4. PICK m : m = {j \in DOMAIN e : e[j].name = n}
  OBVIOUS
<1>5. ext2_read_directory(d, n) = IF m = {} THEN ENOENT ELSE e[Min(m)].ino
  BY <1>2, <1>3, <1>4 DEF ext2_read_directory
<1>6. Child(d, n) = IF m = {} THEN ENOENT ELSE e[Min(m)].ino
  BY <1>2, <1>4 DEF Child
<1> QED BY <1>5, <1>6

LEMMA PlainSame ==
    ASSUME NEW path \in Strings, Plain(path)
    PROVE  Whole!Resolve(path) = Resolve(path)
<1>1. Len(path) \in Nat
  BY LenProperties DEF Strings
<1>2. PICK g : g = Whole!Walk(path)
  OBVIOUS
<1>3. PICK h : h = Meant!Walk(path)
  OBVIOUS
<1>4. Walks(g, WholeDir, path) /\ Walks(h, MeantDir, path)
  BY <1>2, <1>3, WholeWalks, MeantWalks
<1>5. \A i \in 1 .. Len(path) :
         h[i - 1] # ENOENT =>
            /\ h[i - 1] \in Dirs
            /\ \A j \in DOMAIN Entries[h[i - 1]] :
                  <<path[i], Entries[h[i - 1]][j].name>> \in StartsWith =>
                     Entries[h[i - 1]][j].name = path[i]
  BY <1>3 DEF Plain
<1> DEFINE Bad == {k \in 0 .. Len(path) : g[k] # h[k]}
<1>6. Bad = {}
  <2> SUFFICES ASSUME Bad # {} PROVE FALSE
    OBVIOUS
  <2>1. Bad \in SUBSET Nat
    BY <1>1
  <2>2. PICK k \in Bad : \A j \in Bad : k <= j
    BY <2>1, Least
  <2>3. k \in 0 .. Len(path) /\ g[k] # h[k]
    OBVIOUS
  <2>4. k # 0
    BY <1>4, <2>3 DEF Walks
  <2>5. k \in 1 .. Len(path) /\ k - 1 \in 0 .. Len(path) /\ ~(k <= k - 1)
    BY <1>1, <2>3, <2>4
  <2>6. PICK d : d = h[k - 1]
    OBVIOUS
  <2>7. g[k - 1] = d
    BY <2>2, <2>5, <2>6
  <2>8. g[k] = Into(WholeDir, d, path[k]) /\ h[k] = Into(MeantDir, d, path[k])
    BY <1>4, <2>5, <2>6, <2>7 DEF Walks
  <2>9. CASE d = ENOENT
    BY <2>3, <2>8, <2>9 DEF Into
  <2>10. CASE d # ENOENT
    <3>1. d \in Dirs /\ d \in Inodes /\ path[k] \in Names
      BY <1>5, <2>5, <2>6, <2>10, Sizes, ElementOfSeq DEF Strings
    <3>2. ext2_read_directory(d, path[k]) = Child(d, path[k])
      BY <1>5, <2>5, <2>6, <2>10, <3>1, PlainEntry
    <3> QED BY <2>3, <2>8, <2>10, <3>1, <3>2 DEF Into, WholeDir, MeantDir
  <2> QED BY <2>9, <2>10
<1>7. Len(path) \in 0 .. Len(path)
  BY <1>1
<1>8. g[Len(path)] = h[Len(path)]
  BY <1>6, <1>7
<1> QED BY <1>2, <1>3, <1>8, ResolveIs

-----------------------------------------------------------------------------
(***************************************************************************)
(* The invariant.  The types first.                                        *)
(***************************************************************************)
Files == [respath : Paths \cup {NULL}, pos : 0 .. MAX_POS]
Calls == [for : {"stat", "read", "block"}, path : Strings, ino : Inodes,
          tok : Names \cup {NULL}, count : Nat, got : Seq(Int \X Int),
          begun : Strings \cup {NULL}]

Values ==
    /\ sp \in Strings \cup {NULL} /\ file \in Files /\ call \in Calls
    /\ pc \in {"idle", "walk", "found", "failed", "copy"}
    /\ halted \in {"no", "page_fault"}
    /\ file # NoFile => file.respath # NULL

(* The string that is really looked up, and where the walk is. *)
Str(c) == IF c.begun = NULL THEN c.path ELSE c.begun

InWalk(c, s) ==
    \E i \in 1 .. Len(Str(c)) :
        /\ c.tok = Str(c)[i] /\ c.ino = Whole!Walk(Str(c))[i - 1]
        /\ s = SubSeq(Str(c), i + 1, Len(Str(c)))

WalkFailed(c, s) ==
    \E i \in 1 .. Len(Str(c)) :
        /\ Whole!Walk(Str(c))[i - 1] # ENOENT /\ Whole!Walk(Str(c))[i] = ENOENT
        /\ s = SubSeq(Str(c), i + 1, Len(Str(c)))

WalkEnded(c, s) == c.ino = Whole!Resolve(Str(c)) /\ s = NULL

WalkInv ==
    /\ pc = "walk" => InWalk(call, sp)
    /\ pc = "found" => WalkEnded(call, sp)
    /\ pc = "failed" => WalkFailed(call, sp)

(* A read in progress: its file, and the blocks that it has. *)
Sure(f) == Plain(f.respath) /\ Resolve(f.respath) # ENOENT

GotRight(c, f) ==
    \A k \in DOMAIN c.got :
        f.pos \div BS + k - 1 < NDIRECT =>
            c.got[k] = <<Resolve(f.respath), f.pos \div BS + k - 1>>

OfFile(c, f) == f.respath \in Paths /\ c.path = f.respath /\ f.pos + c.count <= MAX_POS

ReadInv ==
    /\ pc # "idle" /\ call.for # "stat" => OfFile(call, file)
    /\ pc = "copy" => call.for = "block" /\ Len(call.got) = call.count \div BS + 1
    /\ pc # "idle" /\ call.for = "read" => call.got = <<>>
    /\ pc # "idle" /\ call.for = "block" =>
          /\ pc # "copy" => Len(call.got) <= call.count \div BS
          /\ Sure(file) => GotRight(call, file) /\ (pc # "copy" => call.begun = NULL)

EInv == Values /\ WalkInv /\ ReadInv

-----------------------------------------------------------------------------
(* Strings without their first components. *)
LEMMA Behind ==
    ASSUME NEW s \in Strings, NEW i \in 1 .. Len(s)
    PROVE  /\ SubSeq(s, i + 1, Len(s)) \in Strings
           /\ SubSeq(s, i + 1, Len(s)) = <<>> => i = Len(s)
           /\ SubSeq(s, i + 1, Len(s)) # <<>> =>
                 /\ i + 1 \in 1 .. Len(s)
                 /\ Head(SubSeq(s, i + 1, Len(s))) = s[i + 1]
                 /\ Tail(SubSeq(s, i + 1, Len(s))) = SubSeq(s, i + 2, Len(s))
<1>1. Len(s) \in Nat /\ i \in Nat /\ i <= Len(s)
  BY LenProperties DEF Strings
<1>2. PICK n \in Nat : n = Len(s)
  BY <1>1
<1>3. \A j \in 1 .. n : s[j] \in Names
  BY <1>2, ElementOfSeq DEF Strings
<1>4. PICK t : t = SubSeq(s, i + 1, n)
  OBVIOUS
<1>5. /\ t \in Strings /\ Len(t) = (IF i + 1 <= n THEN n - i ELSE 0)
      /\ \A j \in 1 .. n - i : t[j] = s[i + j]
  <2>1. i + 1 \in Int /\ n \in Int /\ \A j \in i + 1 .. n : s[j] \in Names
    BY <1>1, <1>2, <1>3
  <2>2. /\ t \in Seq(Names)
        /\ Len(t) = (IF i + 1 <= n THEN n - (i + 1) + 1 ELSE 0)
        /\ \A j \in 1 .. n - (i + 1) + 1 : t[j] = s[(i + 1) + j - 1]
    BY <1>2, <1>4, <2>1, SubSeqProperties DEF Strings
  <2>3. n - (i + 1) + 1 = n - i /\ \A j \in Int : (i + 1) + j - 1 = i + j
    BY <1>1, <1>2
  <2> QED BY <2>2, <2>3 DEF Strings
<1>6. CASE t = <<>>
  <2>1. Len(t) = 0
    BY <1>6
  <2> QED BY <1>1, <1>2, <1>4, <1>5, <1>6, <2>1
<1>7. CASE t # <<>>
  <2>1. i + 1 <= n
    BY <1>2, <1>5, <1>7, EmptySeq DEF Strings
  <2>2. Head(t) = t[1] /\ Tail(t) \in Seq(Names) /\ Len(Tail(t)) = Len(t) - 1
        /\ \A j \in 1 .. Len(Tail(t)) : Tail(t)[j] = t[j + 1]
    BY <1>5, <1>7, HeadTailProperties DEF Strings
  <2>3. Head(t) = s[i + 1]
    <3>1. 1 \in 1 .. n - i
      BY <1>1, <1>2, <2>1
    <3> QED BY <1>5, <2>2, <3>1
  <2>4. PICK u : u = SubSeq(s, i + 2, n)
    OBVIOUS
  <2>5. /\ u \in Seq(Names) /\ Len(u) = (IF i + 2 <= n THEN n - i - 1 ELSE 0)
        /\ \A j \in 1 .. n - i - 1 : u[j] = s[i + 1 + j]
    <3>1. i + 2 \in Int /\ n \in Int /\ \A j \in i + 2 .. n : s[j] \in Names
      BY <1>1, <1>2, <1>3
    <3>2. /\ u \in Seq(Names)
          /\ Len(u) = (IF i + 2 <= n THEN n - (i + 2) + 1 ELSE 0)
          /\ \A j \in 1 .. n - (i + 2) + 1 : u[j] = s[(i + 2) + j - 1]
      BY <1>2, <2>4, <3>1, SubSeqProperties DEF Strings
    <3>3. n - (i + 2) + 1 = n - i - 1 /\ \A j \in Int : (i + 2) + j - 1 = i + 1 + j
      BY <1>1, <1>2
    <3> QED BY <3>2, <3>3
  <2>6. Len(Tail(t)) = n - i - 1 /\ Len(u) = n - i - 1
    <3>1. i \in Nat /\ n \in Nat
      BY <1>1
    <3>2. Len(t) = n - i
      BY <1>5, <2>1
    <3>3. Len(Tail(t)) = n - i - 1
      BY <2>2, <3>2
    <3>4. PICK k : k = Len(u)
      OBVIOUS
    <3>5. k = IF i + 2 <= n THEN n - i - 1 ELSE 0
      BY <2>5, <3>4
    <3>6. k = n - i - 1
      BY <2>1, <3>1, <3>5
    <3> QED BY <3>3, <3>4, <3>6
  <2>7. ASSUME NEW j \in 1 .. n - i - 1 PROVE Tail(t)[j] = u[j]
    <3>1. j + 1 \in 1 .. n - i /\ i + (j + 1) = i + 1 + j
      BY <1>1, <1>2
    <3>2. Tail(t)[j] = t[j + 1]
      BY <2>2, <2>6
    <3>3. t[j + 1] = s[i + 1 + j]
      BY <1>5, <3>1
    <3> QED BY <2>5, <3>2, <3>3
  <2>8. Tail(t) = u
    BY <2>2, <2>5, <2>6, <2>7, SeqEqual
  <2> QED BY <1>1, <1>2, <1>4, <1>5, <1>7, <2>1, <2>3, <2>4, <2>8
<1> QED BY <1>6, <1>7

LEMMA Whole1 ==
    ASSUME NEW s \in Strings, s # <<>>
    PROVE  /\ 1 \in 1 .. Len(s) /\ Head(s) = s[1] /\ Head(s) \in Names
           /\ Tail(s) = SubSeq(s, 2, Len(s)) /\ Tail(s) \in Strings
<1>1. Len(s) \in Nat /\ Len(s) # 0 /\ s \in Seq(Names)
  BY LenProperties, EmptySeq DEF Strings
<1>2. PICK n \in Nat : n = Len(s)
  BY <1>1
<1>3. /\ Head(s) = s[1] /\ Tail(s) \in Seq(Names) /\ Len(Tail(s)) = n - 1
      /\ \A j \in 1 .. Len(Tail(s)) : Tail(s)[j] = s[j + 1]
  BY <1>1, <1>2, HeadTailProperties
<1>4. PICK u : u = SubSeq(s, 2, n)
  OBVIOUS
<1>5. /\ u \in Seq(Names) /\ Len(u) = (IF 2 <= n THEN n - 2 + 1 ELSE 0)
      /\ \A j \in 1 .. n - 2 + 1 : u[j] = s[2 + j - 1]
  <2>1. 2 \in Int /\ n \in Int /\ \A j \in 2 .. n : s[j] \in Names
    BY <1>1, <1>2, ElementOfSeq
  <2> QED BY <1>1, <1>4, <2>1, SubSeqProperties
<1>6. Len(u) = n - 1
  BY <1>1, <1>2, <1>5
<1>7. ASSUME NEW j \in 1 .. n - 1 PROVE Tail(s)[j] = u[j]
  <2>1. 2 + j - 1 = j + 1 /\ j \in 1 .. n - 2 + 1
    OBVIOUS
  <2>2. u[j] = s[j + 1]
    BY <1>5, <2>1
  <2> QED BY <1>3, <2>2
<1>8. Tail(s) = u
  BY <1>3, <1>5, <1>6, <1>7, SeqEqual
<1>9. 1 \in 1 .. Len(s)
  BY <1>1
<1>10. s[1] \in Names
  BY <1>1, <1>9, ElementOfSeq
<1> QED BY <1>2, <1>3, <1>4, <1>8, <1>9, <1>10 DEF Strings

-----------------------------------------------------------------------------
(* Records, changed in some of their fields. *)
Pointers == Strings \cup {NULL}

SameCall(d, c) == d.for = c.for /\ d.path = c.path /\ d.count = c.count
                  /\ d.got = c.got /\ d.begun = c.begun

WithToken(c, ino, tok) == [c EXCEPT !.ino = ino, !.tok = tok]

HasToken(d, c, ino, tok) == d \in Calls /\ SameCall(d, c) /\ d.ino = ino /\ d.tok = tok

LEMMA TokenSet ==
    ASSUME NEW c \in Calls, NEW ino \in Inodes, NEW tok \in Names \cup {NULL}
    PROVE  HasToken(WithToken(c, ino, tok), c, ino, tok)
BY DEF Calls, SameCall, WithToken, HasToken

Begins(c, path, s) == [c EXCEPT !.path = path, !.begun = s]

Begun(c, path, s, d) ==
    /\ d \in Calls /\ d.for = c.for /\ d.path = path /\ d.count = c.count
    /\ d.got = c.got /\ d.begun = s

LEMMA LookupSet ==
    ASSUME NEW c \in Calls, NEW path \in Strings, NEW s \in Pointers
    PROVE  Begun(c, path, s, Begins(c, path, s))
BY DEF Calls, Pointers, Begins, Begun

(* Where a lookup is after a token. *)
AtToken(c, s, p) ==
    /\ p \in {"walk", "found"}
    /\ p = "walk" => InWalk(c, s)
    /\ p = "found" => WalkEnded(c, s)

(***************************************************************************)
(* The first token: of what an earlier lookup has left, or of the path.    *)
(***************************************************************************)
LEMMA FirstToken ==
    ASSUME sp \in Pointers, NEW path \in Strings, NEW c \in Calls, FindFrom(path, c)
    PROVE  sp' \in Pointers /\ Begun(c, path, sp, call') /\ AtToken(call', sp', pc')
<1>1. PICK str : str = IF sp = NULL THEN path ELSE sp
  OBVIOUS
<1>2. str \in Strings /\ Pending(path) = str
  BY <1>1, Sizes DEF Pending, Pointers
<1>3. PICK t : t = strtok(path)
  OBVIOUS
<1>4. PICK e : e = Begins(c, path, sp)
  OBVIOUS
<1>5. /\ e \in Calls /\ e.for = c.for /\ e.path = path /\ e.count = c.count
      /\ e.got = c.got /\ e.begun = sp
  <2>1. Begun(c, path, sp, Begins(c, path, sp))
    BY LookupSet
  <2> QED BY <1>4, <2>1 DEF Begun
<1>6. /\ sp' = t.sp /\ call' = [e EXCEPT !.ino = ROOT, !.tok = t.tok]
      /\ pc' = IF t.tok = NULL THEN "found" ELSE "walk"
  BY <1>3, <1>4 DEF FindFrom, NextToken, Begins
<1>7. str # NULL
  BY <1>2, Sizes
<1>8. Whole!Walk(str)[0] = ROOT
  BY <1>2, WholeWalks DEF Walks
<1>9. CASE str = <<>>
  <2>1. t = [tok |-> NULL, sp |-> NULL]
    BY <1>2, <1>3, <1>9 DEF strtok, AtEnd
  <2>2. sp' = NULL /\ pc' = "found" /\ call' = [e EXCEPT !.ino = ROOT, !.tok = NULL]
    BY <1>6, <2>1
  <2>3. call' \in Calls /\ SameCall(call', e) /\ call'.ino = ROOT
    <3>1. HasToken(WithToken(e, ROOT, NULL), e, ROOT, NULL)
      BY <1>5, Sizes, TokenSet
    <3>2. call' = WithToken(e, ROOT, NULL)
      BY <2>2 DEF WithToken
    <3> QED BY <3>1, <3>2 DEF HasToken
  <2>4. Str(call') = str
    BY <1>1, <1>5, <2>3 DEF Str, SameCall
  <2>5. Whole!Resolve(str) = ROOT
    <3>1. Len(str) = 0
      BY <1>9
    <3> QED BY <1>2, <1>8, <3>1, ResolveIs
  <2>6. AtToken(call', sp', pc')
    BY <2>2, <2>3, <2>4, <2>5 DEF AtToken, WalkEnded
  <2> QED BY <1>5, <2>2, <2>3, <2>6 DEF Begun, SameCall, Pointers
<1>10. CASE str # <<>>
  <2>1. t = [tok |-> Head(str), sp |-> Tail(str)]
    BY <1>2, <1>3, <1>7, <1>10 DEF strtok
  <2>2. /\ 1 \in 1 .. Len(str) /\ Head(str) = str[1] /\ Head(str) \in Names
        /\ Tail(str) = SubSeq(str, 2, Len(str)) /\ Tail(str) \in Strings
    BY <1>2, <1>10, Whole1
  <2>3. Head(str) # NULL
    BY <2>2, Sizes
  <2>4. sp' = Tail(str) /\ pc' = "walk" /\ call' = [e EXCEPT !.ino = ROOT, !.tok = Head(str)]
    BY <1>6, <2>1, <2>3
  <2>5. call' \in Calls /\ SameCall(call', e) /\ call'.ino = ROOT /\ call'.tok = Head(str)
    <3>1. HasToken(WithToken(e, ROOT, Head(str)), e, ROOT, Head(str))
      BY <1>5, <2>2, Sizes, TokenSet
    <3>2. call' = WithToken(e, ROOT, Head(str))
      BY <2>4 DEF WithToken
    <3> QED BY <3>1, <3>2 DEF HasToken
  <2>6. Str(call') = str
    BY <1>1, <1>5, <2>5 DEF Str, SameCall
  <2>7. 1 - 1 = 0 /\ 1 + 1 = 2
    OBVIOUS
  <2>8. InWalk(call', sp')
    BY <1>8, <2>2, <2>4, <2>5, <2>6, <2>7 DEF InWalk
  <2> QED BY <1>5, <2>2, <2>4, <2>5, <2>8 DEF Begun, SameCall, Pointers, AtToken
<1> QED BY <1>9, <1>10

(***************************************************************************)
(* A turn of the loop of ext2_find_file_inode.                             *)
(***************************************************************************)
LEMMA NextTurn ==
    ASSUME EInv, ext2_find_file_inode
    PROVE  /\ sp' \in Pointers /\ call' \in Calls /\ SameCall(call', call)
           /\ \/ AtToken(call', sp', pc')
              \/ pc' = "failed" /\ WalkFailed(call', sp')
<1>1. /\ pc = "walk" /\ call \in Calls /\ sp \in Pointers /\ InWalk(call, sp)
  BY DEF EInv, Values, WalkInv, ext2_find_file_inode, Pointers
<1>2. PICK str : str = Str(call)
  OBVIOUS
<1>3. str \in Strings
  BY <1>1, <1>2 DEF Str, Calls
<1>4. PICK g : g = Whole!Walk(str)
  OBVIOUS
<1>5. PICK i \in 1 .. Len(str) :
         call.tok = str[i] /\ call.ino = g[i - 1] /\ sp = SubSeq(str, i + 1, Len(str))
  BY <1>1, <1>2, <1>4 DEF InWalk
<1>6. Len(str) \in Nat /\ i \in Nat
  BY <1>3, LenProperties DEF Strings
<1>7. call.ino \in Inodes /\ str[i] \in Names
  BY <1>1, <1>3, ElementOfSeq DEF Calls, Strings
<1>8. g[i] = ext2_read_directory(call.ino, call.tok)
  <2>1. g[i] = Into(WholeDir, call.ino, str[i])
    BY <1>3, <1>4, <1>5, WholeWalks DEF Walks
  <2>2. call.ino # ENOENT
    BY <1>7, Sizes
  <2> QED BY <1>5, <1>7, <2>1, <2>2 DEF Into, WholeDir
<1>9. CASE g[i] = ENOENT
  <2>1. pc' = "failed" /\ sp' = sp /\ call' = call
    BY <1>8, <1>9 DEF ext2_find_file_inode
  <2>2. g[i - 1] # ENOENT
    BY <1>5, <1>7, Sizes
  <2>3. WalkFailed(call, sp)
    BY <1>2, <1>4, <1>5, <1>9, <2>2 DEF WalkFailed
  <2> QED BY <1>1, <2>1, <2>3 DEF SameCall
<1>10. CASE g[i] # ENOENT
  <2>1. PICK t : t = strtok(NULL)
    OBVIOUS
  <2>2. /\ sp' = t.sp /\ call' = [call EXCEPT !.ino = g[i], !.tok = t.tok]
        /\ pc' = IF t.tok = NULL THEN "found" ELSE "walk"
    BY <1>8, <1>10, <2>1 DEF ext2_find_file_inode, NextToken
  <2>3. g[i] \in Inodes
    <3>1. i \in 0 .. Len(str)
      BY <1>6
    <3>2. Walks(g, WholeDir, str)
      BY <1>3, <1>4, WholeWalks
    <3>3. g[i] \in Found
      BY <1>3, <3>1, <3>2, WalkFound, DirsOk
    <3> QED BY <1>10, <3>3 DEF Found
  <2>4. sp \in Strings /\ sp # NULL /\ Pending(NULL) = sp
    BY <1>3, <1>5, Behind, Sizes DEF Pending
  <2>5. CASE sp = <<>>
    <3>1. t = [tok |-> NULL, sp |-> NULL]
      BY <2>1, <2>4, <2>5 DEF strtok, AtEnd
    <3>2. sp' = NULL /\ pc' = "found" /\ call' = [call EXCEPT !.ino = g[i], !.tok = NULL]
      BY <2>2, <3>1
    <3>3. call' \in Calls /\ SameCall(call', call) /\ call'.ino = g[i]
      <4>1. HasToken(WithToken(call, g[i], NULL), call, g[i], NULL)
        BY <1>1, <2>3, TokenSet
      <4>2. call' = WithToken(call, g[i], NULL)
        BY <3>2 DEF WithToken
      <4> QED BY <4>1, <4>2 DEF HasToken
    <3>4. Str(call') = str
      BY <1>2, <3>3 DEF Str, SameCall
    <3>5. i = Len(str)
      BY <1>3, <1>5, <2>5, Behind
    <3>6. Whole!Resolve(str) = g[i]
      BY <1>3, <1>4, <3>5, ResolveIs
    <3> QED BY <3>2, <3>3, <3>4, <3>6 DEF AtToken, WalkEnded, Pointers
  <2>6. CASE sp # <<>>
    <3>1. t = [tok |-> Head(sp), sp |-> Tail(sp)]
      BY <2>1, <2>4, <2>6 DEF strtok
    <3>2. /\ i + 1 \in 1 .. Len(str) /\ Head(sp) = str[i + 1]
          /\ Tail(sp) = SubSeq(str, i + 2, Len(str))
      BY <1>3, <1>5, <2>6, Behind
    <3>3. Head(sp) \in Names /\ Tail(sp) \in Strings
      BY <2>4, <2>6, Whole1
    <3>4. sp' = Tail(sp) /\ pc' = "walk" /\ call' = [call EXCEPT !.ino = g[i], !.tok = Head(sp)]
      BY <2>2, <3>1, <3>3, Sizes
    <3>5. call' \in Calls /\ SameCall(call', call) /\ call'.ino = g[i] /\ call'.tok = Head(sp)
      <4>1. HasToken(WithToken(call, g[i], Head(sp)), call, g[i], Head(sp))
        BY <1>1, <2>3, <3>3, TokenSet
      <4>2. call' = WithToken(call, g[i], Head(sp))
        BY <3>4 DEF WithToken
      <4> QED BY <4>1, <4>2 DEF HasToken
    <3>6. Str(call') = str
      BY <1>2, <3>5 DEF Str, SameCall
    <3>7. (i + 1) - 1 = i /\ (i + 1) + 1 = i + 2
      BY <1>6
    <3>8. InWalk(call', sp')
      BY <1>4, <3>2, <3>4, <3>5, <3>6, <3>7 DEF InWalk
    <3> QED BY <3>3, <3>4, <3>5, <3>8 DEF AtToken, Pointers
  <2> QED BY <2>5, <2>6
<1> QED BY <1>9, <1>10

-----------------------------------------------------------------------------
LEMMA NoCallIs == NoCall \in Calls /\ NoCall.for = "stat"
<1>1. <<>> \in Strings /\ <<>> \in Seq(Int \X Int)
  BY DEF Strings
<1> QED BY <1>1, Sizes DEF NoCall, Calls

LEMMA InitInv ==
    ASSUME Init
    PROVE  EInv
<1>1. sp = NULL /\ file = NoFile /\ call = NoCall /\ pc = "idle" /\ halted = "no"
  BY DEF Init
<1>2. file \in Files
  BY <1>1, Sizes DEF NoFile, Files
<1>3. Values
  BY <1>1, <1>2, NoCallIs DEF Values
<1>4. WalkInv /\ ReadInv
  BY <1>1 DEF WalkInv, ReadInv
<1> QED BY <1>3, <1>4 DEF EInv

(* stat begins. *)
LEMMA StatKeeps ==
    ASSUME EInv, NEW p \in Paths, ext2_stat(p)
    PROVE  EInv'
<1>1. pc = "idle" /\ FindFrom(p, NoCall) /\ file' = file /\ halted' = halted
  BY DEF ext2_stat
<1>2. sp \in Pointers /\ p \in Strings
  BY Sizes DEF EInv, Values, Pointers
<1>3. sp' \in Pointers /\ Begun(NoCall, p, sp, call') /\ AtToken(call', sp', pc')
  BY <1>1, <1>2, NoCallIs, FirstToken
<1>4. call' \in Calls /\ call'.for = "stat" /\ pc' \in {"walk", "found"}
  BY <1>3, NoCallIs DEF Begun, AtToken
<1>5. Values'
  BY <1>1, <1>3, <1>4 DEF EInv, Values, Pointers
<1>6. WalkInv'
  BY <1>3, <1>4 DEF WalkInv, AtToken
<1>7. ReadInv'
  BY <1>4 DEF ReadInv
<1> QED BY <1>5, <1>6, <1>7 DEF EInv

LEMMA FileKeeps ==
    ASSUME EInv, (\E p \in Paths : ext2_open(p)) \/ (\E n \in 0 .. MAX_POS : file_set_position(n))
    PROVE  EInv'
<1>1. pc = "idle" /\ sp' = sp /\ call' = call /\ pc' = pc /\ halted' = halted
  BY DEF ext2_open, file_set_position
<1>2. file' \in Files /\ file'.respath # NULL
  <2>1. ASSUME NEW p \in Paths, ext2_open(p)
        PROVE  file' \in Files /\ file'.respath # NULL
    BY <2>1, Sizes DEF ext2_open, Files
  <2>2. ASSUME NEW n \in 0 .. MAX_POS, file_set_position(n)
        PROVE  file' \in Files /\ file'.respath # NULL
    <3>1. file \in Files /\ file.respath # NULL /\ file' = [file EXCEPT !.pos = n]
      BY <2>2 DEF EInv, Values, file_set_position
    <3> QED BY <3>1 DEF Files
  <2> QED BY <2>1, <2>2
<1>3. Values'
  BY <1>1, <1>2 DEF EInv, Values
<1>4. (WalkInv /\ ReadInv)'
  BY <1>1 DEF WalkInv, ReadInv
<1> QED BY <1>3, <1>4 DEF EInv

LEMMA TurnKeeps ==
    ASSUME EInv, ext2_find_file_inode
    PROVE  EInv'
<1>1. pc = "walk" /\ file' = file /\ halted' = halted
  BY DEF ext2_find_file_inode
<1>2. /\ sp' \in Pointers /\ call' \in Calls /\ SameCall(call', call)
      /\ \/ AtToken(call', sp', pc')
         \/ pc' = "failed" /\ WalkFailed(call', sp')
  BY NextTurn
<1>3. pc' \in {"walk", "found", "failed"}
  BY <1>2 DEF AtToken
<1>4. Values'
  BY <1>1, <1>2, <1>3 DEF EInv, Values, Pointers
<1>5. WalkInv'
  BY <1>2, <1>3 DEF WalkInv, AtToken
<1>6. /\ call'.for = call.for /\ call'.path = call.path /\ call'.count = call.count
      /\ call'.got = call.got /\ call'.begun = call.begun
  BY <1>2 DEF SameCall
<1>7. /\ OfFile(call, file) => OfFile(call', file')
      /\ Sure(file') <=> Sure(file)
      /\ GotRight(call, file) => GotRight(call', file')
  BY <1>1, <1>6 DEF OfFile, GotRight
<1>8. ReadInv'
  BY <1>1, <1>3, <1>6, <1>7 DEF EInv, ReadInv
<1> QED BY <1>4, <1>5, <1>8 DEF EInv

(* A call returns. *)
LEMMA ReturnKeeps ==
    ASSUME EInv, stat_done \/ read_failed \/ read_copy
    PROVE  EInv'
<1>1. pc' = "idle" /\ call' = NoCall /\ sp' = sp /\ halted' = halted
  BY DEF stat_done, read_failed, read_copy
<1>2. file' \in Files /\ (file' # NoFile => file'.respath # NULL)
  <2>1. file \in Files /\ (file # NoFile => file.respath # NULL)
    BY DEF EInv, Values
  <2>2. CASE file' = file
    BY <2>1, <2>2
  <2>3. CASE read_copy
    <3>1. pc = "copy" /\ file' = [file EXCEPT !.pos = @ + call.count]
      BY <2>3 DEF read_copy
    <3>2. OfFile(call, file) /\ call \in Calls
      BY <3>1 DEF EInv, ReadInv, Values
    <3>3. call.count \in Nat /\ file.pos \in 0 .. MAX_POS
      BY <2>1, <3>2 DEF Calls, Files
    <3>4. file.pos + call.count \in 0 .. MAX_POS
      BY <3>2, <3>3, Sizes DEF OfFile
    <3>5. file' \in Files /\ file'.respath = file.respath
      BY <2>1, <3>1, <3>4 DEF Files
    <3>6. file.respath # NULL
      BY <3>2, Sizes DEF OfFile
    <3> QED BY <3>5, <3>6
  <2> QED BY <2>2, <2>3 DEF stat_done, read_failed
<1>3. Values'
  BY <1>1, <1>2, NoCallIs DEF EInv, Values
<1>4. (WalkInv /\ ReadInv)'
  BY <1>1 DEF WalkInv, ReadInv
<1> QED BY <1>3, <1>4 DEF EInv

-----------------------------------------------------------------------------
(* A read begins. *)
LEMMA ReadKeeps ==
    ASSUME EInv, NEW n \in Counts, ext2_read_file(n)
    PROVE  EInv'
<1>1. PICK c : c = [NoCall EXCEPT !.for = "read", !.count = n]
  OBVIOUS
<1>2. /\ pc = "idle" /\ file # NoFile /\ file.pos + n <= MAX_POS
      /\ FindFrom(file.respath, c) /\ file' = file /\ halted' = halted
  BY <1>1 DEF ext2_read_file
<1>3. c \in Calls /\ c.for = "read" /\ c.count = n /\ c.got = <<>>
  <2>1. <<>> \in Strings /\ <<>> \in Seq(Int \X Int) /\ n \in Nat
    BY Sizes DEF Strings
  <2>2. c = [for |-> "read", path |-> <<>>, ino |-> ROOT, tok |-> NULL,
             count |-> n, got |-> <<>>, begun |-> NULL]
    BY <1>1 DEF NoCall
  <2> QED BY <2>1, <2>2, Sizes DEF Calls
<1>4. sp \in Pointers /\ file.respath \in Paths /\ file.respath \in Strings
  BY <1>2, Sizes DEF EInv, Values, Pointers, Files
<1>5. sp' \in Pointers /\ Begun(c, file.respath, sp, call') /\ AtToken(call', sp', pc')
  BY <1>2, <1>3, <1>4, FirstToken
<1>6. /\ call' \in Calls /\ call'.for = "read" /\ call'.path = file.respath
      /\ call'.count = n /\ call'.got = <<>> /\ pc' \in {"walk", "found"}
  BY <1>3, <1>5 DEF Begun, AtToken
<1>7. Values'
  BY <1>2, <1>5, <1>6 DEF EInv, Values, Pointers
<1>8. WalkInv'
  BY <1>5, <1>6 DEF WalkInv, AtToken
<1>9. OfFile(call', file')
  BY <1>2, <1>4, <1>6 DEF OfFile
<1>10. ReadInv'
  BY <1>6, <1>9 DEF ReadInv
<1> QED BY <1>7, <1>8, <1>10 DEF EInv

LEMMA BlocksKeep ==
    ASSUME EInv, read_blocks
    PROVE  EInv'
<1>1. PICK c : c = [call EXCEPT !.for = "block"]
  OBVIOUS
<1>2. /\ pc = "found" /\ call.for = "read" /\ FindFrom(file.respath, c)
      /\ file' = file /\ halted' = halted
  BY <1>1 DEF read_blocks
<1>3. OfFile(call, file) /\ call.got = <<>> /\ call \in Calls /\ sp = NULL /\ file \in Files
  BY <1>2 DEF EInv, ReadInv, WalkInv, WalkEnded, Values
<1>4. c \in Calls /\ c.for = "block" /\ c.count = call.count /\ c.got = <<>>
  BY <1>1, <1>3 DEF Calls
<1>5. sp \in Pointers /\ file.respath \in Paths /\ file.respath \in Strings
  BY <1>3, Sizes DEF Pointers, OfFile
<1>6. sp' \in Pointers /\ Begun(c, file.respath, sp, call') /\ AtToken(call', sp', pc')
  BY <1>2, <1>4, <1>5, FirstToken
<1>7. /\ call' \in Calls /\ call'.for = "block" /\ call'.path = file.respath
      /\ call'.count = call.count /\ call'.got = <<>> /\ call'.begun = NULL
      /\ pc' \in {"walk", "found"}
  BY <1>3, <1>4, <1>6 DEF Begun, AtToken
<1>8. Values'
  BY <1>2, <1>6, <1>7 DEF EInv, Values, Pointers
<1>9. WalkInv'
  BY <1>6, <1>7 DEF WalkInv, AtToken
<1>10. OfFile(call', file')
  BY <1>2, <1>3, <1>7 DEF OfFile
<1>11. GotRight(call', file')
  <2>1. DOMAIN call'.got = {}
    BY <1>7
  <2> QED BY <2>1 DEF GotRight
<1>12. Len(call'.got) <= call'.count \div BS
  <2>1. Len(call'.got) = 0
    BY <1>7
  <2>2. call.count \in Nat
    BY <1>3 DEF Calls
  <2>3. 0 <= call.count \div BS
    BY <2>2, Sizes
  <2> QED BY <1>7, <2>1, <2>3
<1>13. ReadInv'
  BY <1>7, <1>10, <1>11, <1>12 DEF ReadInv
<1> QED BY <1>8, <1>9, <1>13 DEF EInv

(***************************************************************************)
(* When a block of a file that exists and is named plainly is looked up,   *)
(* the lookup has begun with nothing left, and has succeeded.              *)
(***************************************************************************)
LEMMA SureFound ==
    ASSUME EInv, pc \in {"found", "failed"}, call.for = "block", Sure(file)
    PROVE  pc = "found" /\ sp = NULL /\ call.ino = Resolve(file.respath)
<1>1. /\ call.begun = NULL /\ OfFile(call, file)
      /\ pc = "found" => WalkEnded(call, sp)
      /\ pc = "failed" => WalkFailed(call, sp)
  BY DEF EInv, ReadInv, WalkInv
<1>2. Str(call) = file.respath /\ file.respath \in Strings
  BY <1>1, Sizes DEF Str, OfFile
<1>3. PICK str \in Strings : str = file.respath
  BY <1>2
<1>4. Whole!Resolve(str) = Resolve(str) /\ Resolve(str) # ENOENT
  BY <1>3, PlainSame DEF Sure
<1>5. pc # "failed"
  <2> SUFFICES ASSUME pc = "failed" PROVE FALSE
    OBVIOUS
  <2>1. PICK i \in 1 .. Len(str) :
           Whole!Walk(str)[i - 1] # ENOENT /\ Whole!Walk(str)[i] = ENOENT
    BY <1>1, <1>2, <1>3 DEF WalkFailed
  <2>2. Whole!Resolve(str) = ENOENT
    BY <2>1, FindFailed
  <2> QED BY <1>4, <2>2
<1>6. sp = NULL /\ call.ino = Whole!Resolve(str)
  BY <1>1, <1>2, <1>3, <1>5 DEF WalkEnded
<1> QED BY <1>3, <1>4, <1>5, <1>6

(* The call with one more block. *)
WithBlock(c, content) == [c EXCEPT !.got = Append(@, content)]

HasBlock(d, c, content) ==
    /\ d \in Calls /\ d.for = c.for /\ d.path = c.path /\ d.count = c.count
    /\ d.got = Append(c.got, content)

LEMMA BlockSet ==
    ASSUME NEW c \in Calls, NEW content \in Int \X Int
    PROVE  HasBlock(WithBlock(c, content), c, content)
<1>1. c.got \in Seq(Int \X Int)
  BY DEF Calls
<1>2. PICK g \in Seq(Int \X Int) : g = Append(c.got, content)
  BY <1>1, AppendProperties
<1>3. WithBlock(c, content) = [c EXCEPT !.got = g]
  BY <1>2 DEF WithBlock
<1> QED BY <1>2, <1>3 DEF Calls, HasBlock

LEMMA GotOne ==
    ASSUME NEW c \in Calls, NEW f \in Files, NEW content \in Int \X Int, NEW d,
           HasBlock(d, c, content), GotRight(c, f),
           f.pos \div BS + Len(c.got) < NDIRECT =>
              content = <<Resolve(f.respath), f.pos \div BS + Len(c.got)>>
    PROVE  GotRight(d, f)
<1>1. c.got \in Seq(Int \X Int) /\ d.got = Append(c.got, content)
  BY DEF Calls, HasBlock
<1>2. PICK n \in Nat : n = Len(c.got)
  BY <1>1, LenProperties
<1>3. /\ DOMAIN c.got = 1 .. n /\ DOMAIN d.got = 1 .. n + 1
      /\ \A k \in 1 .. n : d.got[k] = c.got[k]
      /\ d.got[n + 1] = content
  <2>1. /\ d.got \in Seq(Int \X Int) /\ Len(d.got) = n + 1
        /\ \A k \in 1 .. n : d.got[k] = c.got[k]
        /\ d.got[n + 1] = content
    BY <1>1, <1>2, AppendProperties
  <2> QED BY <1>1, <1>2, <2>1, LenProperties
<1>4. PICK q \in Int : q = f.pos \div BS
  BY Sizes DEF Files
<1>5. ASSUME NEW k \in DOMAIN d.got, q + k - 1 < NDIRECT
      PROVE  d.got[k] = <<Resolve(f.respath), q + k - 1>>
  <2>1. CASE k = n + 1
    <3>1. q + k - 1 = q + n
      BY <1>2, <1>4, <2>1
    <3> QED BY <1>2, <1>3, <1>4, <1>5, <2>1, <3>1
  <2>2. CASE k # n + 1
    <3>1. k \in 1 .. n
      BY <1>2, <1>3, <2>2
    <3> QED BY <1>3, <1>4, <1>5, <3>1 DEF GotRight
  <2> QED BY <2>1, <2>2
<1> QED BY <1>4, <1>5 DEF GotRight

LEMMA BlockKeeps ==
    ASSUME EInv, pc \in {"found", "failed"}, call.for = "block",
           NEW content \in Int \X Int, BlockDone(content),
           Sure(file) /\ b < NDIRECT => content = <<Resolve(file.respath), b>>,
           UNCHANGED <<file, halted>>
    PROVE  EInv'
<1>1. /\ call \in Calls /\ file \in Files /\ OfFile(call, file) /\ sp \in Pointers
      /\ Len(call.got) <= call.count \div BS
      /\ Sure(file) => GotRight(call, file)
      /\ file' = file /\ halted' = halted
  BY DEF EInv, Values, ReadInv, Pointers
<1>2. PICK c : c = WithBlock(call, content)
  OBVIOUS
<1>3. HasBlock(c, call, content)
  BY <1>1, <1>2, BlockSet
<1>4. c \in Calls /\ c.for = "block" /\ c.path = file.respath /\ c.count = call.count
  BY <1>1, <1>3 DEF HasBlock, OfFile
<1>5. PICK n \in Nat : n = Len(call.got)
  BY <1>1, LenProperties DEF Calls
<1>6. Len(c.got) = n + 1
  BY <1>1, <1>3, <1>5, AppendProperties DEF HasBlock, Calls
<1>7. PICK m \in Int : m = call.count \div BS
  BY <1>1, Sizes DEF Calls
<1>8. n <= m /\ blocks = m
  BY <1>1, <1>5, <1>7 DEF blocks
<1>9. Sure(file) => GotRight(c, file)
  BY <1>1, <1>3, GotOne DEF b, cblock
<1>10. Sure(file) => sp = NULL
  BY SureFound
<1>11. CASE n < m
  <2>1. FindFrom(file.respath, c)
    BY <1>2, <1>5, <1>8, <1>11 DEF BlockDone, WithBlock
  <2>2. file.respath \in Strings
    BY <1>1, Sizes DEF OfFile
  <2>3. sp' \in Pointers /\ Begun(c, file.respath, sp, call') /\ AtToken(call', sp', pc')
    BY <1>1, <1>4, <2>1, <2>2, FirstToken
  <2>4. /\ call' \in Calls /\ call'.for = "block" /\ call'.path = file.respath
        /\ call'.count = call.count /\ call'.got = c.got /\ call'.begun = sp
        /\ pc' \in {"walk", "found"}
    BY <1>4, <2>3 DEF Begun, AtToken
  <2>5. Values'
    BY <1>1, <2>3, <2>4 DEF EInv, Values, Pointers
  <2>6. WalkInv'
    BY <2>3, <2>4 DEF WalkInv, AtToken
  <2>7. OfFile(call', file')
    BY <1>1, <2>4 DEF OfFile
  <2>8. Len(call'.got) <= call'.count \div BS
    BY <1>6, <1>7, <1>11, <2>4
  <2>9. Sure(file') => GotRight(call', file') /\ call'.begun = NULL
    BY <1>1, <1>9, <1>10, <2>4 DEF GotRight
  <2>10. ReadInv'
    BY <2>4, <2>7, <2>8, <2>9 DEF ReadInv
  <2> QED BY <2>5, <2>6, <2>10 DEF EInv
<1>12. CASE ~(n < m)
  <2>1. call' = c /\ pc' = "copy" /\ sp' = sp
    BY <1>2, <1>5, <1>8, <1>12 DEF BlockDone, WithBlock
  <2>2. Values'
    BY <1>1, <1>4, <2>1 DEF EInv, Values
  <2>3. OfFile(call', file')
    BY <1>1, <1>4, <2>1 DEF OfFile
  <2>4. n = m
    BY <1>8, <1>12
  <2>5. Len(call'.got) = call'.count \div BS + 1
    BY <1>4, <1>6, <1>7, <2>1, <2>4
  <2>6. Sure(file') => GotRight(call', file')
    BY <1>1, <1>9, <2>1
  <2>7. (WalkInv /\ ReadInv)'
    BY <1>4, <2>1, <2>3, <2>5, <2>6 DEF WalkInv, ReadInv
  <2> QED BY <2>2, <2>7 DEF EInv
<1> QED BY <1>11, <1>12

LEMMA BlockReads ==
    ASSUME EInv, block_failed \/ block_direct \/ block_indirect \/ block_unsupported
    PROVE  EInv'
<1>1. Unread \in Int \X Int /\ Garbage \in Int \X Int
  BY DEF Unread, Garbage
<1>2. b \in Int /\ call.ino \in Int
  <2>1. call \in Calls /\ file \in Files
    BY DEF EInv, Values
  <2>2. file.pos \div BS \in Int
    BY <2>1, Sizes DEF Files
  <2>3. Len(call.got) \in Nat
    BY <2>1, LenProperties DEF Calls
  <2>4. call.ino \in Inodes
    BY <2>1 DEF Calls
  <2>5. call.ino \in Int
    <3>1. Inodes \subseteq Int
      BY Sizes
    <3> QED BY <2>4, <3>1
  <2>6. PICK q \in Int, n \in Int : q = file.pos \div BS /\ n = Len(call.got)
    BY <2>2, <2>3
  <2>7. b = q + n
    BY <2>6 DEF b, cblock
  <2> QED BY <2>5, <2>6, <2>7
<1>3. CASE block_failed
  <2>1. pc = "failed" /\ call.for = "block" /\ BlockDone(Unread) /\ UNCHANGED <<file, halted>>
    BY <1>3 DEF block_failed, ReadingBlock
  <2>2. ~Sure(file)
    BY <2>1, SureFound
  <2> QED BY <1>1, <2>1, <2>2, BlockKeeps
<1>4. CASE block_direct
  <2>1. /\ pc = "found" /\ call.for = "block" /\ BlockDone(<<call.ino, b>>)
        /\ UNCHANGED <<file, halted>>
    BY <1>4 DEF block_direct, ReadingBlock
  <2>2. PICK content \in Int \X Int : content = <<call.ino, b>>
    BY <1>2
  <2>3. Sure(file) => content = <<Resolve(file.respath), b>>
    BY <2>1, <2>2, SureFound
  <2> QED BY <2>1, <2>2, <2>3, BlockKeeps
<1>5. CASE block_indirect
  <2>1. pc = "found" /\ call.for = "block" /\ b >= NDIRECT /\ file' = file
    BY <1>5 DEF block_indirect, ReadingBlock
  <2>2. ~(b < NDIRECT)
    BY <1>2, <2>1, Sizes
  <2>3. CASE \E content \in {<<call.ino, b>>, Garbage} : BlockDone(content) /\ UNCHANGED halted
    <3>1. PICK content \in Int \X Int : BlockDone(content) /\ halted' = halted
      <4>1. <<call.ino, b>> \in Int \X Int
        BY <1>2
      <4> QED BY <1>1, <2>3, <4>1
    <3> QED BY <2>1, <2>2, <3>1, BlockKeeps
  <2>4. CASE halted' = "page_fault" /\ UNCHANGED <<sp, call, pc>>
    <3>1. sp' = sp /\ call' = call /\ pc' = pc /\ file' = file /\ halted' = "page_fault"
      BY <2>1, <2>4
    <3>2. Values'
      BY <3>1 DEF EInv, Values
    <3>3. WalkInv'
      BY <3>1 DEF EInv, WalkInv
    <3>4. ReadInv'
      BY <3>1 DEF EInv, ReadInv
    <3> QED BY <3>2, <3>3, <3>4 DEF EInv
  <2> QED BY <1>5, <2>3, <2>4 DEF block_indirect
<1>6. CASE block_unsupported
  <2>1. /\ pc = "found" /\ call.for = "block" /\ b >= NDIRECT /\ BlockDone(Unread)
        /\ UNCHANGED <<file, halted>>
    BY <1>6 DEF block_unsupported, ReadingBlock
  <2>2. ~(b < NDIRECT)
    BY <1>2, <2>1, Sizes
  <2> QED BY <1>1, <2>1, <2>2, BlockKeeps
<1> QED BY <1>3, <1>4, <1>5, <1>6

LEMMA StutterKeeps ==
    ASSUME EInv, UNCHANGED vars
    PROVE  EInv'
<1>1. sp' = sp /\ call' = call /\ pc' = pc /\ file' = file /\ halted' = halted
  BY DEF vars
<1>2. Values'
  BY <1>1 DEF EInv, Values
<1>3. WalkInv'
  BY <1>1 DEF EInv, WalkInv
<1>4. ReadInv'
  BY <1>1 DEF EInv, ReadInv
<1> QED BY <1>2, <1>3, <1>4 DEF EInv

-----------------------------------------------------------------------------
(***************************************************************************)
(* The invariant holds in every sequence of stats, opens, seeks and reads. *)
(***************************************************************************)
THEOREM Ext2Inductive == Spec => []EInv
<1>1. Init => EInv
  BY InitInv
<1>2. EInv /\ [Next]_vars => EInv'
  <2> SUFFICES ASSUME EInv, [Next]_vars PROVE EInv'
    OBVIOUS
  <2>1. CASE \E p \in Paths : ext2_stat(p) \/ ext2_open(p)
    BY <2>1, StatKeeps, FileKeeps
  <2>2. CASE \E n \in 0 .. MAX_POS : file_set_position(n)
    BY <2>2, FileKeeps
  <2>3. CASE \E n \in Counts : ext2_read_file(n)
    BY <2>3, ReadKeeps
  <2>4. CASE CallStep
    BY <2>4, TurnKeeps, ReturnKeeps, BlocksKeep, BlockReads DEF CallStep
  <2>5. CASE Stopped \/ UNCHANGED vars
    BY <2>5, StutterKeeps DEF Stopped
  <2> QED BY <2>1, <2>2, <2>3, <2>4, <2>5 DEF Next
<1> QED BY <1>1, <1>2, PTL DEF Spec

(***************************************************************************)
(* ext2_find_file_inode, strtok: the walk, token by token, returns what    *)
(* Lookup says of the lookup as a whole, and leaves in strtok's pointer    *)
(* what Lookup says it leaves.                                             *)
(***************************************************************************)
THEOREM LookupsAreFind == Spec => []LookupIsFind
<1>1. EInv => LookupIsFind
  <2> SUFFICES ASSUME EInv, LookupDone
               PROVE  Whole!Find(call.begun, call.path) = [ino |-> Answer, left |-> sp]
    BY DEF LookupIsFind
  <2>1. pc \in {"found", "failed"} /\ call \in Calls
    BY DEF LookupDone, EInv, Values
  <2>2. PICK str : str = Str(call)
    OBVIOUS
  <2>3. str \in Strings
    BY <2>1, <2>2 DEF Str, Calls
  <2>4. Whole!Find(call.begun, call.path) = Whole!FindIn(str)
    BY <2>2 DEF Whole!Find, Str
  <2>5. CASE pc = "found"
    <3>1. call.ino = Whole!Resolve(str) /\ sp = NULL
      BY <2>2, <2>5 DEF EInv, WalkInv, WalkEnded
    <3>2. Whole!Resolve(str) # ENOENT
      BY <2>1, <3>1, Sizes DEF Calls
    <3>3. Whole!FindIn(str) = [ino |-> Whole!Resolve(str), left |-> NULL]
      BY <2>3, <3>2, FindEnded
    <3> QED BY <2>4, <2>5, <3>1, <3>3 DEF Answer
  <2>6. CASE pc = "failed"
    <3>1. PICK i \in 1 .. Len(str) :
             /\ Whole!Walk(str)[i - 1] # ENOENT /\ Whole!Walk(str)[i] = ENOENT
             /\ sp = SubSeq(str, i + 1, Len(str))
      BY <2>2, <2>6 DEF EInv, WalkInv, WalkFailed
    <3>2. Whole!FindIn(str) = [ino |-> ENOENT, left |-> SubSeq(str, i + 1, Len(str))]
      BY <2>3, <3>1, FindFailed
    <3> QED BY <2>4, <2>6, <3>1, <3>2 DEF Answer
  <2> QED BY <2>1, <2>5, <2>6
<1> QED BY <1>1, Ext2Inductive, PTL

(***************************************************************************)
(* A lookup that starts with nothing left in strtok's pointer returns what *)
(* a plain path means, although ext2_read_directory reads any file as a    *)
(* directory and compares an entry only over the length of its name.       *)
(***************************************************************************)
THEOREM LookupsClean == Spec => []CleanLookup
<1>1. EInv => CleanLookup
  <2> SUFFICES ASSUME EInv PROVE CleanLookup
    OBVIOUS
  <2>1. /\ sp \in Strings \cup {NULL} /\ file \in Files /\ call \in Calls
        /\ pc \in {"idle", "walk", "found", "failed", "copy"} /\ halted \in {"no", "page_fault"}
    BY DEF EInv, Values
  <2>2. ASSUME pc = "walk" PROVE call.tok \in Names
    <3>1. PICK i \in 1 .. Len(Str(call)) : call.tok = Str(call)[i]
      BY <2>2 DEF EInv, WalkInv, InWalk
    <3>2. Str(call) \in Strings
      BY <2>1 DEF Str, Calls
    <3> QED BY <3>1, <3>2, ElementOfSeq DEF Strings
  <2>3. /\ file.respath = NULL \/ file.respath \in Paths
        /\ file.pos \in 0 .. MAX_POS
    BY <2>1 DEF Files
  <2>4. call.for \in {"stat", "read", "block"} /\ call.ino \in Inodes
    BY <2>1 DEF Calls
  <2>5. TypeOK
    BY <2>1, <2>2, <2>3, <2>4 DEF TypeOK, Strings
  <2>6. ASSUME LookupDone, call.begun = NULL, Plain(call.path)
        PROVE  Answer = Resolve(call.path)
    <3>1. PICK str \in Strings : str = call.path /\ str = Str(call)
      BY <2>1, <2>6 DEF Calls, Str
    <3>2. Whole!Resolve(str) = Resolve(str)
      BY <2>6, <3>1, PlainSame
    <3>3. CASE pc = "found"
      BY <3>1, <3>2, <3>3 DEF EInv, WalkInv, WalkEnded, Answer
    <3>4. CASE pc = "failed"
      <4>1. PICK i \in 1 .. Len(str) :
               Whole!Walk(str)[i - 1] # ENOENT /\ Whole!Walk(str)[i] = ENOENT
        BY <3>1, <3>4 DEF EInv, WalkInv, WalkFailed
      <4>2. Whole!Resolve(str) = ENOENT
        BY <4>1, FindFailed
      <4> QED BY <3>1, <3>2, <3>4, <4>2 DEF Answer
    <3> QED BY <2>6, <3>3, <3>4 DEF LookupDone
  <2> QED BY <2>5, <2>6 DEF CleanLookup
<1> QED BY <1>1, Ext2Inductive, PTL

(* The last block that a read needs is one of blocks + 1. *)
LEMMA LastBlock ==
    ASSUME NEW pos \in Nat, NEW count \in Nat, (pos % BS) + (count % BS) <= BS
    PROVE  (pos + count - 1) \div BS <= pos \div BS + count \div BS
<1>1. BS \in Nat /\ BS > 0
  BY Sizes
<1>2. PICK q \in Nat, x \in Nat : q = pos \div BS /\ x = pos % BS
  BY <1>1
<1>3. PICK c \in Nat, y \in Nat : c = count \div BS /\ y = count % BS
  BY <1>1
<1>4. pos = BS * q + x /\ count = BS * c + y
  BY <1>1, <1>2, <1>3
<1>5. x + y <= BS
  BY <1>2, <1>3
<1>6. pos + count - 1 < BS * (q + c) + BS
  <2>1. BS * (q + c) = BS * q + BS * c
    BY <1>1
  <2>2. BS * q \in Nat /\ BS * c \in Nat
    BY <1>1
  <2> QED BY <1>1, <1>4, <1>5, <2>1, <2>2
<1>7. PICK z \in Int : z = pos + count - 1
  OBVIOUS
<1>8. PICK w \in Int : w = z \div BS
  BY <1>1
<1>9. BS * w <= z
  BY <1>1, <1>8
<1>10. BS * w < BS * (q + c + 1)
  <2>1. BS * (q + c + 1) = BS * (q + c) + BS
    BY <1>1
  <2>2. BS * w \in Int /\ BS * (q + c) \in Int
    BY <1>1
  <2> QED BY <1>1, <1>6, <1>7, <1>9, <2>1, <2>2
<1>11. w < q + c + 1
  BY <1>1, <1>10
<1>12. w <= q + c
  BY <1>11
<1> QED BY <1>2, <1>3, <1>7, <1>8, <1>12

(***************************************************************************)
(* ext2_read_file: when the bytes are copied, the direct blocks that hold  *)
(* them have been read from the file that the path names, if the path is   *)
(* plain and exists and the ends of the read fit in one block, whatever    *)
(* earlier lookups have left and although errors of a block are ignored.   *)
(***************************************************************************)
THEOREM ReadsDeliver == Spec => []ReadDelivers
<1>1. EInv => ReadDelivers
  <2> SUFFICES ASSUME EInv, pc = "copy", Plain(file.respath),
                      Resolve(file.respath) # ENOENT,
                      (file.pos % BS) + (call.count % BS) <= BS,
                      NEW n \in Wanted, n < NDIRECT
               PROVE  /\ n - cblock + 1 \in DOMAIN call.got
                      /\ call.got[n - cblock + 1] = <<Resolve(file.respath), n>>
    BY DEF ReadDelivers
  <2>1. /\ call.for = "block" /\ Len(call.got) = call.count \div BS + 1
        /\ GotRight(call, file) /\ call \in Calls /\ file \in Files
    BY DEF EInv, ReadInv, Values, Sure
  <2>2. PICK pos \in Nat, count \in Nat : pos = file.pos /\ count = call.count
    BY <2>1 DEF Calls, Files
  <2>3. PICK q \in Int, m \in Int, w \in Int :
           q = pos \div BS /\ m = count \div BS /\ w = (pos + count - 1) \div BS
    BY Sizes
  <2>4. w <= q + m
    BY <2>2, <2>3, LastBlock
  <2>5. n \in q .. w /\ cblock = q
    BY <2>2, <2>3 DEF Wanted, cblock
  <2>6. DOMAIN call.got = 1 .. m + 1
    BY <2>1, <2>2, <2>3, LenProperties DEF Calls
  <2>7. PICK k \in Int : k = n - cblock + 1
    BY <2>5
  <2>8. k \in 1 .. m + 1 /\ q + k - 1 = n
    BY <2>4, <2>5, <2>7
  <2>9. call.got[k] = <<Resolve(file.respath), n>>
    BY <2>1, <2>2, <2>3, <2>6, <2>8 DEF GotRight
  <2> QED BY <2>6, <2>7, <2>8, <2>9
<1> QED BY <1>1, Ext2Inductive, PTL
=============================================================================
