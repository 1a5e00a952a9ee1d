---------------------------- MODULE FilesProofs ----------------------------
(***************************************************************************)
(* What a lookup finds and leaves in strtok's pointer, what a file table   *)
(* holds and what cat and elf read, for every disk with direct blocks,     *)
(* every set of paths, any number of commands and any size of the table.   *)
(***************************************************************************)
EXTENDS Files, SequenceTheorems, WellFoundedInduction, TLAPS

Found == Inodes \cup {ENOENT}
Strings == Seq(Names)

-----------------------------------------------------------------------------
(* Every set of natural numbers that is not empty has a least element,     *)
(* which stands for induction in what follows.                             *)
LEMMA Least ==
    ASSUME NEW S \in SUBSET Nat, S # {}
    PROVE  \E x \in S : \A y \in S : x <= y
<1> DEFINE R == OpToRel(<, Nat)
<1>1. IsWellFoundedOn(R, Nat)
  BY NatLessThanWellFounded
<1>2. \A x, y \in Nat : x < y => <<x, y>> \in R
  BY DEF OpToRel
<1> HIDE DEF R
<1>3. PICK x \in S : \A y \in S : ~(<<y, x>> \in R)
  BY <1>1, WFMin
<1>4. \A y \in S : ~(y < x)
  BY <1>2, <1>3
<1>5. \A y \in S : x <= y
  BY <1>4
<1> QED BY <1>5

LEMMA MinIs ==
    ASSUME NEW S \in SUBSET Nat, S # {}
    PROVE  Min(S) \in S /\ \A y \in S : Min(S) <= y
<1>1. \E x \in S : \A y \in S : x <= y
  BY Least
<1> QED BY <1>1 DEF Min

LEMMA Sizes ==
    /\ BS \in Nat /\ BS > 3 /\ NFILES \in Nat /\ NFILES > 3 /\ MaxCommands \in Nat
    /\ Inodes \subseteq Nat /\ ROOT \in Inodes /\ ENOENT \notin Inodes
    /\ Size \in [Inodes -> Nat]
    /\ Paths \subseteq Strings /\ TestPaths \subseteq Strings
<1>1. /\ BS \in Nat /\ BS > 3 /\ NFILES \in Nat /\ NFILES > 3 /\ MaxCommands \in Nat
  BY FilesAssumption
<1>2. Inodes \subseteq Nat /\ ROOT \in Inodes /\ Size \in [Inodes -> Nat]
  BY FilesAssumption, Zenon
<1>3. ENOENT \notin Inodes
  BY <1>2 DEF ENOENT
<1>4. Paths \subseteq Strings /\ TestPaths \subseteq Strings
  BY FilesAssumption, Zenon DEF Strings
<1> QED BY <1>1, <1>2, <1>3, <1>4, Zenon

(***************************************************************************)
(* The walk of ext2_find_file_inode along n components of a path: the      *)
(* recursion of Walk has a solution for every n.                           *)
(***************************************************************************)
IsWalk(g, path, n) ==
    g = [i \in 0 .. n |-> IF i = 0 THEN ROOT ELSE Enter(g[i - 1], path[i])]

LEMMA WalkExists ==
    ASSUME NEW path, NEW n \in Nat
    PROVE  \E g : IsWalk(g, path, n)
<1> DEFINE Bad == {k \in Nat : ~ \E g : IsWalk(g, path, k)}
<1> SUFFICES ASSUME Bad # {} PROVE FALSE
  OBVIOUS
<1>1. PICK k \in Bad : \A j \in Bad : k <= j
  BY Least
<1>2. k \in Nat /\ ~ \E g : IsWalk(g, path, k)
  OBVIOUS
<1>3. CASE k = 0
  <2> DEFINE g == [i \in 0 .. 0 |-> ROOT]
  <2>1. IsWalk(g, path, 0)
    BY DEF IsWalk
  <2> QED BY <1>2, <1>3, <2>1
<1>4. CASE k # 0
  <2>1. k - 1 \in Nat /\ ~(k <= k - 1)
    BY <1>2, <1>4
  <2>2. PICK h : IsWalk(h, path, k - 1)
    BY <1>1, <2>1
  <2> DEFINE g == [i \in 0 .. k |-> IF i < k THEN h[i] ELSE Enter(h[k - 1], path[k])]
  <2>3. \A i \in 0 .. k - 1 : g[i] = h[i]
    BY <1>2
  <2>4. ASSUME NEW i \in 0 .. k
        PROVE  g[i] = IF i = 0 THEN ROOT ELSE Enter(g[i - 1], path[i])
    <3>1. CASE i = k
      <4>1. k - 1 \in 0 .. k - 1
        BY <2>1
      <4>2. g[k - 1] = h[k - 1]
        BY <2>3, <4>1
      <4>3. g[k] = Enter(h[k - 1], path[k])
        BY <1>2
      <4> QED BY <1>4, <3>1, <4>2, <4>3
    <3>2. CASE i # k
      <4>1. i \in 0 .. k - 1 /\ (i # 0 => i - 1 \in 0 .. k - 1)
        BY <1>2, <3>2
      <4>2. h[i] = IF i = 0 THEN ROOT ELSE Enter(h[i - 1], path[i])
        BY <2>2, <4>1 DEF IsWalk
      <4>3. g[i] = h[i] /\ (i # 0 => g[i - 1] = h[i - 1])
        BY <2>3, <4>1
      <4> QED BY <4>2, <4>3
    <3> QED BY <3>1, <3>2
  <2>5. g = [i \in 0 .. k |-> g[i]]
    OBVIOUS
  <2> HIDE DEF g
  <2>6. IsWalk(g, path, k)
    BY <2>4, <2>5 DEF IsWalk
  <2> QED BY <1>2, <2>6
<1> QED BY <1>3, <1>4

LEMMA WalkIs ==
    ASSUME NEW path \in Strings
    PROVE  IsWalk(Walk(path), path, Len(path))
<1>1. Len(path) \in Nat
  BY LenProperties DEF Strings
<1>2. \E g : IsWalk(g, path, Len(path))
  BY <1>1, WalkExists
<1>3. Walk(path) = CHOOSE g : IsWalk(g, path, Len(path))
  BY DEF Walk, IsWalk
<1> QED BY <1>2, <1>3

(* One step of the walk. *)
LEMMA WalkSteps ==
    ASSUME NEW path \in Strings
    PROVE  /\ Len(path) \in Nat /\ Walk(path)[0] = ROOT
           /\ \A i \in 1 .. Len(path) : Walk(path)[i] = Enter(Walk(path)[i - 1], path[i])
<1>1. Len(path) \in Nat
  BY LenProperties DEF Strings
<1>2. IsWalk(Walk(path), path, Len(path))
  BY WalkIs
<1>3. PICK g : g = Walk(path)
  OBVIOUS
<1>4. g = [i \in 0 .. Len(path) |-> IF i = 0 THEN ROOT ELSE Enter(g[i - 1], path[i])]
  BY <1>2, <1>3 DEF IsWalk
<1>5. g[0] = ROOT
  BY <1>1, <1>4
<1>6. ASSUME NEW i \in 1 .. Len(path) PROVE g[i] = Enter(g[i - 1], path[i])
  <2>1. i \in 0 .. Len(path) /\ i # 0
    BY <1>1
  <2> QED BY <1>4, <2>1
<1> QED BY <1>1, <1>3, <1>5, <1>6

LEMMA EnterFound ==
    ASSUME NEW ino \in Found, NEW n \in Names
    PROVE  Enter(ino, n) \in Found
BY FilesAssumption DEF Enter, Found

(* The walk is at an inode, or has not found a name. *)
LEMMA WalkFound ==
    ASSUME NEW path \in Strings
    PROVE  \A i \in 0 .. Len(path) : Walk(path)[i] \in Found
<1> DEFINE Bad == {i \in 0 .. Len(path) : Walk(path)[i] \notin Found}
<1>1. Len(path) \in Nat
  BY WalkSteps
<1> SUFFICES ASSUME Bad # {} PROVE FALSE
  OBVIOUS
<1>2. Bad \in SUBSET Nat
  BY <1>1
<1>3. PICK k \in Bad : \A j \in Bad : k <= j
  BY <1>2, Least
<1>4. k \in 0 .. Len(path) /\ Walk(path)[k] \notin Found
  OBVIOUS
<1>5. CASE k = 0
  BY <1>4, <1>5, WalkSteps, Sizes DEF Found
<1>6. CASE k # 0
  <2>1. k \in 1 .. Len(path) /\ k - 1 \in 0 .. Len(path) /\ ~(k <= k - 1)
    BY <1>1, <1>4, <1>6
  <2>2. Walk(path)[k - 1] \in Found
    BY <1>3, <2>1
  <2>3. path[k] \in Names
    BY <2>1, ElementOfSeq DEF Strings
  <2>4. Walk(path)[k] = Enter(Walk(path)[k - 1], path[k])
    BY <2>1, WalkSteps
  <2> QED BY <1>4, <2>2, <2>3, <2>4, EnterFound
<1> QED BY <1>5, <1>6

(* A walk that has not found a name finds nothing behind it. *)
LEMMA WalkStuck ==
    ASSUME NEW path \in Strings, NEW i \in 0 .. Len(path), Walk(path)[i] = ENOENT
    PROVE  Resolve(path) = ENOENT
<1> DEFINE Bad == {k \in 0 .. Len(path) : i <= k /\ Walk(path)[k] # ENOENT}
<1>1. Len(path) \in Nat
  BY WalkSteps
<1>2. Bad = {}
  <2> SUFFICES ASSUME Bad # {} PROVE FALSE
    OBVIOUS
  <2>1. Bad \in SUBSET Nat
    BY <1>1
  <2>2. PICK k \in Bad : \A j \in Bad : k <= j
    BY <2>1, Least
  <2>3. k \in 0 .. Len(path) /\ i <= k /\ Walk(path)[k] # ENOENT
    OBVIOUS
  <2>4. /\ k \in 1 .. Len(path) /\ k - 1 \in 0 .. Len(path) /\ i <= k - 1
        /\ ~(k <= k - 1)
    <3>1. k # i
      BY <2>3
    <3> QED BY <1>1, <2>3, <3>1
  <2>5. Walk(path)[k - 1] = ENOENT
    BY <2>2, <2>4
  <2>6. Walk(path)[k] = Enter(Walk(path)[k - 1], path[k])
    BY <2>4, WalkSteps
  <2> QED BY <2>3, <2>5, <2>6 DEF Enter
<1>3. Len(path) \in 0 .. Len(path) /\ i <= Len(path)
  BY <1>1
<1> QED BY <1>2, <1>3 DEF Resolve

(***************************************************************************)
(* What a lookup returns: the inode of the string, and then nothing is     *)
(* left; or nothing, and a string may be left.                             *)
(***************************************************************************)
LEMMA FindInIs ==
    ASSUME NEW str \in Strings
    PROVE  /\ FindIn(str).ino \in Found /\ FindIn(str).left \in Strings \cup {NULL}
           /\ FindIn(str).ino = Resolve(str)
           /\ Resolve(str) # ENOENT => FindIn(str).left = NULL
<1>1. Len(str) \in Nat /\ Len(str) \in 0 .. Len(str)
  BY WalkSteps
<1>2. Resolve(str) \in Found
  BY <1>1, WalkFound DEF Resolve
<1>3. CASE Missing(str) = {}
  BY <1>2, <1>3 DEF FindIn
<1>4. CASE Missing(str) # {}
  <2>1. Missing(str) \in SUBSET Nat /\ \A i \in Missing(str) : i \in 0 .. Len(str)
    BY <1>1 DEF Missing
  <2>2. PICK i \in Missing(str) : TRUE
    BY <1>4
  <2>3. Resolve(str) = ENOENT
    BY <2>1, <2>2, WalkStuck DEF Missing
  <2>4. PICK m : m = Min(Missing(str))
    OBVIOUS
  <2>5. m \in 1 .. Len(str)
    BY <1>4, <2>1, <2>4, MinIs DEF Missing
  <2>6. \A j \in m + 1 .. Len(str) : str[j] \in Names
    BY <2>5, <1>1, ElementOfSeq DEF Strings
  <2>7. SubSeq(str, m + 1, Len(str)) \in Strings
    <3>1. m + 1 \in Int /\ Len(str) \in Int
      BY <1>1, <2>5
    <3> QED BY <2>6, <3>1, SubSeqProperties DEF Strings
  <2>8. FindIn(str) = [ino |-> ENOENT, left |-> SubSeq(str, m + 1, Len(str))]
    BY <1>4, <2>4 DEF FindIn
  <2> QED BY <2>3, <2>7, <2>8 DEF Found
<1> QED BY <1>3, <1>4

LEMMA FindIs ==
    ASSUME NEW l \in Strings \cup {NULL}, NEW p \in Strings
    PROVE  /\ Find(l, p).ino \in Found /\ Find(l, p).left \in Strings \cup {NULL}
           /\ Find(l, p).ino # ENOENT => Find(l, p).left = NULL
           /\ l = NULL => Find(l, p).ino = Resolve(p)
<1>1. CASE l = NULL
  BY <1>1, FindInIs DEF Find
<1>2. CASE l # NULL
  <2>1. l \in Strings /\ Find(l, p) = FindIn(l)
    BY <1>2 DEF Find
  <2> QED BY <1>2, <2>1, FindInIs
<1> QED BY <1>1, <1>2

(***************************************************************************)
(* The lookups of one read, each of which starts with what the one before  *)
(* has left.                                                               *)
(***************************************************************************)
IsLefts(g, l, p, n) ==
    g = [k \in 0 .. n |-> Find(IF k = 0 THEN l ELSE g[k - 1], p).left]

LEMMA LeftsExist ==
    ASSUME NEW l, NEW p, NEW n \in Nat
    PROVE  \E g : IsLefts(g, l, p, n)
<1> DEFINE Bad == {k \in Nat : ~ \E g : IsLefts(g, l, p, k)}
<1> SUFFICES ASSUME Bad # {} PROVE FALSE
  OBVIOUS
<1>1. PICK k \in Bad : \A j \in Bad : k <= j
  BY Least
<1>2. k \in Nat /\ ~ \E g : IsLefts(g, l, p, k)
  OBVIOUS
<1>3. CASE k = 0
  <2> DEFINE g == [i \in 0 .. 0 |-> Find(l, p).left]
  <2>1. IsLefts(g, l, p, 0)
    BY DEF IsLefts
  <2> QED BY <1>2, <1>3, <2>1
<1>4. CASE k # 0
  <2>1. k - 1 \in Nat /\ ~(k <= k - 1)
    BY <1>2, <1>4
  <2>2. PICK h : IsLefts(h, l, p, k - 1)
    BY <1>1, <2>1
  <2> DEFINE g == [i \in 0 .. k |-> IF i < k THEN h[i] ELSE Find(h[k - 1], p).left]
  <2>3. \A i \in 0 .. k - 1 : g[i] = h[i]
    BY <1>2
  <2>4. ASSUME NEW i \in 0 .. k
        PROVE  g[i] = Find(IF i = 0 THEN l ELSE g[i - 1], p).left
    <3>1. CASE i = k
      <4>1. k - 1 \in 0 .. k - 1
        BY <2>1
      <4>2. g[k - 1] = h[k - 1]
        BY <2>3, <4>1
      <4>3. g[k] = Find(h[k - 1], p).left
        BY <1>2
      <4> QED BY <1>4, <3>1, <4>2, <4>3
    <3>2. CASE i # k
      <4>1. i \in 0 .. k - 1 /\ (i # 0 => i - 1 \in 0 .. k - 1)
        BY <1>2, <3>2
      <4>2. h[i] = Find(IF i = 0 THEN l ELSE h[i - 1], p).left
        BY <2>2, <4>1 DEF IsLefts
      <4>3. g[i] = h[i] /\ (i # 0 => g[i - 1] = h[i - 1])
        BY <2>3, <4>1
      <4> HIDE DEF g
      <4>4. CASE i = 0
        BY <4>2, <4>3, <4>4
      <4>5. CASE i # 0
        BY <4>2, <4>3, <4>5
      <4> QED BY <4>4, <4>5
    <3> QED BY <3>1, <3>2
  <2>5. g = [i \in 0 .. k |-> g[i]]
    OBVIOUS
  <2> HIDE DEF g
  <2>6. IsLefts(g, l, p, k)
    BY <2>4, <2>5 DEF IsLefts
  <2> QED BY <1>2, <2>6
<1> QED BY <1>3, <1>4

LEMMA LeftsStep ==
    ASSUME NEW l, NEW p, NEW n \in Nat
    PROVE  /\ Lefts(l, p, n)[0] = Find(l, p).left
           /\ \A k \in 1 .. n : Lefts(l, p, n)[k] = Find(Lefts(l, p, n)[k - 1], p).left
<1>1. \E g : IsLefts(g, l, p, n)
  BY LeftsExist
<1>2. Lefts(l, p, n) = CHOOSE g : IsLefts(g, l, p, n)
  BY DEF Lefts, IsLefts
<1>3. PICK g : g = Lefts(l, p, n)
  OBVIOUS
<1>4. IsLefts(g, l, p, n)
  BY <1>1, <1>2, <1>3
<1>5. \A k \in 0 .. n : g[k] = Find(IF k = 0 THEN l ELSE g[k - 1], p).left
  BY <1>4 DEF IsLefts
<1>6. g[0] = Find(l, p).left
  <2>1. 0 \in 0 .. n
    OBVIOUS
  <2> QED BY <1>5, <2>1
<1>7. ASSUME NEW k \in 1 .. n PROVE g[k] = Find(g[k - 1], p).left
  <2>1. k \in 0 .. n /\ k # 0
    OBVIOUS
  <2>2. g[k] = Find(IF k = 0 THEN l ELSE g[k - 1], p).left
    BY <1>5, <2>1
  <2> QED BY <2>1, <2>2
<1> QED BY <1>3, <1>6, <1>7

(* strtok's pointer is a string or NULL after every lookup; and once a     *)
(* lookup has succeeded, for a path that exists, it stays NULL.            *)
LEMMA LeftsAre ==
    ASSUME NEW l \in Strings \cup {NULL}, NEW p \in Strings, NEW n \in Nat
    PROVE  /\ \A k \in 0 .. n : Lefts(l, p, n)[k] \in Strings \cup {NULL}
           /\ (Find(l, p).ino # ENOENT /\ Resolve(p) # ENOENT) =>
                 \A k \in 0 .. n : Lefts(l, p, n)[k] = NULL
<1>1. PICK g : g = Lefts(l, p, n)
  OBVIOUS
<1>2. g[0] = Find(l, p).left /\ \A k \in 1 .. n : g[k] = Find(g[k - 1], p).left
  BY <1>1, LeftsStep
<1>3. \A k \in 0 .. n : g[k] \in Strings \cup {NULL}
  <2> DEFINE Bad == {k \in 0 .. n : g[k] \notin Strings \cup {NULL}}
  <2> SUFFICES ASSUME Bad # {} PROVE FALSE
    OBVIOUS
  <2>1. PICK k \in Bad : \A j \in Bad : k <= j
    <3>1. Bad \in SUBSET Nat
      OBVIOUS
    <3> HIDE DEF Bad
    <3> QED BY <3>1, Least
  <2>2. k \in 0 .. n /\ g[k] \notin Strings \cup {NULL}
    OBVIOUS
  <2>3. CASE k = 0
    BY <1>2, <2>2, <2>3, FindIs
  <2>4. CASE k # 0
    <3>1. k \in 1 .. n /\ k - 1 \in 0 .. n /\ ~(k <= k - 1)
      BY <2>2, <2>4
    <3>2. g[k - 1] \in Strings \cup {NULL}
      BY <2>1, <3>1
    <3>3. g[k] = Find(g[k - 1], p).left
      BY <1>2, <3>1
    <3>4. PICK h \in Strings \cup {NULL} : h = g[k - 1]
      BY <3>2
    <3>5. Find(h, p).left \in Strings \cup {NULL}
      BY FindIs
    <3> QED BY <2>2, <3>3, <3>4, <3>5
  <2> QED BY <2>3, <2>4
<1>4. ASSUME Find(l, p).ino # ENOENT, Resolve(p) # ENOENT
      PROVE  \A k \in 0 .. n : g[k] = NULL
  <2> DEFINE Bad == {k \in 0 .. n : g[k] # NULL}
  <2> SUFFICES ASSUME Bad # {} PROVE FALSE
    OBVIOUS
  <2>1. PICK k \in Bad : \A j \in Bad : k <= j
    <3>1. Bad \in SUBSET Nat
      OBVIOUS
    <3> HIDE DEF Bad
    <3> QED BY <3>1, Least
  <2>2. k \in 0 .. n /\ g[k] # NULL
    OBVIOUS
  <2>3. CASE k = 0
    BY <1>2, <1>4, <2>2, <2>3, FindIs
  <2>4. CASE k # 0
    <3>1. k \in 1 .. n /\ k - 1 \in 0 .. n /\ ~(k <= k - 1)
      BY <2>2, <2>4
    <3>2. g[k - 1] = NULL
      BY <2>1, <3>1
    <3>3. g[k] = Find(g[k - 1], p).left
      BY <1>2, <3>1
    <3>4. Find(NULL, p).left = NULL
      BY <1>4, FindIs
    <3> QED BY <2>2, <3>2, <3>3, <3>4
  <2> QED BY <2>3, <2>4
<1> QED BY <1>1, <1>3, <1>4

(***************************************************************************)
(* What ext2_read_file returns.  Read through a leftover it may be junk,   *)
(* and it has its type; read after a lookup that has succeeded, it is the  *)
(* blocks of the file of the path, and nothing is left.                    *)
(***************************************************************************)
Pointers == Strings \cup {NULL}
Buffers  == Seq(Int \X Int)

WellRead(r) == r.left \in Pointers /\ r.pos \in Nat /\ r.buf \in Buffers

LEMMA BlockIs ==
    ASSUME NEW l \in Pointers, NEW p \in Strings, NEW block \in Int
    PROVE  /\ ReadBlock(l, p, block) \in Int \X Int
           /\ (l = NULL /\ Resolve(p) # ENOENT) => ReadBlock(l, p, block) = <<Resolve(p), block>>
<1>1. /\ Find(l, p).ino \in Found
      /\ l = NULL => Find(l, p).ino = Resolve(p)
  BY FindIs DEF Pointers
<1>2. Found \subseteq Int
  BY Sizes DEF Found, ENOENT
<1>3. PICK i \in Int : i = Find(l, p).ino
  BY <1>1, <1>2
<1>4. ReadBlock(l, p, block) = IF i = ENOENT THEN Unread ELSE <<i, block>>
  BY <1>3 DEF ReadBlock
<1>5. Unread \in Int \X Int
  BY DEF Unread
<1> QED BY <1>1, <1>3, <1>4, <1>5

LEMMA ReadIs ==
    ASSUME NEW l \in Pointers, NEW p \in Strings, NEW pos \in Nat, NEW count \in Nat
    PROVE  WellRead(ReadFile(l, p, pos, count))
<1>1. PICK n : n = count \div BS + 1
  OBVIOUS
<1>2. n \in Nat /\ n > 0 /\ pos \div BS \in Nat
  <2>1. count \div BS \in Nat /\ pos \div BS \in Nat
    BY Sizes
  <2> QED BY <1>1, <2>1
<1>3. PICK lefts : lefts = Lefts(l, p, n)
  OBVIOUS
<1>4. \A k \in 0 .. n : lefts[k] \in Pointers
  BY <1>2, <1>3, LeftsAre DEF Pointers
<1>5. CASE count = 0
  <2>1. ReadFile(l, p, pos, count) = [ret |-> 0, left |-> l, pos |-> pos, buf |-> <<>>]
    BY <1>5 DEF ReadFile
  <2> QED BY <2>1 DEF WellRead, Buffers
<1>6. CASE count > 0 /\ Find(l, p).ino = ENOENT
  <2>1. ReadFile(l, p, pos, count) =
            [ret |-> ENOENT, left |-> Find(l, p).left, pos |-> pos, buf |-> <<>>]
    BY <1>6 DEF ReadFile
  <2>2. Find(l, p).left \in Pointers
    BY FindIs DEF Pointers
  <2> QED BY <2>1, <2>2 DEF WellRead, Buffers
<1>7. CASE count > 0 /\ Find(l, p).ino # ENOENT
  <2> DEFINE buf == [k \in 1 .. n |-> ReadBlock(lefts[k - 1], p, pos \div BS + k - 1)]
  <2>1. ReadFile(l, p, pos, count) =
            [ret |-> count, left |-> lefts[n], pos |-> pos + count, buf |-> buf]
    BY <1>1, <1>3, <1>7 DEF ReadFile
  <2>2. ASSUME NEW k \in 1 .. n
        PROVE  ReadBlock(lefts[k - 1], p, pos \div BS + k - 1) \in Int \X Int
    <3>1. k - 1 \in 0 .. n /\ pos \div BS + k - 1 \in Int
      BY <1>2
    <3>2. lefts[k - 1] \in Pointers
      BY <1>4, <3>1
    <3> QED BY <3>1, <3>2, BlockIs
  <2>3. buf \in [1 .. n -> Int \X Int]
    BY <2>2
  <2> HIDE DEF buf
  <2>4. buf \in Buffers
    BY <1>2, <2>3, IsASeq DEF Buffers
  <2>5. lefts[n] \in Pointers /\ pos + count \in Nat
    BY <1>2, <1>4
  <2> QED BY <2>1, <2>4, <2>5 DEF WellRead
<1> QED BY <1>5, <1>6, <1>7

(* The blocks of the file of p, from the one of pos on. *)
ReadsFile(r, p, pos, count) ==
    /\ r.left = NULL /\ r.pos = pos + count
    /\ \A k \in DOMAIN r.buf : r.buf[k] = <<Resolve(p), pos \div BS + k - 1>>
    /\ count # 0 => ~Junk(r)

LEMMA ReadNamed ==
    ASSUME NEW l \in Pointers, NEW p \in Strings, NEW pos \in Nat, NEW count \in Nat,
           Find(l, p).ino # ENOENT, Resolve(p) # ENOENT,
           count = 0 => l = NULL
    PROVE  ReadsFile(ReadFile(l, p, pos, count), p, pos, count)
<1>1. PICK n : n = count \div BS + 1
  OBVIOUS
<1>2. n \in Nat /\ n > 0 /\ pos \div BS \in Nat
  <2>1. count \div BS \in Nat /\ pos \div BS \in Nat
    BY Sizes
  <2> QED BY <1>1, <2>1
<1>3. PICK lefts : lefts = Lefts(l, p, n)
  OBVIOUS
<1>4. \A k \in 0 .. n : lefts[k] = NULL
  BY <1>2, <1>3, LeftsAre DEF Pointers
<1>5. CASE count = 0
  <2>1. ReadFile(l, p, pos, count) = [ret |-> 0, left |-> l, pos |-> pos, buf |-> <<>>]
    BY <1>5 DEF ReadFile
  <2> QED BY <1>5, <2>1 DEF ReadsFile
<1>6. CASE count # 0
  <2> DEFINE buf == [k \in 1 .. n |-> ReadBlock(lefts[k - 1], p, pos \div BS + k - 1)]
  <2>1. PICK r : r = ReadFile(l, p, pos, count)
    OBVIOUS
  <2>2. r = [ret |-> count, left |-> lefts[n], pos |-> pos + count, buf |-> buf]
    BY <1>1, <1>3, <1>6, <2>1 DEF ReadFile
  <2>3. ASSUME NEW k \in 1 .. n
        PROVE  buf[k] = <<Resolve(p), pos \div BS + k - 1>>
    <3>1. k - 1 \in 0 .. n /\ pos \div BS + k - 1 \in Int
      BY <1>2
    <3>2. lefts[k - 1] = NULL /\ NULL \in Pointers
      BY <1>4, <3>1 DEF Pointers
    <3>3. PICK b \in Int : b = pos \div BS + k - 1
      BY <3>1
    <3>4. ReadBlock(NULL, p, b) = <<Resolve(p), b>>
      BY <3>2, BlockIs
    <3> QED BY <3>2, <3>3, <3>4
  <2>4. DOMAIN buf = 1 .. n /\ 1 \in 1 .. n
    BY <1>2
  <2> HIDE DEF buf
  <2>5. r.ret = count /\ r.left = lefts[n] /\ r.pos = pos + count /\ r.buf = buf
    BY <2>2
  <2>6. r.left = NULL
    BY <1>2, <1>4, <2>5
  <2>7. ~Junk(r)
    <3>1. Resolve(p) \in Found
      <4>1. NULL \in Pointers /\ Find(NULL, p).ino = Resolve(p)
        BY FindIs DEF Pointers
      <4> QED BY <4>1, FindIs DEF Pointers
    <3>2. Resolve(p) \in Nat
      BY <3>1, Sizes DEF Found
    <3>3. buf[1] = <<Resolve(p), pos \div BS + 1 - 1>>
      BY <2>3, <2>4
    <3>4. buf[1][1] = Resolve(p)
      BY <3>3
    <3>5. buf[1] # Unread
      <4>1. Unread[1] = -1
        BY DEF Unread
      <4> QED BY <3>2, <3>4, <4>1
    <3>6. buf # <<>>
      <4>1. DOMAIN <<>> = {}
        OBVIOUS
      <4> QED BY <2>4, <4>1
    <3>7. ~(r.ret < 0)
      BY <2>5
    <3> QED BY <2>5, <3>5, <3>6, <3>7 DEF Junk
  <2>8. \A k \in DOMAIN r.buf : r.buf[k] = <<Resolve(p), pos \div BS + k - 1>>
    BY <2>3, <2>4, <2>5
  <2> QED BY <2>1, <2>5, <2>6, <2>7, <2>8 DEF ReadsFile
<1> QED BY <1>5, <1>6

-----------------------------------------------------------------------------
(***************************************************************************)
(* The invariant.  The types, with what a record holds.                    *)
(***************************************************************************)
FileRecs == [fs : Int, respath : {0, 3, 4}, pos : Nat, opened : Strings]
Lines    == [cmd : {"", "ls", "cat", "stat", "elf"}, arg : Strings]
ElfRecs  == [e_type : Nat, e_phoff : Nat, e_phnum : Nat]
Locals   == [fd : Int, size : Nat, buf : Buffers, elf : BOOLEAN,
             ret : {0, EBADF, ENOEXEC, ENOSYS}, header : ElfRecs, begun : Pointers]
DevTypes == {"PSEUDO", "TTY", "BLK", "TTY_INPUT"}
Entries(n) == {Free, Console, JunkPtr} \cup 1 .. n

Values ==
    /\ disk \in {"ext2", "other", "none"} /\ devs \in Seq(DevTypes)
    /\ mounts \in Seq(1 .. Len(devs)) /\ root_mount \in 0 .. Len(devs) /\ __fs = root_mount
    /\ left \in Pointers
    /\ files \in Seq(FileRecs) /\ table \in [0 .. NFILES - 1 -> Entries(Len(files))]
    /\ line \in Lines /\ loc \in Locals
    /\ pc = "stopped" <=> halted # "no"

(* Boot: the loop of do_mount, and what it leaves. *)
BootInv ==
    /\ pc = "drivers" => devs = <<>> /\ mounts = <<>> /\ root_mount = 0
    /\ pc = "mount" => loc.fd > 0
    /\ root_mount # 0 => disk = "ext2" /\ devs[root_mount] = "BLK"
    /\ pc \notin {"drivers", "mount", "stopped"} => root_mount # 0
    /\ \A f \in DOMAIN files : files[f].fs \in DOMAIN devs

(* The command that the shell is in. *)
CatPcs == {"cat", "cat_open", "cat_read", "cat_write"}
ElfPcs == {"elf", "elf_probe", "elf_close", "elf_header",
           "load_probe", "load_header", "load_segments", "elf_done"}

CommandInv ==
    /\ pc \in {"drivers", "mount", "stopped", "test", "prompt", "ls", "stat"} \cup CatPcs \cup ElfPcs
    /\ pc = "ls" => line.cmd = "ls"
    /\ pc = "stat" => line.cmd = "stat"
    /\ pc \in CatPcs => line.cmd = "cat"
    /\ pc \in ElfPcs => line.cmd = "elf"

(* The table: what TableSound says, but for the types. *)
TableInv ==
    /\ table[0] = Free /\ table[1] = Console
    /\ \A fd \in 2 .. NFILES - 1 :
          table[fd] \in DOMAIN files =>
              /\ files[table[fd]].respath = 4
              /\ \A other \in 0 .. NFILES - 1 : other # fd => table[other] # table[fd]

(* The file that a command has opened, and where it reads from. *)
OpenInv ==
    /\ pc \in Using =>
          /\ loc.fd \in 3 .. NFILES - 1 /\ table[loc.fd] = Len(files)
          /\ Len(files) # 0 /\ files[Len(files)].respath = 4 /\ files[Len(files)].opened = line.arg
    /\ pc \in {"cat_read", "elf_probe", "load_probe"} => files[Len(files)].pos = 0

(* cat: its stat has used up the leftover of an earlier lookup. *)
CatInv ==
    /\ pc \in {"cat", "elf", "elf_probe"} => left = loc.begun
    /\ pc \in {"cat_open", "cat_read"} => left = NULL
    /\ pc \in {"cat_open", "cat_read", "cat_write"} =>
          (loc.begun = NULL => Exists /\ loc.size = Size[Resolve(line.arg)])
    /\ pc = "cat_write" /\ Exists =>
          \A k \in DOMAIN loc.buf : loc.buf[k] = <<Resolve(line.arg), k - 1>>

(* elf: its first read has, unless a leftover made the lookup fail. *)
Named == Exists /\ Find(loc.begun, line.arg).ino # ENOENT

ElfInv ==
    Named =>
        /\ pc \in {"elf_close", "elf_header"} => (loc.elf <=> Resolve(line.arg) \in Elf)
        /\ pc \in {"elf_header", "load_probe"} => left = NULL /\ Resolve(line.arg) \in Elf
        /\ pc = "elf_done" => loc.ret # EBADF

FInv ==
    /\ Values /\ BootInv /\ CommandInv /\ TableInv /\ OpenInv /\ CatInv /\ ElfInv

-----------------------------------------------------------------------------
(* A record of locals or of a file, changed in some of its fields. *)
LEMMA LocalsAre ==
    ASSUME NEW c \in Locals
    PROVE  /\ \A v \in Int : [c EXCEPT !.fd = v] \in Locals
           /\ \A v \in Nat : [c EXCEPT !.size = v] \in Locals
           /\ \A v \in Buffers : [c EXCEPT !.buf = v] \in Locals
           /\ \A v \in BOOLEAN : [c EXCEPT !.elf = v] \in Locals
           /\ \A v \in {0, EBADF, ENOEXEC, ENOSYS} : [c EXCEPT !.ret = v] \in Locals
           /\ \A h \in ElfRecs, v \in {0, EBADF, ENOEXEC, ENOSYS} :
                 [c EXCEPT !.header = h, !.ret = v] \in Locals
BY DEF Locals

LEMMA NoLocalsAre ==
    /\ NoLocals \in Locals
    /\ \A v \in Pointers : [NoLocals EXCEPT !.begun = v] \in Locals
                           /\ [NoLocals EXCEPT !.begun = v].begun = v
<1>1. NoHeader \in ElfRecs
  BY DEF NoHeader, ElfRecs
<1>2. <<>> \in Buffers /\ NULL \in Pointers
  BY DEF Buffers, Pointers
<1>3. NoLocals \in Locals
  BY <1>1, <1>2 DEF NoLocals, Locals
<1>4. ASSUME NEW v \in Pointers
      PROVE  [NoLocals EXCEPT !.begun = v] \in Locals /\ [NoLocals EXCEPT !.begun = v].begun = v
  BY <1>3 DEF Locals
<1> QED BY <1>3, <1>4

Moved(fs, i, v) == [fs EXCEPT ![i].pos = v]

IsMoved(g, fs, i, v) ==
    /\ g \in Seq(FileRecs) /\ Len(g) = Len(fs) /\ DOMAIN g = DOMAIN fs
    /\ \A j \in DOMAIN fs : /\ g[j].fs = fs[j].fs
                            /\ g[j].respath = fs[j].respath
                            /\ g[j].opened = fs[j].opened
    /\ g[i].pos = v

LEMMA MovedIs ==
    ASSUME NEW fs \in Seq(FileRecs), NEW i \in DOMAIN fs, NEW v \in Nat
    PROVE  IsMoved(Moved(fs, i, v), fs, i, v)
<1>1. PICK g : g = Moved(fs, i, v)
  OBVIOUS
<1>2. fs[i] \in FileRecs
  BY ElementOfSeq
<1>3. PICK r : r = [fs[i] EXCEPT !.pos = v]
  OBVIOUS
<1>4. /\ r \in FileRecs /\ r.fs = fs[i].fs /\ r.respath = fs[i].respath
      /\ r.opened = fs[i].opened /\ r.pos = v
  BY <1>2, <1>3 DEF FileRecs
<1>5. g = [fs EXCEPT ![i] = r]
  BY <1>1, <1>3 DEF Moved
<1>6. g \in Seq(FileRecs) /\ Len(g) = Len(fs) /\ DOMAIN g = DOMAIN fs
  BY <1>4, <1>5, ExceptSeq
<1>7. \A j \in DOMAIN fs : g[j] = IF j = i THEN r ELSE fs[j]
  BY <1>5
<1>8. \A j \in DOMAIN fs : g[j].fs = fs[j].fs /\ g[j].respath = fs[j].respath
                                           /\ g[j].opened = fs[j].opened
  BY <1>4, <1>7
<1>9. g[i].pos = v
  BY <1>4, <1>7
<1>10. IsMoved(g, fs, i, v)
  BY <1>6, <1>8, <1>9 DEF IsMoved
<1> QED BY <1>1, <1>10

LEMMA AddedIs ==
    ASSUME NEW fs \in Seq(FileRecs), NEW f \in FileRecs
    PROVE  /\ Append(fs, f) \in Seq(FileRecs) /\ Len(fs) \in Nat
           /\ DOMAIN fs = 1 .. Len(fs) /\ DOMAIN Append(fs, f) = 1 .. Len(fs) + 1
           /\ Len(Append(fs, f)) = Len(fs) + 1
           /\ \A j \in DOMAIN fs : Append(fs, f)[j] = fs[j]
           /\ Append(fs, f)[Len(fs) + 1] = f
<1>1. Len(fs) \in Nat /\ DOMAIN fs = 1 .. Len(fs)
  BY LenProperties
<1>2. /\ Append(fs, f) \in Seq(FileRecs) /\ Len(Append(fs, f)) = Len(fs) + 1
      /\ \A j \in 1 .. Len(fs) : Append(fs, f)[j] = fs[j]
      /\ Append(fs, f)[Len(fs) + 1] = f
  BY AppendProperties
<1>3. DOMAIN Append(fs, f) = 1 .. Len(Append(fs, f))
  BY <1>2, LenProperties
<1> QED BY <1>1, <1>2, <1>3

-----------------------------------------------------------------------------
LEMMA InitInv ==
    ASSUME Init
    PROVE  FInv
<1>1. /\ devs = <<>> /\ mounts = <<>> /\ root_mount = 0 /\ __fs = 0 /\ pc = "drivers"
      /\ left = NULL /\ files = <<>> /\ line = NoLine /\ loc = NoLocals /\ halted = "no"
      /\ disk \in {"ext2", "other", "none"} /\ table \in FileTables
  BY DEF Init
<1>2. PICK dirty \in SUBSET (2 .. NFILES - 1) :
         table = [fd \in 0 .. NFILES - 1 |->
            CASE fd = 0 -> Free [] fd = 1 -> Console [] fd \in dirty -> JunkPtr [] OTHER -> Free]
  BY <1>1 DEF FileTables
<1>3. \A fd \in 0 .. NFILES - 1 : table[fd] \in {Free, Console, JunkPtr}
  BY <1>2
<1>4. 0 \in 0 .. NFILES - 1 /\ 1 \in 0 .. NFILES - 1
  BY Sizes
<1>5. table[0] = Free /\ table[1] = Console
  <2>1. table[0] = Free
    BY <1>2, <1>4
  <2>2. table[1] = Console
    BY <1>2, <1>4
  <2> QED BY <2>1, <2>2
<1>6. Values
  <2>1. devs \in Seq(DevTypes) /\ files \in Seq(FileRecs) /\ mounts \in Seq(1 .. Len(devs))
    BY <1>1
  <2>2. Len(devs) = 0 /\ Len(files) = 0
    BY <1>1
  <2>3. table \in [0 .. NFILES - 1 -> Entries(Len(files))]
    BY <1>2, <1>3 DEF Entries
  <2>4. line \in Lines
    <3>1. <<>> \in Strings
      BY DEF Strings
    <3> QED BY <1>1, <3>1 DEF NoLine, Lines
  <2>5. root_mount \in 0 .. Len(devs)
    BY <1>1, <2>2
  <2> QED BY <1>1, <2>1, <2>3, <2>4, <2>5, NoLocalsAre DEF Values, Pointers
<1>7. BootInv
  BY <1>1 DEF BootInv
<1>8. CommandInv
  BY <1>1 DEF CommandInv, CatPcs, ElfPcs
<1>9. TableInv
  <2>1. DOMAIN files = {}
    BY <1>1
  <2> QED BY <1>5, <2>1 DEF TableInv
<1>10. OpenInv /\ CatInv /\ ElfInv
  BY <1>1 DEF OpenInv, CatInv, ElfInv, Using
<1> QED BY <1>6, <1>7, <1>8, <1>9, <1>10 DEF FInv

-----------------------------------------------------------------------------
(* Boot. *)
LEMMA DriversKeep ==
    ASSUME FInv, drivers_init
    PROVE  FInv'
<1>1. /\ pc = "drivers" /\ pc' = "mount" /\ loc' = [loc EXCEPT !.fd = 1]
      /\ devs = <<>> /\ mounts = <<>> /\ root_mount = 0
      /\ disk' = disk /\ mounts' = mounts /\ root_mount' = root_mount /\ __fs' = __fs
      /\ left' = left /\ files' = files /\ table' = table /\ line' = line /\ halted' = halted
  BY DEF FInv, BootInv, drivers_init
<1>2. devs' \in Seq(DevTypes)
  <2>1. <<"PSEUDO", "PSEUDO", "TTY">> \in Seq(DevTypes)
    BY DEF DevTypes
  <2>2. <<"TTY_INPUT">> \in Seq(DevTypes) /\ <<"BLK">> \in Seq(DevTypes)
    BY DEF DevTypes
  <2>3. <<>> \in Seq(DevTypes)
    OBVIOUS
  <2>4. (IF disk = "none" THEN <<>> ELSE <<"BLK">>) \in Seq(DevTypes)
    BY <2>2, <2>3, Zenon
  <2>5. PICK a \in Seq(DevTypes), b \in Seq(DevTypes), c \in Seq(DevTypes) :
           devs' = (a \o b) \o c
    BY <2>1, <2>2, <2>4, Zenon DEF drivers_init
  <2> QED BY <2>5, ConcatProperties
<1>3. loc \in Locals /\ loc' \in Locals /\ loc'.fd = 1
  <2>1. loc \in Locals
    BY DEF FInv, Values
  <2>2. loc' \in Locals
    <3>1. 1 \in Int
      OBVIOUS
    <3> QED BY <1>1, <2>1, <3>1, LocalsAre, Zenon
  <2>3. loc'.fd = 1
    BY <1>1, <2>1 DEF Locals
  <2> QED BY <2>1, <2>2, <2>3
<1>4. Values'
  <2>1. mounts' \in Seq(1 .. Len(devs')) /\ root_mount' \in 0 .. Len(devs')
    BY <1>1, <1>2, LenProperties
  <2> QED BY <1>1, <1>2, <1>3, <2>1 DEF FInv, Values
<1>5. BootInv'
  <2>1. \A f \in DOMAIN files : FALSE
    BY <1>1 DEF FInv, BootInv
  <2> QED BY <1>1, <1>3, <2>1 DEF BootInv
<1>6. CommandInv'
  BY <1>1 DEF CommandInv, CatPcs, ElfPcs
<1>7. TableInv'
  BY <1>1 DEF FInv, TableInv
<1>8. (OpenInv /\ CatInv /\ ElfInv)'
  BY <1>1 DEF OpenInv, CatInv, ElfInv, Using
<1> QED BY <1>4, <1>5, <1>6, <1>7, <1>8 DEF FInv

LEMMA MountKeeps ==
    ASSUME FInv, vfs_mount
    PROVE  FInv'
<1>1. /\ pc = "mount" /\ loc.fd <= Len(devs) /\ loc' = [loc EXCEPT !.fd = @ + 1]
      /\ disk' = disk /\ devs' = devs /\ pc' = pc /\ left' = left /\ files' = files
      /\ table' = table /\ line' = line /\ halted' = halted
  BY DEF vfs_mount
<1>2. /\ loc \in Locals /\ loc.fd > 0 /\ devs \in Seq(DevTypes) /\ __fs = root_mount
      /\ mounts \in Seq(1 .. Len(devs)) /\ root_mount \in 0 .. Len(devs)
  BY <1>1 DEF FInv, Values, BootInv
<1>3. loc.fd \in 1 .. Len(devs) /\ DOMAIN devs = 1 .. Len(devs) /\ Len(devs) \in Nat
  <2>1. loc.fd \in Int
    BY <1>2 DEF Locals
  <2> QED BY <1>1, <1>2, <2>1, LenProperties
<1>4. loc' \in Locals /\ loc'.fd > 0
  <2>1. loc.fd + 1 \in Int /\ loc.fd + 1 > 0
    BY <1>3
  <2>2. loc'.fd = loc.fd + 1
    BY <1>1, <1>2 DEF Locals
  <2>3. loc' \in Locals
    BY <1>1, <1>2, <2>1, LocalsAre
  <2> QED BY <2>1, <2>2, <2>3
<1>5. ~Mounted(devfs_mount)
  BY DEF Mounted, devfs_mount, ENODEV
<1>6. \/ /\ __fs' = __fs /\ mounts' = mounts /\ root_mount' = root_mount
      \/ /\ __fs' = loc.fd /\ mounts' = Append(mounts, loc.fd) /\ root_mount' = loc.fd
         /\ disk = "ext2" /\ devs[loc.fd] = "BLK"
  <2>1. CASE devs[loc.fd] = "BLK" /\ disk = "ext2"
    <3>1. ext2_mount(loc.fd) = loc.fd
      BY <2>1 DEF ext2_mount
    <3>2. vfs_mount_fs(loc.fd) = loc.fd /\ loc.fd # 0 /\ loc.fd > 0
      BY <1>3, <1>5, <3>1 DEF vfs_mount_fs, Mounted
    <3> QED BY <1>5, <2>1, <3>1, <3>2 DEF vfs_mount
  <2>2. CASE ~(devs[loc.fd] = "BLK" /\ disk = "ext2")
    <3>1. ~(ext2_mount(loc.fd) > 0)
      BY <2>2 DEF ext2_mount, ENODEV, EINVAL
    <3>2. vfs_mount_fs(loc.fd) = 0
      BY <1>5, <3>1 DEF vfs_mount_fs, Mounted
    <3> QED BY <1>5, <3>1, <3>2 DEF vfs_mount
  <2> QED BY <2>1, <2>2
<1>7. Values'
  <2>1. mounts' \in Seq(1 .. Len(devs)) /\ root_mount' \in 0 .. Len(devs) /\ __fs' = root_mount'
    <3>1. CASE root_mount' = root_mount /\ mounts' = mounts
      BY <1>2, <1>3, <1>6, <3>1
    <3>2. CASE ~(root_mount' = root_mount /\ mounts' = mounts)
      <4>1. __fs' = loc.fd /\ mounts' = Append(mounts, loc.fd) /\ root_mount' = loc.fd
        BY <1>6, <3>2
      <4>2. Append(mounts, loc.fd) \in Seq(1 .. Len(devs))
        BY <1>2, <1>3, AppendProperties, Zenon
      <4> QED BY <1>3, <4>1, <4>2
    <3> QED BY <3>1, <3>2
  <2> QED BY <1>1, <1>4, <2>1 DEF FInv, Values
<1>8. BootInv'
  BY <1>1, <1>4, <1>6 DEF FInv, BootInv
<1>9. (CommandInv /\ TableInv)'
  BY <1>1 DEF FInv, CommandInv, TableInv, CatPcs, ElfPcs
<1>10. (OpenInv /\ CatInv /\ ElfInv)'
  BY <1>1 DEF OpenInv, CatInv, ElfInv, Using
<1> QED BY <1>7, <1>8, <1>9, <1>10 DEF FInv

LEMMA BootEnds ==
    ASSUME FInv, do_mount
    PROVE  FInv'
<1>1. /\ pc = "mount" /\ loc' = NoLocals /\ disk' = disk /\ devs' = devs
      /\ mounts' = mounts /\ root_mount' = root_mount /\ __fs' = __fs
      /\ left' = left /\ files' = files /\ table' = table /\ line' = line
      /\ \/ root_mount = 0 /\ pc' = "stopped" /\ halted' = "unable to mount root directory"
         \/ root_mount # 0 /\ pc' = "test" /\ halted' = halted
  BY DEF do_mount, boot
<1>2. halted = "no"
  BY <1>1 DEF FInv, Values
<1>3. Values'
  BY <1>1, <1>2, NoLocalsAre DEF FInv, Values
<1>4. BootInv'
  BY <1>1 DEF FInv, BootInv
<1>5. (CommandInv /\ TableInv)'
  BY <1>1 DEF FInv, CommandInv, TableInv, CatPcs, ElfPcs
<1>6. (OpenInv /\ CatInv /\ ElfInv)'
  BY <1>1 DEF OpenInv, CatInv, ElfInv, Using
<1> QED BY <1>3, <1>4, <1>5, <1>6 DEF FInv

-----------------------------------------------------------------------------
(* The files and the table together. *)
FilesOk ==
    /\ files \in Seq(FileRecs) /\ table \in [0 .. NFILES - 1 -> Entries(Len(files))]
    /\ \A f \in DOMAIN files : files[f].fs \in DOMAIN devs
    /\ TableInv

LEMMA FilesAre ==
    ASSUME FInv
    PROVE  FilesOk
BY DEF FInv, Values, BootInv, FilesOk

(* When the shell runs, the root can be given to a file. *)
Running == pc \notin {"drivers", "mount", "stopped"}

LEMMA RootIs ==
    ASSUME FInv, Running
    PROVE  root_mount \in DOMAIN devs /\ root_mount \in Int
<1>1. devs \in Seq(DevTypes) /\ root_mount \in 0 .. Len(devs) /\ root_mount # 0
  BY DEF FInv, Values, BootInv, Running
<1>2. DOMAIN devs = 1 .. Len(devs) /\ Len(devs) \in Nat
  BY <1>1, LenProperties
<1> QED BY <1>1, <1>2

(* A file that is not entered into the table. *)
LEMMA FileLost ==
    ASSUME FInv, Running, NEW f \in FileRecs, f.fs = root_mount,
           files' = Append(files, f), table' = table, devs' = devs
    PROVE  FilesOk'
<1>1. FilesOk /\ root_mount \in DOMAIN devs
  BY FilesAre, RootIs
<1>2. files \in Seq(FileRecs)
  BY <1>1 DEF FilesOk
<1>3. PICK n : n = Len(files)
  OBVIOUS
<1>4. /\ files' \in Seq(FileRecs) /\ n \in Nat
      /\ DOMAIN files = 1 .. n /\ DOMAIN files' = 1 .. n + 1 /\ Len(files') = n + 1
      /\ \A j \in 1 .. n : files'[j] = files[j]
      /\ files'[n + 1] = f
  BY <1>2, <1>3, AddedIs
<1>5. table \in [0 .. NFILES - 1 -> Entries(n)]
  BY <1>1, <1>3 DEF FilesOk
<1>6. table' \in [0 .. NFILES - 1 -> Entries(Len(files'))]
  <2>1. Entries(n) \subseteq Entries(n + 1)
    BY <1>4 DEF Entries
  <2> QED BY <1>4, <1>5, <2>1
<1>7. ASSUME NEW j \in DOMAIN files' PROVE files'[j].fs \in DOMAIN devs'
  <2>1. CASE j = n + 1
    BY <1>1, <1>4, <2>1
  <2>2. CASE j # n + 1
    <3>1. j \in 1 .. n
      BY <1>4, <2>2
    <3> QED BY <1>1, <1>4, <3>1 DEF FilesOk
  <2> QED BY <2>1, <2>2
<1>8. TableInv'
  <2>1. ASSUME NEW fd \in 2 .. NFILES - 1, table[fd] \in DOMAIN files'
        PROVE  table[fd] \in DOMAIN files
    <3>1. table[fd] \in Entries(n)
      BY <1>5, Sizes
    <3>2. table[fd] \in 1 .. n + 1
      BY <1>4, <2>1
    <3> QED BY <1>4, <3>1, <3>2 DEF Entries, Free, Console, JunkPtr
  <2>2. TableInv
    BY <1>1 DEF FilesOk
  <2> QED BY <1>4, <2>1, <2>2 DEF TableInv
<1> QED BY <1>4, <1>6, <1>7, <1>8 DEF FilesOk

(* A file of the path of cat or elf that gets a free entry. *)
LEMMA FileEntered ==
    ASSUME FInv, Running, NEW f \in FileRecs, f.fs = root_mount, f.respath = 4,
           NEW fd \in 3 .. NFILES - 1,
           files' = Append(files, f), table' = [table EXCEPT ![fd] = Len(files) + 1],
           devs' = devs
    PROVE  /\ FilesOk'
           /\ Len(files') = Len(files) + 1 /\ Len(files') # 0 /\ table'[fd] = Len(files')
           /\ files'[Len(files')] = f
<1>1. FilesOk /\ root_mount \in DOMAIN devs
  BY FilesAre, RootIs
<1>2. files \in Seq(FileRecs)
  BY <1>1 DEF FilesOk
<1>3. PICK n : n = Len(files)
  OBVIOUS
<1>4. /\ files' \in Seq(FileRecs) /\ n \in Nat
      /\ DOMAIN files = 1 .. n /\ DOMAIN files' = 1 .. n + 1 /\ Len(files') = n + 1
      /\ \A j \in 1 .. n : files'[j] = files[j]
      /\ files'[n + 1] = f
  BY <1>2, <1>3, AddedIs
<1>5. table \in [0 .. NFILES - 1 -> Entries(n)]
  BY <1>1, <1>3 DEF FilesOk
<1>6. /\ \A o \in 0 .. NFILES - 1 : table'[o] = IF o = fd THEN n + 1 ELSE table[o]
      /\ DOMAIN table' = 0 .. NFILES - 1 /\ fd \in 0 .. NFILES - 1
  BY <1>3, <1>5
<1>7. \A o \in 0 .. NFILES - 1 : table[o] \in Entries(n)
  BY <1>5
<1>8. n + 1 \in Entries(n + 1) /\ n + 1 \notin Entries(n) /\ Entries(n) \subseteq Entries(n + 1)
  BY <1>4 DEF Entries, Free, Console, JunkPtr
<1>9. table' \in [0 .. NFILES - 1 -> Entries(Len(files'))]
  <2>1. \A o \in 0 .. NFILES - 1 : table'[o] \in Entries(n + 1)
    BY <1>6, <1>7, <1>8
  <2>2. table' = [o \in 0 .. NFILES - 1 |-> table'[o]]
    BY <1>5
  <2> QED BY <1>4, <2>1, <2>2
<1>10. ASSUME NEW j \in DOMAIN files' PROVE files'[j].fs \in DOMAIN devs'
  <2>1. CASE j = n + 1
    BY <1>1, <1>4, <2>1
  <2>2. CASE j # n + 1
    <3>1. j \in 1 .. n
      BY <1>4, <2>2
    <3> QED BY <1>1, <1>4, <3>1 DEF FilesOk
  <2> QED BY <2>1, <2>2
<1>11. TableInv'
  <2>1. TableInv
    BY <1>1 DEF FilesOk
  <2>2. table'[0] = Free /\ table'[1] = Console
    <3>1. 0 \in 0 .. NFILES - 1 /\ 1 \in 0 .. NFILES - 1 /\ fd # 0 /\ fd # 1
      BY Sizes
    <3> QED BY <1>6, <2>1, <3>1 DEF TableInv
  <2>3. ASSUME NEW o \in 2 .. NFILES - 1, table'[o] \in DOMAIN files'
        PROVE  /\ files'[table'[o]].respath = 4
               /\ \A other \in 0 .. NFILES - 1 : other # o => table'[other] # table'[o]
    <3>1. o \in 0 .. NFILES - 1
      BY Sizes
    <3>2. CASE o = fd
      <4>1. table'[o] = n + 1
        BY <1>6, <3>2
      <4>2. \A other \in 0 .. NFILES - 1 : other # o => table'[other] # n + 1
        BY <1>6, <1>7, <1>8, <3>2
      <4> QED BY <1>4, <4>1, <4>2
    <3>3. CASE o # fd
      <4>1. table'[o] = table[o] /\ table[o] \in Entries(n)
        BY <1>6, <1>7, <3>1, <3>3
      <4>2. table[o] \in 1 .. n
        BY <1>4, <2>3, <4>1 DEF Entries, Free, Console, JunkPtr
      <4>3. /\ files[table[o]].respath = 4
            /\ \A other \in 0 .. NFILES - 1 : other # o => table[other] # table[o]
        BY <1>4, <2>1, <4>2 DEF TableInv
      <4>4. files'[table[o]] = files[table[o]] /\ table[o] # n + 1
        BY <1>4, <4>2
      <4>5. ASSUME NEW other \in 0 .. NFILES - 1, other # o
            PROVE  table'[other] # table[o]
        BY <1>6, <4>3, <4>4, <4>5
      <4> QED BY <4>1, <4>3, <4>4, <4>5
    <3> QED BY <3>2, <3>3
  <2> QED BY <2>2, <2>3 DEF TableInv
<1> QED BY <1>3, <1>4, <1>6, <1>9, <1>10, <1>11 DEF FilesOk

(* A read or lseek of the file that the command has opened. *)
LEMMA FileMoved ==
    ASSUME FInv, pc \in Using, NEW v \in Nat,
           files' = Moved(files, table[loc.fd], v), table' = table, devs' = devs
    PROVE  /\ FilesOk'
           /\ Len(files') = Len(files) /\ files'[Len(files)].pos = v
           /\ files'[Len(files)].respath = 4 /\ files'[Len(files)].opened = line.arg
<1>1. FilesOk
  BY FilesAre
<1>2. files \in Seq(FileRecs) /\ TableInv
  BY <1>1 DEF FilesOk
<1>3. PICK n : n = Len(files)
  OBVIOUS
<1>4. table[loc.fd] = n /\ n # 0 /\ files[n].respath = 4 /\ files[n].opened = line.arg
  BY <1>3 DEF FInv, OpenInv
<1>5. DOMAIN files = 1 .. n /\ n \in Nat
  BY <1>2, <1>3, LenProperties
<1>6. n \in DOMAIN files
  BY <1>4, <1>5
<1>7. IsMoved(files', files, n, v)
  <2>1. files' = Moved(files, n, v)
    BY <1>4
  <2>2. IsMoved(Moved(files, n, v), files, n, v)
    BY <1>2, <1>6, MovedIs
  <2> QED BY <2>1, <2>2
<1>8. TableInv'
  BY <1>2, <1>7 DEF TableInv, IsMoved
<1>9. FilesOk'
  BY <1>1, <1>3, <1>7, <1>8 DEF FilesOk, IsMoved
<1> QED BY <1>3, <1>4, <1>6, <1>7, <1>9 DEF IsMoved

-----------------------------------------------------------------------------
(* The boot test, and the commands up to where they open a file. *)
LEMMA TestKeeps ==
    ASSUME FInv, NEW p \in TestPaths, do_test(p)
    PROVE  FInv'
<1>1. /\ pc = "test" /\ pc' = "prompt" /\ disk' = disk /\ devs' = devs
      /\ mounts' = mounts /\ root_mount' = root_mount /\ __fs' = __fs
      /\ table' = table /\ line' = line /\ loc' = loc /\ halted' = halted
  BY DEF do_test, boot
<1>2. left \in Pointers /\ p \in Strings /\ Running
  BY <1>1, Sizes DEF FInv, Values, Running
<1>3. /\ Find(left, p).left \in Pointers
      /\ Find(Find(left, p).left, p).left \in Pointers
      /\ Find(Find(left, p).left, p).ino \in Found
  <2>1. PICK l \in Pointers : l = Find(left, p).left
    BY <1>2, FindIs DEF Pointers
  <2> QED BY <1>2, <2>1, FindIs DEF Pointers
<1>4. left' \in Pointers /\ FilesOk'
  <2>1. PICK ino \in Found, l \in Pointers : ino = Find(Find(left, p).left, p).ino
                                   /\ l = Find(Find(left, p).left, p).left
    BY <1>3
  <2>2. CASE Find(left, p).ino = ENOENT \/ ino = ENOENT
    <3>1. left' \in Pointers /\ files' = files
      BY <1>3, <2>1, <2>2 DEF do_test
    <3>2. FilesOk
      BY FilesAre
    <3> QED BY <1>1, <3>1, <3>2 DEF FilesOk, TableInv
  <2>3. CASE ~(Find(left, p).ino = ENOENT \/ ino = ENOENT)
    <3>1. Size[ino] \in Nat
      BY <1>3, <2>1, <2>3, Sizes DEF Found
    <3>2. PICK r : r = ReadFile(l, p, 0, Size[ino])
      OBVIOUS
    <3>3. r.left \in Pointers /\ r.pos \in Nat
      BY <1>2, <3>1, <3>2, ReadIs DEF WellRead
    <3>4. PICK f : f = [fs |-> find_mount, respath |-> Text, pos |-> r.pos, opened |-> p]
      OBVIOUS
    <3>5. left' = r.left /\ files' = Append(files, f)
      BY <2>1, <2>3, <3>2, <3>4 DEF do_test
    <3>6. f \in FileRecs /\ f.fs = root_mount
      BY <1>2, <3>3, <3>4, RootIs DEF FileRecs, find_mount, Text
    <3> QED BY <1>1, <1>2, <3>3, <3>5, <3>6, FileLost
  <2> QED BY <2>2, <2>3
<1>5. Values'
  BY <1>1, <1>4 DEF FInv, Values, FilesOk
<1>6. BootInv'
  BY <1>1, <1>4 DEF FInv, BootInv, FilesOk
<1>7. (CommandInv /\ OpenInv /\ CatInv /\ ElfInv)'
  BY <1>1 DEF CommandInv, OpenInv, CatInv, ElfInv, Using, CatPcs, ElfPcs
<1> QED BY <1>4, <1>5, <1>6, <1>7 DEF FInv, FilesOk

LEMMA GrabKeeps ==
    ASSUME FInv, NEW cmd \in DOMAIN Offset, NEW arg \in Paths, grab_input(cmd, arg)
    PROVE  FInv'
<1>1. /\ pc = "prompt" /\ pc' = cmd /\ disk' = disk /\ devs' = devs
      /\ mounts' = mounts /\ root_mount' = root_mount /\ __fs' = __fs
      /\ left' = left /\ files' = files /\ table' = table /\ halted' = halted
      /\ line' = [cmd |-> cmd, arg |-> arg] /\ loc' = [NoLocals EXCEPT !.begun = left]
  BY DEF grab_input, boot
<1>2. cmd \in {"ls", "cat", "stat", "elf"} /\ arg \in Strings
  BY Sizes DEF Offset
<1>3. left \in Pointers /\ halted = "no"
  BY <1>1 DEF FInv, Values
<1>4. loc' \in Locals /\ loc'.begun = left
  BY <1>1, <1>3, NoLocalsAre
<1>5. line' \in Lines /\ line'.cmd = cmd
  BY <1>1, <1>2 DEF Lines
<1>6. Values'
  BY <1>1, <1>2, <1>3, <1>4, <1>5 DEF FInv, Values
<1>7. BootInv'
  BY <1>1, <1>2 DEF FInv, BootInv
<1>8. (CommandInv /\ TableInv)'
  BY <1>1, <1>2, <1>5 DEF FInv, CommandInv, TableInv, CatPcs, ElfPcs
<1>9. (OpenInv /\ CatInv /\ ElfInv)'
  BY <1>1, <1>2, <1>4 DEF OpenInv, CatInv, ElfInv, Using
<1> QED BY <1>6, <1>7, <1>8, <1>9 DEF FInv

(* The file that vfs_open makes. *)
LEMMA OpenedIs ==
    ASSUME FInv, Running, line.cmd \in {"ls", "cat", "elf"}
    PROVE  /\ vfs_open \in FileRecs /\ vfs_open.fs = root_mount /\ vfs_open.pos = 0
           /\ vfs_open.opened = line.arg
           /\ line.cmd # "ls" => vfs_open.respath = 4
<1>1. line.arg \in Strings /\ root_mount \in Int
  BY RootIs DEF FInv, Values, Lines
<1>2. /\ Offset[line.cmd] \in {0, 3, 4}
      /\ line.cmd # "ls" => Offset[line.cmd] = 4
  BY DEF Offset
<1>3. PICK o \in {0, 3, 4} : o = Offset[line.cmd]
  BY <1>2
<1>4. vfs_open = [fs |-> root_mount, respath |-> o, pos |-> 0, opened |-> line.arg]
  BY <1>3 DEF vfs_open, find_mount
<1> QED BY <1>1, <1>2, <1>3, <1>4 DEF FileRecs

LEMMA LsKeeps ==
    ASSUME FInv, cmd_ls
    PROVE  FInv'
<1>1. /\ pc = "ls" /\ pc' = "prompt" /\ disk' = disk /\ devs' = devs
      /\ mounts' = mounts /\ root_mount' = root_mount /\ __fs' = __fs /\ left' = left
      /\ table' = table /\ line' = line /\ loc' = loc /\ halted' = halted
      /\ files' = Append(files, vfs_open)
  BY DEF cmd_ls, boot
<1>2. Running /\ line.cmd = "ls"
  BY <1>1 DEF FInv, CommandInv, Running
<1>3. vfs_open \in FileRecs /\ vfs_open.fs = root_mount
  BY <1>2, OpenedIs
<1>4. FilesOk'
  BY <1>1, <1>2, <1>3, FileLost
<1>5. Values'
  BY <1>1, <1>4 DEF FInv, Values, FilesOk
<1>6. BootInv'
  BY <1>1, <1>4 DEF FInv, BootInv, FilesOk
<1>7. (CommandInv /\ OpenInv /\ CatInv /\ ElfInv)'
  BY <1>1 DEF CommandInv, OpenInv, CatInv, ElfInv, Using, CatPcs, ElfPcs
<1> QED BY <1>4, <1>5, <1>6, <1>7 DEF FInv, FilesOk

LEMMA StatKeeps ==
    ASSUME FInv, syscall_stat
    PROVE  FInv'
<1>1. PICK st : st = Find(left, line.arg)
  OBVIOUS
<1>2. PICK size : size = IF st.ino = ENOENT THEN 0 ELSE Size[st.ino]
  OBVIOUS
<1>3. /\ pc \in {"stat", "cat"} /\ disk' = disk /\ devs' = devs
      /\ mounts' = mounts /\ root_mount' = root_mount /\ __fs' = __fs
      /\ files' = files /\ table' = table /\ line' = line /\ halted' = halted
      /\ left' = st.left /\ loc' = [loc EXCEPT !.size = size]
      /\ pc' = IF pc = "cat" /\ st.ino # ENOENT THEN "cat_open" ELSE "prompt"
  BY <1>1, <1>2 DEF syscall_stat, StatFailed, boot
<1>4. left \in Pointers /\ line.arg \in Strings /\ loc \in Locals
  BY DEF FInv, Values, Lines
<1>5. /\ st.ino \in Found /\ st.left \in Pointers
      /\ st.ino # ENOENT => st.left = NULL
      /\ left = NULL => st.ino = Resolve(line.arg)
  BY <1>1, <1>4, FindIs DEF Pointers
<1>6. size \in Nat
  BY <1>2, <1>5, Sizes DEF Found
<1>7. loc' \in Locals /\ loc'.size = size /\ loc'.begun = loc.begun
  BY <1>3, <1>4, <1>6, LocalsAre DEF Locals
<1>8. Values'
  BY <1>3, <1>5, <1>7 DEF FInv, Values
<1>9. BootInv'
  BY <1>3 DEF FInv, BootInv
<1>10. (CommandInv /\ TableInv)'
  BY <1>3 DEF FInv, CommandInv, TableInv, CatPcs, ElfPcs
<1>11. (OpenInv /\ ElfInv)'
  BY <1>3 DEF OpenInv, ElfInv, Using
<1>12. CatInv'
  <2>1. CASE pc' = "prompt"
    BY <2>1 DEF CatInv
  <2>2. CASE pc' # "prompt"
    <3>1. pc = "cat" /\ pc' = "cat_open" /\ st.ino # ENOENT
      BY <1>3, <2>2
    <3>2. left = loc.begun
      BY <3>1 DEF FInv, CatInv
    <3>3. loc.begun = NULL => Exists /\ size = Size[Resolve(line.arg)]
      BY <1>2, <1>5, <3>1, <3>2 DEF Exists
    <3>4. Exists' <=> Exists
      BY <1>3 DEF Exists
    <3> QED BY <1>3, <1>5, <1>7, <3>1, <3>3, <3>4 DEF CatInv
  <2> QED BY <2>1, <2>2
<1> QED BY <1>8, <1>9, <1>10, <1>11, <1>12 DEF FInv

LEMMA OpenKeeps ==
    ASSUME FInv, syscall_open
    PROVE  FInv'
<1>1. /\ pc \in {"cat_open", "elf"} /\ disk' = disk /\ devs' = devs
      /\ mounts' = mounts /\ root_mount' = root_mount /\ __fs' = __fs
      /\ left' = left /\ line' = line /\ halted' = halted
      /\ files' = Append(files, vfs_open)
      /\ pc' = CASE loc'.fd <= 0 -> "prompt"
                 [] loc'.fd > 0 /\ pc = "cat_open" -> "cat_read"
                 [] OTHER -> "elf_probe"
  BY DEF syscall_open, boot
<1>2. /\ Running /\ line.cmd \in {"cat", "elf"} /\ loc \in Locals
      /\ pc = "cat_open" => line.cmd = "cat"
      /\ pc = "elf" => line.cmd = "elf"
  BY <1>1 DEF FInv, CommandInv, Running, CatPcs, ElfPcs, Values
<1>3. /\ vfs_open \in FileRecs /\ vfs_open.fs = root_mount /\ vfs_open.pos = 0
      /\ vfs_open.opened = line.arg /\ vfs_open.respath = 4
  BY <1>2, OpenedIs
<1>4. Exists' <=> Exists
  BY <1>1 DEF Exists
<1>5. CASE FreeEntries = {}
  <2>1. table' = table /\ loc' = [loc EXCEPT !.fd = EMFILE]
    BY <1>5 DEF syscall_open
  <2>2. loc' \in Locals /\ loc'.fd = -24
    <3>1. EMFILE \in Int /\ EMFILE = -24
      BY DEF EMFILE
    <3>2. loc' \in Locals
      BY <1>2, <2>1, <3>1, LocalsAre, Zenon
    <3>3. loc'.fd = EMFILE
      BY <1>2, <2>1 DEF Locals
    <3> QED BY <3>1, <3>2, <3>3
  <2>3. pc' = "prompt"
    BY <1>1, <2>2
  <2>4. FilesOk'
    BY <1>1, <1>2, <1>3, <2>1, FileLost
  <2>5. Values'
    BY <1>1, <2>2, <2>3, <2>4 DEF FInv, Values, FilesOk
  <2>6. BootInv'
    BY <1>1, <2>3, <2>4 DEF FInv, BootInv, FilesOk
  <2>7. (CommandInv /\ OpenInv /\ CatInv /\ ElfInv)'
    BY <2>3 DEF CommandInv, OpenInv, CatInv, ElfInv, Using, CatPcs, ElfPcs
  <2> QED BY <2>4, <2>5, <2>6, <2>7 DEF FInv, FilesOk
<1>6. CASE FreeEntries # {}
  <2>1. FreeEntries \in SUBSET Nat
    BY Sizes DEF FreeEntries
  <2>2. PICK fd : fd = Min(FreeEntries)
    OBVIOUS
  <2>3. fd \in 3 .. NFILES - 1
    BY <1>6, <2>1, <2>2, MinIs DEF FreeEntries
  <2>4. loc' = [loc EXCEPT !.fd = fd] /\ table' = [table EXCEPT ![fd] = Len(files) + 1]
    BY <1>6, <2>2 DEF syscall_open, Entered
  <2>5. /\ loc' \in Locals /\ loc'.fd = fd /\ loc'.begun = loc.begun /\ loc'.size = loc.size
    <3>1. fd \in Int
      BY <2>3
    <3> QED BY <1>2, <2>4, <3>1, LocalsAre DEF Locals
  <2>6. pc' = IF pc = "cat_open" THEN "cat_read" ELSE "elf_probe"
    BY <1>1, <2>3, <2>5
  <2>7. /\ FilesOk' /\ Len(files') # 0 /\ table'[fd] = Len(files')
        /\ files'[Len(files')] = vfs_open
    BY <1>1, <1>2, <1>3, <2>3, <2>4, FileEntered
  <2>8. Values'
    BY <1>1, <2>5, <2>6, <2>7 DEF FInv, Values, FilesOk
  <2>9. BootInv'
    BY <1>1, <2>6, <2>7 DEF FInv, BootInv, FilesOk
  <2>10. CommandInv'
    BY <1>1, <1>2, <2>6 DEF CommandInv, CatPcs, ElfPcs
  <2>11. OpenInv'
    BY <1>1, <1>3, <2>3, <2>5, <2>6, <2>7 DEF OpenInv
  <2>12. CatInv'
    BY <1>1, <1>4, <2>5, <2>6 DEF FInv, CatInv
  <2>13. ElfInv'
    BY <1>1, <2>6 DEF ElfInv
  <2> QED BY <2>7, <2>8, <2>9, <2>10, <2>11, <2>12, <2>13 DEF FInv, FilesOk
<1> QED BY <1>5, <1>6

-----------------------------------------------------------------------------
(* The reads of a command, all of them through the file that it has        *)
(* opened, whose path is still in the line.                                *)
LEMMA ReadOpened ==
    ASSUME FInv, pc \in Using, NEW count \in Nat
    PROVE  /\ Read(count) = ReadFile(left, line.arg, files[Len(files)].pos, count)
           /\ Filp = files[Len(files)] /\ files[Len(files)].pos \in Nat
           /\ line.arg \in Strings /\ left \in Pointers /\ loc \in Locals
           /\ WellRead(Read(count))
<1>1. /\ Filp = files[Len(files)] /\ Filp.respath = 4
      /\ files \in Seq(FileRecs) /\ Len(files) # 0
  BY DEF FInv, Values, OpenInv, Filp
<1>2. line.arg \in Strings /\ left \in Pointers /\ loc \in Locals
  BY DEF FInv, Values, Lines
<1>3. line.cmd \in {"cat", "elf"}
  BY DEF FInv, CommandInv, CatPcs, ElfPcs, Using
<1>4. Offset[line.cmd] = 4
  BY <1>3 DEF Offset
<1>5. StringAt(Filp.respath) = line.arg
  BY <1>1, <1>4 DEF StringAt
<1>6. files[Len(files)].pos \in Nat
  <2>1. Len(files) \in 1 .. Len(files)
    BY <1>1, LenProperties
  <2>2. files[Len(files)] \in FileRecs
    BY <1>1, <2>1, ElementOfSeq
  <2> QED BY <2>2 DEF FileRecs
<1>7. Read(count) = ReadFile(left, line.arg, files[Len(files)].pos, count)
  BY <1>1, <1>5 DEF Read
<1>8. WellRead(Read(count))
  BY <1>2, <1>6, <1>7, ReadIs
<1> QED BY <1>1, <1>2, <1>6, <1>7, <1>8

(* The parts of the invariant that every read keeps. *)
Kept == Values /\ BootInv /\ CommandInv /\ TableInv /\ OpenInv

LEMMA ReadKeeps ==
    ASSUME FInv, pc \in Using, NEW v \in Nat,
           files' = Moved(files, table[loc.fd], v),
           UNCHANGED <<boot, table, line, halted>>,
           left' \in Pointers, loc' \in Locals, loc'.fd = loc.fd,
           pc' \in Using \ {"cat_read", "elf_probe"},
           pc' \in CatPcs <=> pc \in CatPcs,
           pc' = "load_probe" => v = 0
    PROVE  Kept'
<1>1. /\ disk' = disk /\ devs' = devs /\ mounts' = mounts /\ root_mount' = root_mount
      /\ __fs' = __fs /\ table' = table /\ line' = line /\ halted' = halted
  BY DEF boot
<1>2. /\ FilesOk'
      /\ Len(files') = Len(files) /\ files'[Len(files)].pos = v
      /\ files'[Len(files)].respath = 4 /\ files'[Len(files)].opened = line.arg
  BY <1>1, FileMoved
<1>3. Running /\ pc' \notin {"drivers", "mount", "stopped"}
  BY DEF Running, Using
<1>4. Values'
  BY <1>1, <1>2, <1>3 DEF FInv, Values, FilesOk, Running
<1>5. BootInv'
  BY <1>1, <1>2, <1>3 DEF FInv, BootInv, FilesOk, Running
<1>6. CommandInv'
  <2>1. pc' \in CatPcs \cup ElfPcs /\ pc \in CatPcs \cup ElfPcs
    BY DEF Using, CatPcs, ElfPcs
  <2>2. CatPcs \cap ElfPcs = {} /\ "ls" \notin CatPcs \cup ElfPcs /\ "stat" \notin CatPcs \cup ElfPcs
    BY DEF CatPcs, ElfPcs
  <2>3. pc' \in ElfPcs <=> pc \in ElfPcs
    BY <2>1, <2>2
  <2> QED BY <1>1, <2>1, <2>2, <2>3 DEF FInv, CommandInv
<1>7. OpenInv'
  BY <1>1, <1>2 DEF FInv, OpenInv
<1> QED BY <1>2, <1>4, <1>5, <1>6, <1>7 DEF Kept, FilesOk

LEMMA CatReadKeeps ==
    ASSUME FInv, cat_read
    PROVE  FInv'
<1>1. pc = "cat_read" /\ pc' = "cat_write" /\ UNCHANGED <<boot, table, line, typed, halted>>
  BY DEF cat_read
<1>2. pc \in Using /\ pc \in CatPcs /\ pc' \in Using /\ pc' \in CatPcs
  BY <1>1 DEF Using, CatPcs
<1>3. loc \in Locals /\ loc.size \in Nat
  BY DEF FInv, Values, Locals
<1>4. PICK r : r = Read(loc.size)
  OBVIOUS
<1>5. /\ left' = r.left /\ files' = Moved(files, table[loc.fd], r.pos)
      /\ loc' = [loc EXCEPT !.buf = r.buf]
  BY <1>4 DEF cat_read, ReadTo, Moved
<1>6. /\ r = ReadFile(left, line.arg, files[Len(files)].pos, loc.size)
      /\ line.arg \in Strings /\ left \in Pointers /\ WellRead(r)
  BY <1>2, <1>3, <1>4, ReadOpened
<1>7. r.left \in Pointers /\ r.pos \in Nat /\ r.buf \in Buffers
  BY <1>6 DEF WellRead
<1>8. /\ loc' \in Locals /\ loc'.fd = loc.fd /\ loc'.begun = loc.begun
      /\ loc'.size = loc.size /\ loc'.buf = r.buf
  BY <1>3, <1>5, <1>7, LocalsAre DEF Locals
<1>9. Kept'
  BY <1>1, <1>2, <1>5, <1>7, <1>8, ReadKeeps
<1>10. line' = line /\ (Exists' <=> Exists)
  BY <1>1 DEF Exists
<1>11. /\ left = NULL /\ files[Len(files)].pos = 0
       /\ loc.begun = NULL => Exists /\ loc.size = Size[Resolve(line.arg)]
  BY <1>1 DEF FInv, CatInv, OpenInv
<1>12. Exists => \A k \in DOMAIN r.buf : r.buf[k] = <<Resolve(line.arg), k - 1>>
  <2> SUFFICES ASSUME Exists
               PROVE  \A k \in DOMAIN r.buf : r.buf[k] = <<Resolve(line.arg), k - 1>>
    OBVIOUS
  <2>1. NULL \in Pointers /\ Find(NULL, line.arg).ino # ENOENT /\ Resolve(line.arg) # ENOENT
    BY <1>6, FindIs DEF Exists, Pointers
  <2>2. 0 \in Nat /\ r = ReadFile(NULL, line.arg, 0, loc.size)
    BY <1>6, <1>11
  <2>3. ReadsFile(r, line.arg, 0, loc.size)
    BY <1>3, <1>6, <2>1, <2>2, ReadNamed
  <2>4. 0 \div BS = 0
    BY Sizes
  <2>5. DOMAIN r.buf \subseteq Int
    BY <1>7, LenProperties DEF Buffers
  <2>6. ASSUME NEW k \in DOMAIN r.buf PROVE r.buf[k] = <<Resolve(line.arg), k - 1>>
    <3>1. r.buf[k] = <<Resolve(line.arg), 0 \div BS + k - 1>>
      BY <2>3 DEF ReadsFile
    <3>2. 0 \div BS + k - 1 = k - 1
      BY <2>4, <2>5
    <3> QED BY <3>1, <3>2
  <2> QED BY <2>6
<1>13. CatInv'
  BY <1>1, <1>8, <1>10, <1>11, <1>12 DEF CatInv
<1>14. ElfInv'
  BY <1>1 DEF ElfInv
<1> QED BY <1>9, <1>13, <1>14 DEF FInv, Kept

(* Back to the prompt, with everything as it is. *)
LEMMA DoneKeeps ==
    ASSUME FInv, cat_write \/ elf_done
    PROVE  FInv'
<1>1. /\ pc \in {"cat_write", "elf_done"} /\ pc' = "prompt" /\ disk' = disk /\ devs' = devs
      /\ mounts' = mounts /\ root_mount' = root_mount /\ __fs' = __fs
      /\ left' = left /\ files' = files /\ table' = table /\ line' = line /\ loc' = loc
      /\ halted' = halted
  BY DEF cat_write, elf_done, boot
<1>2. Values'
  BY <1>1 DEF FInv, Values
<1>3. BootInv'
  BY <1>1 DEF FInv, BootInv
<1>4. TableInv'
  BY <1>1 DEF FInv, TableInv
<1>5. (CommandInv /\ OpenInv /\ CatInv /\ ElfInv)'
  BY <1>1 DEF CommandInv, OpenInv, CatInv, ElfInv, Using, CatPcs, ElfPcs
<1> QED BY <1>2, <1>3, <1>4, <1>5 DEF FInv

LEMMA CloseKeeps ==
    ASSUME FInv, syscall_close
    PROVE  FInv'
<1>1. /\ pc = "elf_close" /\ pc' = "prompt" /\ disk' = disk /\ devs' = devs
      /\ mounts' = mounts /\ root_mount' = root_mount /\ __fs' = __fs
      /\ left' = left /\ files' = files /\ line' = line /\ loc' = loc
      /\ halted' = halted /\ table' = [table EXCEPT ![loc.fd] = Free]
  BY DEF syscall_close, boot
<1>2. /\ loc.fd \in 3 .. NFILES - 1
      /\ table \in [0 .. NFILES - 1 -> Entries(Len(files))] /\ files \in Seq(FileRecs)
  BY <1>1 DEF FInv, OpenInv, Values, Using
<1>3. table' \in [0 .. NFILES - 1 -> Entries(Len(files))]
  BY <1>1, <1>2 DEF Entries
<1>4. \A o \in 0 .. NFILES - 1 : table'[o] = IF o = loc.fd THEN Free ELSE table[o]
  BY <1>1, <1>2
<1>5. Values'
  BY <1>1, <1>3 DEF FInv, Values
<1>6. BootInv'
  BY <1>1 DEF FInv, BootInv
<1>7. TableInv'
  <2>1. 0 \notin DOMAIN files
    BY <1>2, LenProperties
  <2>2. TableInv
    BY DEF FInv
  <2>3. table'[0] = Free /\ table'[1] = Console
    <3>1. 0 \in 0 .. NFILES - 1 /\ 1 \in 0 .. NFILES - 1 /\ loc.fd # 0 /\ loc.fd # 1
      BY <1>2, Sizes
    <3> QED BY <1>4, <2>2, <3>1 DEF TableInv
  <2>4. ASSUME NEW fd \in 2 .. NFILES - 1, table'[fd] \in DOMAIN files
        PROVE  /\ files[table'[fd]].respath = 4
               /\ \A other \in 0 .. NFILES - 1 : other # fd => table'[other] # table'[fd]
    <3>1. fd \in 0 .. NFILES - 1
      BY Sizes
    <3>2. table'[fd] = table[fd] /\ table[fd] # Free
      BY <1>4, <2>1, <2>4, <3>1 DEF Free
    <3> QED BY <1>4, <2>2, <2>4, <3>2 DEF TableInv
  <2> QED BY <1>1, <2>3, <2>4 DEF TableInv
<1>8. (CommandInv /\ OpenInv /\ CatInv /\ ElfInv)'
  BY <1>1 DEF CommandInv, OpenInv, CatInv, ElfInv, Using, CatPcs, ElfPcs
<1> QED BY <1>5, <1>6, <1>7, <1>8 DEF FInv

-----------------------------------------------------------------------------
(* What a probe judges: a verdict is a Boolean, and the right one if the   *)
(* lookup of the path succeeds.                                            *)
LEMMA VerdictIs ==
    ASSUME FInv, pc \in {"elf_probe", "load_probe"}
    PROVE  /\ Verdicts(Read(4)) \subseteq BOOLEAN
           /\ (Exists /\ Find(left, line.arg).ino # ENOENT) =>
                 /\ Read(4).left = NULL
                 /\ \A v \in Verdicts(Read(4)) : v <=> Resolve(line.arg) \in Elf
<1>1. pc \in Using /\ 4 \in Nat /\ files[Len(files)].pos = 0
  BY DEF Using, FInv, OpenInv
<1>2. PICK r : r = Read(4)
  OBVIOUS
<1>3. /\ r = ReadFile(left, line.arg, 0, 4) /\ Filp.pos = 0
      /\ line.arg \in Strings /\ left \in Pointers
  BY <1>1, <1>2, ReadOpened
<1>4. Verdicts(r) \subseteq BOOLEAN
  BY Zenon DEF Verdicts
<1>5. ASSUME Exists, Find(left, line.arg).ino # ENOENT
      PROVE  r.left = NULL /\ \A v \in Verdicts(r) : v <=> Resolve(line.arg) \in Elf
  <2>1. 0 \in Nat /\ 4 \in Nat /\ 4 # 0 /\ Resolve(line.arg) # ENOENT
    BY <1>5 DEF Exists
  <2>2. ReadsFile(r, line.arg, 0, 4)
    BY <1>3, <1>5, <2>1, ReadNamed
  <2>3. r.left = NULL /\ ~Junk(r)
    BY <2>1, <2>2 DEF ReadsFile
  <2>4. Verdicts(r) = {r.buf[1][1] \in Elf /\ Filp.pos = 0}
    BY <2>3 DEF Verdicts
  <2>5. r.buf[1][1] = Resolve(line.arg)
    <3>1. r.buf \in Buffers
      BY <1>3, <2>1, ReadIs DEF WellRead
    <3>2. r.buf # <<>>
      BY <2>3 DEF Junk
    <3>3. 1 \in DOMAIN r.buf
      BY <3>1, <3>2, LenProperties, EmptySeq DEF Buffers
    <3>4. r.buf[1] = <<Resolve(line.arg), 0 \div BS + 1 - 1>>
      BY <2>2, <3>3 DEF ReadsFile
    <3> QED BY <3>4
  <2>6. \A v \in Verdicts(r) : v <=> Resolve(line.arg) \in Elf
    BY <1>3, <2>4, <2>5, Zenon
  <2> QED BY <2>3, <2>6
<1> QED BY <1>2, <1>4, <1>5

LEMMA ProbeKeeps ==
    ASSUME FInv, elf_probe
    PROVE  FInv'
<1>1. PICK r : r = Read(4)
  OBVIOUS
<1>2. PICK v \in Verdicts(r) :
         loc' = [loc EXCEPT !.elf = v] /\ pc' = IF v THEN "elf_header" ELSE "elf_close"
  BY <1>1, Zenon DEF elf_probe
<1>3. /\ pc = "elf_probe" /\ UNCHANGED <<boot, table, line, typed, halted>>
      /\ left' = r.left /\ files' = Moved(files, table[loc.fd], r.pos)
  BY <1>1 DEF elf_probe, ReadTo, Moved
<1>4. pc \in Using /\ 4 \in Nat /\ pc \notin CatPcs
  BY <1>3 DEF Using, CatPcs
<1>5. loc \in Locals /\ r.left \in Pointers /\ r.pos \in Nat
  BY <1>1, <1>4, ReadOpened DEF WellRead
<1>6. v \in BOOLEAN
  BY <1>1, <1>2, <1>3, VerdictIs, Zenon
<1>7. loc' \in Locals /\ loc'.fd = loc.fd /\ loc'.begun = loc.begun /\ loc'.elf = v
  <2>1. loc' \in Locals
    BY <1>2, <1>5, <1>6, LocalsAre, Zenon
  <2>2. loc'.fd = loc.fd /\ loc'.begun = loc.begun
    BY <1>2, <1>5 DEF Locals
  <2>3. loc'.elf = v
    BY <1>2, <1>5, Zenon DEF Locals
  <2> QED BY <2>1, <2>2, <2>3, Zenon
<1>8. pc' \in {"elf_header", "elf_close"} /\ (pc' = "elf_header" => v)
  BY <1>2, <1>6, Zenon
<1>9. pc' \in Using \ {"cat_read", "elf_probe"} /\ pc' \notin CatPcs /\ pc' # "load_probe"
  BY <1>8 DEF Using, CatPcs
<1>10. Kept'
  BY <1>3, <1>4, <1>5, <1>7, <1>9, ReadKeeps
<1>11. CatInv'
  BY <1>8 DEF CatInv
<1>12. ElfInv'
  <2>1. line' = line /\ (Named' <=> Named)
    BY <1>3, <1>7 DEF Named, Exists
  <2>2. left = loc.begun
    BY <1>3 DEF FInv, CatInv
  <2>3. Named => r.left = NULL /\ (v <=> Resolve(line.arg) \in Elf)
    BY <1>1, <1>2, <1>3, <2>2, VerdictIs, Zenon DEF Named
  <2>4. Named => loc'.elf <=> Resolve(line.arg) \in Elf
    BY <1>7, <2>3, Zenon
  <2>5. Named /\ pc' = "elf_header" => Resolve(line.arg) \in Elf
    BY <1>8, <2>3, Zenon
  <2>6. pc' # "elf_done" /\ pc' # "load_probe"
    BY <1>8
  <2>7. Named => left' = NULL
    BY <1>3, <2>3
  <2> QED BY <2>1, <2>4, <2>5, <2>6, <2>7, Zenon DEF ElfInv
<1> QED BY <1>10, <1>11, <1>12 DEF FInv, Kept

LEMMA HeaderKeeps ==
    ASSUME FInv, elf_header
    PROVE  FInv'
<1>1. PICK r : r = Read(HEADER)
  OBVIOUS
<1>2. /\ pc = "elf_header" /\ pc' = "load_probe" /\ loc' = loc
      /\ UNCHANGED <<boot, table, line, halted>>
      /\ left' = r.left /\ files' = Moved(files, table[loc.fd], 0)
  BY <1>1 DEF elf_header, StartPos, Moved
<1>3. pc \in Using /\ HEADER \in Nat /\ HEADER # 0 /\ pc \notin CatPcs
  BY <1>2 DEF Using, CatPcs, HEADER
<1>4. /\ loc \in Locals /\ left \in Pointers /\ line.arg \in Strings
      /\ files[Len(files)].pos \in Nat /\ r.left \in Pointers
      /\ r = ReadFile(left, line.arg, files[Len(files)].pos, HEADER)
  BY <1>1, <1>3, ReadOpened DEF WellRead
<1>5. pc' \in Using \ {"cat_read", "elf_probe"} /\ pc' \notin CatPcs /\ 0 \in Nat
  BY <1>2 DEF Using, CatPcs
<1>6. Kept'
  BY <1>2, <1>3, <1>4, <1>5, ReadKeeps
<1>7. CatInv'
  BY <1>2 DEF CatInv
<1>8. ElfInv'
  <2>1. line' = line /\ (Named' <=> Named)
    BY <1>2 DEF Named, Exists
  <2>2. Named => left = NULL /\ Resolve(line.arg) \in Elf
    BY <1>2 DEF FInv, ElfInv
  <2>3. ASSUME Named PROVE r.left = NULL
    <3>1. Resolve(line.arg) # ENOENT /\ left = NULL
      BY <2>2, <2>3 DEF Named, Exists
    <3>2. Find(left, line.arg).ino # ENOENT
      BY <1>4, <3>1, FindIs DEF Pointers
    <3>3. ReadsFile(r, line.arg, files[Len(files)].pos, HEADER)
      BY <1>3, <1>4, <3>1, <3>2, ReadNamed
    <3> QED BY <3>3 DEF ReadsFile
  <2> QED BY <1>2, <2>1, <2>2, <2>3 DEF ElfInv
<1> QED BY <1>6, <1>7, <1>8 DEF FInv, Kept

LEMMA LoadProbeKeeps ==
    ASSUME FInv, load_probe
    PROVE  FInv'
<1>1. PICK r : r = Read(4)
  OBVIOUS
<1>2. PICK v \in Verdicts(r) : /\ loc' = IF v THEN loc ELSE [loc EXCEPT !.ret = EBADF]
                               /\ pc' = IF v THEN "load_header" ELSE "elf_done"
  BY <1>1, Zenon DEF load_probe
<1>3. /\ pc = "load_probe" /\ UNCHANGED <<boot, table, line, typed, halted>>
      /\ left' = r.left /\ files' = Moved(files, table[loc.fd], r.pos)
  BY <1>1 DEF load_probe, ReadTo, Moved
<1>4. pc \in Using /\ 4 \in Nat /\ pc \notin CatPcs
  BY <1>3 DEF Using, CatPcs
<1>5. /\ loc \in Locals /\ r.left \in Pointers /\ r.pos \in Nat
      /\ left \in Pointers /\ line.arg \in Strings
  BY <1>1, <1>4, ReadOpened DEF WellRead
<1>6. v \in BOOLEAN
  BY <1>1, <1>2, <1>3, VerdictIs, Zenon
<1>7. loc' \in Locals /\ loc'.fd = loc.fd /\ loc'.begun = loc.begun
  <2>1. CASE loc' = loc
    BY <1>5, <2>1
  <2>2. CASE loc' = [loc EXCEPT !.ret = EBADF]
    <3>1. EBADF \in {0, EBADF, ENOEXEC, ENOSYS}
      OBVIOUS
    <3>2. loc' \in Locals
      BY <1>5, <2>2, <3>1, LocalsAre, Zenon
    <3> QED BY <1>5, <2>2, <3>2 DEF Locals
  <2> QED BY <1>2, <1>6, <2>1, <2>2, Zenon
<1>8. pc' \in {"load_header", "elf_done"} /\ (pc' = "elf_done" => ~v)
  BY <1>2, <1>6, Zenon
<1>9. pc' \in Using \ {"cat_read", "elf_probe"} /\ pc' \notin CatPcs /\ pc' # "load_probe"
  BY <1>8 DEF Using, CatPcs
<1>10. Kept'
  BY <1>3, <1>4, <1>5, <1>7, <1>9, ReadKeeps
<1>11. CatInv'
  BY <1>8 DEF CatInv
<1>12. ElfInv'
  <2>1. line' = line /\ (Named' <=> Named)
    BY <1>3, <1>7 DEF Named, Exists
  <2>2. ASSUME Named PROVE pc' # "elf_done"
    <3>1. left = NULL /\ Resolve(line.arg) \in Elf
      BY <1>3, <2>2 DEF FInv, ElfInv
    <3>2. Exists /\ Find(left, line.arg).ino # ENOENT
      BY <1>5, <2>2, <3>1, FindIs DEF Named, Exists, Pointers
    <3>3. v <=> Resolve(line.arg) \in Elf
      BY <1>1, <1>2, <1>3, <3>2, VerdictIs, Zenon
    <3> QED BY <1>8, <3>1, <3>3, Zenon
  <2> QED BY <1>8, <2>1, <2>2 DEF ElfInv
<1> QED BY <1>10, <1>11, <1>12 DEF FInv, Kept

(* A header, decoded or whatever the stack held, has numbers in it. *)
LEMMA HeadersAre ==
    ASSUME NEW r
    PROVE  Headers(r) \subseteq ElfRecs
<1>1. \A i, off : WordAt(i, off) \in Nat
  BY FilesAssumption DEF WordAt
<1>2. \A i, pos : Decoded(i, pos) \in ElfRecs
  <2>1. ASSUME NEW i, NEW pos PROVE Decoded(i, pos) \in ElfRecs
    <3>1. PICK a \in Nat, b \in Nat, c \in Nat :
             Decoded(i, pos) = [e_type |-> a, e_phoff |-> b, e_phnum |-> c]
      BY <1>1, Zenon DEF Decoded
    <3> QED BY <3>1 DEF ElfRecs
  <2> QED BY <2>1
<1>3. JunkHeaders \subseteq ElfRecs
  BY DEF JunkHeaders, ElfRecs
<1>4. CASE Junk(r)
  BY <1>3, <1>4 DEF Headers
<1>5. CASE ~Junk(r)
  BY <1>2, <1>5, Zenon DEF Headers
<1> QED BY <1>4, <1>5

LEMMA LoadHeaderKeeps ==
    ASSUME FInv, load_header
    PROVE  FInv'
<1>1. PICK r : r = Read(HEADER)
  OBVIOUS
<1>2. PICK h \in Headers(r) :
         /\ loc' = [loc EXCEPT !.header = h, !.ret = IF h.e_type >= 2 THEN ENOEXEC ELSE 0]
         /\ files' = [files EXCEPT ![table[loc.fd]].pos = IF h.e_type >= 2 THEN r.pos ELSE h.e_phoff]
         /\ pc' = IF h.e_type >= 2 THEN "elf_done" ELSE "load_segments"
  BY <1>1 DEF load_header
<1>3. /\ pc = "load_header" /\ UNCHANGED <<boot, table, line, typed, halted>>
      /\ left' = r.left
  BY <1>1 DEF load_header
<1>4. pc \in Using /\ HEADER \in Nat /\ pc \notin CatPcs
  BY <1>3 DEF Using, CatPcs, HEADER
<1>5. loc \in Locals /\ r.left \in Pointers /\ r.pos \in Nat
  BY <1>1, <1>4, ReadOpened DEF WellRead
<1>6. h \in ElfRecs /\ h.e_type \in Nat /\ h.e_phoff \in Nat
  BY <1>2, HeadersAre DEF ElfRecs
<1>7. PICK v \in Nat : v = IF h.e_type >= 2 THEN r.pos ELSE h.e_phoff
  BY <1>5, <1>6
<1>8. files' = Moved(files, table[loc.fd], v)
  BY <1>2, <1>7 DEF Moved
<1>9. PICK x \in {0, EBADF, ENOEXEC, ENOSYS} : x = IF h.e_type >= 2 THEN ENOEXEC ELSE 0
  OBVIOUS
<1>10. loc' = [loc EXCEPT !.header = h, !.ret = x]
  BY <1>2, <1>9
<1>11. loc' \in Locals
  BY <1>5, <1>6, <1>10, LocalsAre, Zenon
<1>12. loc'.fd = loc.fd /\ loc'.ret = x
  BY <1>5, <1>10 DEF Locals
<1>13. pc' \in {"elf_done", "load_segments"}
  BY <1>2
<1>14. pc' \in Using \ {"cat_read", "elf_probe"} /\ pc' \notin CatPcs /\ pc' # "load_probe"
  BY <1>13 DEF Using, CatPcs
<1>15. Kept'
  BY <1>3, <1>4, <1>5, <1>8, <1>11, <1>12, <1>14, ReadKeeps
<1>16. CatInv'
  BY <1>13 DEF CatInv
<1>17. x # EBADF
  BY <1>9 DEF EBADF, ENOEXEC
<1>18. ElfInv'
  BY <1>12, <1>13, <1>17 DEF ElfInv
<1> QED BY <1>15, <1>16, <1>18 DEF FInv, Kept

LEMMA LoadSegmentsKeeps ==
    ASSUME FInv, load_segments
    PROVE  FInv'
<1>1. PICK count : count = PHEADER * loc.header.e_phnum
  OBVIOUS
<1>2. PICK r : r = Read(count)
  OBVIOUS
<1>3. /\ pc = "load_segments" /\ pc' = "elf_done" /\ loc' = [loc EXCEPT !.ret = ENOSYS]
      /\ UNCHANGED <<boot, table, line, typed, halted>>
      /\ left' = r.left /\ files' = Moved(files, table[loc.fd], r.pos)
  BY <1>1, <1>2 DEF load_segments, ReadTo, Moved
<1>4. pc \in Using /\ pc \notin CatPcs
  BY <1>3 DEF Using, CatPcs
<1>5. count \in Nat
  <2>1. loc.header.e_phnum \in Nat
    BY DEF FInv, Values, Locals, ElfRecs
  <2> QED BY <1>1, <2>1 DEF PHEADER
<1>6. loc \in Locals /\ r.left \in Pointers /\ r.pos \in Nat
  BY <1>2, <1>4, <1>5, ReadOpened DEF WellRead
<1>7. ENOSYS \in {0, EBADF, ENOEXEC, ENOSYS}
  OBVIOUS
<1>8. loc' \in Locals
  BY <1>3, <1>6, <1>7, LocalsAre, Zenon
<1>9. loc'.fd = loc.fd /\ loc'.ret = ENOSYS
  BY <1>3, <1>6 DEF Locals
<1>10. pc' \in Using \ {"cat_read", "elf_probe"} /\ pc' \notin CatPcs /\ pc' # "load_probe"
  BY <1>3 DEF Using, CatPcs
<1>11. Kept'
  BY <1>3, <1>4, <1>6, <1>8, <1>9, <1>10, ReadKeeps
<1>12. CatInv'
  BY <1>3 DEF CatInv
<1>13. ElfInv'
  <2>1. ENOSYS # EBADF
    BY DEF ENOSYS, EBADF
  <2> QED BY <1>3, <1>9, <2>1 DEF ElfInv
<1> QED BY <1>11, <1>12, <1>13 DEF FInv, Kept

LEMMA StutterKeeps ==
    ASSUME FInv, UNCHANGED vars
    PROVE  FInv'
<1>1. /\ disk' = disk /\ devs' = devs /\ mounts' = mounts /\ root_mount' = root_mount
      /\ __fs' = __fs /\ pc' = pc /\ left' = left /\ files' = files /\ table' = table
      /\ line' = line /\ loc' = loc /\ halted' = halted
  BY DEF vars
<1>2. (Exists' <=> Exists) /\ (Named' <=> Named)
  BY <1>1 DEF Named, Exists
<1>3. Values'
  BY <1>1 DEF FInv, Values
<1>4. (BootInv /\ CommandInv /\ TableInv /\ OpenInv)'
  BY <1>1 DEF FInv, BootInv, CommandInv, TableInv, OpenInv
<1>5. (CatInv /\ ElfInv)'
  BY <1>1, <1>2 DEF FInv, CatInv, ElfInv
<1> QED BY <1>3, <1>4, <1>5 DEF FInv

-----------------------------------------------------------------------------
(***************************************************************************)
(* The invariant holds in every behaviour of boot, the boot test, the      *)
(* shell's commands on files and the ELF loader.                           *)
(***************************************************************************)
THEOREM FilesInductive == Spec => []FInv
<1>1. Init => FInv
  BY InitInv
<1>2. FInv /\ [Next]_vars => FInv'
  <2> SUFFICES ASSUME FInv, [Next]_vars PROVE FInv'
    OBVIOUS
  <2>1. CASE drivers_init \/ vfs_mount \/ do_mount
    BY <2>1, DriversKeep, MountKeeps, BootEnds
  <2>2. CASE \E p \in TestPaths : do_test(p)
    BY <2>2, TestKeeps
  <2>3. CASE \E cmd \in DOMAIN Offset, arg \in Paths : grab_input(cmd, arg)
    BY <2>3, GrabKeeps
  <2>4. CASE cmd_ls \/ syscall_stat \/ syscall_open \/ cat_read
    BY <2>4, LsKeeps, StatKeeps, OpenKeeps, CatReadKeeps
  <2>5. CASE cat_write \/ elf_done \/ syscall_close
    BY <2>5, DoneKeeps, CloseKeeps
  <2>6. CASE elf_probe \/ elf_header \/ load_probe \/ load_header \/ load_segments
    BY <2>6, ProbeKeeps, HeaderKeeps, LoadProbeKeeps, LoadHeaderKeeps, LoadSegmentsKeeps
  <2>7. CASE UNCHANGED vars
    BY <2>7, StutterKeeps
  <2> QED BY <2>1, <2>2, <2>3, <2>4, <2>5, <2>6, <2>7 DEF Next
<1> QED BY <1>1, <1>2, PTL DEF Spec

(***************************************************************************)
(* vfs_mount, do_mount: whatever the devices are, boot goes on only with a *)
(* root that ext2 has found on the disk, although every other device has   *)
(* been offered and refused with an error number as a pointer.             *)
(***************************************************************************)
THEOREM RootAlwaysUsable == Spec => []RootUsable
<1>1. FInv => RootUsable
  BY RootIs DEF FInv, Values, BootInv, RootUsable, Running
<1> QED BY <1>1, FilesInductive, PTL

(***************************************************************************)
(* syscall_open, syscall_close: however many files are left open, lost or  *)
(* closed, in a table of any size that held anything, standard output is   *)
(* the console, standard input is empty and no file has two descriptors.   *)
(***************************************************************************)
THEOREM TableAlwaysSound == Spec => []TableSound
<1>1. FInv => TableSound
  <2> SUFFICES ASSUME FInv PROVE TableSound
    OBVIOUS
  <2>1. TypeOK
    <3>1. /\ mounts \in Seq(1 .. Len(devs)) /\ root_mount \in 0 .. Len(devs) /\ __fs = root_mount
          /\ table \in [0 .. NFILES - 1 -> Entries(Len(files))]
          /\ files \in Seq(FileRecs) /\ loc \in Locals
          /\ pc = "stopped" <=> halted # "no"
      BY DEF FInv, Values
    <3>2. loc.size \in Nat /\ loc.elf \in BOOLEAN /\ loc.ret \in {0, EBADF, ENOEXEC, ENOSYS}
      BY <3>1 DEF Locals
    <3>3. pc \in Using => loc.fd \in 3 .. NFILES - 1
      BY DEF FInv, OpenInv
    <3>4. ASSUME NEW f \in Range(files)
          PROVE  f.respath \in {Text, 3, 4} /\ f.pos \in Nat /\ f.fs \in DOMAIN devs
      <4>1. PICK i \in DOMAIN files : f = files[i]
        BY DEF Range
      <4>2. f \in FileRecs
        BY <3>1, <4>1, ElementOfSeq
      <4>3. f.fs \in DOMAIN devs
        BY <4>1 DEF FInv, BootInv
      <4> QED BY <4>2, <4>3 DEF FileRecs, Text
    <3> QED BY <3>1, <3>2, <3>3, <3>4 DEF TypeOK, Entries
  <2>2. DOMAIN table = 0 .. NFILES - 1
    BY DEF FInv, Values
  <2>3. Offset["cat"] = 4
    BY DEF Offset
  <2> QED BY <2>1, <2>2, <2>3 DEF FInv, TableInv, TableSound
<1> QED BY <1>1, FilesInductive, PTL

(***************************************************************************)
(* An open file keeps a pointer into the line buffer, which the next       *)
(* command overwrites: a command still reads only through the file that it *)
(* has opened itself, for the path that is in the line.                    *)
(***************************************************************************)
THEOREM ReadsOwnFile == Spec => []ReadsWhatItOpened
<1>1. FInv => ReadsWhatItOpened
  <2> SUFFICES ASSUME FInv, pc \in Using
               PROVE  /\ table[loc.fd] = Len(files)
                      /\ Filp.respath = Offset[line.cmd] /\ Filp.opened = line.arg
    BY DEF ReadsWhatItOpened
  <2>1. /\ table[loc.fd] = Len(files)
        /\ files[Len(files)].respath = 4 /\ files[Len(files)].opened = line.arg
    BY DEF FInv, OpenInv
  <2>2. line.cmd \in {"cat", "elf"}
    BY DEF FInv, CommandInv, CatPcs, ElfPcs, Using
  <2>3. Offset[line.cmd] = 4
    BY <2>2 DEF Offset
  <2> QED BY <2>1, <2>3 DEF Filp
<1> QED BY <1>1, FilesInductive, PTL

(***************************************************************************)
(* cmd_cat ignores the result of its read, and writes the blocks of the    *)
(* file it names all the same, if there is one; and when no earlier lookup *)
(* has left a string in strtok's pointer, of the right size.               *)
(***************************************************************************)
THEOREM CatIsRight == Spec => []CatWritesNamed
<1>1. FInv => CatWritesNamed
  BY DEF FInv, CatInv, CatWritesNamed
<1> QED BY <1>1, FilesInductive, PTL

(***************************************************************************)
(* elf_probe ignores the result of its read: its verdict is right for      *)
(* every file that exists, unless a leftover makes its first lookup fail,  *)
(* and the probe of elf_load agrees with it.                               *)
(***************************************************************************)
THEOREM ElfIsRight == Spec => []ElfJudgesNamed
<1>1. FInv => ElfJudgesNamed
  BY DEF FInv, ElfInv, ElfJudgesNamed, Named
<1> QED BY <1>1, FilesInductive, PTL
=============================================================================
