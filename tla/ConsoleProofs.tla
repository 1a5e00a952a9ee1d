--------------------------- MODULE ConsoleProofs ---------------------------
(***************************************************************************)
(* What the consoles keep and show, for any number of threads and every    *)
(* size of the buffers and of the screen.                                  *)
(***************************************************************************)
EXTENDS Console, FiniteSetTheorems, SequenceTheorems, WellFoundedInduction, TLAPS

Places == {"idle", "kmsg", "kmsg_char", "serial", "serial_out",
           "wrap", "load_newline", "newline", "home", "bottom",
           "scroll", "scroll_home", "load_up", "up", "load_cell", "cell", "column"}

Spots == [pc : Places, c : Chars, idx : Nat, lx : Nat, ly : Int, row : Nat]

Sizes == (0 .. Rows) \X (0 .. Columns - 1)

Typed ==
    /\ loc \in [Thread -> Spots]
    /\ \A t \in Thread : loc[t].pc # "idle" => loc[t].c \in Letter \cup {NL}
    /\ {kmsg_buf, fifo, line} \subseteq Seq(Chars) /\ sent \in Seq(Letter \cup {NL})
    /\ kmsg_pos \in Nat /\ x \in Nat /\ y \in Int
    /\ screen \in [Sizes -> Chars \cup {Unknown}]
    /\ mixed \in BOOLEAN

(* The message buffer: nothing is stored behind its end. *)
KmsgIn ==
    /\ kmsg_pos <= Len(kmsg_buf) /\ Len(kmsg_buf) <= KMSG_BUFSIZE
    /\ \A t \in Thread :
          /\ loc[t].idx <= Len(kmsg_buf)
          /\ loc[t].pc = "kmsg_char" => loc[t].idx < KMSG_BUFSIZE

(* Without overlaps there is one caller, with the last character. *)
OneCaller ==
    ~mixed => \A t \in Busy : Busy = {t} /\ sent # <<>> /\ loc[t].c = Last(sent)

(* The characters of the calls that are past the places in P. *)
Past(P) == IF \E t \in Thread : loc[t].pc \in P THEN Len(sent) - 1 ELSE Len(sent)

Agrees(s, t) == Len(s) <= Len(t) /\ \A i \in 1 .. Len(s) : s[i] = t[i]

KmsgHas ==
    ~mixed =>
        LET n == Past({"kmsg", "kmsg_char"}) IN
        /\ Len(kmsg_buf) = kmsg_pos
        /\ Len(kmsg_buf) = IF n < KMSG_BUFSIZE THEN n ELSE KMSG_BUFSIZE
        /\ \A i \in 1 .. Len(kmsg_buf) : kmsg_buf[i] = sent[i]
        /\ \A t \in Thread : loc[t].pc = "kmsg_char" => loc[t].idx = kmsg_pos

ToSerial == {"kmsg", "kmsg_char", "serial", "serial_out"}

SerialHas ==
    ~mixed => /\ Len(line) + Len(fifo) = Past(ToSerial)
              /\ Agrees(line \o fifo, sent)
              /\ \A t \in Thread : loc[t].pc = "serial_out" => fifo = <<>>

(* Every thread that found the queue empty has its place in it, if there   *)
(* are places for all threads.                                             *)
Outs == {t \in Thread : loc[t].pc = "serial_out"}

FifoRoom == Len(fifo) + Cardinality(Outs) <= N

Kept(c) == Count(line, c) + Count(fifo, c) + Unsent(c)

SerialCounts ==
    \A c \in Letter \cup {NL} :
        /\ Kept(c) <= Count(sent, c)
        /\ N <= FIFO \/ ~mixed => Kept(c) = Count(sent, c)

(* The lines L on the screen, from line top on in the first row. *)
Texts == Seq(Seq(Letter \cup {NL}))

Top(L) == IF Len(L) <= Rows THEN 1 ELSE Len(L) - Rows + 1

Cells(L, top, scr) ==
    \A row \in 0 .. Rows, col \in 0 .. Columns - 1 :
        scr[<<row, col>>] = CellOf(L, top + row, col)

Shown(L, X, Y, scr) ==
    /\ L \in Texts /\ L # <<>> /\ X = Len(Last(L)) /\ X <= Columns + 1
    /\ Y = Len(L) - Top(L) /\ Cells(L, Top(L), scr)

(* A scroll for a new line that has moved r rows up. *)
Half(L, r, scr) ==
    /\ L \in Texts /\ Len(L) > Rows /\ Last(L) = <<>>
    /\ \A row \in 0 .. Rows, col \in 0 .. Columns - 1 :
          scr[<<row, col>>] = CellOf(L, Len(L) - Rows + (IF row < r THEN row + 1 ELSE row), col)

(* The text in front of the last character, with the line that it starts. *)
Opened(L, c) == IF c = NL \/ Len(Last(L)) > Columns THEN Append(L, <<>>) ELSE L

ToWrap == ToSerial \cup {"wrap"}

ScreenAt(t) ==
    LET L == Lines(Front(sent))
        O == Opened(L, loc[t].c)
        pc == loc[t].pc
    IN  /\ pc \in ToWrap \cup {"load_newline", "newline"} => Shown(L, x, y, screen)
        /\ pc \in {"load_newline", "newline", "home"} => Wraps(loc[t].c)
        /\ pc \in ToWrap \cup {"load_newline", "newline", "home", "bottom"} => loc[t].row = 0
        /\ pc \in {"newline", "up", "cell"} => loc[t].ly = y
        /\ pc = "home" => Shown(L, x, y - 1, screen)
        /\ pc = "bottom" => /\ x <= Columns
                            /\ Shown(O, x, y, screen) \/ (Half(O, 0, screen) /\ x = 0 /\ y = Rows)
        /\ pc = "scroll" => Half(O, loc[t].row, screen) /\ loc[t].row <= Rows /\ y = Rows
        /\ pc \in {"scroll_home", "load_up", "up"} => Half(O, Rows + 1, screen) /\ y = Rows
        /\ pc \in {"load_up", "up"} => x = 0
        /\ pc \in {"load_cell", "cell"} => Shown(O, x, y, screen) /\ x <= Columns /\ loc[t].c # NL
        /\ pc = "column" => Shown(Lines(sent), loc[t].lx + 1, y, screen)

ScreenHas ==
    ~mixed => IF Busy = {} THEN Shown(Lines(sent), x, y, screen)
              ELSE \A t \in Busy : ScreenAt(t)

CoInv ==
    /\ Typed /\ OneCaller
    /\ KmsgIn /\ KmsgHas
    /\ SerialHas /\ FifoRoom /\ SerialCounts
    /\ ScreenHas

-----------------------------------------------------------------------------
(* Every set of natural numbers that is not empty has a least element,     *)
(* which stands for induction in what follows.                             *)
LEMMA Least ==
    ASSUME NEW S \in SUBSET Nat, S # {}
    PROVE  \E u \in S : \A v \in S : u <= v
<1> DEFINE R == OpToRel(<, Nat)
<1>1. IsWellFoundedOn(R, Nat)
  BY NatLessThanWellFounded
<1>2. \A u, v \in Nat : u < v => <<u, v>> \in R
  BY DEF OpToRel
<1> HIDE DEF R
<1>3. PICK u \in S : \A v \in S : ~(<<v, u>> \in R)
  BY <1>1, WFMin
<1>4. \A v \in S : ~(v < u)
  BY <1>2, <1>3
<1>5. \A v \in S : u <= v
  BY <1>4
<1> QED BY <1>5

LEMMA MaxIn ==
    ASSUME NEW n \in Nat, NEW s \in SUBSET (1 .. n), s # {}
    PROVE  /\ Max(s) \in s /\ Max(s) \in 1 .. n
           /\ s \ {Max(s)} \in SUBSET (1 .. Max(s) - 1)
<1> DEFINE T == {i \in Nat : n - i \in s}
<1>1. T \in SUBSET Nat
  OBVIOUS
<1>2. T # {}
  <2>1. PICK i \in s : TRUE
    OBVIOUS
  <2>2. n - i \in Nat /\ n - (n - i) = i
    BY <2>1
  <2> QED BY <2>1, <2>2
<1>3. PICK u \in T : \A v \in T : u <= v
  BY <1>1, <1>2, Least
<1>4. n - u \in s /\ \A i \in s : n - u >= i
  <2>1. ASSUME NEW i \in s PROVE n - u >= i
    <3>1. n - i \in Nat /\ n - (n - i) = i
      OBVIOUS
    <3>2. n - i \in T
      BY <3>1
    <3>3. u <= n - i /\ u \in Nat
      BY <1>3, <3>2
    <3> HIDE DEF T
    <3> QED BY <3>1, <3>3
  <2>2. n - u \in s
    BY <1>3
  <2> QED BY <2>1, <2>2
<1>5. Max(s) \in s /\ \A i \in s : Max(s) >= i
  BY <1>4 DEF Max
<1> HIDE DEF T
<1>6. PICK w : w = Max(s)
  OBVIOUS
<1>7. w \in s /\ \A i \in s : w >= i
  BY <1>5, <1>6
<1>8. ASSUME NEW i \in s \ {w} PROVE i \in 1 .. w - 1
  <2>1. i \in 1 .. n /\ w \in 1 .. n
    BY <1>7
  <2>2. w >= i /\ i # w
    BY <1>7
  <2> QED BY <2>1, <2>2
<1> QED BY <1>6, <1>7, <1>8

(***************************************************************************)
(* The lines of a text.  The recursion of FoldLeft takes out the last      *)
(* place that is left; g solves it on the sets of places in D.             *)
(***************************************************************************)
LineStep(g, text, s) ==
    IF s = {} THEN <<<<>>>> ELSE PutChar(g[s \ {Max(s)}], text[Max(s)])

IsLines(g, text, D) == g = [s \in D |-> LineStep(g, text, s)]

LEMMA LinesExist ==
    ASSUME NEW text, NEW n \in Nat
    PROVE  \E g : IsLines(g, text, SUBSET (1 .. n))
<1> DEFINE Level(i) == SUBSET (1 .. i)
           Bad == {i \in Nat : ~ \E g : IsLines(g, text, Level(i))}
<1>1. ASSUME Bad # {} PROVE FALSE
  <2>1. PICK k \in Bad : \A j \in Bad : k <= j
    BY <1>1, Least
  <2>2. k \in Nat /\ ~ \E g : IsLines(g, text, Level(k))
    OBVIOUS
  <2>3. CASE k = 0
    <3>1. \A s \in Level(0) : s = {}
      OBVIOUS
    <3> DEFINE g == [s \in Level(0) |-> <<<<>>>>]
    <3>2. IsLines(g, text, Level(0))
      BY <3>1 DEF IsLines, LineStep
    <3> QED BY <2>2, <2>3, <3>2
  <2>4. CASE k # 0
    <3>1. k - 1 \in Nat /\ ~(k <= k - 1)
      BY <2>2, <2>4
    <3>2. PICK h : IsLines(h, text, Level(k - 1))
      BY <2>1, <3>1
    <3> DEFINE g == [s \in Level(k) |-> LineStep(h, text, s)]
    <3>3. ASSUME NEW s \in Level(k - 1) PROVE s \in Level(k) /\ g[s] = h[s]
      <4>1. s \in Level(k)
        BY <2>2
      <4>2. h[s] = LineStep(h, text, s)
        BY <3>2 DEF IsLines
      <4> QED BY <4>1, <4>2
    <3>4. ASSUME NEW s \in Level(k), s # {} PROVE s \ {Max(s)} \in Level(k - 1)
      <4>1. Max(s) \in 1 .. k /\ s \ {Max(s)} \in SUBSET (1 .. Max(s) - 1)
        BY <2>2, <3>4, MaxIn
      <4> QED BY <2>2, <4>1
    <3>5. ASSUME NEW s \in Level(k) PROVE LineStep(h, text, s) = LineStep(g, text, s)
      <4>1. CASE s = {}
        BY <4>1 DEF LineStep
      <4>2. CASE s # {}
        <5>1. g[s \ {Max(s)}] = h[s \ {Max(s)}]
          BY <3>3, <3>4, <4>2
        <5> HIDE DEF g
        <5> QED BY <5>1 DEF LineStep
      <4> QED BY <4>1, <4>2
    <3>6. \A s \in Level(k) : g[s] = LineStep(h, text, s)
      OBVIOUS
    <3>7. g = [s \in Level(k) |-> g[s]]
      OBVIOUS
    <3> HIDE DEF g
    <3>8. IsLines(g, text, Level(k))
      BY <3>5, <3>6, <3>7 DEF IsLines
    <3> QED BY <2>2, <3>8
  <2> QED BY <2>3, <2>4
<1> QED BY <1>1

LEMMA LinesIs ==
    ASSUME NEW S, NEW text \in Seq(S)
    PROVE  \E g : IsLines(g, text, SUBSET (1 .. Len(text))) /\ Lines(text) = g[1 .. Len(text)]
<1> DEFINE D == 1 .. Len(text)
           g == CHOOSE h : IsLines(h, text, SUBSET D)
<1>1. Len(text) \in Nat /\ DOMAIN text = D
  OBVIOUS
<1>2. \E h : IsLines(h, text, SUBSET D)
  BY <1>1, LinesExist
<1> HIDE DEF D
<1>3. Lines(text) = g[D]
  BY <1>1 DEF Lines, FoldLeft, MapThenFoldSet, IsLines, LineStep
<1>4. IsLines(g, text, SUBSET D)
  BY <1>2
<1> QED BY <1>3, <1>4 DEF D

(* Two solutions agree where the texts do. *)
Agree(f, h, T) == \A i \in T : f[i] = h[i]

LEMMA LinesAgree ==
    ASSUME NEW m \in Nat, NEW n \in Nat, n <= m, NEW text, NEW more,
           Agree(text, more, 1 .. n),
           NEW g, IsLines(g, more, SUBSET (1 .. m)), NEW k, IsLines(k, text, SUBSET (1 .. n))
    PROVE  Agree(g, k, {1 .. n})
<1> DEFINE Bad == {j \in 0 .. n : \E s \in SUBSET (1 .. j) : g[s] # k[s]}
<1>1. ASSUME Bad # {} PROVE FALSE
  <2>0. Bad \in SUBSET Nat
    OBVIOUS
  <2> HIDE DEF Bad
  <2>1. PICK j \in Bad : \A i \in Bad : j <= i
    BY <1>1, <2>0, Least
  <2> USE DEF Bad
  <2>2. PICK s \in SUBSET (1 .. j) : g[s] # k[s]
    OBVIOUS
  <2>3. j \in 0 .. n /\ s \in SUBSET (1 .. n) /\ s \in SUBSET (1 .. m)
    OBVIOUS
  <2>4. g[s] = LineStep(g, more, s) /\ k[s] = LineStep(k, text, s)
    BY <2>3 DEF IsLines
  <2>5. s # {}
    BY <2>2, <2>4 DEF LineStep
  <2>6. Max(s) \in 1 .. j /\ s \ {Max(s)} \in SUBSET (1 .. Max(s) - 1)
    BY <2>3, <2>5, MaxIn
  <2>7. Max(s) - 1 \in 0 .. n /\ ~(j <= Max(s) - 1) /\ Max(s) \in 1 .. n
    BY <2>3, <2>6
  <2>8. g[s \ {Max(s)}] = k[s \ {Max(s)}]
    BY <2>1, <2>6, <2>7
  <2>9. more[Max(s)] = text[Max(s)]
    BY <2>7 DEF Agree
  <2> QED BY <2>2, <2>4, <2>5, <2>8, <2>9 DEF LineStep
<1>2. n \in 0 .. n /\ (1 .. n) \in SUBSET (1 .. n)
  OBVIOUS
<1> QED BY <1>1, <1>2 DEF Agree

LEMMA LinesOfNone == Lines(<<>>) = <<<<>>>>
<1> DEFINE e == <<>>
<1>1. e \in Seq({}) /\ Len(e) = 0
  OBVIOUS
<1> HIDE DEF e
<1>2. PICK g : IsLines(g, e, SUBSET (1 .. Len(e))) /\ Lines(e) = g[1 .. Len(e)]
  BY <1>1, LinesIs
<1>3. 1 .. Len(e) = {}
  BY <1>1
<1>4. Lines(e) = <<<<>>>>
  BY <1>2, <1>3 DEF IsLines, LineStep
<1> QED BY <1>4 DEF e

LEMMA LinesOfMore ==
    ASSUME NEW S, NEW text \in Seq(S), NEW c \in S
    PROVE  Lines(Append(text, c)) = PutChar(Lines(text), c)
<1> DEFINE more == Append(text, c)
           n == Len(text)
<1>1. /\ more \in Seq(S) /\ Len(more) = n + 1 /\ n \in Nat /\ more[n + 1] = c
      /\ \A i \in 1 .. n : text[i] = more[i]
  OBVIOUS
<1> HIDE DEF more, n
<1>2. PICK g : IsLines(g, more, SUBSET (1 .. n + 1)) /\ Lines(more) = g[1 .. n + 1]
  BY <1>1, LinesIs
<1>3. PICK k : IsLines(k, text, SUBSET (1 .. n)) /\ Lines(text) = k[1 .. n]
  BY LinesIs DEF n
<1>4. g[1 .. n] = k[1 .. n]
  <2>1. PICK m \in Nat : m = n + 1
    BY <1>1
  <2>2. n \in Nat /\ n <= m /\ IsLines(g, more, SUBSET (1 .. m))
    BY <1>1, <1>2, <2>1
  <2>3. Agree(text, more, 1 .. n)
    BY <1>1 DEF Agree
  <2>4. IsLines(k, text, SUBSET (1 .. n))
    BY <1>3
  <2>5. Agree(g, k, {1 .. n})
    BY <2>2, <2>3, <2>4, LinesAgree, Zenon
  <2> QED BY <2>5 DEF Agree
<1> DEFINE D == 1 .. n + 1
<1>5. D # {} /\ Max(D) = n + 1 /\ D \ {n + 1} = 1 .. n
  <2>1. n + 1 \in D /\ \A i \in D : n + 1 >= i
    BY <1>1
  <2>2. Max(D) \in D /\ \A i \in D : Max(D) >= i
    BY <2>1 DEF Max
  <2>3. D \ {n + 1} = 1 .. n
    BY <1>1
  <2>4. Max(D) >= n + 1 /\ n + 1 >= Max(D) /\ Max(D) \in Int
    BY <1>1, <2>1, <2>2
  <2>5. Max(D) = n + 1
    BY <1>1, <2>4
  <2> QED BY <2>1, <2>3, <2>5
<1>6. g[D] = LineStep(g, more, D)
  BY <1>2 DEF IsLines
<1>7. g[D] = PutChar(g[1 .. n], c)
  BY <1>1, <1>5, <1>6 DEF LineStep
<1>8. Lines(more) = PutChar(Lines(text), c)
  BY <1>2, <1>3, <1>4, <1>7
<1> QED BY <1>8 DEF more

-----------------------------------------------------------------------------
(* Counting. *)
LEMMA CardMoves ==
    ASSUME NEW t \in Thread, NEW A \in SUBSET Thread, NEW B \in SUBSET Thread, A \ {t} = B \ {t}
    PROVE  /\ Cardinality(A) \in Nat /\ Cardinality(B) \in Nat
           /\ Cardinality(A) <= N /\ Cardinality(B) <= N /\ N \in Nat
           /\ (t \in A /\ t \in B) \/ (t \notin A /\ t \notin B) => Cardinality(A) = Cardinality(B)
           /\ t \in A /\ t \notin B => Cardinality(A) = Cardinality(B) + 1
           /\ t \notin A /\ t \in B => Cardinality(B) = Cardinality(A) + 1
<1>1. IsFiniteSet(Thread) /\ IsFiniteSet(A) /\ IsFiniteSet(B)
  BY ConsoleAssumption, FS_Subset
<1>2. /\ Cardinality(A) \in Nat /\ Cardinality(B) \in Nat /\ N \in Nat
      /\ Cardinality(A) <= N /\ Cardinality(B) <= N
  BY <1>1, FS_CardinalityType, FS_Subset DEF N
<1>3. (t \in A /\ t \in B) \/ (t \notin A /\ t \notin B) => A = B
  OBVIOUS
<1>4. ASSUME t \in A, t \notin B PROVE Cardinality(A) = Cardinality(B) + 1
  <2>1. A = B \cup {t}
    BY <1>4
  <2> QED BY <1>1, <1>4, <2>1, FS_AddElement
<1>5. ASSUME t \notin A, t \in B PROVE Cardinality(B) = Cardinality(A) + 1
  <2>1. B = A \cup {t}
    BY <1>5
  <2> QED BY <1>1, <1>5, <2>1, FS_AddElement
<1> QED BY <1>2, <1>3, <1>4, <1>5

(* Two sets of threads of which one is in the other. *)
LEMMA CardWithin ==
    ASSUME NEW B \in SUBSET Thread, NEW A \in SUBSET B
    PROVE  /\ Cardinality(A) \in Nat /\ Cardinality(B) \in Nat
           /\ Cardinality(A) <= Cardinality(B) /\ Cardinality(B) <= N /\ N \in Nat
           /\ A # B => Cardinality(A) + 1 <= Cardinality(B)
           /\ A # {} => Cardinality(A) >= 1
           /\ A = {} => Cardinality(A) = 0
<1>1. IsFiniteSet(Thread) /\ IsFiniteSet(A) /\ IsFiniteSet(B) /\ A \in SUBSET Thread
  BY ConsoleAssumption, FS_Subset
<1>2. /\ Cardinality(A) \in Nat /\ Cardinality(B) \in Nat /\ N \in Nat
      /\ Cardinality(A) <= Cardinality(B) /\ Cardinality(B) <= N
      /\ A # B => Cardinality(A) < Cardinality(B)
  BY <1>1, FS_CardinalityType, FS_Subset DEF N
<1>3. Cardinality(A) = 0 <=> A = {}
  BY <1>1, FS_EmptySet
<1> QED BY <1>2, <1>3

Occurs(s, c) == {i \in DOMAIN s : s[i] = c}

LEMMA CountType ==
    ASSUME NEW s \in Seq(Chars), NEW c
    PROVE  IsFiniteSet(Occurs(s, c)) /\ Count(s, c) = Cardinality(Occurs(s, c)) /\ Count(s, c) \in Nat
<1>1. IsFiniteSet(1 .. Len(s))
  BY FS_Interval
<1>2. Occurs(s, c) \in SUBSET (1 .. Len(s))
  BY DEF Occurs
<1>3. IsFiniteSet(Occurs(s, c))
  BY <1>1, <1>2, FS_Subset
<1> QED BY <1>3, FS_CardinalityType DEF Count, Occurs

LEMMA CountOfNone == \A c : Count(<<>>, c) = 0
<1> TAKE c
<1>1. {i \in DOMAIN <<>> : <<>>[i] = c} = {}
  OBVIOUS
<1> QED BY <1>1, FS_EmptySet DEF Count

LEMMA CountOfMore ==
    ASSUME NEW s \in Seq(Chars), NEW d \in Chars, NEW c
    PROVE  /\ Count(s, c) \in Nat
           /\ Count(Append(s, d), c) = IF d = c THEN Count(s, c) + 1 ELSE Count(s, c)
<1> DEFINE m == Append(s, d)
           n == Len(s)
<1>1. /\ m \in Seq(Chars) /\ n \in Nat /\ Len(m) = n + 1 /\ m[n + 1] = d
      /\ DOMAIN s = 1 .. n /\ DOMAIN m = 1 .. n + 1
      /\ \A i \in 1 .. n : m[i] = s[i]
  OBVIOUS
<1> HIDE DEF m, n
<1>2. /\ IsFiniteSet(Occurs(s, c)) /\ Count(s, c) = Cardinality(Occurs(s, c)) /\ Count(s, c) \in Nat
      /\ Count(m, c) = Cardinality(Occurs(m, c))
  BY <1>1, CountType
<1>3. n + 1 \notin Occurs(s, c)
  BY <1>1 DEF Occurs
<1>4. Occurs(m, c) = IF d = c THEN Occurs(s, c) \cup {n + 1} ELSE Occurs(s, c)
  BY <1>1 DEF Occurs
<1>5. Cardinality(Occurs(s, c) \cup {n + 1}) = Cardinality(Occurs(s, c)) + 1
  BY <1>2, <1>3, FS_AddElement
<1>6. Count(m, c) = IF d = c THEN Count(s, c) + 1 ELSE Count(s, c)
  BY <1>2, <1>4, <1>5
<1> QED BY <1>2, <1>6 DEF m

LEMMA CountOfTail ==
    ASSUME NEW s \in Seq(Chars), s # <<>>, NEW c
    PROVE  /\ Count(Tail(s), c) \in Nat
           /\ Count(s, c) = IF Head(s) = c THEN Count(Tail(s), c) + 1 ELSE Count(Tail(s), c)
<1> DEFINE r == Tail(s)
           n == Len(s)
<1>1. /\ r \in Seq(Chars) /\ n \in Nat \ {0} /\ Len(r) = n - 1 /\ s[1] = Head(s)
      /\ DOMAIN s = 1 .. n /\ DOMAIN r = 1 .. n - 1
      /\ \A i \in 1 .. n - 1 : r[i] = s[i + 1]
  OBVIOUS
<1> HIDE DEF r, n
<1>2. /\ IsFiniteSet(Occurs(r, c)) /\ Count(r, c) = Cardinality(Occurs(r, c)) /\ Count(r, c) \in Nat
      /\ IsFiniteSet(Occurs(s, c)) /\ Count(s, c) = Cardinality(Occurs(s, c))
  BY <1>1, CountType
<1> DEFINE B == Occurs(s, c) \ {1}
           f == [i \in Occurs(r, c) |-> i + 1]
<1>3. f \in Bijection(Occurs(r, c), B)
  <2>1. \A i \in Occurs(r, c) : i \in 1 .. n - 1 /\ f[i] = i + 1 /\ i + 1 \in B
    BY <1>1 DEF Occurs
  <2>2. \A j \in B : j - 1 \in Occurs(r, c) /\ f[j - 1] = j
    BY <1>1 DEF Occurs
  <2>3. f \in [Occurs(r, c) -> B] /\ DOMAIN f = Occurs(r, c)
    BY <2>1
  <2>4. \A i, j \in Occurs(r, c) : f[i] = f[j] => i = j
    BY <2>1
  <2>5. \A j \in B : \E i \in Occurs(r, c) : f[i] = j
    BY <2>2
  <2> HIDE DEF f, B
  <2> QED BY <2>3, <2>4, <2>5 DEF Bijection, Injection, IsInjective, Surjection
<1>4. IsFiniteSet(B) /\ Cardinality(B) = Cardinality(Occurs(r, c))
  <2>1. ExistsBijection(Occurs(r, c), B)
    BY <1>3 DEF ExistsBijection
  <2> HIDE DEF B
  <2> QED BY <1>2, <2>1, FS_Bijection
<1>5. CASE Head(s) = c
  <2>1. 1 \in Occurs(s, c)
    BY <1>1, <1>5 DEF Occurs
  <2>2. Cardinality(B) = Cardinality(Occurs(s, c)) - 1 /\ Cardinality(Occurs(s, c)) \in Nat
    BY <1>2, <2>1, FS_RemoveElement, FS_CardinalityType
  <2>3. Count(s, c) = Count(r, c) + 1
    BY <1>2, <1>4, <2>2
  <2> QED BY <1>2, <1>5, <2>3 DEF r
<1>6. CASE Head(s) # c
  <2>1. B = Occurs(s, c)
    BY <1>1, <1>6 DEF Occurs
  <2>2. Count(s, c) = Count(r, c)
    BY <1>2, <1>4, <2>1
  <2> QED BY <1>2, <1>6, <2>2 DEF r
<1> QED BY <1>5, <1>6

-----------------------------------------------------------------------------
(***************************************************************************)
(* What every step does to the places of the threads.                      *)
(***************************************************************************)
Moves(t) ==
    /\ loc' \in [Thread -> Spots] /\ \A u \in Thread \ {t} : loc'[u] = loc[u]
    /\ loc'[t].pc # "idle" => loc'[t].c \in Letter \cup {NL}

Stays(t) ==
    /\ Moves(t) /\ loc[t].pc # "idle"
    /\ loc'[t] = Idle \/ (loc'[t].c = loc[t].c /\ loc'[t].pc # "idle")
    /\ sent' = sent /\ mixed' = mixed

LEMMA PutMoves ==
    ASSUME Typed, NEW t \in Thread, NEW r \in Spots, r.pc # "idle" => r.c \in Letter \cup {NL},
           loc' = [loc EXCEPT ![t] = r]
    PROVE  Moves(t) /\ loc'[t] = r
BY DEF Typed, Moves

LEMMA IdleSpot == Idle \in Spots /\ Idle.pc = "idle" /\ Idle.idx = 0
BY DEF Idle, Spots, Places, Chars

(* A place with one field that is set. *)
LEMMA SpotSet ==
    ASSUME NEW r \in Spots
    PROVE  /\ \A p \in Places : [r EXCEPT !.pc = p] \in Spots
           /\ \A n \in Nat : /\ [r EXCEPT !.idx = n] \in Spots /\ [r EXCEPT !.lx = n] \in Spots
                             /\ [r EXCEPT !.row = n] \in Spots
           /\ \A n \in Int : [r EXCEPT !.ly = n] \in Spots
<1>1. ASSUME NEW p \in Places PROVE [r EXCEPT !.pc = p] \in Spots
  BY DEF Spots
<1>2. ASSUME NEW n \in Nat PROVE [r EXCEPT !.idx = n] \in Spots
  BY DEF Spots
<1>3. ASSUME NEW n \in Nat PROVE [r EXCEPT !.lx = n] \in Spots
  BY DEF Spots
<1>4. ASSUME NEW n \in Nat PROVE [r EXCEPT !.row = n] \in Spots
  BY DEF Spots
<1>5. ASSUME NEW n \in Int PROVE [r EXCEPT !.ly = n] \in Spots
  BY DEF Spots
<1> QED BY <1>1, <1>2, <1>3, <1>4, <1>5

(* What a step on the way leaves of the place of its thread. *)
On(t, r) ==
    /\ loc' = [loc EXCEPT ![t] = r] /\ r \in Spots /\ r.c = loc[t].c
    /\ r.pc # "idle" /\ loc[t].pc # "idle" /\ UNCHANGED hist

LEMMA OnStays ==
    ASSUME Typed, NEW t \in Thread, NEW r, On(t, r)
    PROVE  Stays(t) /\ loc'[t] = r
<1>1. loc[t].c \in Letter \cup {NL}
  BY DEF Typed, On
<1>2. Moves(t) /\ loc'[t] = r
  BY <1>1, PutMoves DEF On
<1> QED BY <1>2 DEF Stays, On, hist

(* A step that only goes on to the next place. *)
LEMMA GotoOn ==
    ASSUME Typed, NEW t \in Thread, NEW p \in Places \ {"idle"}, loc[t].pc # "idle",
           Goto(t, p), UNCHANGED hist
    PROVE  \E r \in Spots : /\ On(t, r) /\ r.pc = p /\ r.idx = loc[t].idx /\ r.lx = loc[t].lx
                            /\ r.ly = loc[t].ly /\ r.row = loc[t].row
<1>1. PICK l : l = loc[t]
  OBVIOUS
<1>2. PICK r : r = [l EXCEPT !.pc = p]
  OBVIOUS
<1>3. l \in Spots
  BY <1>1 DEF Typed
<1>4. r \in Spots
  BY <1>2, <1>3, SpotSet
<1>5. /\ r.pc = p /\ r.idx = l.idx /\ r.lx = l.lx /\ r.ly = l.ly /\ r.row = l.row /\ r.c = l.c
  BY <1>2, <1>3 DEF Spots
<1>6. loc' = [loc EXCEPT ![t] = r]
  BY <1>1, <1>2 DEF Goto, Typed
<1> QED BY <1>1, <1>4, <1>5, <1>6 DEF On

(* The steps that set more than the place, or another field. *)
LEMMA AppendOn ==
    ASSUME Typed, NEW t \in Thread, kmsg_append(t)
    PROVE  \E r \in Spots : /\ On(t, r) /\ loc[t].pc = "kmsg" /\ r.row = loc[t].row
                            /\ IF KmsgFull THEN r.pc = "serial" /\ r.idx = loc[t].idx
                               ELSE r.pc = "kmsg_char" /\ r.idx = kmsg_pos
<1>1. PICK l : l = loc[t]
  OBVIOUS
<1>2. PICK s : s = IF KmsgFull THEN l ELSE [l EXCEPT !.idx = kmsg_pos]
  OBVIOUS
<1>3. PICK r : r = [s EXCEPT !.pc = IF KmsgFull THEN "serial" ELSE "kmsg_char"]
  OBVIOUS
<1>4. l \in Spots /\ kmsg_pos \in Nat
  BY <1>1 DEF Typed
<1>5. s \in Spots /\ s.c = l.c /\ s.row = l.row /\ s.idx = IF KmsgFull THEN l.idx ELSE kmsg_pos
  <2>1. s \in Spots
    BY <1>2, <1>4, SpotSet
  <2>2. s.c = l.c /\ s.row = l.row /\ s.idx = IF KmsgFull THEN l.idx ELSE kmsg_pos
    BY <1>2, <1>4 DEF Spots
  <2> QED BY <2>1, <2>2
<1>6. /\ r \in Spots /\ r.c = s.c /\ r.row = s.row /\ r.idx = s.idx
      /\ r.pc = IF KmsgFull THEN "serial" ELSE "kmsg_char"
  <2>1. r \in Spots
    BY <1>3, <1>5, SpotSet DEF Places
  <2>2. r.c = s.c /\ r.row = s.row /\ r.idx = s.idx /\ r.pc = IF KmsgFull THEN "serial" ELSE "kmsg_char"
    BY <1>3, <1>5 DEF Spots
  <2> QED BY <2>1, <2>2
<1>7. /\ loc[t].pc = "kmsg" /\ UNCHANGED hist
      /\ loc' = [loc EXCEPT ![t] = IF KmsgFull THEN [l EXCEPT !.pc = "serial"]
                                   ELSE [l EXCEPT !.idx = kmsg_pos, !.pc = "kmsg_char"]]
  BY <1>1 DEF kmsg_append, At
<1>8. loc' = [loc EXCEPT ![t] = r]
  <2>1. CASE KmsgFull
    <3>1. r = [l EXCEPT !.pc = "serial"]
      BY <1>2, <1>3, <2>1
    <3> QED BY <1>7, <2>1, <3>1
  <2>2. CASE ~KmsgFull
    <3>1. r = [l EXCEPT !.idx = kmsg_pos, !.pc = "kmsg_char"]
      BY <1>2, <1>3, <1>4, <2>2 DEF Spots
    <3> QED BY <1>7, <2>2, <3>1
  <2> QED BY <2>1, <2>2
<1> QED BY <1>1, <1>5, <1>6, <1>7, <1>8 DEF On

LEMMA CharOn ==
    ASSUME Typed, NEW t \in Thread, kmsg_char(t)
    PROVE  \E r \in Spots : /\ On(t, r) /\ loc[t].pc = "kmsg_char" /\ r.row = loc[t].row
                            /\ r.pc = "serial" /\ r.idx = 0
<1>1. PICK l : l = loc[t]
  OBVIOUS
<1>2. PICK s : s = [l EXCEPT !.idx = 0]
  OBVIOUS
<1>3. PICK r : r = [s EXCEPT !.pc = "serial"]
  OBVIOUS
<1>4. l \in Spots
  BY <1>1 DEF Typed
<1>5. s \in Spots
  BY <1>2, <1>4, SpotSet
<1>6. s.c = l.c /\ s.row = l.row /\ s.idx = 0
  BY <1>2, <1>4 DEF Spots
<1>7. r \in Spots
  BY <1>3, <1>5, SpotSet DEF Places
<1>8. r.c = s.c /\ r.row = s.row /\ r.idx = s.idx /\ r.pc = "serial"
  BY <1>3, <1>5 DEF Spots
<1>9. loc[t].pc = "kmsg_char" /\ UNCHANGED hist /\ loc' = [loc EXCEPT ![t].idx = 0, ![t].pc = "serial"]
  BY DEF kmsg_char, At
<1>10. loc' = [loc EXCEPT ![t] = r]
  BY <1>1, <1>2, <1>3, <1>9 DEF Typed
<1> QED BY <1>1, <1>6, <1>7, <1>8, <1>9, <1>10 DEF On

LEMMA LoadOn ==
    ASSUME Typed, NEW t \in Thread, textmode_load_y(t)
    PROVE  \E r \in Spots : /\ On(t, r) /\ r.row = loc[t].row /\ r.idx = loc[t].idx /\ r.ly = y
                            /\ loc[t].pc \in {"load_newline", "load_up", "load_cell"}
                            /\ r.pc = Load_y[loc[t].pc]
<1>1. PICK l : l = loc[t]
  OBVIOUS
<1>2. /\ l.pc \in {"load_newline", "load_up", "load_cell"} /\ UNCHANGED hist
      /\ Load_y[l.pc] \in {"newline", "up", "cell"}
      /\ loc' = [loc EXCEPT ![t].pc = Load_y[@], ![t].ly = y]
  BY <1>1 DEF textmode_load_y, Load_y
<1>3. PICK p \in {"newline", "up", "cell"} : p = Load_y[l.pc]
  BY <1>2
<1>4. PICK s : s = [l EXCEPT !.pc = p]
  OBVIOUS
<1>5. PICK r : r = [s EXCEPT !.ly = y]
  OBVIOUS
<1>6. l \in Spots /\ y \in Int
  BY <1>1 DEF Typed
<1>7. s \in Spots
  BY <1>3, <1>4, <1>6, SpotSet DEF Places
<1>8. s.c = l.c /\ s.row = l.row /\ s.idx = l.idx /\ s.pc = p
  BY <1>4, <1>6 DEF Spots
<1>9. r \in Spots
  BY <1>5, <1>6, <1>7, SpotSet
<1>10. r.c = s.c /\ r.row = s.row /\ r.idx = s.idx /\ r.pc = s.pc /\ r.ly = y
  BY <1>5, <1>7 DEF Spots
<1>11. loc' = [loc EXCEPT ![t] = r]
  BY <1>1, <1>2, <1>3, <1>4, <1>5 DEF Typed
<1> QED BY <1>1, <1>2, <1>3, <1>8, <1>9, <1>10, <1>11 DEF On

LEMMA CellOn ==
    ASSUME Typed, NEW t \in Thread, textmode_cell(t)
    PROVE  \E r \in Spots : /\ On(t, r) /\ loc[t].pc = "cell" /\ r.idx = loc[t].idx
                            /\ r.pc = "column" /\ r.lx = x
<1>1. PICK l : l = loc[t]
  OBVIOUS
<1>2. PICK s : s = [l EXCEPT !.lx = x]
  OBVIOUS
<1>3. PICK r : r = [s EXCEPT !.pc = "column"]
  OBVIOUS
<1>4. l \in Spots /\ x \in Nat
  BY <1>1 DEF Typed
<1>5. s \in Spots
  BY <1>2, <1>4, SpotSet
<1>6. s.c = l.c /\ s.idx = l.idx /\ s.lx = x
  BY <1>2, <1>4 DEF Spots
<1>7. r \in Spots
  BY <1>3, <1>5, SpotSet DEF Places
<1>8. r.c = s.c /\ r.lx = s.lx /\ r.idx = s.idx /\ r.pc = "column"
  BY <1>3, <1>5 DEF Spots
<1>9. loc[t].pc = "cell" /\ UNCHANGED hist /\ loc' = [loc EXCEPT ![t].lx = x, ![t].pc = "column"]
  BY DEF textmode_cell, At
<1>10. loc' = [loc EXCEPT ![t] = r]
  BY <1>1, <1>2, <1>3, <1>9 DEF Typed
<1> QED BY <1>1, <1>6, <1>7, <1>8, <1>9, <1>10 DEF On

LEMMA RowOn ==
    ASSUME Typed, NEW t \in Thread, textmode_scrollup(t)
    PROVE  \E r \in Spots : /\ On(t, r) /\ loc[t].pc = "scroll" /\ r.idx = loc[t].idx
                            /\ IF loc[t].row < Rows THEN r.pc = "scroll" /\ r.row = loc[t].row + 1
                               ELSE r.pc = "scroll_home"
<1>1. loc[t].pc = "scroll" /\ UNCHANGED hist
  BY DEF textmode_scrollup, At
<1>2. CASE loc[t].row < Rows
  <2>1. PICK l : l = loc[t]
    OBVIOUS
  <2>2. PICK r : r = [l EXCEPT !.row = l.row + 1]
    OBVIOUS
  <2>3. l \in Spots
    BY <2>1 DEF Typed
  <2>4. l.row + 1 \in Nat
    BY <2>3 DEF Spots
  <2>5. r \in Spots
    BY <2>2, <2>3, <2>4, SpotSet
  <2>6. r.c = l.c /\ r.idx = l.idx /\ r.pc = l.pc /\ r.row = l.row + 1
    BY <2>2, <2>3 DEF Spots
  <2>7. loc' = [loc EXCEPT ![t] = r]
    BY <1>2, <2>1, <2>2 DEF textmode_scrollup, Typed
  <2> QED BY <1>1, <1>2, <2>1, <2>5, <2>6, <2>7 DEF On
<1>3. CASE ~(loc[t].row < Rows)
  <2>1. Goto(t, "scroll_home")
    BY <1>3 DEF textmode_scrollup
  <2>2. \E r \in Spots : On(t, r) /\ r.pc = "scroll_home" /\ r.idx = loc[t].idx
    BY <1>1, <2>1, GotoOn DEF Places
  <2> QED BY <1>1, <1>3, <2>2
<1> QED BY <1>2, <1>3

LEMMA IdleStays ==
    ASSUME Typed, NEW t \in Thread, Return(t), loc[t].pc # "idle", UNCHANGED hist
    PROVE  Stays(t) /\ loc'[t] = Idle
<1>1. Moves(t) /\ loc'[t] = Idle
  BY IdleSpot, PutMoves DEF Return
<1> QED BY <1>1 DEF Stays, hist

(* The two ways on from the bottom of the screen. *)
LEMMA AfterStays ==
    ASSUME Typed, NEW t \in Thread, loc[t].pc # "idle", UNCHANGED hist,
           loc' = [loc EXCEPT ![t] = AfterBottom(loc[t])]
    PROVE  /\ Stays(t)
           /\ IF loc[t].c = NL THEN loc'[t] = Idle
              ELSE loc'[t].pc = "load_cell" /\ loc'[t].c = loc[t].c /\ loc'[t].idx = loc[t].idx
<1>1. CASE loc[t].c = NL
  BY <1>1, IdleStays DEF AfterBottom, Return
<1>2. CASE loc[t].c # NL
  <2>1. Goto(t, "load_cell")
    BY <1>2 DEF AfterBottom, Goto, Typed
  <2>2. PICK r \in Spots : On(t, r) /\ r.pc = "load_cell" /\ r.idx = loc[t].idx
    BY <2>1, GotoOn DEF Places
  <2>3. Stays(t) /\ loc'[t] = r
    BY <2>2, OnStays
  <2> QED BY <1>2, <2>2, <2>3 DEF On
<1> QED BY <1>1, <1>2

(* Where every action leads. *)
Goes(t, from, to) == loc[t].pc = from /\ loc'[t].pc = to

LEMMA GotoStays ==
    ASSUME Typed, NEW t \in Thread, NEW p \in Places, NEW q \in Places \ {"idle"},
           p # "idle", At(t, p), Goto(t, q), UNCHANGED hist
    PROVE  /\ Stays(t) /\ Goes(t, p, q)
           /\ loc'[t].c = loc[t].c /\ loc'[t].idx = loc[t].idx /\ loc'[t].lx = loc[t].lx
           /\ loc'[t].ly = loc[t].ly /\ loc'[t].row = loc[t].row
<1>1. PICK r \in Spots : /\ On(t, r) /\ r.pc = q /\ r.idx = loc[t].idx /\ r.lx = loc[t].lx
                         /\ r.ly = loc[t].ly /\ r.row = loc[t].row
  BY GotoOn DEF At
<1>2. Stays(t) /\ loc'[t] = r
  BY <1>1, OnStays
<1> QED BY <1>1, <1>2 DEF Goes, At, On

LEMMA WrapGoes ==
    ASSUME Typed, NEW t \in Thread, textmode_wrap(t)
    PROVE  /\ Stays(t) /\ Goes(t, "wrap", IF Wraps(loc[t].c) THEN "load_newline" ELSE "bottom")
           /\ loc'[t].c = loc[t].c /\ loc'[t].idx = loc[t].idx /\ loc'[t].row = loc[t].row
<1>1. At(t, "wrap") /\ UNCHANGED hist
  BY DEF textmode_wrap
<1>2. CASE Wraps(loc[t].c)
  <2>1. Goto(t, "load_newline")
    BY <1>2 DEF textmode_wrap
  <2> QED BY <1>1, <1>2, <2>1, GotoStays DEF Places
<1>3. CASE ~Wraps(loc[t].c)
  <2>1. Goto(t, "bottom")
    BY <1>3 DEF textmode_wrap
  <2> QED BY <1>1, <1>3, <2>1, GotoStays DEF Places
<1> QED BY <1>2, <1>3

LEMMA HomeGoes ==
    ASSUME Typed, NEW t \in Thread, textmode_home(t)
    PROVE  /\ Stays(t)
           /\ Goes(t, "home", "bottom") \/ Goes(t, "scroll_home", "load_up")
           /\ loc'[t].c = loc[t].c /\ loc'[t].idx = loc[t].idx /\ loc'[t].row = loc[t].row
<1>1. UNCHANGED hist
  BY DEF textmode_home
<1>2. CASE At(t, "home") /\ Goto(t, "bottom")
  BY <1>1, <1>2, GotoStays DEF Places
<1>3. CASE At(t, "scroll_home") /\ Goto(t, "load_up")
  BY <1>1, <1>3, GotoStays DEF Places
<1> QED BY <1>2, <1>3 DEF textmode_home

LEMMA NewlineGoes ==
    ASSUME Typed, NEW t \in Thread, textmode_newline(t)
    PROVE  /\ Stays(t) /\ Goes(t, "newline", "home")
           /\ loc'[t].c = loc[t].c /\ loc'[t].idx = loc[t].idx /\ loc'[t].row = loc[t].row
BY GotoStays DEF textmode_newline, Places

LEMMA LoadGoes ==
    ASSUME Typed, NEW t \in Thread, textmode_load_y(t)
    PROVE  /\ Stays(t)
           /\ \/ Goes(t, "load_newline", "newline") \/ Goes(t, "load_up", "up")
              \/ Goes(t, "load_cell", "cell")
           /\ loc'[t].c = loc[t].c /\ loc'[t].idx = loc[t].idx /\ loc'[t].row = loc[t].row
           /\ loc'[t].ly = y
<1>1. PICK r \in Spots : /\ On(t, r) /\ r.row = loc[t].row /\ r.idx = loc[t].idx /\ r.ly = y
                         /\ loc[t].pc \in {"load_newline", "load_up", "load_cell"}
                         /\ r.pc = Load_y[loc[t].pc]
  BY LoadOn
<1>2. Stays(t) /\ loc'[t] = r
  BY <1>1, OnStays
<1> QED BY <1>1, <1>2 DEF Goes, On, Load_y

LEMMA BottomGoes ==
    ASSUME Typed, NEW t \in Thread, textmode_bottom(t)
    PROVE  /\ Stays(t) /\ loc[t].pc = "bottom"
           /\ IF AtBottom THEN /\ loc'[t].pc = "scroll" /\ loc'[t].c = loc[t].c
                               /\ loc'[t].idx = loc[t].idx /\ loc'[t].row = loc[t].row
              ELSE IF loc[t].c = NL THEN loc'[t] = Idle
              ELSE loc'[t].pc = "load_cell" /\ loc'[t].c = loc[t].c /\ loc'[t].idx = loc[t].idx
<1>1. /\ loc[t].pc = "bottom" /\ UNCHANGED hist
      /\ loc' = [loc EXCEPT ![t] = IF AtBottom THEN [loc[t] EXCEPT !.pc = "scroll"]
                                   ELSE AfterBottom(loc[t])]
  BY DEF textmode_bottom, At
<1>2. CASE AtBottom
  <2>1. Goto(t, "scroll")
    BY <1>1, <1>2 DEF Goto, Typed
  <2> QED BY <1>1, <1>2, <2>1, GotoStays DEF Places, At, Goes
<1>3. CASE ~AtBottom
  <2>1. loc' = [loc EXCEPT ![t] = AfterBottom(loc[t])]
    BY <1>1, <1>3
  <2> QED BY <1>1, <1>3, <2>1, AfterStays
<1> QED BY <1>2, <1>3

LEMMA UpGoes ==
    ASSUME Typed, NEW t \in Thread, textmode_up(t)
    PROVE  /\ Stays(t) /\ loc[t].pc = "up"
           /\ IF loc[t].c = NL THEN loc'[t] = Idle
              ELSE loc'[t].pc = "load_cell" /\ loc'[t].c = loc[t].c /\ loc'[t].idx = loc[t].idx
<1>1. loc[t].pc = "up" /\ UNCHANGED hist /\ loc' = [loc EXCEPT ![t] = AfterBottom(loc[t])]
  BY DEF textmode_up, At
<1> QED BY <1>1, AfterStays

LEMMA ColumnGoes ==
    ASSUME Typed, NEW t \in Thread, textmode_column(t)
    PROVE  Stays(t) /\ loc[t].pc = "column" /\ loc'[t] = Idle
BY IdleStays DEF textmode_column, At

(* The steps on the screen change neither of the other consoles. *)
Textmode(t) ==
    \/ textmode_wrap(t) \/ textmode_load_y(t) \/ textmode_newline(t) \/ textmode_home(t)
    \/ textmode_bottom(t) \/ textmode_scrollup(t) \/ textmode_up(t)
    \/ textmode_cell(t) \/ textmode_column(t)

LEMMA TextmodeStays ==
    ASSUME Typed, NEW t \in Thread, Textmode(t)
    PROVE  /\ Stays(t) /\ UNCHANGED <<kmsg, serial>>
           /\ loc[t].pc \notin ToSerial /\ loc'[t].pc \notin ToSerial /\ loc'[t].idx \in {0, loc[t].idx}
<1>1. UNCHANGED <<kmsg, serial>>
  BY DEF Textmode, textmode_wrap, textmode_load_y, textmode_newline, textmode_home, textmode_bottom,
         textmode_scrollup, textmode_up, textmode_cell, textmode_column, textmode
<1>2. CASE textmode_wrap(t)
  BY <1>1, <1>2, WrapGoes DEF Goes, ToSerial
<1>3. CASE textmode_load_y(t)
  BY <1>1, <1>3, LoadGoes DEF Goes, ToSerial
<1>4. CASE textmode_newline(t)
  BY <1>1, <1>4, NewlineGoes DEF Goes, ToSerial
<1>5. CASE textmode_home(t)
  BY <1>1, <1>5, HomeGoes DEF Goes, ToSerial
<1>6. CASE textmode_bottom(t)
  BY <1>1, <1>6, BottomGoes, IdleSpot DEF ToSerial
<1>7. CASE textmode_scrollup(t)
  <2>1. PICK r \in Spots : /\ On(t, r) /\ loc[t].pc = "scroll" /\ r.idx = loc[t].idx
                           /\ r.pc \in {"scroll", "scroll_home"}
    BY <1>7, RowOn
  <2>2. Stays(t) /\ loc'[t] = r
    BY <2>1, OnStays
  <2> QED BY <1>1, <2>1, <2>2 DEF ToSerial
<1>8. CASE textmode_up(t)
  BY <1>1, <1>8, UpGoes, IdleSpot DEF ToSerial
<1>9. CASE textmode_cell(t)
  <2>1. PICK r \in Spots : On(t, r) /\ loc[t].pc = "cell" /\ r.idx = loc[t].idx /\ r.pc = "column"
    BY <1>9, CellOn
  <2>2. Stays(t) /\ loc'[t] = r
    BY <2>1, OnStays
  <2> QED BY <1>1, <2>1, <2>2 DEF ToSerial
<1>10. CASE textmode_column(t)
  BY <1>1, <1>10, ColumnGoes, IdleSpot DEF ToSerial
<1> QED BY <1>2, <1>3, <1>4, <1>5, <1>6, <1>7, <1>8, <1>9, <1>10 DEF Textmode

LEMMA StepStays ==
    ASSUME Typed, NEW t \in Thread, Step(t)
    PROVE  Stays(t)
<1>1. CASE kmsg_append(t)
  BY <1>1, AppendOn, OnStays
<1>2. CASE kmsg_char(t)
  BY <1>2, CharOn, OnStays
<1>3. CASE serial_poll(t)
  BY <1>3, GotoStays DEF serial_poll, Places
<1>4. CASE serial_out(t)
  BY <1>4, GotoStays DEF serial_out, Places
<1>5. CASE Textmode(t)
  BY <1>5, TextmodeStays
<1> QED BY <1>1, <1>2, <1>3, <1>4, <1>5 DEF Step, Textmode

(* The rest of the types. *)
DataTyped ==
    /\ {kmsg_buf, fifo, line} \subseteq Seq(Chars)
    /\ kmsg_pos \in Nat /\ x \in Nat /\ y \in Int
    /\ screen \in [Sizes -> Chars \cup {Unknown}]

LEMMA StepTyped ==
    ASSUME Typed, NEW t \in Thread, Step(t)
    PROVE  Typed'
<1>1. Stays(t)
  BY StepStays
<1>2. loc[t] \in Spots
  BY DEF Typed
<1>3. loc[t].c \in Chars /\ loc[t].idx \in Nat /\ loc[t].lx \in Nat /\ loc[t].ly \in Int /\ loc[t].row \in Nat
  BY <1>2 DEF Spots
<1>4. DataTyped
  BY DEF Typed, DataTyped
<1>5. DataTyped'
  <2>1. CASE kmsg_append(t)
    BY <1>4, <2>1 DEF kmsg_append, kmsg, serial, textmode, DataTyped
  <2>2. CASE kmsg_char(t)
    <3>1. kmsg_pos' \in Nat
      BY <1>3, <2>2 DEF kmsg_char
    <3>2. kmsg_buf' \in Seq(Chars)
      <4>1. PICK b : b = kmsg_buf
        OBVIOUS
      <4>2. PICK k : k = loc[t].idx + 1
        OBVIOUS
      <4>3. b \in Seq(Chars) /\ k \in Nat \ {0}
        BY <1>3, <1>4, <4>1, <4>2 DEF DataTyped
      <4>4. kmsg_buf' = IF k > Len(b) THEN Append(b, loc[t].c) ELSE [b EXCEPT ![k] = loc[t].c]
        BY <2>2, <4>1, <4>2 DEF kmsg_char
      <4>5. CASE k > Len(b)
        BY <1>3, <4>3, <4>4, <4>5
      <4>6. CASE ~(k > Len(b))
        BY <1>3, <4>3, <4>4, <4>6
      <4> QED BY <4>5, <4>6
    <3> QED BY <1>4, <2>2, <3>1, <3>2 DEF kmsg_char, serial, textmode, DataTyped
  <2>3. CASE serial_poll(t)
    BY <1>4, <2>3 DEF serial_poll, kmsg, serial, textmode, DataTyped
  <2>4. CASE serial_out(t)
    <3>1. fifo' \in Seq(Chars)
      BY <1>3, <1>4, <2>4 DEF serial_out, DataTyped
    <3> QED BY <1>4, <2>4, <3>1 DEF serial_out, kmsg, textmode, DataTyped
  <2>5. CASE textmode_wrap(t)
    BY <1>4, <2>5 DEF textmode_wrap, kmsg, serial, textmode, DataTyped
  <2>6. CASE textmode_load_y(t)
    BY <1>4, <2>6 DEF textmode_load_y, kmsg, serial, textmode, DataTyped
  <2>7. CASE textmode_newline(t)
    BY <1>3, <1>4, <2>7 DEF textmode_newline, kmsg, serial, DataTyped
  <2>8. CASE textmode_home(t)
    BY <1>4, <2>8 DEF textmode_home, kmsg, serial, DataTyped
  <2>9. CASE textmode_bottom(t)
    BY <1>4, <2>9 DEF textmode_bottom, kmsg, serial, textmode, DataTyped
  <2>10. CASE textmode_scrollup(t)
    <3>1. PICK row \in Nat : row = loc[t].row
      BY <1>3
    <3>2. Rows \in Nat /\ DOMAIN screen = Sizes
      BY <1>4, ConsoleAssumption DEF DataTyped
    <3>3. ASSUME NEW at \in Sizes
          PROVE  (IF at[1] # row THEN screen[at]
                  ELSE IF row < Rows THEN screen[<<row + 1, at[2]>>] ELSE Blank) \in Chars \cup {Unknown}
      <4>1. at[1] \in 0 .. Rows /\ at[2] \in 0 .. Columns - 1
        BY DEF Sizes
      <4>2. row < Rows => <<row + 1, at[2]>> \in Sizes
        BY <3>2, <4>1 DEF Sizes
      <4>3. Blank \in Chars
        BY DEF Chars
      <4> QED BY <1>4, <4>2, <4>3 DEF DataTyped
    <3>4. CopiedUp(row) \in [Sizes -> Chars \cup {Unknown}]
      BY <3>2, <3>3 DEF CopiedUp
    <3>5. screen' = CopiedUp(row)
      BY <2>10, <3>1 DEF textmode_scrollup
    <3> QED BY <1>4, <2>10, <3>4, <3>5 DEF textmode_scrollup, kmsg, serial, DataTyped
  <2>11. CASE textmode_up(t)
    BY <1>3, <1>4, <2>11 DEF textmode_up, kmsg, serial, DataTyped
  <2>12. CASE textmode_cell(t)
    BY <1>3, <1>4, <2>12 DEF textmode_cell, kmsg, serial, DataTyped
  <2>13. CASE textmode_column(t)
    <3>1. x' = loc[t].lx + 1 /\ y' = y /\ screen' = screen /\ kmsg' = kmsg /\ serial' = serial
      BY <2>13 DEF textmode_column
    <3>2. x' \in Nat
      BY <1>3, <3>1
    <3> QED BY <1>4, <3>1, <3>2 DEF kmsg, serial, DataTyped
  <2> QED BY <2>1, <2>2, <2>3, <2>4, <2>5, <2>6, <2>7, <2>8, <2>9, <2>10, <2>11, <2>12, <2>13 DEF Step
<1>6. \A u \in Thread : loc'[u].pc # "idle" => loc'[u].c \in Letter \cup {NL}
  BY <1>1 DEF Stays, Moves, Typed
<1> QED BY <1>1, <1>5, <1>6 DEF Typed, DataTyped, Stays, Moves

LEMMA StepOneCaller ==
    ASSUME Typed, OneCaller, NEW t \in Thread, Stays(t)
    PROVE  /\ OneCaller'
           /\ ~mixed => Busy = {t} /\ sent # <<>> /\ loc[t].c = Last(sent)
           /\ ~mixed => IF loc'[t].pc = "idle" THEN Busy' = {} ELSE Busy' = {t}
<1>1. ~mixed => Busy = {t} /\ sent # <<>> /\ loc[t].c = Last(sent)
  BY DEF OneCaller, Busy, Stays
<1>2. ~mixed => IF loc'[t].pc = "idle" THEN Busy' = {} ELSE Busy' = {t}
  BY <1>1 DEF Busy, Stays, Moves
<1>3. loc'[t].pc # "idle" => loc'[t].c = loc[t].c
  BY IdleSpot DEF Stays
<1> QED BY <1>1, <1>2, <1>3 DEF OneCaller, Stays

LEMMA PastIs ==
    ASSUME Typed, OneCaller, NEW t \in Thread, Stays(t), ~mixed, NEW P \in SUBSET (Places \ {"idle"})
    PROVE  /\ Past(P) = IF loc[t].pc \in P THEN Len(sent) - 1 ELSE Len(sent)
           /\ Past(P)' = IF loc'[t].pc \in P THEN Len(sent) - 1 ELSE Len(sent)
<1>1. /\ Busy = {t} /\ sent' = sent
      /\ IF loc'[t].pc = "idle" THEN Busy' = {} ELSE Busy' = {t}
  BY StepOneCaller DEF Stays
<1>2. (\E u \in Thread : loc[u].pc \in P) <=> loc[t].pc \in P
  BY <1>1 DEF Busy
<1>3. (\E u \in Thread : loc'[u].pc \in P) <=> loc'[t].pc \in P
  BY <1>1 DEF Busy
<1> QED BY <1>1, <1>2, <1>3 DEF Past

-----------------------------------------------------------------------------
(* The message buffer. *)
InKmsg == {"kmsg", "kmsg_char"}

LEMMA KmsgElsewhere ==
    ASSUME Typed, OneCaller, KmsgIn, KmsgHas, NEW t \in Thread, Stays(t), UNCHANGED kmsg,
           loc[t].pc \notin InKmsg, loc'[t].pc \notin InKmsg, loc'[t].idx \in {0, loc[t].idx}
    PROVE  KmsgIn' /\ KmsgHas'
<1>1. KmsgIn'
  <2>1. kmsg_buf' = kmsg_buf /\ kmsg_pos' = kmsg_pos
    BY DEF kmsg
  <2>2. ASSUME NEW u \in Thread
        PROVE  loc'[u].idx <= Len(kmsg_buf) /\ (loc'[u].pc = "kmsg_char" => loc'[u].idx < KMSG_BUFSIZE)
    <3>1. CASE u = t
      <4>1. 0 <= Len(kmsg_buf) /\ loc[t].idx <= Len(kmsg_buf)
        BY DEF KmsgIn, Typed
      <4> QED BY <3>1, <4>1 DEF InKmsg
    <3>2. CASE u # t
      BY <3>2 DEF KmsgIn, Stays, Moves
    <3> QED BY <3>1, <3>2
  <2> QED BY <2>1, <2>2 DEF KmsgIn
<1>2. ~mixed => Past(InKmsg)' = Past(InKmsg)
  <2>1. InKmsg \in SUBSET (Places \ {"idle"})
    BY DEF InKmsg, Places
  <2> QED BY <2>1, PastIs
<1>3. \A u \in Thread : loc'[u].pc = "kmsg_char" => loc[u].pc = "kmsg_char" /\ loc'[u] = loc[u]
  BY DEF Stays, Moves, InKmsg
<1> QED BY <1>1, <1>2, <1>3 DEF KmsgHas, kmsg, Stays, InKmsg

LEMMA KmsgAppend ==
    ASSUME Typed, OneCaller, KmsgIn, KmsgHas, NEW t \in Thread, kmsg_append(t), Stays(t)
    PROVE  /\ KmsgIn' /\ KmsgHas'
           /\ loc[t].pc = "kmsg" /\ loc'[t].pc \in {"kmsg_char", "serial"}
<1>1. /\ loc[t].pc = "kmsg" /\ UNCHANGED kmsg
      /\ IF KmsgFull THEN loc'[t].pc = "serial" /\ loc'[t].idx = loc[t].idx
         ELSE loc'[t].pc = "kmsg_char" /\ loc'[t].idx = kmsg_pos
  <2>1. PICK r \in Spots : /\ On(t, r) /\ loc[t].pc = "kmsg"
                           /\ IF KmsgFull THEN r.pc = "serial" /\ r.idx = loc[t].idx
                              ELSE r.pc = "kmsg_char" /\ r.idx = kmsg_pos
    BY AppendOn
  <2>2. loc'[t] = r
    BY <2>1, OnStays
  <2>3. UNCHANGED kmsg
    BY DEF kmsg_append
  <2> QED BY <2>1, <2>2, <2>3
<1>2. KMSG_BUFSIZE \in Nat /\ kmsg_pos \in Nat /\ Len(kmsg_buf) \in Nat /\ Len(sent) \in Nat
  BY ConsoleAssumption DEF Typed
<1>3. KmsgIn'
  <2>1. kmsg_buf' = kmsg_buf /\ kmsg_pos' = kmsg_pos
    BY <1>1 DEF kmsg
  <2>2. ASSUME NEW u \in Thread
        PROVE  loc'[u].idx <= Len(kmsg_buf) /\ (loc'[u].pc = "kmsg_char" => loc'[u].idx < KMSG_BUFSIZE)
    <3>1. CASE u = t
      BY <1>1, <1>2, <3>1 DEF KmsgIn, KmsgFull
    <3>2. CASE u # t
      BY <3>2 DEF KmsgIn, Stays, Moves
    <3> QED BY <3>1, <3>2
  <2> QED BY <2>1, <2>2 DEF KmsgIn
<1>4. KmsgHas'
  <2> SUFFICES ASSUME ~mixed PROVE KmsgHas'
    BY DEF KmsgHas, Stays
  <2>1. InKmsg \in SUBSET (Places \ {"idle"})
    BY DEF InKmsg, Places
  <2>2. /\ Past(InKmsg) = Len(sent) - 1
        /\ Past(InKmsg)' = IF KmsgFull THEN Len(sent) ELSE Len(sent) - 1
    BY <1>1, <2>1, PastIs DEF InKmsg
  <2>3. /\ Len(kmsg_buf) = kmsg_pos
        /\ Len(kmsg_buf) = IF Past(InKmsg) < KMSG_BUFSIZE THEN Past(InKmsg) ELSE KMSG_BUFSIZE
        /\ \A i \in 1 .. Len(kmsg_buf) : kmsg_buf[i] = sent[i]
    BY DEF KmsgHas, InKmsg
  <2>4. Len(kmsg_buf) = IF Past(InKmsg)' < KMSG_BUFSIZE THEN Past(InKmsg)' ELSE KMSG_BUFSIZE
    BY <1>2, <2>2, <2>3 DEF KmsgFull
  <2>5. ASSUME NEW u \in Thread, loc'[u].pc = "kmsg_char" PROVE loc'[u].idx = kmsg_pos
    <3>1. Busy = {t}
      BY StepOneCaller
    <3>2. u = t
      BY <2>5, <3>1 DEF Busy, Stays, Moves
    <3> QED BY <1>1, <2>5, <3>2
  <2>6. kmsg_buf' = kmsg_buf /\ kmsg_pos' = kmsg_pos /\ sent' = sent
    BY <1>1 DEF kmsg, Stays
  <2> QED BY <2>3, <2>4, <2>5, <2>6 DEF KmsgHas, InKmsg
<1> QED BY <1>1, <1>3, <1>4

LEMMA KmsgChar ==
    ASSUME Typed, OneCaller, KmsgIn, KmsgHas, NEW t \in Thread, kmsg_char(t), Stays(t)
    PROVE  /\ KmsgIn' /\ KmsgHas'
           /\ loc[t].pc = "kmsg_char" /\ loc'[t].pc = "serial"
<1>1. loc[t].pc = "kmsg_char" /\ loc'[t].pc = "serial" /\ loc'[t].idx = 0
  BY CharOn, OnStays
<1>2. PICK i, c : i = loc[t].idx /\ c = loc[t].c
  OBVIOUS
<1>3. /\ kmsg_pos' = i + 1
      /\ kmsg_buf' = IF i + 1 > Len(kmsg_buf) THEN Append(kmsg_buf, c) ELSE [kmsg_buf EXCEPT ![i + 1] = c]
  BY <1>2 DEF kmsg_char
<1>4. /\ KMSG_BUFSIZE \in Nat /\ kmsg_pos \in Nat /\ Len(kmsg_buf) \in Nat /\ Len(sent) \in Nat
      /\ i \in Nat /\ c \in Chars /\ kmsg_buf \in Seq(Chars) /\ i <= Len(kmsg_buf) /\ i < KMSG_BUFSIZE
      /\ Len(kmsg_buf) <= KMSG_BUFSIZE
  <2>1. KMSG_BUFSIZE \in Nat /\ kmsg_pos \in Nat /\ kmsg_buf \in Seq(Chars) /\ sent \in Seq(Letter \cup {NL})
    BY ConsoleAssumption DEF Typed
  <2>2. i \in Nat /\ c \in Chars
    BY <1>2 DEF Typed, Spots
  <2>3. i <= Len(kmsg_buf) /\ i < KMSG_BUFSIZE /\ Len(kmsg_buf) <= KMSG_BUFSIZE
    BY <1>1, <1>2 DEF KmsgIn
  <2> QED BY <2>1, <2>2, <2>3
<1>5. Len(kmsg_buf') = IF i = Len(kmsg_buf) THEN i + 1 ELSE Len(kmsg_buf)
  <2>1. PICK b : b = kmsg_buf
    OBVIOUS
  <2>2. b \in Seq(Chars) /\ Len(b) \in Nat /\ i <= Len(b)
    BY <1>4, <2>1
  <2>3. CASE i = Len(b)
    <3>1. kmsg_buf' = Append(b, c)
      BY <1>3, <1>4, <2>1, <2>2, <2>3
    <3> QED BY <1>4, <2>1, <2>2, <2>3, <3>1
  <2>4. CASE i # Len(b)
    <3>1. kmsg_buf' = [b EXCEPT ![i + 1] = c]
      BY <1>3, <1>4, <2>1, <2>2, <2>4
    <3>2. i + 1 \in 1 .. Len(b)
      BY <1>4, <2>2, <2>4
    <3>3. Len([b EXCEPT ![i + 1] = c]) = Len(b)
      BY <1>4, <2>2, <3>2
    <3> QED BY <2>1, <2>4, <3>1, <3>3
  <2> QED BY <2>3, <2>4
<1>6. KmsgIn'
  <2>1. kmsg_pos' <= Len(kmsg_buf') /\ Len(kmsg_buf') <= KMSG_BUFSIZE
    BY <1>3, <1>4, <1>5
  <2>2. ASSUME NEW u \in Thread
        PROVE  loc'[u].idx <= Len(kmsg_buf') /\ (loc'[u].pc = "kmsg_char" => loc'[u].idx < KMSG_BUFSIZE)
    <3>1. CASE u = t
      BY <1>1, <1>4, <1>5, <3>1
    <3>2. CASE u # t
      <4>1. loc'[u] = loc[u] /\ loc[u].idx \in Nat /\ loc[u].idx <= Len(kmsg_buf)
        BY <3>2 DEF KmsgIn, Stays, Moves, Typed, Spots
      <4> QED BY <1>4, <1>5, <4>1 DEF KmsgIn
    <3> QED BY <3>1, <3>2
  <2> QED BY <2>1, <2>2 DEF KmsgIn
<1>7. KmsgHas'
  <2> SUFFICES ASSUME ~mixed PROVE KmsgHas'
    BY DEF KmsgHas, Stays
  <2>1. InKmsg \in SUBSET (Places \ {"idle"})
    BY DEF InKmsg, Places
  <2>2. Past(InKmsg) = Len(sent) - 1 /\ Past(InKmsg)' = Len(sent)
    BY <1>1, <2>1, PastIs DEF InKmsg
  <2>3. /\ Len(kmsg_buf) = kmsg_pos /\ i = kmsg_pos
        /\ Len(kmsg_buf) = IF Past(InKmsg) < KMSG_BUFSIZE THEN Past(InKmsg) ELSE KMSG_BUFSIZE
        /\ \A j \in 1 .. Len(kmsg_buf) : kmsg_buf[j] = sent[j]
    BY <1>1, <1>2 DEF KmsgHas, InKmsg
  <2>4. Busy = {t} /\ c = sent[Len(sent)]
    BY <1>2, StepOneCaller DEF Last
  <2>5. kmsg_buf' = Append(kmsg_buf, c) /\ Len(kmsg_buf) = Len(sent) - 1 /\ Len(kmsg_buf') = Len(sent)
    BY <1>3, <1>4, <1>5, <2>2, <2>3
  <2>6. \A j \in 1 .. Len(kmsg_buf') : kmsg_buf'[j] = sent[j]
    BY <1>4, <2>3, <2>4, <2>5
  <2>7. ASSUME NEW u \in Thread PROVE loc'[u].pc # "kmsg_char"
    BY <1>1, <2>4 DEF Busy, Stays, Moves
  <2>8. Len(kmsg_buf') = IF Past(InKmsg)' < KMSG_BUFSIZE THEN Past(InKmsg)' ELSE KMSG_BUFSIZE
    BY <1>4, <2>2, <2>3, <2>5
  <2>9. Len(kmsg_buf') = kmsg_pos' /\ sent' = sent
    BY <1>3, <1>4, <2>3, <2>5 DEF Stays
  <2> QED BY <2>6, <2>7, <2>8, <2>9 DEF KmsgHas, InKmsg
<1> QED BY <1>1, <1>6, <1>7

-----------------------------------------------------------------------------
(* The serial line. *)
ToSend(c) == {t \in Thread : loc[t].c = c /\ loc[t].pc \in ToSerial}

LEMMA UnsentIs ==
    ASSUME Typed, NEW t \in Thread, Stays(t), NEW c \in Letter \cup {NL}
    PROVE  /\ Unsent(c) \in Nat /\ Unsent(c)' \in Nat
           /\ (loc[t].pc \in ToSerial <=> loc'[t].pc \in ToSerial) => Unsent(c)' = Unsent(c)
           /\ loc[t].pc \in ToSerial /\ loc'[t].pc \notin ToSerial =>
                 Unsent(c) = IF loc[t].c = c THEN Unsent(c)' + 1 ELSE Unsent(c)'
<1>1. PICK A, B : A = ToSend(c) /\ B = ToSend(c)'
  OBVIOUS
<1>2. A \in SUBSET Thread /\ B \in SUBSET Thread /\ A \ {t} = B \ {t}
  BY <1>1 DEF ToSend, Stays, Moves
<1>3. Unsent(c) = Cardinality(A) /\ Unsent(c)' = Cardinality(B)
  BY <1>1 DEF Unsent, ToSend, ToSerial
<1>4. loc'[t].pc \in ToSerial => loc'[t].c = loc[t].c
  BY IdleSpot DEF Stays, ToSerial
<1>5. /\ t \in A <=> loc[t].c = c /\ loc[t].pc \in ToSerial
      /\ t \in B <=> loc'[t].c = c /\ loc'[t].pc \in ToSerial
  BY <1>1 DEF ToSend
<1>6. /\ Cardinality(A) \in Nat /\ Cardinality(B) \in Nat
      /\ (t \in A /\ t \in B) \/ (t \notin A /\ t \notin B) => Cardinality(A) = Cardinality(B)
      /\ t \in A /\ t \notin B => Cardinality(A) = Cardinality(B) + 1
  BY <1>2, CardMoves
<1>7. (loc[t].pc \in ToSerial <=> loc'[t].pc \in ToSerial) => Unsent(c)' = Unsent(c)
  BY <1>3, <1>4, <1>5, <1>6
<1>8. ASSUME loc[t].pc \in ToSerial, loc'[t].pc \notin ToSerial
      PROVE  Unsent(c) = IF loc[t].c = c THEN Unsent(c)' + 1 ELSE Unsent(c)'
  BY <1>3, <1>5, <1>6, <1>8
<1> QED BY <1>3, <1>6, <1>7, <1>8

LEMMA OutsIs ==
    ASSUME Typed, NEW t \in Thread, Stays(t)
    PROVE  /\ Cardinality(Outs) \in Nat /\ Cardinality(Outs') \in Nat /\ N \in Nat /\ Cardinality(Outs') <= N
           /\ loc[t].pc # "serial_out" /\ loc'[t].pc # "serial_out" => Cardinality(Outs') = Cardinality(Outs)
           /\ loc[t].pc = "serial_out" /\ loc'[t].pc # "serial_out" => Cardinality(Outs) = Cardinality(Outs') + 1
<1>1. PICK A, B : A = Outs /\ B = Outs'
  OBVIOUS
<1>2. A \in SUBSET Thread /\ B \in SUBSET Thread /\ A \ {t} = B \ {t}
  BY <1>1 DEF Outs, Stays, Moves
<1>3. /\ t \in A <=> loc[t].pc = "serial_out"
      /\ t \in B <=> loc'[t].pc = "serial_out"
  BY <1>1 DEF Outs
<1>4. /\ Cardinality(A) \in Nat /\ Cardinality(B) \in Nat /\ N \in Nat /\ Cardinality(B) <= N
      /\ (t \in A /\ t \in B) \/ (t \notin A /\ t \notin B) => Cardinality(A) = Cardinality(B)
      /\ t \in A /\ t \notin B => Cardinality(A) = Cardinality(B) + 1
  BY <1>2, CardMoves
<1> QED BY <1>1, <1>3, <1>4

Serial == SerialHas /\ FifoRoom /\ SerialCounts

LEMMA SerialElsewhere ==
    ASSUME Typed, OneCaller, Serial, NEW t \in Thread, Stays(t), UNCHANGED serial,
           loc[t].pc \in ToSerial <=> loc'[t].pc \in ToSerial,
           loc[t].pc # "serial_out",
           loc'[t].pc # "serial_out" \/ fifo = <<>>
    PROVE  Serial'
<1>1. fifo' = fifo /\ line' = line /\ sent' = sent /\ mixed' = mixed
  BY DEF serial, Stays
<1>2. SerialHas'
  <2>1. ToSerial \in SUBSET (Places \ {"idle"})
    BY DEF ToSerial, Places
  <2>2. ~mixed => Past(ToSerial)' = Past(ToSerial)
    BY <2>1, PastIs
  <2>3. ASSUME ~mixed, NEW u \in Thread, loc'[u].pc = "serial_out" PROVE fifo = <<>>
    <3>1. Busy = {t}
      BY <2>3, StepOneCaller
    <3>2. u = t
      BY <2>3, <3>1 DEF Busy, Stays, Moves
    <3> QED BY <2>3, <3>2
  <2> QED BY <1>1, <2>2, <2>3 DEF SerialHas, Serial, Agrees
<1>3. FifoRoom'
  <2>1. CASE loc'[t].pc # "serial_out"
    BY <1>1, <2>1, OutsIs DEF FifoRoom, Serial
  <2>2. CASE fifo = <<>>
    <3>1. Len(fifo') = 0
      BY <1>1, <2>2
    <3> QED BY <3>1, OutsIs DEF FifoRoom
  <2> QED BY <2>1, <2>2
<1>4. SerialCounts'
  <2>1. ASSUME NEW c \in Letter \cup {NL} PROVE Kept(c)' = Kept(c) /\ Count(sent, c)' = Count(sent, c)
    <3>1. Unsent(c)' = Unsent(c)
      BY UnsentIs
    <3> QED BY <1>1, <3>1 DEF Kept, Count
  <2> QED BY <1>1, <2>1 DEF SerialCounts, Serial
<1> QED BY <1>2, <1>3, <1>4 DEF Serial

(* The transmitter takes the character, or drops it where its queue is full. *)
LEMMA SerialTaken ==
    ASSUME Typed, OneCaller, Serial, NEW t \in Thread, serial_out(t), Stays(t), Len(fifo) < FIFO
    PROVE  SerialHas' /\ SerialCounts'
<1>1. loc[t].pc = "serial_out" /\ loc'[t].pc = "wrap" /\ sent' = sent /\ mixed' = mixed /\ line' = line
  BY GotoStays DEF serial_out, At, Places, Stays, Goes
<1>2. PICK d, f, l : d = loc[t].c /\ f = fifo /\ l = line
  OBVIOUS
<1>3. d \in Chars /\ f \in Seq(Chars) /\ l \in Seq(Chars) /\ Len(f) \in Nat /\ sent \in Seq(Letter \cup {NL})
  BY <1>2 DEF Typed, Spots
<1>4. fifo' = Append(f, d)
  BY <1>2 DEF serial_out
<1>5. SerialCounts'
  <2>1. ASSUME NEW c \in Letter \cup {NL} PROVE Kept(c)' = Kept(c) /\ Count(sent, c)' = Count(sent, c)
    <3>1. /\ Count(f, c) \in Nat
          /\ Count(Append(f, d), c) = IF d = c THEN Count(f, c) + 1 ELSE Count(f, c)
      BY <1>3, CountOfMore
    <3>2. Count(l, c) \in Nat
      BY <1>3, CountType
    <3>3. /\ Unsent(c) \in Nat /\ Unsent(c)' \in Nat
          /\ Unsent(c) = IF d = c THEN Unsent(c)' + 1 ELSE Unsent(c)'
      <4>1. loc[t].pc \in ToSerial /\ loc'[t].pc \notin ToSerial
        BY <1>1 DEF ToSerial
      <4> QED BY <1>2, <4>1, UnsentIs
    <3>4. Kept(c) = Count(l, c) + Count(f, c) + Unsent(c)
      BY <1>2 DEF Kept
    <3>5. Count(line, c)' = Count(l, c) /\ Count(fifo, c)' = Count(Append(f, d), c) /\ Count(sent, c)' = Count(sent, c)
      BY <1>1, <1>2, <1>4 DEF Count
    <3>6. Kept(c)' = Count(l, c) + Count(Append(f, d), c) + Unsent(c)'
      BY <3>5 DEF Kept
    <3> QED BY <3>1, <3>2, <3>3, <3>4, <3>5, <3>6
  <2> QED BY <1>1, <2>1 DEF Serial, SerialCounts
<1>6. SerialHas'
  <2> SUFFICES ASSUME ~mixed PROVE SerialHas'
    BY <1>1 DEF SerialHas
  <2>1. ToSerial \in SUBSET (Places \ {"idle"})
    BY DEF ToSerial, Places
  <2>2. Past(ToSerial) = Len(sent) - 1 /\ Past(ToSerial)' = Len(sent)
    BY <1>1, <2>1, PastIs DEF ToSerial
  <2>3. Len(l) + Len(f) = Len(sent) - 1 /\ Agrees(l \o f, sent)
    BY <1>2, <2>2 DEF Serial, SerialHas
  <2>4. d = sent[Len(sent)] /\ Len(sent) \in Nat /\ Busy = {t}
    BY <1>2, <1>3, StepOneCaller DEF Last
  <2>5. Len(Append(f, d)) = Len(f) + 1 /\ Len(l) \in Nat /\ Len(l \o Append(f, d)) = Len(sent)
    BY <1>3, <2>3, <2>4
  <2>6. ASSUME NEW i \in 1 .. Len(sent) PROVE (l \o Append(f, d))[i] = sent[i]
    <3>1. CASE i = Len(sent)
      BY <1>3, <2>3, <2>4, <2>5, <3>1
    <3>2. CASE i # Len(sent)
      <4>1. i \in 1 .. Len(l \o f) /\ (l \o f)[i] = sent[i]
        BY <1>3, <2>3, <2>4, <3>2 DEF Agrees
      <4>2. (l \o Append(f, d))[i] = (l \o f)[i]
        BY <1>3, <4>1
      <4> QED BY <4>1, <4>2
    <3> QED BY <3>1, <3>2
  <2>7. Agrees(l \o Append(f, d), sent)
    BY <2>4, <2>5, <2>6 DEF Agrees
  <2>8. Len(l) + Len(Append(f, d)) = Past(ToSerial)'
    BY <1>3, <2>2, <2>3, <2>4, <2>5
  <2>9. ASSUME NEW u \in Thread PROVE loc'[u].pc # "serial_out"
    BY <1>1, <2>4 DEF Busy, Stays, Moves
  <2> QED BY <1>1, <1>2, <1>4, <2>7, <2>8, <2>9 DEF SerialHas, Agrees
<1> QED BY <1>5, <1>6

LEMMA SerialDropped ==
    ASSUME Typed, OneCaller, Serial, NEW t \in Thread, serial_out(t), Stays(t), ~(Len(fifo) < FIFO)
    PROVE  SerialHas' /\ SerialCounts'
<1>1. /\ loc[t].pc = "serial_out" /\ loc'[t].pc = "wrap" /\ sent' = sent /\ mixed' = mixed
      /\ line' = line /\ fifo' = fifo
  BY GotoStays DEF serial_out, At, Places, Stays, Goes
<1>2. Len(fifo) \in Nat /\ FIFO \in Nat \ {0}
  BY ConsoleAssumption DEF Typed
<1>3. mixed
  <2>1. ASSUME ~mixed PROVE Len(fifo) = 0
    BY <1>1, <2>1 DEF Serial, SerialHas
  <2> QED BY <1>2, <2>1
<1>4. ~(N <= FIFO)
  <2>1. /\ Cardinality(Outs) \in Nat /\ Cardinality(Outs') \in Nat /\ N \in Nat
        /\ Cardinality(Outs) = Cardinality(Outs') + 1
    BY <1>1, OutsIs
  <2> QED BY <1>2, <2>1 DEF Serial, FifoRoom
<1>5. ASSUME NEW c \in Letter \cup {NL} PROVE Kept(c)' <= Count(sent, c) /\ Count(sent, c)' = Count(sent, c)
  <2>1. /\ Unsent(c) \in Nat /\ Unsent(c)' \in Nat
        /\ Unsent(c) = IF loc[t].c = c THEN Unsent(c)' + 1 ELSE Unsent(c)'
    <3>1. loc[t].pc \in ToSerial /\ loc'[t].pc \notin ToSerial
      BY <1>1 DEF ToSerial
    <3> QED BY <3>1, UnsentIs
  <2>2. PICK l, f, s : l = line /\ f = fifo /\ s = sent
    OBVIOUS
  <2>3. l \in Seq(Chars) /\ f \in Seq(Chars) /\ s \in Seq(Chars)
    BY <2>2 DEF Typed, Chars
  <2>4. Count(l, c) \in Nat /\ Count(f, c) \in Nat /\ Count(s, c) \in Nat
    BY <2>3, CountType
  <2>5. Count(l, c) + Count(f, c) + Unsent(c) <= Count(s, c)
    BY <2>2 DEF Serial, SerialCounts, Kept
  <2>6. Count(l, c) + Count(f, c) + Unsent(c)' <= Count(s, c)
    BY <2>1, <2>4, <2>5
  <2>7. Count(line, c)' = Count(l, c) /\ Count(fifo, c)' = Count(f, c) /\ Count(sent, c)' = Count(s, c)
    BY <1>1, <2>2 DEF Count
  <2> QED BY <2>2, <2>6, <2>7 DEF Kept
<1>6. SerialCounts'
  BY <1>1, <1>3, <1>4, <1>5 DEF SerialCounts
<1> QED BY <1>1, <1>3, <1>6 DEF SerialHas

LEMMA SerialOut ==
    ASSUME Typed, OneCaller, Serial, NEW t \in Thread, serial_out(t), Stays(t)
    PROVE  Serial' /\ loc[t].pc = "serial_out" /\ loc'[t].pc = "wrap"
<1>1. loc[t].pc = "serial_out" /\ loc'[t].pc = "wrap"
  BY GotoStays DEF serial_out, At, Places, Goes
<1>2. SerialHas' /\ SerialCounts'
  BY SerialTaken, SerialDropped
<1>3. FifoRoom'
  <2>1. /\ Cardinality(Outs) \in Nat /\ Cardinality(Outs') \in Nat /\ N \in Nat
        /\ Cardinality(Outs) = Cardinality(Outs') + 1
    BY <1>1, OutsIs
  <2>2. PICK f, d : f = fifo /\ d = loc[t].c
    OBVIOUS
  <2>3. f \in Seq(Chars) /\ d \in Chars /\ Len(f) + Cardinality(Outs) <= N
    BY <2>2 DEF Typed, Spots, Serial, FifoRoom
  <2>4. Len(Append(f, d)) = Len(f) + 1 /\ Len(f) \in Nat
    BY <2>3
  <2>5. fifo' = Append(f, d) \/ fifo' = f
    BY <2>2 DEF serial_out
  <2>6. Len(fifo') <= Len(f) + 1 /\ Len(fifo') \in Nat
    BY <2>4, <2>5
  <2> QED BY <2>1, <2>3, <2>4, <2>6 DEF FifoRoom
<1> QED BY <1>1, <1>2, <1>3 DEF Serial

LEMMA SerialTransmit ==
    ASSUME Typed, Serial, Transmit
    PROVE  Serial' /\ fifo' \in Seq(Chars) /\ line' \in Seq(Chars)
<1>1. PICK f, l : f = fifo /\ l = line
  OBVIOUS
<1>2. /\ f \in Seq(Chars) /\ l \in Seq(Chars) /\ f # <<>>
      /\ line' = Append(l, Head(f)) /\ fifo' = Tail(f) /\ sent' = sent /\ mixed' = mixed /\ loc' = loc
  BY <1>1 DEF Transmit, Typed, hist
<1>3. /\ Head(f) \in Chars /\ Tail(f) \in Seq(Chars) /\ Len(Tail(f)) = Len(f) - 1 /\ Len(f) \in Nat
      /\ Append(l, Head(f)) \in Seq(Chars) /\ Len(Append(l, Head(f))) = Len(l) + 1 /\ Len(l) \in Nat
  BY <1>2
<1>4. SerialHas'
  <2>1. Append(l, Head(f)) \o Tail(f) = l \o f
    <3>1. Len(Append(l, Head(f)) \o Tail(f)) = Len(l \o f) /\ Len(l \o f) = Len(l) + Len(f)
      BY <1>2, <1>3
    <3>2. ASSUME NEW i \in 1 .. Len(l) + Len(f) PROVE (Append(l, Head(f)) \o Tail(f))[i] = (l \o f)[i]
      <4>1. CASE i <= Len(l)
        BY <1>2, <1>3, <4>1
      <4>2. CASE i = Len(l) + 1
        BY <1>2, <1>3, <4>2
      <4>3. CASE i > Len(l) + 1
        <5>1. (Append(l, Head(f)) \o Tail(f))[i] = Tail(f)[i - (Len(l) + 1)]
          BY <1>2, <1>3, <4>3
        <5>2. Tail(f)[i - (Len(l) + 1)] = f[i - Len(l)]
          BY <1>2, <1>3, <4>3
        <5>3. (l \o f)[i] = f[i - Len(l)]
          BY <1>2, <1>3, <4>3
        <5> QED BY <5>1, <5>2, <5>3
      <4> QED BY <1>3, <4>1, <4>2, <4>3
    <3>3. Append(l, Head(f)) \o Tail(f) \in Seq(Chars) /\ l \o f \in Seq(Chars)
      BY <1>2, <1>3
    <3> QED BY <3>1, <3>2, <3>3, SeqEqual
  <2>2. Past(ToSerial)' = Past(ToSerial)
    BY <1>2 DEF Past
  <2>3. Len(Append(l, Head(f))) + Len(Tail(f)) = Len(l) + Len(f)
    BY <1>3
  <2>4. ~mixed => \A u \in Thread : loc[u].pc # "serial_out"
    BY <1>1, <1>2 DEF Serial, SerialHas
  <2> QED BY <1>1, <1>2, <2>1, <2>2, <2>3, <2>4 DEF Serial, SerialHas
<1>5. FifoRoom'
  <2>1. Cardinality(Outs') = Cardinality(Outs)
    BY <1>2 DEF Outs
  <2>2. Cardinality(Outs) \in Nat /\ N \in Nat
    <3>1. Outs \in SUBSET Thread
      BY DEF Outs
    <3> QED BY <3>1, CardWithin
  <2>3. Len(f) + Cardinality(Outs) <= N
    BY <1>1 DEF Serial, FifoRoom
  <2> QED BY <1>2, <1>3, <2>1, <2>2, <2>3 DEF FifoRoom
<1>6. SerialCounts'
  <2>1. ASSUME NEW c \in Letter \cup {NL} PROVE Kept(c)' = Kept(c) /\ Count(sent, c)' = Count(sent, c)
    <3>1. /\ Count(l, c) \in Nat
          /\ Count(Append(l, Head(f)), c) = IF Head(f) = c THEN Count(l, c) + 1 ELSE Count(l, c)
      BY <1>2, <1>3, CountOfMore
    <3>2. /\ Count(Tail(f), c) \in Nat
          /\ Count(f, c) = IF Head(f) = c THEN Count(Tail(f), c) + 1 ELSE Count(Tail(f), c)
      BY <1>2, CountOfTail
    <3>3. Unsent(c) \in Nat
      <4>1. ToSend(c) \in SUBSET Thread /\ Unsent(c) = Cardinality(ToSend(c))
        BY DEF ToSend, Unsent, ToSerial
      <4> QED BY <4>1, CardWithin
    <3>4. Count(Append(l, Head(f)), c) + Count(Tail(f), c) + Unsent(c) = Count(l, c) + Count(f, c) + Unsent(c)
      BY <3>1, <3>2, <3>3
    <3>5. /\ Count(line, c)' = Count(Append(l, Head(f)), c) /\ Count(fifo, c)' = Count(Tail(f), c)
          /\ Count(sent, c)' = Count(sent, c) /\ Unsent(c)' = Unsent(c)
      BY <1>2 DEF Count, Unsent
    <3> QED BY <1>1, <3>4, <3>5 DEF Kept
  <2> QED BY <1>2, <2>1 DEF Serial, SerialCounts
<1> QED BY <1>2, <1>3, <1>4, <1>5, <1>6 DEF Serial

-----------------------------------------------------------------------------
(* The screen. *)
LEMMA OpenedIs ==
    ASSUME NEW L \in Texts, L # <<>>, NEW c \in Letter \cup {NL}
    PROVE  /\ Last(L) \in Seq(Letter \cup {NL}) /\ Len(L) \in Nat \ {0} /\ L[Len(L)] = Last(L)
           /\ Len(Last(L)) \in Nat
           /\ c = NL \/ Len(Last(L)) > Columns =>
                 /\ Opened(L, c) = Append(L, <<>>) /\ Last(Opened(L, c)) = <<>>
                 /\ Len(Opened(L, c)) = Len(L) + 1 /\ Len(Last(Opened(L, c))) = 0
           /\ ~(c = NL \/ Len(Last(L)) > Columns) => Opened(L, c) = L
           /\ Opened(L, c) \in Texts /\ Opened(L, c) # <<>>
           /\ \A i \in 1 .. Len(L) : Opened(L, c)[i] = L[i]
<1>1. Last(L) \in Seq(Letter \cup {NL}) /\ Len(L) \in Nat \ {0} /\ L[Len(L)] = Last(L) /\ Len(Last(L)) \in Nat
  BY DEF Texts, Last
<1> DEFINE M == Append(L, <<>>)
<1>2. <<>> \in Seq(Letter \cup {NL}) /\ Len(<<>>) = 0
  OBVIOUS
<1>3. /\ M \in Texts /\ Len(M) = Len(L) + 1 /\ M # <<>> /\ M[Len(L) + 1] = <<>>
      /\ \A i \in 1 .. Len(L) : M[i] = L[i]
  BY <1>1, <1>2 DEF Texts
<1>4. Last(M) = <<>>
  BY <1>3 DEF Last
<1>5. Opened(L, c) = IF c = NL \/ Len(Last(L)) > Columns THEN M ELSE L
  BY DEF Opened
<1> HIDE DEF M
<1>6. /\ c = NL \/ Len(Last(L)) > Columns =>
          /\ Opened(L, c) = M /\ Last(Opened(L, c)) = <<>>
          /\ Len(Opened(L, c)) = Len(L) + 1 /\ Len(Last(Opened(L, c))) = 0
      /\ ~(c = NL \/ Len(Last(L)) > Columns) => Opened(L, c) = L
  BY <1>2, <1>3, <1>4, <1>5
<1>7. /\ Opened(L, c) \in Texts /\ Opened(L, c) # <<>>
      /\ \A i \in 1 .. Len(L) : Opened(L, c)[i] = L[i]
  BY <1>3, <1>5
<1> QED BY <1>1, <1>6, <1>7 DEF M

LEMMA FrontIs ==
    ASSUME NEW S, NEW s \in Seq(S), s # <<>>
    PROVE  /\ Len(s) \in Nat \ {0} /\ Front(s) \in Seq(S) /\ Len(Front(s)) = Len(s) - 1
           /\ \A i \in 1 .. Len(s) - 1 : Front(s)[i] = s[i]
           /\ Last(s) \in S /\ s = Append(Front(s), Last(s))
<1>1. Len(s) \in Nat \ {0} /\ Last(s) \in S
  BY DEF Last
<1>2. /\ Front(s) \in Seq(S) /\ Len(Front(s)) = Len(s) - 1
      /\ \A i \in 1 .. Len(s) - 1 : Front(s)[i] = s[i]
  <2>1. PICK n : n = Len(s) - 1
    OBVIOUS
  <2>2. n \in Nat /\ n <= Len(s) /\ n \in 1 - 1 .. Len(s) /\ 1 \in 1 .. Len(s) + 1
    BY <1>1, <2>1
  <2>3. SubSeq(s, 1, n) \in Seq(S) /\ Len(SubSeq(s, 1, n)) = n
    BY <2>2
  <2>4. \A i \in 1 .. n : SubSeq(s, 1, n)[i] = s[i]
    BY <2>2
  <2> QED BY <2>1, <2>3, <2>4 DEF Front
<1>3. s = Append(Front(s), Last(s))
  <2>1. PICK f : f = Front(s)
    OBVIOUS
  <2>2. Append(f, Last(s)) \in Seq(S) /\ Len(Append(f, Last(s))) = Len(s)
    BY <1>1, <1>2, <2>1
  <2>3. ASSUME NEW i \in 1 .. Len(s) PROVE Append(f, Last(s))[i] = s[i]
    BY <1>1, <1>2, <2>1 DEF Last
  <2>4. s = Append(f, Last(s))
    BY <2>2, <2>3, SeqEqual
  <2> QED BY <2>1, <2>4
<1> QED BY <1>1, <1>2, <1>3

LEMMA AppendIs ==
    ASSUME NEW S, NEW s \in Seq(S), NEW d \in S
    PROVE  /\ Append(s, d) \in Seq(S) /\ Append(s, d) # <<>> /\ Len(s) \in Nat
           /\ Len(Append(s, d)) = Len(s) + 1 /\ Append(s, d)[Len(s) + 1] = d
           /\ \A i \in 1 .. Len(s) : Append(s, d)[i] = s[i]
           /\ Front(Append(s, d)) = s /\ Last(Append(s, d)) = d
<1>1. PICK m : m = Append(s, d)
  OBVIOUS
<1>2. /\ m \in Seq(S) /\ m # <<>> /\ Len(s) \in Nat /\ Len(m) = Len(s) + 1 /\ m[Len(s) + 1] = d
      /\ \A i \in 1 .. Len(s) : m[i] = s[i]
  BY <1>1
<1>3. /\ Front(m) \in Seq(S) /\ Len(Front(m)) = Len(s) /\ \A i \in 1 .. Len(s) : Front(m)[i] = s[i]
  BY <1>2 DEF Front
<1>4. Front(m) = s
  BY <1>3, SeqEqual
<1>5. Last(m) = d
  BY <1>2 DEF Last
<1> QED BY <1>1, <1>2, <1>4, <1>5

Extended(L, c) == Append(Front(L), Append(Last(L), c))

LEMMA ExtendedIs ==
    ASSUME NEW L \in Texts, L # <<>>, NEW c \in Letter \cup {NL}
    PROVE  /\ Extended(L, c) \in Texts /\ Extended(L, c) # <<>> /\ Len(Extended(L, c)) = Len(L)
           /\ Len(L) \in Nat \ {0} /\ Last(L) \in Seq(Letter \cup {NL})
           /\ Last(Extended(L, c)) = Append(Last(L), c)
           /\ \A i \in 1 .. Len(L) - 1 : Extended(L, c)[i] = L[i]
<1>1. Last(L) \in Seq(Letter \cup {NL}) /\ Len(L) \in Nat \ {0}
  BY DEF Texts, Last
<1>2. PICK F : F = Front(L)
  OBVIOUS
<1>3. F \in Texts /\ Len(F) = Len(L) - 1 /\ \A i \in 1 .. Len(L) - 1 : F[i] = L[i]
  BY <1>2, FrontIs DEF Texts
<1>4. PICK M : M = Append(Last(L), c)
  OBVIOUS
<1>5. M \in Seq(Letter \cup {NL})
  BY <1>1, <1>4
<1>6. PICK G : G = Append(F, M)
  OBVIOUS
<1>7. /\ G \in Texts /\ G # <<>> /\ Len(G) = Len(L) /\ G[Len(L)] = M
      /\ \A i \in 1 .. Len(L) - 1 : G[i] = F[i]
  <2>1. /\ Append(F, M) \in Texts /\ Append(F, M) # <<>>
        /\ Len(Append(F, M)) = Len(F) + 1 /\ Append(F, M)[Len(F) + 1] = M
        /\ \A i \in 1 .. Len(F) : Append(F, M)[i] = F[i]
    BY <1>3, <1>5, AppendIs DEF Texts
  <2> QED BY <1>1, <1>3, <1>6, <2>1
<1>8. Last(G) = M
  BY <1>7 DEF Last
<1> QED BY <1>1, <1>2, <1>3, <1>4, <1>6, <1>7, <1>8 DEF Extended

LEMMA PutCharTyped ==
    ASSUME NEW L \in Texts, L # <<>>, NEW c \in Letter \cup {NL}
    PROVE  PutChar(L, c) \in Texts /\ PutChar(L, c) # <<>>
<1>1. \A s \in Seq(Letter \cup {NL}) : Append(L, s) \in Texts /\ Append(L, s) # <<>>
  BY AppendIs DEF Texts
<1>2. <<>> \in Seq(Letter \cup {NL}) /\ <<c>> \in Seq(Letter \cup {NL})
  OBVIOUS
<1>3. Extended(L, c) \in Texts /\ Extended(L, c) # <<>>
  BY ExtendedIs
<1>4. CASE c = NL
  BY <1>1, <1>2, <1>4 DEF PutChar
<1>5. CASE c # NL /\ Len(Last(L)) > Columns
  BY <1>1, <1>2, <1>5 DEF PutChar
<1>6. CASE c # NL /\ ~(Len(Last(L)) > Columns)
  BY <1>3, <1>6 DEF PutChar, Extended
<1> QED BY <1>4, <1>5, <1>6

LEMMA LinesTyped ==
    ASSUME NEW text \in Seq(Letter \cup {NL})
    PROVE  Lines(text) \in Texts /\ Lines(text) # <<>>
<1> DEFINE Good(s) == Lines(s) \in Texts /\ Lines(s) # <<>>
           Bad == {n \in Nat : \E s \in Seq(Letter \cup {NL}) : Len(s) = n /\ ~Good(s)}
<1>1. ASSUME Bad # {} PROVE FALSE
  <2>1. PICK n \in Bad : \A j \in Bad : n <= j
    BY <1>1, Least
  <2>2. PICK s \in Seq(Letter \cup {NL}) : Len(s) = n /\ ~Good(s)
    OBVIOUS
  <2>3. CASE s = <<>>
    <3>1. Lines(s) = <<<<>>>>
      BY <2>3, LinesOfNone
    <3>2. <<<<>>>> \in Texts /\ <<<<>>>> # <<>>
      BY DEF Texts
    <3> QED BY <2>2, <3>1, <3>2
  <2>4. CASE s # <<>>
    <3>1. /\ Len(s) \in Nat \ {0} /\ Front(s) \in Seq(Letter \cup {NL}) /\ Len(Front(s)) = Len(s) - 1
          /\ Last(s) \in Letter \cup {NL} /\ s = Append(Front(s), Last(s))
      BY <2>4, FrontIs
    <3>2. n - 1 \in Nat /\ ~(n <= n - 1)
      BY <2>2, <3>1
    <3>3. Good(Front(s))
      BY <2>1, <2>2, <3>1, <3>2
    <3>4. Lines(s) = PutChar(Lines(Front(s)), Last(s))
      <4>1. Lines(Append(Front(s), Last(s))) = PutChar(Lines(Front(s)), Last(s))
        BY <3>1, LinesOfMore
      <4> QED BY <3>1, <4>1
    <3> QED BY <2>2, <3>1, <3>3, <3>4, PutCharTyped
  <2> QED BY <2>3, <2>4
<1>2. Len(text) \in Nat
  OBVIOUS
<1> QED BY <1>1, <1>2

(* The lines of what was printed, from those in front of the last character. *)
LEMMA LastLines ==
    ASSUME Typed, sent # <<>>
    PROVE  /\ Lines(Front(sent)) \in Texts /\ Lines(Front(sent)) # <<>>
           /\ Last(sent) = NL => Lines(sent) = Opened(Lines(Front(sent)), Last(sent))
           /\ Last(sent) # NL => Lines(sent) = Extended(Opened(Lines(Front(sent)), Last(sent)), Last(sent))
<1>1. PICK L, c, s, O : /\ L = Lines(Front(sent)) /\ c = Last(sent) /\ s = sent
                        /\ O = Opened(Lines(Front(sent)), Last(sent))
  OBVIOUS
<1>2. s \in Seq(Letter \cup {NL}) /\ s # <<>>
  BY <1>1 DEF Typed
<1>3. Front(s) \in Seq(Letter \cup {NL}) /\ c \in Letter \cup {NL} /\ s = Append(Front(s), c)
  BY <1>1, <1>2, FrontIs
<1>4. Lines(s) = PutChar(L, c)
  <2>1. Lines(Append(Front(s), c)) = PutChar(Lines(Front(s)), c)
    BY <1>3, LinesOfMore
  <2> QED BY <1>1, <1>3, <2>1
<1>5. L \in Texts /\ L # <<>> /\ O = Opened(L, c)
  BY <1>1, <1>3, LinesTyped
<1>6. /\ Last(L) \in Seq(Letter \cup {NL}) /\ Len(Last(L)) \in Nat
      /\ c = NL \/ Len(Last(L)) > Columns => O = Append(L, <<>>) /\ Last(O) = <<>>
      /\ ~(c = NL \/ Len(Last(L)) > Columns) => O = L
  BY <1>3, <1>5, OpenedIs
<1>7. CASE c = NL
  BY <1>1, <1>4, <1>5, <1>6, <1>7 DEF PutChar
<1>8. CASE c # NL /\ Len(Last(L)) > Columns
  <2>1. <<>> \in Seq(Letter \cup {NL})
    OBVIOUS
  <2>2. Front(O) = L
    <3>1. Front(Append(L, <<>>)) = L
      <4>1. PICK e \in Seq(Letter \cup {NL}) : e = <<>>
        BY <2>1
      <4>2. Front(Append(L, e)) = L
        BY <1>5, AppendIs DEF Texts
      <4> QED BY <4>1, <4>2
    <3> QED BY <1>6, <1>8, <3>1
  <2>3. Append(<<>>, c) = <<c>>
    OBVIOUS
  <2>4. Extended(O, c) = Append(L, <<c>>)
    BY <1>6, <1>8, <2>2, <2>3 DEF Extended
  <2>5. PutChar(L, c) = Append(L, <<c>>)
    BY <1>8 DEF PutChar
  <2> QED BY <1>1, <1>4, <1>5, <1>8, <2>4, <2>5
<1>9. CASE c # NL /\ ~(Len(Last(L)) > Columns)
  <2>1. PutChar(L, c) = Extended(L, c)
    BY <1>9 DEF PutChar, Extended
  <2> QED BY <1>1, <1>4, <1>5, <1>6, <1>9, <2>1
<1> QED BY <1>7, <1>8, <1>9

LEMMA LineIs ==
    ASSUME NEW L \in Texts, NEW n \in Nat \ {0}
    PROVE  /\ Line(L, n) \in Seq(Letter \cup {NL}) /\ Len(Line(L, n)) \in Nat /\ Len(L) \in Nat
           /\ n <= Len(L) => Line(L, n) = L[n]
           /\ n > Len(L) => Line(L, n) = <<>> /\ Len(Line(L, n)) = 0
<1>1. Len(L) \in Nat
  BY DEF Texts
<1>2. CASE n <= Len(L)
  <2>1. L[n] \in Seq(Letter \cup {NL})
    BY <1>1, <1>2 DEF Texts
  <2> QED BY <1>1, <1>2, <2>1 DEF Line
<1>3. CASE ~(n <= Len(L))
  <2>1. <<>> \in Seq(Letter \cup {NL}) /\ Len(<<>>) = 0
    OBVIOUS
  <2> QED BY <1>1, <1>3, <2>1 DEF Line
<1> QED BY <1>2, <1>3

(* The cell of a text by cases: the character, the one too many of the     *)
(* line before, or what was there.                                         *)
LEMMA CellIs ==
    ASSUME NEW L \in Texts, NEW n \in Nat \ {0}, NEW col \in Nat
    PROVE  CellOf(L, n, col) =
              IF col < Len(Line(L, n)) THEN Line(L, n)[col + 1]
              ELSE IF col = 0 /\ n > 1 /\ Len(Line(L, n - 1)) > Columns THEN Line(L, n - 1)[Columns + 1]
              ELSE IF n = Rows + 1 THEN Unknown ELSE Blank
<1>1. PICK k : k = Len(Line(L, n))
  OBVIOUS
<1>2. k \in Nat
  BY <1>1, LineIs
<1>3. CASE col < k
  <2>1. ~(col >= k)
    BY <1>2, <1>3
  <2> QED BY <1>1, <1>3, <2>1 DEF CellOf
<1>4. CASE ~(col < k)
  <2>1. col >= k
    BY <1>2, <1>4
  <2>2. CASE col = 0 /\ n > 1 /\ Len(Line(L, n - 1)) > Columns
    BY <1>1, <1>4, <2>1, <2>2 DEF CellOf
  <2>3. CASE ~(col = 0 /\ n > 1 /\ Len(Line(L, n - 1)) > Columns)
    BY <1>1, <1>4, <2>1, <2>3 DEF CellOf
  <2> QED BY <2>2, <2>3
<1> QED BY <1>3, <1>4

(* A line that is opened shows nothing. *)
LEMMA CellOpened ==
    ASSUME NEW L \in Texts, L # <<>>, NEW c \in Letter \cup {NL}, NEW n \in Nat \ {0}, NEW col \in Nat
    PROVE  CellOf(Opened(L, c), n, col) = CellOf(L, n, col)
<1>1. PICK O : O = Opened(L, c)
  OBVIOUS
<1>2. /\ O \in Texts /\ Len(L) \in Nat /\ \A i \in 1 .. Len(L) : O[i] = L[i]
      /\ O = L \/ (Len(O) = Len(L) + 1 /\ O[Len(L) + 1] = <<>>)
  <2>1. /\ O \in Texts /\ Len(L) \in Nat /\ \A i \in 1 .. Len(L) : O[i] = L[i]
        /\ O = L \/ (Len(O) = Len(L) + 1 /\ Last(O) = <<>>)
    BY <1>1, OpenedIs
  <2> QED BY <2>1 DEF Last
<1>3. ASSUME NEW m \in Nat \ {0} PROVE Line(O, m) = Line(L, m)
  <2>1. CASE m <= Len(L)
    <3>1. m <= Len(O)
      BY <1>2, <2>1
    <3> QED BY <1>2, <2>1, <3>1 DEF Line
  <2>2. CASE m = Len(L) + 1
    <3>1. ~(m <= Len(L))
      BY <1>2, <2>2
    <3>2. CASE O = L
      BY <3>1, <3>2 DEF Line
    <3>3. CASE O # L
      BY <1>2, <2>2, <3>1, <3>3 DEF Line
    <3> QED BY <3>2, <3>3
  <2>3. CASE m > Len(L) + 1
    <3>1. ~(m <= Len(L)) /\ ~(m <= Len(O))
      BY <1>2, <2>3
    <3> QED BY <3>1 DEF Line
  <2> QED BY <1>2, <2>1, <2>2, <2>3
<1>4. Line(O, n) = Line(L, n) /\ (n > 1 => Line(O, n - 1) = Line(L, n - 1))
  <2>1. n > 1 => n - 1 \in Nat \ {0}
    OBVIOUS
  <2> QED BY <1>3, <2>1
<1>5. CellOf(O, n, col) = CellOf(L, n, col)
  BY <1>2, <1>4, CellIs
<1> QED BY <1>1, <1>5

(* A character at the end of the last line shows in its cell. *)
LEMMA CellExtended ==
    ASSUME NEW L \in Texts, L # <<>>, NEW c \in Letter \cup {NL}, NEW X, X = Len(Last(L)), X <= Columns,
           NEW n \in Nat \ {0}, NEW col \in 0 .. Columns - 1
    PROVE  CellOf(Extended(L, c), n, col) =
              IF \/ X < Columns /\ n = Len(L) /\ col = X
                 \/ X = Columns /\ n = Len(L) + 1 /\ col = 0
              THEN c ELSE CellOf(L, n, col)
<1>0. Columns \in Nat \ {0} /\ Rows \in Nat \ {0} /\ col \in Nat /\ col < Columns
  BY ConsoleAssumption
<1>1. PICK M, m, e : M = Extended(L, c) /\ m = Len(L) /\ e = Last(L)
  OBVIOUS
<1>2. /\ M \in Texts /\ Len(M) = m /\ m \in Nat \ {0} /\ e \in Seq(Letter \cup {NL})
      /\ M[m] = Append(e, c) /\ L[m] = e /\ X = Len(e) /\ X \in Nat
      /\ \A i \in 1 .. m - 1 : M[i] = L[i]
  <2>1. /\ M \in Texts /\ Len(M) = m /\ m \in Nat \ {0} /\ e \in Seq(Letter \cup {NL})
        /\ Last(M) = Append(e, c) /\ \A i \in 1 .. m - 1 : M[i] = L[i]
    BY <1>1, ExtendedIs
  <2>2. M[m] = Last(M) /\ L[m] = e
    BY <1>1, <2>1 DEF Last
  <2> QED BY <1>1, <2>1, <2>2
<1>3. /\ Len(Append(e, c)) = X + 1 /\ Append(e, c)[X + 1] = c
      /\ \A i \in 1 .. X : Append(e, c)[i] = e[i]
  BY <1>2
<1>4. Line(M, m) = Append(e, c) /\ Line(L, m) = e
  BY <1>2, <1>1 DEF Line
<1>5. ASSUME NEW i \in Nat \ {0}, i # m PROVE Line(M, i) = Line(L, i)
  BY <1>1, <1>2, <1>5 DEF Line
<1>9. ASSUME NEW T \in {L, M}
      PROVE  CellOf(T, n, col) =
                IF col < Len(Line(T, n)) THEN Line(T, n)[col + 1]
                ELSE IF col = 0 /\ n > 1 /\ Len(Line(T, n - 1)) > Columns THEN Line(T, n - 1)[Columns + 1]
                ELSE IF n = Rows + 1 THEN Unknown ELSE Blank
  <2>1. T \in Texts
    BY <1>2
  <2> QED BY <1>0, <2>1, CellIs
<1>6. CASE n < m \/ n > m + 1
  <2>1. Line(M, n) = Line(L, n) /\ (n > 1 => Line(M, n - 1) = Line(L, n - 1))
    <3>1. n # m /\ (n > 1 => n - 1 \in Nat \ {0} /\ n - 1 # m)
      BY <1>2, <1>6
    <3> QED BY <1>5, <3>1
  <2>2. CellOf(M, n, col) = CellOf(L, n, col)
    BY <1>2, <2>1, <1>9
  <2>3. n # m /\ n # m + 1
    BY <1>2, <1>6
  <2> QED BY <1>1, <2>2, <2>3
<1>7. CASE n = m
  <2>1. n > 1 => Line(M, n - 1) = Line(L, n - 1)
    <3>1. n > 1 => n - 1 \in Nat \ {0} /\ n - 1 # m
      BY <1>2, <1>7
    <3> QED BY <1>5, <3>1
  <2>2. CASE col < X
    <3>1. CellOf(M, n, col) = Append(e, c)[col + 1]
      <4>1. Line(M, n) = Append(e, c) /\ col < Len(Line(M, n))
        BY <1>2, <1>3, <1>4, <1>7, <2>2
      <4> QED BY <1>9, <4>1
    <3>2. CellOf(L, n, col) = e[col + 1]
      BY <1>2, <1>4, <1>7, <2>2, <1>9
    <3>3. col + 1 \in 1 .. X /\ col # X /\ n # m + 1
      BY <1>2, <1>7, <2>2
    <3> QED BY <1>1, <1>3, <3>1, <3>2, <3>3
  <2>3. CASE col = X
    <3>1. CellOf(M, n, col) = Append(e, c)[col + 1]
      BY <1>2, <1>3, <1>4, <1>7, <2>3, <1>9
    <3>2. X < Columns
      BY <1>0, <2>3
    <3> QED BY <1>1, <1>3, <1>7, <2>3, <3>1, <3>2
  <2>4. CASE col > X
    <3>1. ~(col < X + 1) /\ ~(col < X) /\ col # 0 /\ col # X /\ n # m + 1
      BY <1>2, <1>7, <2>4
    <3>2. CellOf(M, n, col) = IF n = Rows + 1 THEN Unknown ELSE Blank
      BY <1>2, <1>3, <1>4, <1>7, <3>1, <1>9
    <3>3. CellOf(L, n, col) = IF n = Rows + 1 THEN Unknown ELSE Blank
      BY <1>2, <1>4, <1>7, <3>1, <1>9
    <3> QED BY <1>1, <3>1, <3>2, <3>3
  <2> QED BY <1>2, <2>2, <2>3, <2>4
<1>8. CASE n = m + 1
  <2>1. /\ Line(M, n) = Line(L, n) /\ Len(Line(L, n)) = 0 /\ n > 1 /\ n - 1 = m /\ n # m
    <3>1. n # m /\ n > Len(L) /\ n > 1 /\ n - 1 = m
      BY <1>1, <1>2, <1>8
    <3> QED BY <1>5, <3>1, LineIs
  <2>2. ~(X > Columns) /\ (X + 1 > Columns <=> X = Columns)
    BY <1>0, <1>2
  <2>3. CellOf(L, n, col) = IF n = Rows + 1 THEN Unknown ELSE Blank
    BY <1>2, <1>4, <2>1, <2>2, <1>9
  <2>4. CASE X = Columns /\ col = 0
    <3>1. CellOf(M, n, col) = Append(e, c)[Columns + 1]
      BY <1>2, <1>3, <1>4, <2>1, <2>2, <2>4, <1>9
    <3> QED BY <1>1, <1>3, <1>8, <2>4, <3>1
  <2>5. CASE ~(X = Columns /\ col = 0)
    <3>1. CellOf(M, n, col) = IF n = Rows + 1 THEN Unknown ELSE Blank
      BY <1>2, <1>3, <1>4, <2>1, <2>2, <2>5, <1>9
    <3> QED BY <1>1, <2>1, <2>3, <2>5, <3>1
  <2> QED BY <2>4, <2>5
<1> QED BY <1>2, <1>6, <1>7, <1>8

LEMMA TopIs ==
    ASSUME NEW L \in Texts, L # <<>>
    PROVE  /\ Len(L) \in Nat \ {0} /\ Top(L) \in Nat \ {0} /\ Top(L) <= Len(L)
           /\ Len(L) < Rows => Top(L) = 1
           /\ Len(L) >= Rows => Top(L) = Len(L) - Rows + 1
           /\ Columns \in Nat \ {0} /\ Rows \in Nat \ {0}
<1>1. Len(L) \in Nat \ {0} /\ Columns \in Nat \ {0} /\ Rows \in Nat \ {0}
  BY ConsoleAssumption DEF Texts
<1> QED BY <1>1 DEF Top

(* A new line, at the bottom of the screen or above it. *)
LEMMA ShownWrapped ==
    ASSUME NEW L, NEW X, NEW Y, NEW scr, Shown(L, X, Y, scr),
           NEW c \in Letter \cup {NL}, X > Columns \/ c = NL
    PROVE  \/ Shown(Opened(L, c), 0, Y + 1, scr)
           \/ Half(Opened(L, c), 0, scr) /\ Y + 1 = Rows
<1>1. /\ L \in Texts /\ L # <<>> /\ X = Len(Last(L))
      /\ Y = Len(L) - Top(L) /\ Cells(L, Top(L), scr)
  BY DEF Shown
<1>2. PICK O : O = Opened(L, c)
  OBVIOUS
<1>3. /\ O \in Texts /\ O # <<>> /\ Last(O) = <<>> /\ Len(Last(O)) = 0 /\ Len(O) = Len(L) + 1
  BY <1>1, <1>2, OpenedIs
<1>4. /\ Len(L) \in Nat \ {0} /\ Top(L) \in Nat \ {0} /\ Columns \in Nat \ {0} /\ Rows \in Nat \ {0}
      /\ Len(L) < Rows => Top(L) = 1
      /\ Len(L) >= Rows => Top(L) = Len(L) - Rows + 1
  BY <1>1, TopIs
<1>5. ASSUME NEW row \in 0 .. Rows, NEW col \in 0 .. Columns - 1
      PROVE  scr[<<row, col>>] = CellOf(O, Top(L) + row, col)
  <2>1. scr[<<row, col>>] = CellOf(L, Top(L) + row, col)
    BY <1>1 DEF Cells
  <2>2. PICK n \in Nat \ {0} : n = Top(L) + row
    BY <1>4
  <2>3. col \in Nat
    BY <1>4
  <2>4. CellOf(O, n, col) = CellOf(L, n, col)
    BY <1>1, <1>2, <2>2, <2>3, CellOpened
  <2> QED BY <2>1, <2>2, <2>4
<1>6. CASE Len(L) < Rows
  <2>1. Top(O) = 1 /\ Top(L) = 1 /\ Y + 1 = Len(O) - Top(O)
    <3>1. Len(O) <= Rows
      BY <1>3, <1>4, <1>6
    <3>2. Top(O) = 1
      BY <3>1 DEF Top
    <3>3. Top(L) = 1
      BY <1>4, <1>6
    <3>4. Y = Len(L) - 1
      BY <1>1, <3>3
    <3> QED BY <1>3, <1>4, <3>2, <3>3, <3>4
  <2>2. Cells(O, Top(O), scr)
    BY <1>5, <2>1 DEF Cells
  <2>3. 0 = Len(Last(O)) /\ 0 <= Columns + 1
    BY <1>3, <1>4
  <2> QED BY <1>2, <1>3, <2>1, <2>2, <2>3 DEF Shown
<1>7. CASE ~(Len(L) < Rows)
  <2>1. Top(L) = Len(O) - Rows /\ Y + 1 = Rows /\ Len(O) > Rows
    BY <1>1, <1>3, <1>4, <1>7
  <2>2. ASSUME NEW row \in 0 .. Rows, NEW col \in 0 .. Columns - 1
        PROVE  scr[<<row, col>>] = CellOf(O, Len(O) - Rows + (IF row < 0 THEN row + 1 ELSE row), col)
    <3>1. ~(row < 0)
      OBVIOUS
    <3>2. scr[<<row, col>>] = CellOf(O, Len(O) - Rows + row, col)
      BY <1>5, <2>1
    <3> QED BY <3>1, <3>2
  <2>3. Half(O, 0, scr)
    BY <1>3, <2>1, <2>2 DEF Half
  <2> QED BY <1>2, <2>1, <2>3
<1> QED BY <1>6, <1>7

(* A row of a scroll. *)
RowUp(r, scr, scr1) ==
    \A row \in 0 .. Rows, col \in 0 .. Columns - 1 :
        scr1[<<row, col>>] = IF row # r THEN scr[<<row, col>>]
                             ELSE IF r < Rows THEN scr[<<r + 1, col>>] ELSE Blank

LEMMA HalfNext ==
    ASSUME NEW L, NEW r \in 0 .. Rows, NEW scr, Half(L, r, scr),
           NEW scr1, RowUp(r, scr, scr1)
    PROVE  Half(L, r + 1, scr1)
<1>1. /\ L \in Texts /\ Len(L) > Rows /\ Last(L) = <<>>
      /\ Len(L) \in Nat /\ Rows \in Nat \ {0} /\ Columns \in Nat \ {0}
  BY ConsoleAssumption DEF Half, Texts
<1>2. PICK b \in Nat \ {0} : b = Len(L) - Rows
  BY <1>1
<1>3. ASSUME NEW row \in 0 .. Rows, NEW col \in 0 .. Columns - 1
      PROVE  scr[<<row, col>>] = CellOf(L, b + (IF row < r THEN row + 1 ELSE row), col)
  BY <1>2 DEF Half
<1>4. ASSUME NEW row \in 0 .. Rows, NEW col \in 0 .. Columns - 1
      PROVE  scr1[<<row, col>>] = CellOf(L, b + (IF row < r + 1 THEN row + 1 ELSE row), col)
  <2>0. scr1[<<row, col>>] = IF row # r THEN scr[<<row, col>>]
                             ELSE IF r < Rows THEN scr[<<r + 1, col>>] ELSE Blank
    BY DEF RowUp
  <2>1. CASE row # r
    <3>1. (IF row < r + 1 THEN row + 1 ELSE row) = (IF row < r THEN row + 1 ELSE row)
      BY <1>1, <2>1
    <3>2. scr1[<<row, col>>] = scr[<<row, col>>]
      BY <2>0, <2>1
    <3> QED BY <1>3, <3>1, <3>2
  <2>2. CASE row = r /\ r < Rows
    <3>1. row + 1 \in 0 .. Rows /\ ~(row + 1 < r) /\ row < r + 1
      BY <1>1, <2>2
    <3>2. PICK k \in 0 .. Rows : k = row + 1
      BY <3>1
    <3>3. scr[<<k, col>>] = CellOf(L, b + k, col)
      BY <1>3, <3>1, <3>2
    <3>4. scr1[<<row, col>>] = scr[<<k, col>>]
      BY <2>0, <2>2, <3>2
    <3> QED BY <3>1, <3>2, <3>3, <3>4
  <2>3. CASE row = r /\ ~(r < Rows)
    <3>1. row = Rows /\ row < r + 1 /\ b + (row + 1) = Len(L) + 1
      BY <1>1, <1>2, <2>3
    <3>2. scr1[<<row, col>>] = Blank
      BY <2>0, <2>3
    <3>3. PICK n \in Nat \ {0} : n = Len(L) + 1
      BY <1>1
    <3>4. CellOf(L, n, col) = Blank
      <4>1. Len(Line(L, n)) = 0
        BY <1>1, <3>3, LineIs
      <4>2. L[Len(L)] = <<>> /\ n - 1 = Len(L) /\ Len(L) <= Len(L) /\ n # Rows + 1
        BY <1>1, <3>3 DEF Last
      <4>3. Line(L, n - 1) = <<>>
        BY <4>2 DEF Line
      <4>4. Len(Line(L, n - 1)) = 0 /\ col \in Nat
        BY <1>1, <4>3
      <4>5. ~(col < Len(Line(L, n))) /\ ~(Len(Line(L, n - 1)) > Columns)
        BY <1>1, <4>1, <4>4
      <4> QED BY <1>1, <4>2, <4>4, <4>5, CellIs
    <3> QED BY <3>1, <3>2, <3>3, <3>4
  <2> QED BY <2>1, <2>2, <2>3
<1> QED BY <1>1, <1>2, <1>4 DEF Half

(* A scroll that is done. *)
LEMMA HalfDone ==
    ASSUME NEW L, NEW scr, Half(L, Rows + 1, scr)
    PROVE  Shown(L, 0, Rows - 1, scr)
<1>1. /\ L \in Texts /\ Len(L) > Rows /\ Last(L) = <<>> /\ Len(Last(L)) = 0
      /\ Len(L) \in Nat /\ Rows \in Nat \ {0} /\ Columns \in Nat \ {0}
  BY ConsoleAssumption DEF Half, Texts
<1>2. L # <<>> /\ Top(L) = Len(L) - Rows + 1 /\ Rows - 1 = Len(L) - Top(L)
  BY <1>1 DEF Top
<1>3. ASSUME NEW row \in 0 .. Rows, NEW col \in 0 .. Columns - 1
      PROVE  scr[<<row, col>>] = CellOf(L, Top(L) + row, col)
  <2>1. row < Rows + 1 /\ Len(L) - Rows + (row + 1) = Top(L) + row
    BY <1>1, <1>2
  <2>2. scr[<<row, col>>] = CellOf(L, Len(L) - Rows + (IF row < Rows + 1 THEN row + 1 ELSE row), col)
    BY DEF Half
  <2> QED BY <2>1, <2>2
<1>4. 0 = Len(Last(L)) /\ 0 <= Columns + 1
  BY <1>1
<1> QED BY <1>1, <1>2, <1>3, <1>4 DEF Shown, Cells

LEMMA ShownExtended ==
    ASSUME NEW L, NEW X, NEW Y, NEW scr, Shown(L, X, Y, scr), X <= Columns,
           NEW c \in Letter \cup {NL},
           NEW scr1, scr1 = [at \in Sizes |-> IF at = <<Y + X \div Columns, X % Columns>> THEN c ELSE scr[at]]
    PROVE  Shown(Extended(L, c), X + 1, Y, scr1)
<1>1. /\ L \in Texts /\ L # <<>> /\ X = Len(Last(L))
      /\ Y = Len(L) - Top(L) /\ Cells(L, Top(L), scr)
  BY DEF Shown
<1>2. /\ Len(L) \in Nat \ {0} /\ Top(L) \in Nat \ {0} /\ Top(L) <= Len(L)
      /\ Columns \in Nat \ {0} /\ Rows \in Nat \ {0} /\ X \in Nat /\ Y \in Nat
  <2>1. /\ Len(L) \in Nat \ {0} /\ Top(L) \in Nat \ {0} /\ Top(L) <= Len(L)
        /\ Columns \in Nat \ {0} /\ Rows \in Nat \ {0}
    BY <1>1, TopIs
  <2>2. Len(Last(L)) \in Nat
    BY <1>1, OpenedIs
  <2> QED BY <1>1, <2>1, <2>2
<1>3. PICK M : M = Extended(L, c)
  OBVIOUS
<1>4. /\ M \in Texts /\ M # <<>> /\ Len(M) = Len(L) /\ Last(M) = Append(Last(L), c)
      /\ Last(L) \in Seq(Letter \cup {NL})
  BY <1>1, <1>3, ExtendedIs
<1>5. Len(Last(M)) = X + 1 /\ Top(M) = Top(L)
  BY <1>1, <1>4 DEF Top
<1>6. IF X < Columns THEN X \div Columns = 0 /\ X % Columns = X
      ELSE X = Columns /\ X \div Columns = 1 /\ X % Columns = 0
  BY <1>2
<1>7. ASSUME NEW row \in 0 .. Rows, NEW col \in 0 .. Columns - 1
      PROVE  scr1[<<row, col>>] = CellOf(M, Top(L) + row, col)
  <2>1. PICK n \in Nat \ {0} : n = Top(L) + row
    BY <1>2
  <2>2. scr[<<row, col>>] = CellOf(L, n, col)
    BY <1>1, <2>1 DEF Cells
  <2>3. CellOf(M, n, col) = IF \/ X < Columns /\ n = Len(L) /\ col = X
                               \/ X = Columns /\ n = Len(L) + 1 /\ col = 0
                            THEN c ELSE CellOf(L, n, col)
    BY <1>1, <1>3, CellExtended
  <2>4. scr1[<<row, col>>] = IF <<row, col>> = <<Y + X \div Columns, X % Columns>> THEN c
                             ELSE scr[<<row, col>>]
    <3>1. <<row, col>> \in Sizes
      BY DEF Sizes
    <3> QED BY <3>1
  <2>5. (row = Y + X \div Columns /\ col = X % Columns) <=>
           \/ X < Columns /\ n = Len(L) /\ col = X
           \/ X = Columns /\ n = Len(L) + 1 /\ col = 0
    <3>1. PICK q, p : q = X \div Columns /\ p = X % Columns
      OBVIOUS
    <3>2. IF X < Columns THEN q = 0 /\ p = X ELSE X = Columns /\ q = 1 /\ p = 0
      BY <1>6, <3>1
    <3>3. (row = Y + q /\ col = p) <=> \/ X < Columns /\ n = Len(L) /\ col = X
                                       \/ X = Columns /\ n = Len(L) + 1 /\ col = 0
      <4>1. n = Len(L) <=> row = Y
        BY <1>1, <1>2, <2>1
      <4>2. n = Len(L) + 1 <=> row = Y + 1
        BY <1>1, <1>2, <2>1
      <4>3. CASE X < Columns
        BY <1>2, <3>2, <4>1, <4>3
      <4>4. CASE ~(X < Columns)
        BY <1>2, <3>2, <4>2, <4>4
      <4> QED BY <4>3, <4>4
    <3> QED BY <3>1, <3>3
  <2>6. <<row, col>> = <<Y + X \div Columns, X % Columns>> <=> row = Y + X \div Columns /\ col = X % Columns
    OBVIOUS
  <2> QED BY <2>1, <2>2, <2>3, <2>4, <2>5, <2>6
<1>8. Cells(M, Top(M), scr1)
  BY <1>5, <1>7 DEF Cells
<1>9. X + 1 <= Columns + 1 /\ Y = Len(M) - Top(M)
  BY <1>1, <1>2, <1>4, <1>5
<1> QED BY <1>3, <1>4, <1>5, <1>8, <1>9 DEF Shown

-----------------------------------------------------------------------------
(* What a caller without others makes of the screen. *)
LEMMA ScreenTells ==
    ASSUME Typed, OneCaller, ScreenHas, NEW t \in Thread, Stays(t), ~mixed
    PROVE  /\ ScreenAt(t)
           /\ loc'[t].pc # "idle" /\ ScreenAt(t)' => ScreenHas'
           /\ loc'[t].pc = "idle" /\ Shown(Lines(sent), x', y', screen') => ScreenHas'
<1>1. /\ Busy = {t} /\ sent' = sent
      /\ IF loc'[t].pc = "idle" THEN Busy' = {} ELSE Busy' = {t}
  BY StepOneCaller DEF Stays
<1>2. ScreenAt(t)
  BY <1>1 DEF ScreenHas
<1>3. ASSUME loc'[t].pc # "idle", ScreenAt(t)' PROVE ScreenHas'
  BY <1>1, <1>3 DEF ScreenHas
<1>4. ASSUME loc'[t].pc = "idle", Shown(Lines(sent), x', y', screen') PROVE ScreenHas'
  BY <1>1, <1>4 DEF ScreenHas
<1> QED BY <1>2, <1>3, <1>4

LEMMA ScreenElsewhere ==
    ASSUME Typed, OneCaller, ScreenHas, NEW t \in Thread, Stays(t), UNCHANGED textmode,
           loc[t].pc \in ToSerial, loc'[t].pc \in ToWrap, loc'[t].row = loc[t].row
    PROVE  ScreenHas'
<1> SUFFICES ASSUME ~mixed PROVE ScreenHas'
  BY DEF ScreenHas, Stays
<1>1. ScreenAt(t)
  BY ScreenTells
<1>2. x' = x /\ y' = y /\ screen' = screen /\ sent' = sent
  BY DEF textmode, Stays
<1>3. Shown(Lines(Front(sent)), x, y, screen) /\ loc[t].row = 0
  BY <1>1 DEF ScreenAt, ToWrap
<1>4. loc'[t].pc \in {"kmsg", "kmsg_char", "serial", "serial_out", "wrap"}
  BY DEF ToWrap, ToSerial
<1>5. ScreenAt(t)'
  BY <1>2, <1>3, <1>4 DEF ScreenAt
<1>6. loc'[t].pc # "idle"
  BY <1>4
<1> QED BY <1>5, <1>6, ScreenTells

LEMMA ScreenWrap ==
    ASSUME Typed, OneCaller, ScreenHas, NEW t \in Thread, textmode_wrap(t)
    PROVE  ScreenHas'
<1>1. /\ Stays(t) /\ loc[t].pc = "wrap" /\ loc'[t].c = loc[t].c /\ loc'[t].row = loc[t].row
      /\ loc'[t].pc = IF Wraps(loc[t].c) THEN "load_newline" ELSE "bottom"
      /\ x' = x /\ y' = y /\ screen' = screen
  BY WrapGoes DEF Goes, textmode_wrap, textmode
<1> SUFFICES ASSUME ~mixed PROVE ScreenHas'
  BY <1>1 DEF ScreenHas, Stays
<1>2. Shown(Lines(Front(sent)), x, y, screen) /\ loc[t].row = 0 /\ sent' = sent
  <2>1. ScreenAt(t)
    BY <1>1, ScreenTells
  <2> QED BY <1>1, <2>1 DEF ScreenAt, ToWrap, Stays
<1>3. CASE Wraps(loc[t].c)
  <2>1. ScreenAt(t)'
    BY <1>1, <1>2, <1>3 DEF ScreenAt, ToWrap, ToSerial, Wraps
  <2> QED BY <1>1, <1>3, <2>1, ScreenTells
<1>4. CASE ~Wraps(loc[t].c)
  <2>1. PICK L, X, c : L = Lines(Front(sent)) /\ X = x /\ c = loc[t].c
    OBVIOUS
  <2>2. L \in Texts /\ L # <<>> /\ X = Len(Last(L)) /\ X \in Nat /\ Columns \in Nat
    BY <1>2, <2>1, ConsoleAssumption DEF Shown, Typed
  <2>3. X <= Columns /\ ~(c = NL \/ Len(Last(L)) > Columns)
    BY <1>4, <2>1, <2>2 DEF Wraps
  <2>4. Opened(L, c) = L
    BY <2>3 DEF Opened
  <2>5. Shown(Opened(Lines(Front(sent)), loc[t].c), x, y, screen) /\ x <= Columns
    BY <1>2, <2>1, <2>3, <2>4
  <2>6. loc'[t].pc = "bottom"
    BY <1>1, <1>4
  <2>7. ScreenAt(t)'
    BY <1>1, <1>2, <2>5, <2>6 DEF ScreenAt, ToWrap, ToSerial
  <2> QED BY <1>1, <2>6, <2>7, ScreenTells
<1> QED BY <1>3, <1>4

LEMMA ScreenLoad ==
    ASSUME Typed, OneCaller, ScreenHas, NEW t \in Thread, textmode_load_y(t)
    PROVE  ScreenHas'
<1>1. /\ Stays(t) /\ loc'[t].c = loc[t].c /\ loc'[t].row = loc[t].row /\ loc'[t].ly = y
      /\ x' = x /\ y' = y /\ screen' = screen
  BY LoadGoes DEF textmode_load_y, textmode
<1> SUFFICES ASSUME ~mixed PROVE ScreenHas'
  BY <1>1 DEF ScreenHas, Stays
<1>2. ScreenAt(t) /\ sent' = sent
  BY <1>1, ScreenTells DEF Stays
<1>3. CASE Goes(t, "load_newline", "newline")
  <2>1. ScreenAt(t)'
    BY <1>1, <1>2, <1>3 DEF ScreenAt, ToWrap, ToSerial, Goes, Wraps
  <2> QED BY <1>1, <1>3, <2>1, ScreenTells DEF Goes
<1>4. CASE Goes(t, "load_up", "up")
  <2>1. ScreenAt(t)'
    BY <1>1, <1>2, <1>4 DEF ScreenAt, ToWrap, ToSerial, Goes
  <2> QED BY <1>1, <1>4, <2>1, ScreenTells DEF Goes
<1>5. CASE Goes(t, "load_cell", "cell")
  <2>1. ScreenAt(t)'
    BY <1>1, <1>2, <1>5 DEF ScreenAt, ToWrap, ToSerial, Goes
  <2> QED BY <1>1, <1>5, <2>1, ScreenTells DEF Goes
<1> QED BY <1>3, <1>4, <1>5, LoadGoes

LEMMA ScreenNewline ==
    ASSUME Typed, OneCaller, ScreenHas, NEW t \in Thread, textmode_newline(t)
    PROVE  ScreenHas'
<1>1. /\ Stays(t) /\ Goes(t, "newline", "home") /\ loc'[t].c = loc[t].c /\ loc'[t].row = loc[t].row
      /\ x' = x /\ y' = loc[t].ly + 1 /\ screen' = screen
  BY NewlineGoes DEF textmode_newline
<1> SUFFICES ASSUME ~mixed PROVE ScreenHas'
  BY <1>1 DEF ScreenHas, Stays
<1>2. ScreenAt(t) /\ sent' = sent
  BY <1>1, ScreenTells DEF Stays
<1>3. y' - 1 = y
  <2>1. loc[t].ly = y /\ y \in Int
    BY <1>1, <1>2 DEF ScreenAt, Goes, Typed
  <2> QED BY <1>1, <2>1
<1>4. ScreenAt(t)'
  BY <1>1, <1>2, <1>3 DEF ScreenAt, ToWrap, ToSerial, Goes, Wraps
<1> QED BY <1>1, <1>4, ScreenTells DEF Goes

LEMMA ScreenHome ==
    ASSUME Typed, OneCaller, ScreenHas, NEW t \in Thread, textmode_home(t)
    PROVE  ScreenHas'
<1>1. /\ Stays(t) /\ loc'[t].c = loc[t].c /\ loc'[t].row = loc[t].row
      /\ x' = 0 /\ y' = y /\ screen' = screen
  BY HomeGoes DEF textmode_home
<1> SUFFICES ASSUME ~mixed PROVE ScreenHas'
  BY <1>1 DEF ScreenHas, Stays
<1>2. ScreenAt(t) /\ sent' = sent
  BY <1>1, ScreenTells DEF Stays
<1>3. CASE Goes(t, "home", "bottom")
  <2>1. PICK L, X, Y, scr, c : L = Lines(Front(sent)) /\ X = x /\ Y = y - 1 /\ scr = screen /\ c = loc[t].c
    OBVIOUS
  <2>2. /\ Shown(L, X, Y, scr) /\ (X > Columns \/ c = NL) /\ c \in Letter \cup {NL}
        /\ Y + 1 = y /\ loc[t].row = 0
    BY <1>2, <1>3, <2>1 DEF ScreenAt, Goes, Wraps, Typed
  <2>3. Shown(Opened(L, c), 0, Y + 1, scr) \/ (Half(Opened(L, c), 0, scr) /\ Y + 1 = Rows)
    BY <2>2, ShownWrapped
  <2>4. Columns \in Nat
    BY ConsoleAssumption
  <2>5. ScreenAt(t)'
    BY <1>1, <1>2, <1>3, <2>1, <2>2, <2>3, <2>4 DEF ScreenAt, ToWrap, ToSerial, Goes
  <2> QED BY <1>1, <1>3, <2>5, ScreenTells DEF Goes
<1>4. CASE Goes(t, "scroll_home", "load_up")
  <2>1. ScreenAt(t)'
    BY <1>1, <1>2, <1>4 DEF ScreenAt, ToWrap, ToSerial, Goes
  <2> QED BY <1>1, <1>4, <2>1, ScreenTells DEF Goes
<1> QED BY <1>3, <1>4, HomeGoes

(* The two ways on from the bottom of the screen. *)
LEMMA ScreenOnward ==
    ASSUME Typed, OneCaller, ScreenHas, NEW t \in Thread, Stays(t), ~mixed,
           IF loc[t].c = NL THEN loc'[t] = Idle
           ELSE loc'[t].pc = "load_cell" /\ loc'[t].c = loc[t].c,
           x' <= Columns, Shown(Opened(Lines(Front(sent)), loc[t].c), x', y', screen')
    PROVE  ScreenHas'
<1>1. sent # <<>> /\ loc[t].c = Last(sent) /\ sent' = sent
  BY StepOneCaller DEF Stays
<1>2. CASE loc[t].c = NL
  <2>1. loc'[t].pc = "idle"
    BY <1>2, IdleSpot
  <2>2. Lines(sent) = Opened(Lines(Front(sent)), loc[t].c)
    BY <1>1, <1>2, LastLines
  <2>3. Shown(Lines(sent), x', y', screen')
    BY <2>2
  <2> QED BY <2>1, <2>3, ScreenTells
<1>3. CASE loc[t].c # NL
  <2>1. loc'[t].pc = "load_cell" /\ loc'[t].c = loc[t].c
    BY <1>3
  <2>2. ScreenAt(t)'
    BY <1>1, <1>3, <2>1 DEF ScreenAt, ToWrap, ToSerial
  <2> QED BY <2>1, <2>2, ScreenTells
<1> QED BY <1>2, <1>3

LEMMA ScreenBottom ==
    ASSUME Typed, OneCaller, ScreenHas, NEW t \in Thread, textmode_bottom(t)
    PROVE  ScreenHas'
<1>1. /\ Stays(t) /\ loc[t].pc = "bottom" /\ x' = x /\ y' = y /\ screen' = screen
      /\ IF AtBottom THEN loc'[t].pc = "scroll" /\ loc'[t].c = loc[t].c /\ loc'[t].row = loc[t].row
         ELSE IF loc[t].c = NL THEN loc'[t] = Idle
         ELSE loc'[t].pc = "load_cell" /\ loc'[t].c = loc[t].c
  BY BottomGoes DEF textmode_bottom, textmode
<1> SUFFICES ASSUME ~mixed PROVE ScreenHas'
  BY <1>1 DEF ScreenHas, Stays
<1>2. PICK O, X, Y, scr : /\ O = Opened(Lines(Front(sent)), loc[t].c)
                          /\ X = x /\ Y = y /\ scr = screen
  OBVIOUS
<1>3. /\ X <= Columns /\ loc[t].row = 0 /\ sent' = sent
      /\ Shown(O, X, Y, scr) \/ (Half(O, 0, scr) /\ X = 0 /\ Y = Rows)
  <2>1. ScreenAt(t)
    BY <1>1, ScreenTells
  <2> QED BY <1>1, <1>2, <2>1 DEF ScreenAt, Stays
<1>4. Rows \in Nat \ {0}
  BY ConsoleAssumption
<1>5. CASE Shown(O, X, Y, scr)
  <2>1. Y < Rows /\ Y \in Int
    <3>1. O \in Texts /\ O # <<>> /\ Y = Len(O) - Top(O)
      BY <1>5 DEF Shown
    <3>2. /\ Len(O) \in Nat \ {0} /\ Top(O) \in Nat \ {0}
          /\ Len(O) < Rows => Top(O) = 1
          /\ Len(O) >= Rows => Top(O) = Len(O) - Rows + 1
      BY <3>1, TopIs
    <3> QED BY <1>4, <3>1, <3>2
  <2>2. ~AtBottom
    BY <1>2, <1>4, <2>1 DEF AtBottom
  <2>3. IF loc[t].c = NL THEN loc'[t] = Idle
        ELSE loc'[t].pc = "load_cell" /\ loc'[t].c = loc[t].c
    BY <1>1, <2>2
  <2>4. x' <= Columns /\ Shown(Opened(Lines(Front(sent)), loc[t].c), x', y', screen')
    BY <1>1, <1>2, <1>3, <1>5
  <2> QED BY <1>1, <2>3, <2>4, ScreenOnward
<1>6. CASE Half(O, 0, scr) /\ X = 0 /\ Y = Rows
  <2>1. AtBottom
    BY <1>2, <1>4, <1>6 DEF AtBottom
  <2>2. loc'[t].pc = "scroll" /\ loc'[t].c = loc[t].c /\ loc'[t].row = 0
    BY <1>1, <1>3, <2>1
  <2>3. 0 <= Rows
    BY <1>4
  <2>4. ScreenAt(t)'
    BY <1>1, <1>2, <1>3, <1>6, <2>2, <2>3 DEF ScreenAt, ToWrap, ToSerial
  <2> QED BY <1>1, <2>2, <2>4, ScreenTells
<1> QED BY <1>3, <1>5, <1>6

LEMMA ScreenScrollup ==
    ASSUME Typed, OneCaller, ScreenHas, NEW t \in Thread, textmode_scrollup(t)
    PROVE  ScreenHas'
<1>1. PICK p \in Spots : /\ On(t, p) /\ loc[t].pc = "scroll"
                         /\ IF loc[t].row < Rows THEN p.pc = "scroll" /\ p.row = loc[t].row + 1
                            ELSE p.pc = "scroll_home"
  BY RowOn
<1>2. Stays(t) /\ loc'[t] = p /\ p.c = loc[t].c
  BY <1>1, OnStays DEF On
<1>3. x' = x /\ y' = y /\ screen' = CopiedUp(loc[t].row)
  BY DEF textmode_scrollup
<1> SUFFICES ASSUME ~mixed PROVE ScreenHas'
  BY <1>2 DEF ScreenHas, Stays
<1>4. PICK O, scr, scr1, r : /\ O = Opened(Lines(Front(sent)), loc[t].c)
                             /\ scr = screen /\ scr1 = screen' /\ r = loc[t].row
  OBVIOUS
<1>5. Half(O, r, scr) /\ r <= Rows /\ y = Rows /\ sent' = sent
  <2>1. ScreenAt(t)
    BY <1>2, ScreenTells
  <2> QED BY <1>1, <1>2, <1>4, <2>1 DEF ScreenAt, Stays
<1>6. r \in 0 .. Rows /\ Rows \in Nat \ {0}
  BY <1>4, <1>5, ConsoleAssumption DEF Typed, Spots
<1>7. ASSUME NEW row \in 0 .. Rows, NEW col \in 0 .. Columns - 1
      PROVE  scr1[<<row, col>>] = IF row # r THEN scr[<<row, col>>]
                                  ELSE IF r < Rows THEN scr[<<r + 1, col>>] ELSE Blank
  <2>1. <<row, col>> \in DOMAIN screen
    BY DEF Sizes, Typed
  <2> QED BY <1>3, <1>4, <2>1 DEF CopiedUp
<1>8. Half(O, r + 1, scr1)
  <2>1. RowUp(r, scr, scr1)
    BY <1>7 DEF RowUp
  <2>2. Half(O, r, scr)
    BY <1>5
  <2> QED BY <1>6, <2>1, <2>2, HalfNext
<1>9. CASE r < Rows
  <2>1. loc'[t].pc = "scroll" /\ loc'[t].row = r + 1 /\ r + 1 <= Rows
    BY <1>1, <1>2, <1>4, <1>6, <1>9
  <2>2. ScreenAt(t)'
    BY <1>2, <1>3, <1>4, <1>5, <1>8, <2>1 DEF ScreenAt, ToWrap, ToSerial
  <2> QED BY <1>2, <2>1, <2>2, ScreenTells
<1>10. CASE ~(r < Rows)
  <2>1. loc'[t].pc = "scroll_home" /\ r + 1 = Rows + 1
    BY <1>1, <1>2, <1>4, <1>6, <1>10
  <2>2. ScreenAt(t)'
    BY <1>2, <1>3, <1>4, <1>5, <1>8, <2>1 DEF ScreenAt, ToWrap, ToSerial
  <2> QED BY <1>2, <2>1, <2>2, ScreenTells
<1> QED BY <1>9, <1>10

LEMMA ScreenUp ==
    ASSUME Typed, OneCaller, ScreenHas, NEW t \in Thread, textmode_up(t)
    PROVE  ScreenHas'
<1>1. /\ Stays(t) /\ loc[t].pc = "up" /\ x' = x /\ y' = loc[t].ly - 1 /\ screen' = screen
      /\ IF loc[t].c = NL THEN loc'[t] = Idle
         ELSE loc'[t].pc = "load_cell" /\ loc'[t].c = loc[t].c
  BY UpGoes DEF textmode_up
<1> SUFFICES ASSUME ~mixed PROVE ScreenHas'
  BY <1>1 DEF ScreenHas, Stays
<1>2. PICK O, scr : O = Opened(Lines(Front(sent)), loc[t].c) /\ scr = screen
  OBVIOUS
<1>3. Half(O, Rows + 1, scr) /\ y = Rows /\ x = 0 /\ loc[t].ly = y
  <2>1. ScreenAt(t)
    BY <1>1, ScreenTells
  <2> QED BY <1>1, <1>2, <2>1 DEF ScreenAt
<1>4. Shown(O, 0, Rows - 1, scr)
  BY <1>3, HalfDone
<1>5. Shown(Opened(Lines(Front(sent)), loc[t].c), x', y', screen')
  BY <1>1, <1>2, <1>3, <1>4
<1>6. x' <= Columns
  BY <1>1, <1>3, ConsoleAssumption
<1> QED BY <1>1, <1>5, <1>6, ScreenOnward

LEMMA ScreenCell ==
    ASSUME Typed, OneCaller, ScreenHas, NEW t \in Thread, textmode_cell(t)
    PROVE  ScreenHas'
<1>1. PICK r \in Spots : On(t, r) /\ loc[t].pc = "cell" /\ r.pc = "column" /\ r.lx = x
  BY CellOn
<1>2. Stays(t) /\ loc'[t] = r /\ r.c = loc[t].c
  BY <1>1, OnStays DEF On
<1>3. /\ x' = x /\ y' = y
      /\ screen' = [at \in DOMAIN screen |-> IF at = Cell(loc[t]) THEN loc[t].c ELSE screen[at]]
  BY DEF textmode_cell
<1> SUFFICES ASSUME ~mixed PROVE ScreenHas'
  BY <1>2 DEF ScreenHas, Stays
<1>4. PICK O, X, Y, scr, scr1, c : /\ O = Opened(Lines(Front(sent)), loc[t].c) /\ X = x /\ Y = y
                                   /\ scr = screen /\ scr1 = screen' /\ c = loc[t].c
  OBVIOUS
<1>5. Shown(O, X, Y, scr) /\ X <= Columns /\ c # NL /\ loc[t].ly = Y /\ sent' = sent
  <2>1. ScreenAt(t)
    BY <1>2, ScreenTells
  <2> QED BY <1>1, <1>2, <1>4, <2>1 DEF ScreenAt, Stays
<1>6. c \in Letter \cup {NL} /\ DOMAIN screen = Sizes
  BY <1>1, <1>4 DEF Typed
<1>7. scr1 = [at \in Sizes |-> IF at = <<Y + X \div Columns, X % Columns>> THEN c ELSE scr[at]]
  BY <1>3, <1>4, <1>5, <1>6 DEF Cell
<1>8. Shown(Extended(O, c), X + 1, Y, scr1)
  BY <1>5, <1>6, <1>7, ShownExtended
<1>9. Lines(sent) = Extended(O, c)
  <2>1. sent # <<>> /\ c = Last(sent)
    BY <1>2, <1>4, StepOneCaller
  <2> QED BY <1>4, <1>5, <2>1, LastLines
<1>10. loc'[t].pc = "column" /\ loc'[t].lx = X
  BY <1>1, <1>2, <1>4
<1>11. ScreenAt(t)'
  BY <1>3, <1>4, <1>5, <1>8, <1>9, <1>10 DEF ScreenAt, ToWrap, ToSerial
<1> QED BY <1>2, <1>10, <1>11, ScreenTells

LEMMA ScreenColumn ==
    ASSUME Typed, OneCaller, ScreenHas, NEW t \in Thread, textmode_column(t)
    PROVE  ScreenHas'
<1>1. /\ Stays(t) /\ loc[t].pc = "column" /\ loc'[t].pc = "idle"
      /\ x' = loc[t].lx + 1 /\ y' = y /\ screen' = screen
  BY ColumnGoes, IdleSpot DEF textmode_column
<1> SUFFICES ASSUME ~mixed PROVE ScreenHas'
  BY <1>1 DEF ScreenHas, Stays
<1>2. Shown(Lines(sent), loc[t].lx + 1, y, screen)
  <2>1. ScreenAt(t)
    BY <1>1, ScreenTells
  <2> QED BY <1>1, <2>1 DEF ScreenAt
<1> QED BY <1>1, <1>2, ScreenTells

LEMMA ScreenTextmode ==
    ASSUME Typed, OneCaller, ScreenHas, NEW t \in Thread, Textmode(t)
    PROVE  ScreenHas'
BY ScreenWrap, ScreenLoad, ScreenNewline, ScreenHome, ScreenBottom, ScreenScrollup, ScreenUp,
   ScreenCell, ScreenColumn DEF Textmode

-----------------------------------------------------------------------------
(* The first step of a call. *)
LEMMA SendMoves ==
    ASSUME Typed, NEW t \in Thread, NEW c \in Letter \cup {NL}, console_send(t, c)
    PROVE  /\ Moves(t) /\ loc[t].pc = "idle"
           /\ loc'[t].pc = "kmsg" /\ loc'[t].c = c /\ loc'[t].idx = 0 /\ loc'[t].row = 0
           /\ sent' = Append(sent, c) /\ UNCHANGED <<kmsg, serial, textmode>>
           /\ mixed' \in BOOLEAN /\ (~mixed' => ~mixed /\ Busy = {} /\ Busy' = {t})
<1>0. PICK p : p = [Idle EXCEPT !.pc = "kmsg"]
  OBVIOUS
<1> DEFINE r == [Idle EXCEPT !.pc = "kmsg", !.c = c]
<1>1. /\ loc' = [loc EXCEPT ![t] = r] /\ loc[t].pc = "idle" /\ sent' = Append(sent, c)
      /\ UNCHANGED <<kmsg, serial, textmode>>
  BY DEF console_send, At
<1>2. r \in Spots /\ r.pc = "kmsg" /\ r.c = c /\ r.idx = 0 /\ r.row = 0
  <2>1. p = [pc |-> "kmsg", c |-> Blank, idx |-> 0, lx |-> 0, ly |-> 0, row |-> 0]
    BY <1>0 DEF Idle
  <2>2. p \in Spots
    BY <1>0, SpotSet, IdleSpot DEF Places
  <2>3. r = [p EXCEPT !.c = c]
    BY <1>0 DEF Idle
  <2>4. r \in Spots /\ r.pc = "kmsg" /\ r.c = c /\ r.idx = 0 /\ r.row = 0
    <3> HIDE DEF r
    <3> QED BY <2>1, <2>2, <2>3 DEF Spots, Chars
  <2> QED BY <2>4
<1> HIDE DEF r
<1>3. Moves(t) /\ loc'[t] = r
  BY <1>1, <1>2, PutMoves
<1>4. mixed' = (mixed \/ Busy # {})
  BY DEF console_send
<1>5. mixed' \in BOOLEAN
  BY <1>4, Zenon
<1>6. ~mixed' => ~mixed /\ Busy = {}
  BY <1>4, Zenon
<1>7. Busy = {} => Busy' = {t}
  BY <1>2, <1>3 DEF Busy, Moves
<1> QED BY <1>1, <1>2, <1>3, <1>5, <1>6, <1>7

LEMMA SendTyped ==
    ASSUME Typed, OneCaller, NEW t \in Thread, NEW c \in Letter \cup {NL}, console_send(t, c)
    PROVE  Typed' /\ OneCaller'
<1>1. /\ Moves(t) /\ loc[t].pc = "idle"
      /\ loc'[t].pc = "kmsg" /\ loc'[t].c = c /\ loc'[t].idx = 0
      /\ sent' = Append(sent, c) /\ UNCHANGED <<kmsg, serial, textmode>>
      /\ mixed' \in BOOLEAN /\ (~mixed' => ~mixed /\ Busy = {} /\ Busy' = {t})
  BY SendMoves
<1>2. PICK s : s = sent
  OBVIOUS
<1>3. s \in Seq(Letter \cup {NL}) /\ sent' = Append(s, c)
  BY <1>1, <1>2 DEF Typed
<1>4. Append(s, c) \in Seq(Letter \cup {NL}) /\ Append(s, c) # <<>> /\ Last(Append(s, c)) = c
  BY <1>3, AppendIs
<1>5. Typed'
  <2>1. \A u \in Thread : loc'[u].pc # "idle" => loc'[u].c \in Letter \cup {NL}
    BY <1>1 DEF Moves, Typed
  <2>2. DataTyped'
    BY <1>1 DEF Typed, DataTyped, kmsg, serial, textmode
  <2> QED BY <1>1, <1>3, <1>4, <2>1, <2>2 DEF Typed, DataTyped, Moves
<1>6. OneCaller'
  BY <1>1, <1>3, <1>4 DEF OneCaller
<1> QED BY <1>5, <1>6

LEMMA SendPast ==
    ASSUME Typed, NEW t \in Thread, NEW c \in Letter \cup {NL}, console_send(t, c), ~mixed',
           NEW P \in SUBSET (Places \ {"idle"}), "kmsg" \in P
    PROVE  /\ Past(P) = Len(sent) /\ Past(P)' = Len(sent)
           /\ \A i \in 1 .. Len(sent) : sent'[i] = sent[i]
           /\ Len(sent') = Len(sent) + 1 /\ Len(sent) \in Nat
<1>1. loc'[t].pc = "kmsg" /\ sent' = Append(sent, c) /\ Busy = {}
  BY SendMoves
<1>2. PICK s : s = sent
  OBVIOUS
<1>3. s \in Seq(Letter \cup {NL}) /\ sent' = Append(s, c)
  BY <1>1, <1>2 DEF Typed
<1>4. /\ Len(s) \in Nat /\ Len(Append(s, c)) = Len(s) + 1
      /\ \A i \in 1 .. Len(s) : Append(s, c)[i] = s[i]
  BY <1>3, AppendIs
<1>5. Past(P) = Len(s)
  BY <1>1, <1>2 DEF Past, Busy
<1>6. Past(P)' = Len(sent') - 1
  BY <1>1 DEF Past
<1> QED BY <1>2, <1>3, <1>4, <1>5, <1>6

LEMMA SendKmsg ==
    ASSUME Typed, KmsgIn, KmsgHas, NEW t \in Thread, NEW c \in Letter \cup {NL}, console_send(t, c)
    PROVE  KmsgIn' /\ KmsgHas'
<1>1. /\ Moves(t) /\ loc'[t].pc = "kmsg" /\ loc'[t].idx = 0 /\ kmsg_buf' = kmsg_buf /\ kmsg_pos' = kmsg_pos
      /\ (~mixed' => ~mixed /\ Busy = {} /\ Busy' = {t})
  BY SendMoves DEF kmsg
<1>2. KmsgIn'
  <2>1. ASSUME NEW u \in Thread
        PROVE  loc'[u].idx <= Len(kmsg_buf) /\ (loc'[u].pc = "kmsg_char" => loc'[u].idx < KMSG_BUFSIZE)
    <3>1. CASE u = t
      <4>1. 0 <= Len(kmsg_buf)
        BY DEF Typed
      <4> QED BY <1>1, <3>1, <4>1
    <3>2. CASE u # t
      BY <1>1, <3>2 DEF KmsgIn, Moves
    <3> QED BY <3>1, <3>2
  <2> QED BY <1>1, <2>1 DEF KmsgIn
<1>3. KmsgHas'
  <2> SUFFICES ASSUME ~mixed' PROVE KmsgHas'
    BY DEF KmsgHas
  <2>1. InKmsg \in SUBSET (Places \ {"idle"}) /\ "kmsg" \in InKmsg
    BY DEF InKmsg, Places
  <2>2. /\ Past(InKmsg)' = Past(InKmsg) /\ Past(InKmsg) = Len(sent)
        /\ \A i \in 1 .. Len(sent) : sent'[i] = sent[i]
    BY <2>1, SendPast
  <2>3. /\ Len(kmsg_buf) = kmsg_pos
        /\ Len(kmsg_buf) = IF Past(InKmsg) < KMSG_BUFSIZE THEN Past(InKmsg) ELSE KMSG_BUFSIZE
        /\ \A i \in 1 .. Len(kmsg_buf) : kmsg_buf[i] = sent[i]
    BY <1>1 DEF KmsgHas, InKmsg
  <2>4. \A u \in Thread : loc'[u].pc # "kmsg_char"
    BY <1>1 DEF Busy
  <2>5. \A i \in 1 .. Len(kmsg_buf) : kmsg_buf[i] = sent'[i]
    <3>1. Len(sent) \in Nat /\ KMSG_BUFSIZE \in Nat
      BY ConsoleAssumption DEF Typed
    <3>2. Len(kmsg_buf) <= Len(sent) /\ Len(kmsg_buf) \in Nat
      BY <2>2, <2>3, <3>1
    <3> QED BY <2>2, <2>3, <3>1, <3>2
  <2> QED BY <1>1, <2>2, <2>3, <2>4, <2>5 DEF KmsgHas, InKmsg
<1> QED BY <1>2, <1>3

LEMMA SendSerial ==
    ASSUME Typed, Serial, NEW t \in Thread, NEW c \in Letter \cup {NL}, console_send(t, c)
    PROVE  Serial'
<1>1. /\ Moves(t) /\ loc[t].pc = "idle" /\ loc'[t].pc = "kmsg" /\ loc'[t].c = c
      /\ sent' = Append(sent, c) /\ fifo' = fifo /\ line' = line
      /\ (~mixed' => ~mixed /\ Busy = {} /\ Busy' = {t})
  BY SendMoves DEF serial
<1>2. SerialHas'
  <2> SUFFICES ASSUME ~mixed' PROVE SerialHas'
    BY DEF SerialHas
  <2>1. ToSerial \in SUBSET (Places \ {"idle"}) /\ "kmsg" \in ToSerial
    BY DEF ToSerial, Places
  <2>2. /\ Past(ToSerial)' = Past(ToSerial) /\ Past(ToSerial) = Len(sent)
        /\ \A i \in 1 .. Len(sent) : sent'[i] = sent[i]
        /\ Len(sent') = Len(sent) + 1 /\ Len(sent) \in Nat
    BY <2>1, SendPast
  <2>3. PICK m : m = line \o fifo
    OBVIOUS
  <2>4. Len(line) + Len(fifo) = Past(ToSerial) /\ Agrees(m, sent) /\ Len(m) \in Nat
    BY <1>1, <2>3 DEF Serial, SerialHas, Typed
  <2>5. Len(m) <= Len(sent) /\ \A i \in 1 .. Len(m) : m[i] = sent[i]
    BY <2>4 DEF Agrees
  <2>6. Len(m) <= Len(sent') /\ \A i \in 1 .. Len(m) : m[i] = sent'[i]
    BY <2>2, <2>4, <2>5
  <2>7. Agrees(m, sent)'
    BY <2>6 DEF Agrees
  <2>8. \A u \in Thread : loc'[u].pc # "serial_out"
    BY <1>1 DEF Busy
  <2> QED BY <1>1, <2>2, <2>3, <2>4, <2>7, <2>8 DEF SerialHas, Agrees
<1>3. FifoRoom'
  <2>1. Outs' = Outs
    BY <1>1 DEF Outs, Moves
  <2> QED BY <1>1, <2>1 DEF Serial, FifoRoom
<1>4. SerialCounts'
  <2>1. ASSUME NEW d \in Letter \cup {NL}
        PROVE  /\ Kept(d) \in Nat /\ Count(sent, d) \in Nat
               /\ Kept(d)' = (IF c = d THEN Kept(d) + 1 ELSE Kept(d))
               /\ Count(sent, d)' = (IF c = d THEN Count(sent, d) + 1 ELSE Count(sent, d))
    <3>1. PICK s, l, f : s = sent /\ l = line /\ f = fifo
      OBVIOUS
    <3>2. s \in Seq(Chars) /\ c \in Chars /\ l \in Seq(Chars) /\ f \in Seq(Chars)
      BY <3>1 DEF Typed, Chars
    <3>3. /\ Count(s, d) \in Nat
          /\ Count(Append(s, c), d) = IF c = d THEN Count(s, d) + 1 ELSE Count(s, d)
      BY <3>2, CountOfMore
    <3>4. Count(l, d) \in Nat /\ Count(f, d) \in Nat
      BY <3>2, CountType
    <3>5. Unsent(d) \in Nat /\ Unsent(d)' = IF c = d THEN Unsent(d) + 1 ELSE Unsent(d)
      <4>1. PICK A, B : A = ToSend(d) /\ B = ToSend(d)'
        OBVIOUS
      <4>2. A \in SUBSET Thread /\ B \in SUBSET Thread /\ A \ {t} = B \ {t}
        BY <1>1, <4>1 DEF ToSend, Moves
      <4>3. Unsent(d) = Cardinality(A) /\ Unsent(d)' = Cardinality(B)
        BY <4>1 DEF Unsent, ToSend, ToSerial
      <4>4. t \notin A /\ (t \in B <=> c = d)
        BY <1>1, <4>1 DEF ToSend, ToSerial
      <4>5. /\ Cardinality(A) \in Nat /\ Cardinality(B) \in Nat
            /\ (t \in A /\ t \in B) \/ (t \notin A /\ t \notin B) => Cardinality(A) = Cardinality(B)
            /\ t \notin A /\ t \in B => Cardinality(B) = Cardinality(A) + 1
        BY <4>2, CardMoves
      <4> QED BY <4>3, <4>4, <4>5
    <3>6. Kept(d) = Count(l, d) + Count(f, d) + Unsent(d) /\ Count(sent, d) = Count(s, d)
      BY <3>1 DEF Kept
    <3>7. /\ Count(line, d)' = Count(l, d) /\ Count(fifo, d)' = Count(f, d)
          /\ Count(sent, d)' = Count(Append(s, c), d)
      BY <1>1, <3>1 DEF Count
    <3>8. Kept(d)' = Count(l, d) + Count(f, d) + Unsent(d)'
      BY <3>7 DEF Kept
    <3> QED BY <3>3, <3>4, <3>5, <3>6, <3>7, <3>8
  <2>2. ASSUME NEW d \in Letter \cup {NL}
        PROVE  Kept(d)' <= Count(sent, d)' /\ (N <= FIFO \/ ~mixed' => Kept(d)' = Count(sent, d)')
    <3>1. /\ Kept(d) <= Count(sent, d)
          /\ N <= FIFO \/ ~mixed => Kept(d) = Count(sent, d)
      BY DEF Serial, SerialCounts
    <3>2. N <= FIFO \/ ~mixed' => N <= FIFO \/ ~mixed
      BY <1>1
    <3>3. PICK j, k, m, n : /\ j = Kept(d) /\ k = Count(sent, d)
                            /\ m = Kept(d)' /\ n = Count(sent, d)'
      OBVIOUS
    <3>4. m <= n /\ (j = k => m = n)
      BY <2>1, <3>1, <3>3
    <3> QED BY <3>1, <3>2, <3>3, <3>4
  <2> QED BY <2>2 DEF SerialCounts
<1> QED BY <1>2, <1>3, <1>4 DEF Serial

LEMMA SendScreen ==
    ASSUME Typed, ScreenHas, NEW t \in Thread, NEW c \in Letter \cup {NL}, console_send(t, c)
    PROVE  ScreenHas'
<1> SUFFICES ASSUME ~mixed' PROVE ScreenHas'
  BY DEF ScreenHas
<1>1. /\ loc'[t].pc = "kmsg" /\ sent' = Append(sent, c) /\ x' = x /\ y' = y /\ screen' = screen
      /\ ~mixed /\ Busy = {} /\ Busy' = {t} /\ loc'[t].row = 0
  BY SendMoves DEF textmode
<1>2. Shown(Lines(sent), x, y, screen)
  BY <1>1 DEF ScreenHas
<1>3. Front(sent') = sent
  <2>1. PICK s : s = sent
    OBVIOUS
  <2>2. s \in Seq(Letter \cup {NL})
    BY <2>1 DEF Typed
  <2>3. Front(Append(s, c)) = s
    BY <2>2, AppendIs
  <2> QED BY <1>1, <2>1, <2>3
<1>4. ScreenAt(t)'
  BY <1>1, <1>2, <1>3 DEF ScreenAt, ToWrap, ToSerial
<1> QED BY <1>1, <1>4 DEF ScreenHas

-----------------------------------------------------------------------------
LEMMA CoInvInit == Init => CoInv
<1> SUFFICES ASSUME Init PROVE CoInv
  OBVIOUS
<1>1. /\ kmsg_buf = <<>> /\ kmsg_pos = 0 /\ fifo = <<>> /\ line = <<>> /\ x = 0 /\ y = 0
      /\ sent = <<>> /\ mixed = FALSE
      /\ screen = [at \in Sizes |-> IF at[1] < Rows THEN Blank ELSE Unknown]
      /\ loc = [t \in Thread |-> Idle]
  BY DEF Init, Sizes
<1>2. /\ IsFiniteSet(Thread) /\ KMSG_BUFSIZE \in Nat \ {0} /\ Columns \in Nat \ {0} /\ Rows \in Nat \ {0}
      /\ N \in Nat
  BY ConsoleAssumption, CardWithin
<1>3. Blank \in Chars
  BY DEF Chars
<1>4. Typed
  <2>1. loc \in [Thread -> Spots] /\ \A t \in Thread : loc[t].pc = "idle"
    BY <1>1, IdleSpot
  <2>2. <<>> \in Seq(Chars) /\ <<>> \in Seq(Letter \cup {NL})
    OBVIOUS
  <2>3. screen \in [Sizes -> Chars \cup {Unknown}]
    BY <1>1, <1>3
  <2>4. {kmsg_buf, fifo, line} \subseteq Seq(Chars) /\ sent \in Seq(Letter \cup {NL})
    BY <1>1, <2>2
  <2>5. mixed \in BOOLEAN
    BY <1>1, Zenon
  <2>6. kmsg_pos \in Nat /\ x \in Nat /\ y \in Int
    BY <1>1, SMT
  <2> QED BY <2>1, <2>3, <2>4, <2>5, <2>6 DEF Typed
<1>5. /\ \A t \in Thread : loc[t].pc = "idle" /\ loc[t].idx = 0
      /\ Busy = {}
  BY <1>1, IdleSpot DEF Busy
<1>6. Len(<<>>) = 0
  OBVIOUS
<1>7. KmsgIn
  BY <1>1, <1>2, <1>5, <1>6 DEF KmsgIn
<1>8. OneCaller
  BY <1>5 DEF OneCaller
<1>9. \A P \in SUBSET (Places \ {"idle"}) : Past(P) = 0
  BY <1>1, <1>5, <1>6 DEF Past
<1>10. KmsgHas
  <2>1. Past({"kmsg", "kmsg_char"}) = 0
    BY <1>9 DEF Places
  <2> QED BY <1>1, <1>2, <1>5, <1>6, <2>1 DEF KmsgHas
<1>11. SerialHas
  <2>1. Past(ToSerial) = 0
    BY <1>9 DEF Places, ToSerial
  <2>2. <<>> \o <<>> = <<>>
    OBVIOUS
  <2> QED BY <1>1, <1>5, <1>6, <2>1, <2>2 DEF SerialHas, Agrees
<1>12. Outs = {} /\ \A c : ToSend(c) = {}
  BY <1>5 DEF Outs, ToSend, ToSerial
<1>13. Cardinality({}) = 0
  BY FS_EmptySet
<1>14. FifoRoom
  BY <1>1, <1>2, <1>6, <1>12, <1>13 DEF FifoRoom
<1>15. SerialCounts
  <2>1. ASSUME NEW c PROVE Unsent(c) = 0
    BY <1>12, <1>13 DEF Unsent, ToSend, ToSerial
  <2>2. ASSUME NEW c PROVE Kept(c) = 0 /\ Count(sent, c) = 0
    BY <1>1, <2>1, CountOfNone DEF Kept
  <2> QED BY <2>2 DEF SerialCounts
<1>16. ScreenHas
  <2>1. Lines(sent) = <<<<>>>>
    BY <1>1, LinesOfNone
  <2>2. PICK L, scr : L = <<<<>>>> /\ scr = screen
    OBVIOUS
  <2>3. L \in Texts /\ L # <<>> /\ Len(L) = 1 /\ L[1] = <<>> /\ Last(L) = <<>>
    BY <2>2 DEF Texts, Last
  <2>4. ASSUME NEW row \in 0 .. Rows, NEW col \in 0 .. Columns - 1
        PROVE  scr[<<row, col>>] = CellOf(L, 1 + row, col)
    <3>1. scr[<<row, col>>] = IF row < Rows THEN Blank ELSE Unknown
      <4>1. <<row, col>> \in Sizes
        BY DEF Sizes
      <4> QED BY <1>1, <2>2, <4>1
    <3>2. PICK n \in Nat \ {0} : n = 1 + row
      OBVIOUS
    <3>3. Len(Line(L, n)) = 0 /\ (n > 1 => Len(Line(L, n - 1)) = 0)
      <4>1. Line(L, 1) = <<>>
        BY <2>3 DEF Line
      <4>2. ASSUME NEW m \in Nat \ {0} PROVE Len(Line(L, m)) = 0
        <5>1. CASE m = 1
          BY <1>6, <4>1, <5>1
        <5>2. CASE m # 1
          BY <2>3, <5>2, LineIs
        <5> QED BY <5>1, <5>2
      <4>3. n > 1 => n - 1 \in Nat \ {0}
        OBVIOUS
      <4> QED BY <4>2, <4>3
    <3>4. CellOf(L, n, col) = IF n = Rows + 1 THEN Unknown ELSE Blank
      <4>1. ~(col < Len(Line(L, n))) /\ ~(n > 1 /\ Len(Line(L, n - 1)) > Columns) /\ col \in Nat
        BY <1>2, <3>3
      <4> QED BY <2>3, <4>1, CellIs
    <3> QED BY <1>2, <3>1, <3>2, <3>4
  <2>5. Shown(L, 0, 0, scr)
    <3>1. Top(L) = 1
      BY <1>2, <2>3 DEF Top
    <3>2. Cells(L, Top(L), scr)
      BY <2>4, <3>1 DEF Cells
    <3>3. 0 = Len(Last(L)) /\ 0 <= Columns + 1 /\ 0 = Len(L) - Top(L)
      BY <1>2, <1>6, <2>3, <3>1
    <3> QED BY <2>3, <3>2, <3>3 DEF Shown
  <2>6. Shown(Lines(sent), x, y, screen)
    BY <1>1, <2>1, <2>2, <2>5
  <2> QED BY <1>5, <2>6 DEF ScreenHas
<1> QED BY <1>4, <1>7, <1>8, <1>10, <1>11, <1>14, <1>15, <1>16 DEF CoInv

LEMMA CoInvStep ==
    ASSUME CoInv, NEW t \in Thread, Step(t)
    PROVE  CoInv'
<1>1. Typed /\ KmsgIn /\ OneCaller /\ KmsgHas /\ Serial /\ ScreenHas
  BY DEF CoInv, Serial
<1>2. Stays(t)
  BY <1>1, StepStays
<1>3. Typed' /\ OneCaller'
  BY <1>1, <1>2, StepTyped, StepOneCaller
<1> SUFFICES KmsgIn' /\ KmsgHas' /\ Serial' /\ ScreenHas'
  BY <1>3 DEF CoInv, Serial
<1>4. ASSUME UNCHANGED <<serial, textmode>>, loc'[t].row = loc[t].row,
             loc[t].pc \in ToSerial \ {"serial_out"}, loc'[t].pc \in ToSerial,
             loc'[t].pc # "serial_out" \/ fifo = <<>>
      PROVE  Serial' /\ ScreenHas'
  <2>1. Serial'
    BY <1>1, <1>2, <1>4, SerialElsewhere
  <2>2. ScreenHas'
    BY <1>1, <1>2, <1>4, ScreenElsewhere DEF ToWrap
  <2> QED BY <2>1, <2>2
<1>5. CASE kmsg_append(t)
  <2>1. KmsgIn' /\ KmsgHas' /\ loc[t].pc = "kmsg" /\ loc'[t].pc \in {"kmsg_char", "serial"}
    BY <1>1, <1>2, <1>5, KmsgAppend
  <2>2. UNCHANGED <<serial, textmode>>
    BY <1>5 DEF kmsg_append
  <2>3. loc'[t].row = loc[t].row
    <3>1. PICK r \in Spots : On(t, r) /\ r.row = loc[t].row
      BY <1>1, <1>5, AppendOn
    <3> QED BY <1>1, <3>1, OnStays
  <2> QED BY <1>4, <2>1, <2>2, <2>3 DEF ToSerial
<1>6. CASE kmsg_char(t)
  <2>1. KmsgIn' /\ KmsgHas' /\ loc[t].pc = "kmsg_char" /\ loc'[t].pc = "serial"
    BY <1>1, <1>2, <1>6, KmsgChar
  <2>2. UNCHANGED <<serial, textmode>>
    BY <1>6 DEF kmsg_char
  <2>3. loc'[t].row = loc[t].row
    <3>1. PICK r \in Spots : On(t, r) /\ r.row = loc[t].row
      BY <1>1, <1>6, CharOn
    <3> QED BY <1>1, <3>1, OnStays
  <2> QED BY <1>4, <2>1, <2>2, <2>3 DEF ToSerial
<1>7. CASE serial_poll(t)
  <2>1. /\ loc[t].pc = "serial" /\ loc'[t].pc = "serial_out" /\ loc'[t].idx = loc[t].idx
        /\ loc'[t].row = loc[t].row
    BY <1>1, <1>7, GotoStays DEF serial_poll, Goes, Places
  <2>2. fifo = <<>> /\ UNCHANGED <<kmsg, serial, textmode>>
    BY <1>7 DEF serial_poll, SerialReady
  <2>3. KmsgIn' /\ KmsgHas'
    BY <1>1, <1>2, <2>1, <2>2, KmsgElsewhere DEF InKmsg
  <2> QED BY <1>4, <2>1, <2>2, <2>3 DEF ToSerial
<1>8. CASE serial_out(t)
  <2>1. Serial' /\ loc[t].pc = "serial_out" /\ loc'[t].pc = "wrap"
    BY <1>1, <1>2, <1>8, SerialOut
  <2>2. UNCHANGED <<kmsg, textmode>> /\ loc'[t].idx = loc[t].idx /\ loc'[t].row = loc[t].row
    BY <1>1, <1>8, GotoStays DEF serial_out, Places
  <2>3. KmsgIn' /\ KmsgHas'
    BY <1>1, <1>2, <2>1, <2>2, KmsgElsewhere DEF InKmsg
  <2>4. ScreenHas'
    BY <1>1, <1>2, <2>1, <2>2, ScreenElsewhere DEF ToSerial, ToWrap
  <2> QED BY <2>1, <2>3, <2>4
<1>9. CASE Textmode(t)
  <2>1. /\ UNCHANGED <<kmsg, serial>> /\ loc[t].pc \notin ToSerial /\ loc'[t].pc \notin ToSerial
        /\ loc'[t].idx \in {0, loc[t].idx}
    BY <1>1, <1>9, TextmodeStays
  <2>2. loc[t].pc \notin InKmsg /\ loc'[t].pc \notin InKmsg /\ loc[t].pc # "serial_out" /\ loc'[t].pc # "serial_out"
    BY <2>1 DEF InKmsg, ToSerial
  <2>3. KmsgIn' /\ KmsgHas'
    BY <1>1, <1>2, <2>1, <2>2, KmsgElsewhere
  <2>4. Serial'
    BY <1>1, <1>2, <2>1, <2>2, SerialElsewhere
  <2>5. ScreenHas'
    BY <1>1, <1>9, ScreenTextmode
  <2> QED BY <2>3, <2>4, <2>5
<1> QED BY <1>5, <1>6, <1>7, <1>8, <1>9 DEF Step, Textmode

LEMMA CoInvSend ==
    ASSUME CoInv, NEW t \in Thread, NEW c \in Letter \cup {NL}, console_send(t, c)
    PROVE  CoInv'
<1>1. Typed /\ KmsgIn /\ OneCaller /\ KmsgHas /\ Serial /\ ScreenHas
  BY DEF CoInv, Serial
<1>2. Typed' /\ OneCaller'
  BY <1>1, SendTyped
<1>3. KmsgIn' /\ KmsgHas'
  BY <1>1, SendKmsg
<1>4. Serial'
  BY <1>1, SendSerial
<1>5. ScreenHas'
  BY <1>1, SendScreen
<1> QED BY <1>2, <1>3, <1>4, <1>5 DEF CoInv, Serial

LEMMA CoInvTransmit ==
    ASSUME CoInv, Transmit
    PROVE  CoInv'
<1>1. Typed /\ KmsgIn /\ OneCaller /\ KmsgHas /\ Serial /\ ScreenHas
  BY DEF CoInv, Serial
<1>2. UNCHANGED <<kmsg_buf, kmsg_pos, screen, x, y, loc, sent, mixed>>
  BY DEF Transmit, kmsg, textmode, hist
<1>3. Serial' /\ fifo' \in Seq(Chars) /\ line' \in Seq(Chars)
  BY <1>1, SerialTransmit
<1>4. Typed'
  BY <1>1, <1>2, <1>3 DEF Typed
<1>5. KmsgIn' /\ OneCaller'
  BY <1>1, <1>2 DEF KmsgIn, OneCaller, Busy
<1>6. KmsgHas'
  BY <1>1, <1>2 DEF KmsgHas, Past
<1>7. ScreenHas'
  BY <1>1, <1>2 DEF ScreenHas, Busy, ScreenAt, Wraps
<1> QED BY <1>3, <1>4, <1>5, <1>6, <1>7 DEF CoInv, Serial

LEMMA CoInvNext == CoInv /\ [Next]_vars => CoInv'
<1> SUFFICES ASSUME CoInv, [Next]_vars PROVE CoInv'
  OBVIOUS
<1>1. CASE Next
  BY <1>1, CoInvStep, CoInvSend, CoInvTransmit DEF Next
<1>2. CASE UNCHANGED vars
  <2>1. UNCHANGED <<kmsg_buf, kmsg_pos, fifo, line, screen, x, y, loc, sent, mixed>>
    BY <1>2 DEF vars, kmsg, serial, textmode, hist
  <2>2. Typed' /\ KmsgIn' /\ OneCaller'
    BY <2>1 DEF CoInv, Typed, KmsgIn, OneCaller, Busy
  <2>3. KmsgHas' /\ SerialHas' /\ FifoRoom'
    BY <2>1 DEF CoInv, KmsgHas, Past, SerialHas, FifoRoom, Outs
  <2>4. SerialCounts'
    BY <2>1 DEF CoInv, SerialCounts, Kept, Count, Unsent
  <2>5. ScreenHas'
    BY <2>1 DEF CoInv, ScreenHas, Busy, ScreenAt, Wraps
  <2> QED BY <2>2, <2>3, <2>4, <2>5 DEF CoInv
<1> QED BY <1>1, <1>2

(***************************************************************************)
(* The inductive invariant of console_send and its three consoles: the     *)
(* place of every caller, what the message buffer and the serial line have *)
(* by then, and, while calls do not overlap, what stands on the screen in  *)
(* each step of __textmode_putchar and after each row of a scroll.         *)
(***************************************************************************)
THEOREM ConsoleInvariant == Spec => []CoInv
<1>1. Init => CoInv
  BY CoInvInit
<1>2. CoInv /\ [Next]_vars => CoInv'
  BY CoInvNext
<1> QED BY <1>1, <1>2, PTL DEF Spec

LEMMA KeptOfInv == CoInv => CharactersKept
<1> SUFFICES ASSUME CoInv PROVE CharactersKept
  OBVIOUS
<1>1. /\ Typed /\ KmsgIn /\ OneCaller /\ KmsgHas /\ SerialHas /\ SerialCounts
  BY DEF CoInv
<1>2. KMSG_BUFSIZE \in Nat /\ Len(kmsg_buf) \in Nat /\ kmsg_pos \in Nat /\ Len(sent) \in Nat
  BY <1>1, ConsoleAssumption DEF Typed
<1>3. TypeOK
  <2>1. \A s \in Seq(Chars) : Range(s) \subseteq Chars
    BY DEF Range
  <2>2. sent \in Seq(Chars)
    BY <1>1 DEF Typed, Chars
  <2>3. Range(kmsg_buf) \subseteq Chars /\ Range(fifo) \cup Range(line) \cup Range(sent) \subseteq Chars
    BY <1>1, <2>1, <2>2 DEF Typed
  <2>4. ASSUME NEW t \in Thread PROVE loc[t].c \in Chars /\ loc[t].idx \in 0 .. KMSG_BUFSIZE
    BY <1>1, <1>2 DEF Typed, Spots, KmsgIn
  <2>5. screen \in [DOMAIN screen -> Chars \cup {Unknown}] /\ x \in Nat /\ y \in Int /\ mixed \in BOOLEAN
    BY <1>1 DEF Typed
  <2>6. Len(kmsg_buf) <= KMSG_BUFSIZE
    BY <1>1 DEF KmsgIn
  <2> QED BY <2>3, <2>4, <2>5, <2>6 DEF TypeOK
<1>4. ASSUME NEW S, NEW T, NEW a \in Seq(S), NEW b \in Seq(T), Agrees(a, b) PROVE IsPrefix(a, b)
  <2>1. Len(a) \in Nat /\ Len(b) \in Nat /\ Len(a) <= Len(b) /\ \A i \in 1 .. Len(a) : a[i] = b[i]
    BY <1>4 DEF Agrees
  <2>2. SubSeq(a, 1, Len(a)) = a
    BY <2>1
  <2>3. SubSeq(b, 1, Len(a)) \in Seq(T) /\ Len(SubSeq(b, 1, Len(a))) = Len(a)
    BY <2>1
  <2>4. \A i \in 1 .. Len(a) : SubSeq(b, 1, Len(a))[i] = a[i]
    BY <2>1
  <2>5. SubSeq(b, 1, Len(a)) = a
    BY <2>3, <2>4, SeqEqual
  <2> QED BY <2>1, <2>2, <2>5 DEF IsPrefix
<1>5. KmsgKeepsFirst
  <2>1. kmsg_pos <= KMSG_BUFSIZE
    BY <1>1, <1>2 DEF KmsgIn
  <2>2. ASSUME ~mixed
        PROVE  /\ IsPrefix(kmsg_buf, sent) /\ Len(kmsg_buf) = kmsg_pos
               /\ Busy = {} /\ Len(kmsg_buf) < KMSG_BUFSIZE => kmsg_buf = sent
    <3> DEFINE n == Past({"kmsg", "kmsg_char"})
    <3>1. /\ Len(kmsg_buf) = kmsg_pos
          /\ Len(kmsg_buf) = IF n < KMSG_BUFSIZE THEN n ELSE KMSG_BUFSIZE
          /\ \A i \in 1 .. Len(kmsg_buf) : kmsg_buf[i] = sent[i]
      BY <1>1, <2>2 DEF KmsgHas
    <3>2. (n = Len(sent) \/ n = Len(sent) - 1) /\ (Busy = {} => n = Len(sent))
      BY DEF Past, Busy
    <3> HIDE DEF n
    <3>3. Len(kmsg_buf) <= Len(sent)
      BY <1>2, <3>1, <3>2
    <3>4. kmsg_buf \in Seq(Chars) /\ sent \in Seq(Chars)
      BY <1>1 DEF Typed, Chars
    <3>5. IsPrefix(kmsg_buf, sent)
      <4>1. PICK a, b : a = kmsg_buf /\ b = sent
        OBVIOUS
      <4>2. Agrees(a, b) /\ a \in Seq(Chars) /\ b \in Seq(Chars)
        BY <3>1, <3>3, <3>4, <4>1 DEF Agrees
      <4> QED BY <1>4, <4>1, <4>2
    <3>6. ASSUME Busy = {}, Len(kmsg_buf) < KMSG_BUFSIZE PROVE kmsg_buf = sent
      <4>1. Len(kmsg_buf) = Len(sent)
        BY <1>2, <3>1, <3>2, <3>6
      <4> QED BY <3>1, <3>4, <4>1, SeqEqual
    <3> QED BY <3>1, <3>5, <3>6
  <2> QED BY <2>1, <2>2 DEF KmsgKeepsFirst
<1>6. SerialExact
  <2>1. ASSUME ~mixed PROVE IsPrefix(line \o fifo, sent)
    <3>1. PICK a, b : a = line \o fifo /\ b = sent
      OBVIOUS
    <3>2. a \in Seq(Chars) /\ b \in Seq(Letter \cup {NL}) /\ Agrees(a, b)
      BY <1>1, <2>1, <3>1 DEF Typed, SerialHas
    <3> QED BY <1>4, <3>1, <3>2
  <2>2. ASSUME NEW c \in Letter \cup {NL}
        PROVE  LET kept == Count(line, c) + Count(fifo, c) + Unsent(c) IN
               /\ kept <= Count(sent, c)
               /\ N <= FIFO \/ ~mixed => kept = Count(sent, c)
    BY <1>1 DEF SerialCounts, Kept
  <2> QED BY <2>1, <2>2 DEF SerialExact
<1> QED BY <1>3, <1>5, <1>6 DEF CharactersKept


LEMMA ScreenOfInv == CoInv => ScreenShowsLines
<1> SUFFICES ASSUME CoInv, ~mixed, Busy = {}
             PROVE  LET lines == Lines(sent) IN
                    /\ x = Len(Last(lines))
                    /\ y = IF Len(lines) <= Rows THEN Len(lines) - 1 ELSE Rows - 1
                    /\ \A row \in 0 .. Rows : \A col \in 0 .. Columns - 1 :
                          screen[<<row, col>>] = CellOf(lines, Len(lines) - y + row, col)
  BY DEF ScreenShowsLines
<1>1. PICK L, X, Y, scr : L = Lines(sent) /\ X = x /\ Y = y /\ scr = screen
  OBVIOUS
<1>2. Shown(L, X, Y, scr)
  BY <1>1 DEF CoInv, ScreenHas
<1>3. /\ L \in Texts /\ L # <<>> /\ X = Len(Last(L))
      /\ Y = Len(L) - Top(L) /\ Cells(L, Top(L), scr)
  BY <1>2 DEF Shown
<1>4. Len(L) \in Nat \ {0} /\ Top(L) \in Nat \ {0} /\ Rows \in Nat \ {0}
  BY <1>3, TopIs
<1>5. Y = IF Len(L) <= Rows THEN Len(L) - 1 ELSE Rows - 1
  BY <1>3, <1>4 DEF Top
<1>6. Len(L) - Y = Top(L)
  BY <1>3, <1>4
<1>7. ASSUME NEW row \in 0 .. Rows, NEW col \in 0 .. Columns - 1
      PROVE  scr[<<row, col>>] = CellOf(L, Len(L) - Y + row, col)
  BY <1>3, <1>6 DEF Cells
<1> QED BY <1>1, <1>3, <1>5, <1>7

(***************************************************************************)
(* The message buffer keeps the first characters and stays inside of its   *)
(* bounds, and the serial line repeats no character and loses none while   *)
(* calls do not overlap or no more threads print than the transmitter's    *)
(* queue has places: __kmsg_append and serial_out_data, with any number of *)
(* callers of console_send and any sizes of the buffers.                   *)
(***************************************************************************)
THEOREM CharactersAreKept == Spec => []CharactersKept
BY ConsoleInvariant, KeptOfInv, PTL

(***************************************************************************)
(* __textmode_putchar and its scroll leave on the screen exactly what was  *)
(* printed, cell by cell, with the cursor behind it, while calls do not    *)
(* overlap: for every text and any size of the screen.                     *)
(***************************************************************************)
THEOREM ScreenIsSound == Spec => []ScreenShowsLines
BY ConsoleInvariant, ScreenOfInv, PTL
=============================================================================
