--------------------------- MODULE ContextProofs ---------------------------
(***************************************************************************)
(* The frames of interrupts and switches give back to every thread its     *)
(* registers and its stack, for any number of threads, stacks of any depth *)
(* and any values in the registers.                                        *)
(***************************************************************************)
EXTENDS Context, SequenceTheorems, TLAPS

-----------------------------------------------------------------------------
(* The words of a tuple, as a sequence over a set that has them all. *)
LEMMA Words3 ==
    ASSUME NEW V, NEW a \in V, NEW b \in V, NEW c \in V
    PROVE  /\ <<a, b, c>> \in Seq(V) /\ Len(<<a, b, c>>) = 3
           /\ <<a, b, c>>[1] = a /\ <<a, b, c>>[2] = b /\ <<a, b, c>>[3] = c
  OBVIOUS

LEMMA Words2 ==
    ASSUME NEW V, NEW a \in V, NEW b \in V
    PROVE  /\ <<a, b>> \in Seq(V) /\ Len(<<a, b>>) = 2
           /\ <<a, b>>[1] = a /\ <<a, b>>[2] = b
  OBVIOUS

LEMMA FunctionIsSeq ==
    ASSUME NEW V, NEW n \in Nat, NEW p \in [1 .. n -> V]
    PROVE  p \in Seq(V) /\ Len(p) = n
  <1>1. p \in Seq(V)
    BY SeqDef
  <1>2. Len(p) \in Nat /\ 1 .. Len(p) = 1 .. n
    BY <1>1, LenProperties
  <1> QED BY <1>1, <1>2

(* The k words t lie on top of the n words s. *)
Stacked(u, s, n, t, k) ==
    /\ Len(u) = n + k
    /\ \A i \in 1 .. n : u[i] = s[i]
    /\ \A i \in 1 .. k : u[n + i] = t[i]

LEMMA OnTop ==
    ASSUME NEW V, NEW s \in Seq(V), NEW t \in Seq(V), NEW n \in Nat, NEW k \in Nat,
           Len(s) = n, Len(t) = k
    PROVE  s \o t \in Seq(V) /\ Stacked(s \o t, s, n, t, k)
  <1>1. /\ s \o t \in Seq(V) /\ Len(s \o t) = n + k
        /\ \A i \in 1 .. n + k : (s \o t)[i] = IF i <= n THEN s[i] ELSE t[i - n]
    BY ConcatProperties
  <1> DEFINE u == s \o t
  <1> HIDE DEF u
  <1>2. \A i \in 1 .. n : u[i] = s[i]
    BY <1>1 DEF u
  <1>3. ASSUME NEW i \in 1 .. k PROVE u[n + i] = t[i]
    <2>1. n + i \in 1 .. n + k /\ ~(n + i <= n) /\ (n + i) - n = i
      OBVIOUS
    <2> QED BY <1>1, <2>1 DEF u
  <1> QED BY <1>1, <1>2, <1>3 DEF u, Stacked

(* pushal pushes eight words, from eax to edi. *)
LEMMA PushalWords ==
    /\ DOMAIN PUSHAL = 1 .. 8 /\ Len(PUSHAL) = 8
    /\ PUSHAL[1] = "eax" /\ PUSHAL[2] = "ecx" /\ PUSHAL[3] = "edx" /\ PUSHAL[4] = "ebx"
    /\ PUSHAL[5] = "esp" /\ PUSHAL[6] = "ebp" /\ PUSHAL[7] = "esi" /\ PUSHAL[8] = "edi"
  BY DEF PUSHAL

LEMMA RegistersAre ==
    Registers = {"eax", "ecx", "edx", "ebx", "ebp", "esi", "edi",
                 "eip", "cs", "eflags", "cr3"}
  BY DEF Registers, Abstract!Registers, Abstract!General

LEMMA FieldsAre == Range(pt_regs) = Fields
  <1>1. DOMAIN pt_regs = 1 .. 13
    BY DEF pt_regs
  <1> QED BY <1>1, RegistersAre DEF Fields, Range, pt_regs

(* Where struct pt_regs has a register: the one place with its name. *)
Slot(f) == CHOOSE i \in DOMAIN pt_regs : pt_regs[i] = f

LEMMA Slots ==
    /\ Slot("magic") = 1 /\ Slot("cr3") = 2 /\ Slot("edi") = 3 /\ Slot("esi") = 4
    /\ Slot("ebp") = 5 /\ Slot("ebx") = 7 /\ Slot("edx") = 8 /\ Slot("ecx") = 9
    /\ Slot("eax") = 10 /\ Slot("eip") = 11 /\ Slot("cs") = 12 /\ Slot("eflags") = 13
  <1>1. DOMAIN pt_regs = 1 .. 13
    BY DEF pt_regs
  <1>2. \A i \in 1 .. 13 :
            /\ pt_regs[i] = "magic" <=> i = 1
            /\ pt_regs[i] = "cr3" <=> i = 2
            /\ pt_regs[i] = "edi" <=> i = 3
            /\ pt_regs[i] = "esi" <=> i = 4
            /\ pt_regs[i] = "ebp" <=> i = 5
            /\ pt_regs[i] = "ebx" <=> i = 7
            /\ pt_regs[i] = "edx" <=> i = 8
            /\ pt_regs[i] = "ecx" <=> i = 9
            /\ pt_regs[i] = "eax" <=> i = 10
            /\ pt_regs[i] = "eip" <=> i = 11
            /\ pt_regs[i] = "cs" <=> i = 12
            /\ pt_regs[i] = "eflags" <=> i = 13
    BY DEF pt_regs
  <1> QED BY <1>1, <1>2 DEF Slot

-----------------------------------------------------------------------------
(* The words that an interrupt of a thread with registers c may push. *)
Pushable(W, c) == W \cup {c[f] : f \in Registers} \cup {MAGIC} \cup {<<"esp", n>> : n \in Nat}

(* What lies above the n words of a thread with registers c: the words of  *)
(* the processor and of pushal.                                            *)
TopIs(F, n, c) ==
    /\ F[n + 1] = c["eflags"] /\ F[n + 2] = c["cs"] /\ F[n + 3] = c["eip"]
    /\ F[n + 4] = c["eax"] /\ F[n + 5] = c["ecx"] /\ F[n + 6] = c["edx"]
    /\ F[n + 7] = c["ebx"] /\ F[n + 9] = c["ebp"] /\ F[n + 10] = c["esi"]
    /\ F[n + 11] = c["edi"]

(***************************************************************************)
(* The frame of an interrupt lies on top of the stack of the thread, and   *)
(* has the registers of the thread in the order of struct pt_regs.         *)
(***************************************************************************)
LEMMA FrameWords ==
    ASSUME NEW W, NEW s \in Seq(W), NEW c, NEW n \in Nat, n = Len(s), NEW F, F = Frame(s, c, <<>>)
    PROVE  /\ F \in Seq(Pushable(W, c)) /\ Len(F) = n + 13
           /\ \A i \in 1 .. n : F[i] = s[i]
           /\ TopIs(F, n, c) /\ F[n + 12] = c["cr3"] /\ F[n + 13] = MAGIC
           /\ Len(Interrupted(s, c, <<>>)) = n + 3
  <1> DEFINE V == Pushable(W, c)
             A == <<c["eflags"], c["cs"], c["eip"]>>
             P == Pushed(c, n + 3)
             Q == Prologue(c)
             I == s \o A
             J == I \o P
  <1>1. s \in Seq(V)
    BY SeqMonotonic DEF Pushable
  <1>2. /\ \A f \in Registers : c[f] \in V
        /\ MAGIC \in V /\ <<"esp", n + 3>> \in V
    BY DEF Pushable
  <1> HIDE DEF V
  <1>3. /\ A \in Seq(V) /\ Len(A) = 3
        /\ A[1] = c["eflags"] /\ A[2] = c["cs"] /\ A[3] = c["eip"]
    BY <1>2, RegistersAre, Words3
  <1>4. /\ Q \in Seq(V) /\ Len(Q) = 2 /\ Q[1] = c["cr3"] /\ Q[2] = MAGIC
    BY <1>2, RegistersAre, Words2 DEF Prologue
  <1>5. /\ P \in [1 .. 8 -> V]
        /\ P[1] = c["eax"] /\ P[2] = c["ecx"] /\ P[3] = c["edx"] /\ P[4] = c["ebx"]
        /\ P[6] = c["ebp"] /\ P[7] = c["esi"] /\ P[8] = c["edi"]
    BY <1>2, RegistersAre, PushalWords DEF Pushed
  <1> HIDE DEF A, P, Q
  <1>6. P \in Seq(V) /\ Len(P) = 8
    <2>1. P \in [1 .. 8 -> V] /\ 8 \in Nat
      BY <1>5
    <2> QED BY <2>1, FunctionIsSeq, Zenon
  <1>7. I \in Seq(V) /\ Stacked(I, s, n, A, 3)
    <2>1. A \in Seq(V) /\ Len(A) = 3 /\ 3 \in Nat
      BY <1>3
    <2> QED BY <1>1, <2>1, OnTop, Zenon
  <1>8. Interrupted(s, c, <<>>) = I
    BY <1>7, ConcatEmptySeq DEF Interrupted, A
  <1> HIDE DEF I
  <1>9. PICK m \in Nat : m = n + 3
    OBVIOUS
  <1>10. J \in Seq(V) /\ Stacked(J, I, m, P, 8)
    <2>1. Len(I) = m /\ 8 \in Nat
      BY <1>7, <1>9 DEF Stacked
    <2> QED BY <2>1, <1>6, <1>7, OnTop, Zenon
  <1> HIDE DEF J
  <1>11. PICK l \in Nat : l = n + 11
    OBVIOUS
  <1>12. F = J \o Q
    BY <1>7, <1>8 DEF Frame, J, P, Q, Stacked
  <1>13. F \in Seq(V) /\ Stacked(F, J, l, Q, 2)
    <2>1. Len(J) = l /\ 2 \in Nat /\ Q \in Seq(V) /\ Len(Q) = 2
      BY <1>4, <1>9, <1>10, <1>11 DEF Stacked
    <2> QED BY <2>1, <1>10, <1>12, OnTop, Zenon
  <1>14. /\ Len(I) = m /\ \A i \in 1 .. n : I[i] = s[i]
         /\ I[n + 1] = A[1] /\ I[n + 2] = A[2] /\ I[n + 3] = A[3]
    BY <1>7, <1>9 DEF Stacked
  <1>15. /\ \A i \in 1 .. m : J[i] = I[i]
         /\ \A i \in 1 .. 8 : J[m + i] = P[i]
    BY <1>10 DEF Stacked
  <1>16. /\ Len(F) = n + 13 /\ \A i \in 1 .. l : F[i] = J[i]
         /\ F[n + 12] = Q[1] /\ F[n + 13] = Q[2]
    BY <1>11, <1>13 DEF Stacked
  <1>17. ASSUME NEW i \in 1 .. n PROVE F[i] = s[i]
    <2>1. i \in 1 .. m /\ i \in 1 .. l
      BY <1>9, <1>11
    <2> QED BY <1>14, <1>15, <1>16, <2>1, Zenon
  <1>18. F[n + 1] = A[1] /\ F[n + 2] = A[2] /\ F[n + 3] = A[3]
    <2>1. ASSUME NEW i \in 1 .. m PROVE F[i] = I[i]
      <3>1. i \in 1 .. l
        BY <1>9, <1>11
      <3> QED BY <1>15, <1>16, <3>1, Zenon
    <2>2. n + 1 \in 1 .. m /\ n + 2 \in 1 .. m /\ n + 3 \in 1 .. m
      BY <1>9
    <2> QED BY <2>1, <2>2, <1>14
  <1>19. /\ F[n + 4] = P[1] /\ F[n + 5] = P[2] /\ F[n + 6] = P[3] /\ F[n + 7] = P[4]
         /\ F[n + 9] = P[6] /\ F[n + 10] = P[7] /\ F[n + 11] = P[8]
    <2>1. ASSUME NEW i \in 1 .. 8 PROVE F[m + i] = P[i]
      <3>1. m + i \in 1 .. l
        BY <1>9, <1>11
      <3> QED BY <1>15, <1>16, <3>1, Zenon
    <2>2. /\ n + 4 = m + 1 /\ n + 5 = m + 2 /\ n + 6 = m + 3 /\ n + 7 = m + 4
          /\ n + 9 = m + 6 /\ n + 10 = m + 7 /\ n + 11 = m + 8
      BY <1>9
    <2>3. /\ F[m + 1] = P[1] /\ F[m + 2] = P[2] /\ F[m + 3] = P[3] /\ F[m + 4] = P[4]
          /\ F[m + 6] = P[6] /\ F[m + 7] = P[7] /\ F[m + 8] = P[8]
      BY <2>1
    <2> QED BY <2>2, <2>3, Zenon
  <1>20. TopIs(F, n, c)
    BY <1>3, <1>5, <1>18, <1>19 DEF TopIs
  <1> QED BY <1>4, <1>8, <1>9, <1>13, <1>14, <1>16, <1>17, <1>20 DEF V

(***************************************************************************)
(* save_pre_irq_regs copies the registers of the thread, the stack pointer *)
(* that it had, and the magic word.                                        *)
(***************************************************************************)
SavedIs(p, n, c) ==
    /\ p = [f \in Fields |-> p[f]]
    /\ p["esp"] = n /\ p["magic"] = MAGIC
    /\ \A f \in Registers : p[f] = c[f]

LEMMA SavedRegs ==
    ASSUME NEW W, NEW s \in Seq(W), NEW c
    PROVE  SavedIs(save_pre_irq_regs(s, c, <<>>), Len(s), c)
  <1>1. PICK n \in Nat : n = Len(s)
    BY LenProperties
  <1>2. PICK F : F = Frame(s, c, <<>>)
    OBVIOUS
  <1> DEFINE p == save_pre_irq_regs(s, c, <<>>)
  <1>3. /\ Len(F) = n + 13 /\ Len(Interrupted(s, c, <<>>)) = n + 3
        /\ TopIs(F, n, c) /\ F[n + 12] = c["cr3"] /\ F[n + 13] = MAGIC
    BY <1>1, <1>2, FrameWords
  <1>4. p = [f \in Fields |-> IF f = "esp" THEN PreIrqEsp(n + 3)
                              ELSE F[(n + 13) + 1 - Slot(f)]]
    BY <1>2, <1>3, FieldsAre DEF save_pre_irq_regs, Slot
  <1> HIDE DEF p
  <1>5. p["esp"] = n
    BY <1>4 DEF PreIrqEsp, Fields
  <1>6. \A f \in Fields \ {"esp"} : p[f] = F[(n + 13) + 1 - Slot(f)]
    BY <1>4
  <1>7. \A f \in Registers : f \in Fields \ {"esp"}
    BY RegistersAre DEF Fields
  <1>8. "magic" \in Fields \ {"esp"}
    BY DEF Fields
  <1>9. /\ p["magic"] = F[n + 13] /\ p["cr3"] = F[n + 12] /\ p["edi"] = F[n + 11]
        /\ p["esi"] = F[n + 10] /\ p["ebp"] = F[n + 9] /\ p["ebx"] = F[n + 7]
        /\ p["edx"] = F[n + 6] /\ p["ecx"] = F[n + 5] /\ p["eax"] = F[n + 4]
        /\ p["eip"] = F[n + 3] /\ p["cs"] = F[n + 2] /\ p["eflags"] = F[n + 1]
    <2>1. /\ p["magic"] = F[(n + 13) + 1 - Slot("magic")]
          /\ \A f \in Registers : p[f] = F[(n + 13) + 1 - Slot(f)]
      BY <1>6, <1>7, <1>8, Zenon
    <2>2. ASSUME NEW f \in Registers, NEW k \in 1 .. 13, Slot(f) = k, NEW l, l = n + 14 - k
          PROVE  p[f] = F[l]
      <3>1. l = (n + 13) + 1 - k
        BY <2>2
      <3> QED BY <2>1, <2>2, <3>1, Zenon
    <2>3. p["magic"] = F[n + 13]
      BY <2>1, Slots
    <2> QED BY <2>2, <2>3, RegistersAre, Slots
  <1>10. p = [f \in Fields |-> p[f]]
    BY <1>4
  <1>11. \A f \in Registers : p[f] = c[f]
    BY <1>3, <1>9, RegistersAre DEF TopIs
  <1>12. SavedIs(p, n, c)
    BY <1>3, <1>5, <1>9, <1>10, <1>11 DEF SavedIs
  <1> QED BY <1>1, <1>12 DEF p

-----------------------------------------------------------------------------
(* The order in which popal and iretl take the words, and the place of a   *)
(* register in it.                                                         *)
Pops == Reverse(PUSHAL) \o <<"eip", "cs", "eflags">>

Place(f) == CHOOSE i \in DOMAIN Pops : Pops[i] = f

LEMMA PopsWords ==
    /\ DOMAIN Pops = 1 .. 11
    /\ Pops[1] = "edi" /\ Pops[2] = "esi" /\ Pops[3] = "ebp" /\ Pops[4] = "esp"
    /\ Pops[5] = "ebx" /\ Pops[6] = "edx" /\ Pops[7] = "ecx" /\ Pops[8] = "eax"
    /\ Pops[9] = "eip" /\ Pops[10] = "cs" /\ Pops[11] = "eflags"
  <1> DEFINE A == Reverse(PUSHAL)
             B == <<"eip", "cs", "eflags">>
             V == Registers \cup {"esp"}
  <1>1. /\ A = [i \in 1 .. 8 |-> PUSHAL[(8 - i) + 1]]
    BY PushalWords DEF Reverse
  <1>2. /\ A[1] = "edi" /\ A[2] = "esi" /\ A[3] = "ebp" /\ A[4] = "esp"
        /\ A[5] = "ebx" /\ A[6] = "edx" /\ A[7] = "ecx" /\ A[8] = "eax"
    BY <1>1, PushalWords
  <1>3. A \in [1 .. 8 -> V] /\ 8 \in Nat /\ 3 \in Nat
    BY <1>1, PushalWords, RegistersAre
  <1>4. /\ B \in Seq(V) /\ Len(B) = 3
        /\ B[1] = "eip" /\ B[2] = "cs" /\ B[3] = "eflags"
    BY RegistersAre, Words3
  <1> HIDE DEF A, B, V
  <1>5. A \in Seq(V) /\ Len(A) = 8
    BY <1>3, FunctionIsSeq, Zenon
  <1>6. A \o B \in Seq(V) /\ Stacked(A \o B, A, 8, B, 3)
    <2>1. B \in Seq(V) /\ Len(B) = 3
      BY <1>4
    <2> QED BY <1>3, <1>5, <2>1, OnTop, Zenon
  <1>7. Pops = A \o B
    BY DEF Pops, A, B
  <1>8. Pops \in Seq(V) /\ Stacked(Pops, A, 8, B, 3)
    BY <1>6, <1>7, Zenon
  <1> HIDE <1>6, <1>7
  <1>9. /\ Len(Pops) = 11
        /\ \A i \in 1 .. 8 : Pops[i] = A[i]
        /\ \A i \in 1 .. 3 : Pops[8 + i] = B[i]
    BY <1>8 DEF Stacked
  <1>10. DOMAIN Pops = 1 .. 11
    BY <1>8, <1>9, LenProperties
  <1>11. Pops[9] = B[1] /\ Pops[10] = B[2] /\ Pops[11] = B[3]
    BY <1>9
  <1> QED BY <1>2, <1>4, <1>9, <1>10, <1>11

LEMMA Places ==
    /\ Place("edi") = 1 /\ Place("esi") = 2 /\ Place("ebp") = 3 /\ Place("ebx") = 5
    /\ Place("edx") = 6 /\ Place("ecx") = 7 /\ Place("eax") = 8 /\ Place("eip") = 9
    /\ Place("cs") = 10 /\ Place("eflags") = 11
  <1>1. \A i \in 1 .. 11 :
            /\ Pops[i] = "edi" <=> i = 1
            /\ Pops[i] = "esi" <=> i = 2
            /\ Pops[i] = "ebp" <=> i = 3
            /\ Pops[i] = "ebx" <=> i = 5
            /\ Pops[i] = "edx" <=> i = 6
            /\ Pops[i] = "ecx" <=> i = 7
            /\ Pops[i] = "eax" <=> i = 8
            /\ Pops[i] = "eip" <=> i = 9
            /\ Pops[i] = "cs" <=> i = 10
            /\ Pops[i] = "eflags" <=> i = 11
    BY PopsWords
  <1> QED BY <1>1, PopsWords DEF Place

(***************************************************************************)
(* popal and iretl give the registers back from what lies on top of the n  *)
(* words of the thread.                                                    *)
(***************************************************************************)
LEMMA PoppedRegs ==
    ASSUME NEW E, NEW n \in Nat, Len(E) = n + 11, NEW c, TopIs(E, n, c)
    PROVE  Popped(E, c["cr3"]) = [f \in Registers |-> c[f]]
  <1>1. ASSUME NEW f \in Registers, f # "cr3" PROVE E[(n + 11) + 1 - Place(f)] = c[f]
    <2>1. /\ E[(n + 11) + 1 - 1] = c["edi"] /\ E[(n + 11) + 1 - 2] = c["esi"]
          /\ E[(n + 11) + 1 - 3] = c["ebp"] /\ E[(n + 11) + 1 - 5] = c["ebx"]
          /\ E[(n + 11) + 1 - 6] = c["edx"] /\ E[(n + 11) + 1 - 7] = c["ecx"]
          /\ E[(n + 11) + 1 - 8] = c["eax"] /\ E[(n + 11) + 1 - 9] = c["eip"]
          /\ E[(n + 11) + 1 - 10] = c["cs"] /\ E[(n + 11) + 1 - 11] = c["eflags"]
      BY DEF TopIs
    <2>2. /\ E[(n + 11) + 1 - Place("edi")] = c["edi"] /\ E[(n + 11) + 1 - Place("esi")] = c["esi"]
          /\ E[(n + 11) + 1 - Place("ebp")] = c["ebp"] /\ E[(n + 11) + 1 - Place("ebx")] = c["ebx"]
          /\ E[(n + 11) + 1 - Place("edx")] = c["edx"] /\ E[(n + 11) + 1 - Place("ecx")] = c["ecx"]
          /\ E[(n + 11) + 1 - Place("eax")] = c["eax"] /\ E[(n + 11) + 1 - Place("eip")] = c["eip"]
          /\ E[(n + 11) + 1 - Place("cs")] = c["cs"] /\ E[(n + 11) + 1 - Place("eflags")] = c["eflags"]
      BY <2>1, Places, Zenon
    <2> QED BY <1>1, <2>2, RegistersAre, Zenon
  <1>2. Popped(E, c["cr3"]) =
            [f \in Registers |-> IF f = "cr3" THEN c["cr3"] ELSE E[(n + 11) + 1 - Place(f)]]
    BY DEF Popped, Pops, Place
  <1> QED BY <1>1, <1>2, Zenon

(* The words of a stack, from a longer one that begins with them. *)
LEMMA Beginning ==
    ASSUME NEW V, NEW u \in Seq(V), NEW W, NEW s \in Seq(W), NEW n \in Nat, n = Len(s),
           \A i \in 1 .. n : u[i] = s[i], n <= Len(u)
    PROVE  SubSeq(u, 1, n) = s
  <1> DEFINE b == SubSeq(u, 1, n)
  <1>1. \A i \in 1 .. n : u[i] \in W
    BY ElementOfSeq
  <1>2. b \in Seq(W) /\ Len(b) = (IF 1 <= n THEN n - 1 + 1 ELSE 0)
        /\ \A i \in 1 .. n - 1 + 1 : b[i] = u[1 + i - 1]
    BY <1>1, SubSeqProperties
  <1> HIDE DEF b
  <1>3. Len(b) = n /\ \A i \in 1 .. n : b[i] = s[i]
    BY <1>2
  <1>4. b = s
    BY <1>2, <1>3, SeqEqual
  <1> QED BY <1>4 DEF b

LEMMA Shorter ==
    ASSUME NEW V, NEW u \in Seq(V), NEW l \in Nat, l <= Len(u)
    PROVE  /\ SubSeq(u, 1, l) \in Seq(V) /\ Len(SubSeq(u, 1, l)) = l
           /\ \A i \in 1 .. l : SubSeq(u, 1, l)[i] = u[i]
  <1> DEFINE b == SubSeq(u, 1, l)
  <1>1. \A i \in 1 .. l : u[i] \in V
    BY ElementOfSeq, LenProperties
  <1>2. b \in Seq(V) /\ Len(b) = (IF 1 <= l THEN l - 1 + 1 ELSE 0)
        /\ \A i \in 1 .. l - 1 + 1 : b[i] = u[1 + i - 1]
    BY <1>1, SubSeqProperties
  <1> HIDE DEF b
  <1>3. Len(b) = l /\ \A i \in 1 .. l : b[i] = u[i]
    BY <1>2
  <1> QED BY <1>2, <1>3 DEF b

(* An interrupt that returns through its epilogue changes nothing. *)
LEMMA Returned ==
    ASSUME NEW W, NEW s \in Seq(W), NEW c
    PROVE  /\ Popped(Epilogue(Frame(s, c, <<>>)), c["cr3"]) = [f \in Registers |-> c[f]]
           /\ AfterIret(Epilogue(Frame(s, c, <<>>))) = s
  <1>1. PICK n \in Nat : n = Len(s)
    BY LenProperties
  <1>2. PICK F : F = Frame(s, c, <<>>)
    OBVIOUS
  <1> DEFINE V == Pushable(W, c)
             E == Epilogue(F)
  <1>3. /\ F \in Seq(V) /\ Len(F) = n + 13
        /\ \A i \in 1 .. n : F[i] = s[i]
        /\ TopIs(F, n, c)
    BY <1>1, <1>2, FrameWords
  <1> HIDE DEF V
  <1>4. E = SubSeq(F, 1, n + 11)
    <2>1. (n + 13) - 2 = n + 11
      OBVIOUS
    <2> QED BY <1>3, <2>1 DEF Epilogue
  <1> HIDE DEF E
  <1>5. /\ E \in Seq(V) /\ Len(E) = n + 11
        /\ \A i \in 1 .. n + 11 : E[i] = F[i]
    <2>1. n + 11 \in Nat /\ n + 11 <= Len(F) /\ F \in Seq(V)
      BY <1>3
    <2> QED BY <1>4, <2>1, Shorter, Zenon
  <1>6. TopIs(E, n, c)
    <2>1. \A k \in 1 .. 11 : E[n + k] = F[n + k]
      BY <1>5
    <2> QED BY <1>3, <2>1 DEF TopIs
  <1>7. Popped(E, c["cr3"]) = [f \in Registers |-> c[f]]
    BY <1>5, <1>6, PoppedRegs
  <1>8. AfterIret(E) = s
    <2>1. (n + 11) - 11 = n /\ n <= Len(E)
      BY <1>5
    <2>2. \A i \in 1 .. n : E[i] = s[i]
      BY <1>3, <1>5
    <2>3. SubSeq(E, 1, n) = s
      BY <1>1, <1>5, <2>1, <2>2, Beginning
    <2> QED BY <1>5, <2>1, <2>3 DEF AfterIret
  <1> QED BY <1>2, <1>7, <1>8 DEF E

(* The words that arch_sched_setup_stack pushes. *)
SetUp(p) ==
    <<p.eflags, p.cs, p.eip, p.eax, p.ecx, p.edx, p.ebx,
      <<"esp", p.esp + 3>>, p.ebp, p.esi, p.edi>>

(* A thread that is switched to goes on with the registers and the stack   *)
(* pointer of its struct pt_regs.                                          *)
LEMMA Switched ==
    ASSUME NEW W, NEW s \in Seq(W), NEW p, p.esp = Len(s)
    PROVE  /\ Popped(arch_sched_setup_stack(s, p), p["cr3"]) = [f \in Registers |-> p[f]]
           /\ AfterIret(arch_sched_setup_stack(s, p)) = s
           /\ Len(arch_sched_setup_stack(s, p)) \in Nat
  <1>1. PICK n \in Nat : n = Len(s)
    BY LenProperties
  <1>2. UpTo(s, p.esp) = s
    <2>1. UpTo(s, p.esp) = [i \in 1 .. n |-> s[i]]
      BY <1>1 DEF UpTo
    <2>2. s \in [1 .. n -> W]
      BY <1>1, LenProperties
    <2> QED BY <2>1, <2>2
  <1> DEFINE V == W \cup {SetUp(p)[i] : i \in 1 .. 11}
             T == SetUp(p)
             S == s \o T
  <1>3. arch_sched_setup_stack(s, p) = S
    BY <1>2 DEF arch_sched_setup_stack, SetUp
  <1>4. T \in [1 .. 11 -> V] /\ 11 \in Nat
    <2>1. T = [i \in 1 .. 11 |-> T[i]]
      BY DEF SetUp
    <2> HIDE DEF T
    <2>2. \A i \in 1 .. 11 : T[i] \in V
      BY DEF T
    <2> QED BY <2>1, <2>2
  <1>5. s \in Seq(V)
    BY SeqMonotonic
  <1>6. /\ T[1] = p["eflags"] /\ T[2] = p["cs"] /\ T[3] = p["eip"] /\ T[4] = p["eax"]
        /\ T[5] = p["ecx"] /\ T[6] = p["edx"] /\ T[7] = p["ebx"] /\ T[9] = p["ebp"]
        /\ T[10] = p["esi"] /\ T[11] = p["edi"]
    BY DEF SetUp
  <1> HIDE DEF V, T
  <1>7. T \in Seq(V) /\ Len(T) = 11
    <2>1. PICK m \in Nat : m = 11
      OBVIOUS
    <2>2. T \in [1 .. m -> V]
      BY <1>4, <2>1, Zenon
    <2>3. T \in Seq(V) /\ Len(T) = m
      BY <2>2, FunctionIsSeq, Zenon
    <2> QED BY <2>1, <2>3, Zenon
  <1>8. S \in Seq(V) /\ Stacked(S, s, n, T, 11)
    BY <1>1, <1>4, <1>5, <1>7, OnTop, Zenon
  <1> HIDE DEF S
  <1>9. /\ Len(S) = n + 11 /\ \A i \in 1 .. n : S[i] = s[i]
        /\ \A i \in 1 .. 11 : S[n + i] = T[i]
    BY <1>8 DEF Stacked
  <1>10. TopIs(S, n, p)
    <2>1. /\ S[n + 1] = T[1] /\ S[n + 2] = T[2] /\ S[n + 3] = T[3] /\ S[n + 4] = T[4]
          /\ S[n + 5] = T[5] /\ S[n + 6] = T[6] /\ S[n + 7] = T[7] /\ S[n + 9] = T[9]
          /\ S[n + 10] = T[10] /\ S[n + 11] = T[11]
      BY <1>9
    <2> QED BY <1>6, <2>1 DEF TopIs
  <1>11. Popped(S, p["cr3"]) = [f \in Registers |-> p[f]]
    <2>1. Len(S) = n + 11
      BY <1>9
    <2> QED BY <1>10, <2>1, PoppedRegs
  <1>12. AfterIret(S) = s
    <2>1. (n + 11) - 11 = n /\ n <= Len(S)
      BY <1>9
    <2>2. SubSeq(S, 1, n) = s
      BY <1>1, <1>8, <1>9, <2>1, Beginning
    <2> QED BY <1>9, <2>1, <2>2 DEF AfterIret
  <1>13. Len(S) \in Nat
    BY <1>9
  <1> QED BY <1>3, <1>11, <1>12, <1>13

-----------------------------------------------------------------------------
(***************************************************************************)
(* The inductive invariant.  A thread that has been switched away from, or *)
(* that has not run yet, has in its struct pt_regs the stack pointer of    *)
(* the words that it has on its stack: the frame of the interrupt is no    *)
(* longer counted.  The stack pointer in the struct of the thread that     *)
(* runs, or of one that has exited, is of no use.                          *)
(***************************************************************************)
Shapes ==
    /\ cpu = [f \in Registers |-> cpu[f]]
    /\ mem = [t \in DOMAIN mem |-> mem[t]] /\ r = [t \in DOMAIN r |-> r[t]]
    /\ \A t \in DOMAIN mem : mem[t] \in Seq(Range(mem[t]))
    /\ \A t \in DOMAIN r : r[t] = [f \in Fields |-> r[t][f]]

Lives ==
    /\ current # Main => current \in DOMAIN r \ exited
    /\ current = Main => DOMAIN r = {}

SavedStacks == \A t \in DOMAIN r \ (exited \cup {current}) : r[t].esp = Len(mem[t])

CInv == TypeOK /\ halted = "no" /\ Shapes /\ Lives /\ SavedStacks

LEMMA InitCInv == Init => CInv
  <1> SUFFICES ASSUME Init PROVE CInv
    OBVIOUS
  <1>1. cpu = [f \in Registers |-> cpu[f]] /\ DOMAIN cpu = Registers
    BY DEF Init
  <1>2. /\ current = Main /\ DOMAIN mem = {Main} /\ mem[Main] = <<>> /\ DOMAIN r = {}
        /\ exited = {} /\ halted = "no"
        /\ mem = [t \in DOMAIN mem |-> mem[t]] /\ r = [t \in DOMAIN r |-> r[t]]
    BY DEF Init
  <1>3. mem[Main] \in Seq(Range(mem[Main])) /\ Len(mem[Main]) = 0
    BY <1>2
  <1> QED BY <1>1, <1>2, <1>3, ContextAssumption DEF CInv, TypeOK, Shapes, Lives, SavedStacks

(* The registers that save_pre_irq_regs has copied, in any interrupt. *)
LEMMA SavedNow == CInv => SavedIs(Saved(<<>>), Len(mem[current]), cpu)
  BY SavedRegs DEF CInv, TypeOK, Shapes, Saved

LEMMA MagicNow == CInv => MagicCheck(Saved(<<>>)) = "no"
  BY SavedNow DEF SavedIs, MagicCheck

(* What the code leaves when it goes on with thread t and registers c.  A  *)
(* thread that it does not go on with keeps its registers and its stack.   *)
Goes(t, c) ==
    /\ current' = t /\ cpu' = c /\ mem' = mem /\ halted' = "no"
    /\ DOMAIN r' = DOMAIN r /\ r' = [u \in DOMAIN r |-> r'[u]]
    /\ \A u \in DOMAIN r : r'[u] = [f \in Fields |-> r'[u][f]] /\ r'[u].esp \in Nat
    /\ \A u \in DOMAIN r \ (exited' \cup {t}) :
          /\ r'[u].esp = Len(mem[u])
          /\ \A f \in Registers : r'[u][f] = RegsOf(u)[f]

LEMMA GoesCInv ==
    ASSUME CInv, NEW t \in DOMAIN r, NEW c, c = [f \in Registers |-> c[f]], Goes(t, c),
           t \notin exited', exited' \subseteq DOMAIN r
    PROVE  CInv'
  <1>1. t # Main
    BY ContextAssumption DEF CInv, TypeOK
  <1>2. TypeOK'
    BY DEF CInv, TypeOK, Goes
  <1>3. Shapes'
    BY DEF CInv, Shapes, Goes
  <1>4. Lives' /\ SavedStacks' /\ halted' = "no"
    BY <1>1 DEF Lives, SavedStacks, Goes
  <1> QED BY <1>2, <1>3, <1>4 DEF CInv

(* Stacks m with one for t, and a struct pt_regs with stack pointer n. *)
HasStack(m, t) ==
    t \in DOMAIN m /\ m = [u \in DOMAIN m |-> m[u]] /\ m[t] \in Seq(Range(m[t]))

HasRegs(p, n) == p = [f \in Fields |-> p[f]] /\ p.esp = n

(* Thread t goes on with p, and e is stored over its stack pointer. *)
GoesOn(t, p, m, saved) ==
    /\ current' = t /\ mem' = m
    /\ cpu' = [f \in Registers |-> p[f]]
    /\ \E e \in Nat : r' = [saved EXCEPT ![t] = [p EXCEPT !.esp = e]]

(* ARCH_SWITCH_CONTEXT, to a thread whose struct pt_regs has the stack     *)
(* pointer of its stack.                                                   *)
LEMMA SwitchContext ==
    ASSUME NEW m, NEW t, HasStack(m, t), NEW p, HasRegs(p, Len(m[t])), NEW saved,
           ARCH_SWITCH_CONTEXT(t, p, m, saved)
    PROVE  GoesOn(t, p, m, saved)
  <1> DEFINE S == arch_sched_setup_stack(m[t], p)
  <1>1. /\ Popped(S, p["cr3"]) = [f \in Registers |-> p[f]]
        /\ AfterIret(S) = m[t] /\ Len(S) \in Nat
    BY Switched DEF HasStack, HasRegs
  <1>2. /\ current' = t /\ cpu' = Popped(S, p["cr3"])
        /\ mem' = [m EXCEPT ![t] = AfterIret(S)]
        /\ r' = [saved EXCEPT ![t] = [p EXCEPT !.esp = Len(S)]]
    BY DEF ARCH_SWITCH_CONTEXT, SwitchedCr3
  <1> HIDE DEF S
  <1>3. mem' = m
    BY <1>1, <1>2 DEF HasStack
  <1> QED BY <1>1, <1>2, <1>3 DEF GoesOn

-----------------------------------------------------------------------------
(* Every thread that can go on later, other than t, has its registers and  *)
(* its stack pointer in its struct pt_regs of saved.                       *)
WellSaved(saved, gone, t) ==
    /\ DOMAIN saved = DOMAIN r /\ saved = [u \in DOMAIN r |-> saved[u]]
    /\ \A u \in DOMAIN r : saved[u] = [f \in Fields |-> saved[u][f]] /\ saved[u].esp \in Nat
    /\ \A u \in DOMAIN r \ (gone \cup {t}) :
          saved[u].esp = Len(mem[u]) /\ \A f \in Registers : saved[u][f] = RegsOf(u)[f]

LEMMA StackNow == CInv => \A t \in DOMAIN mem : HasStack(mem, t) /\ Len(mem[t]) \in Nat
  BY LenProperties DEF CInv, Shapes, HasStack

LEMMA SwitchGoes ==
    ASSUME CInv, halted' = "no", NEW t \in DOMAIN r, NEW saved, WellSaved(saved, exited', t),
           NEW p, HasRegs(p, Len(mem[t])), ARCH_SWITCH_CONTEXT(t, p, mem, saved)
    PROVE  Goes(t, [f \in Registers |-> p[f]])
  <1>1. HasStack(mem, t)
    BY StackNow DEF CInv, TypeOK
  <1>2. GoesOn(t, p, mem, saved)
    BY <1>1, SwitchContext, Zenon
  <1>3. PICK e \in Nat : r' = [saved EXCEPT ![t] = [p EXCEPT !.esp = e]]
    BY <1>2 DEF GoesOn
  <1>4. /\ DOMAIN r' = DOMAIN r /\ r' = [u \in DOMAIN r |-> r'[u]]
        /\ r'[t] = [p EXCEPT !.esp = e]
        /\ \A u \in DOMAIN r \ {t} : r'[u] = saved[u]
    BY <1>3 DEF WellSaved
  <1>5. r'[t] = [f \in Fields |-> r'[t][f]] /\ r'[t].esp \in Nat
    <2>1. "esp" \in Fields
      BY DEF Fields
    <2> QED BY <1>4, <2>1 DEF HasRegs
  <1>6. \A u \in DOMAIN r : r'[u] = [f \in Fields |-> r'[u][f]] /\ r'[u].esp \in Nat
    BY <1>4, <1>5 DEF WellSaved
  <1>7. \A u \in DOMAIN r \ (exited' \cup {t}) :
            r'[u].esp = Len(mem[u]) /\ \A f \in Registers : r'[u][f] = RegsOf(u)[f]
    BY <1>4 DEF WellSaved
  <1> QED BY <1>2, <1>4, <1>6, <1>7 DEF Goes, GoesOn

(* The registers of a thread that can run, as functions. *)
LEMMA RegsOfIs ==
    ASSUME CInv, NEW u
    PROVE  /\ RegsOf(u) = [f \in Registers |-> RegsOf(u)[f]]
           /\ u # current => \A f \in Registers : RegsOf(u)[f] = r[u][f]
           /\ RegsOf(current) = cpu
  BY DEF CInv, TypeOK, Shapes, RegsOf

(* What a handler has saved when it gets to the scheduler, with q for the  *)
(* thread that is left.                                                    *)
LEMMA SavedAround ==
    ASSUME CInv, current # Main, NEW q, q = [f \in Fields |-> q[f]], q.esp \in Nat,
           NEW saved, saved = [r EXCEPT ![current] = q]
    PROVE  /\ WellSaved(saved, exited, current)
           /\ saved[current] = q /\ \A u \in DOMAIN r \ {current} : saved[u] = r[u]
  <1>1. current \in DOMAIN r
    BY DEF CInv, Lives
  <1>2. /\ DOMAIN saved = DOMAIN r /\ saved = [u \in DOMAIN r |-> saved[u]]
        /\ saved[current] = q /\ \A u \in DOMAIN r \ {current} : saved[u] = r[u]
    BY <1>1
  <1>3. \A u \in DOMAIN r : r[u] = [f \in Fields |-> r[u][f]] /\ r[u].esp \in Nat
    BY DEF CInv, TypeOK, Shapes
  <1>4. \A u \in DOMAIN r : saved[u] = [f \in Fields |-> saved[u][f]] /\ saved[u].esp \in Nat
    BY <1>2, <1>3
  <1>5. \A u \in DOMAIN r \ (exited \cup {current}) : saved[u].esp = Len(mem[u])
    BY <1>2 DEF CInv, SavedStacks
  <1>6. \A u \in DOMAIN r \ {current} : \A f \in Registers : saved[u][f] = RegsOf(u)[f]
    BY <1>2, RegsOfIs
  <1> QED BY <1>2, <1>4, <1>5, <1>6 DEF WellSaved

(* The switch of sched_schedule, to any thread that can run. *)
LEMMA ScheduleGoes ==
    ASSUME CInv, sched_schedule(<<>>)
    PROVE  \E t \in DOMAIN r \ exited : Goes(t, RegsOf(t)) /\ exited' = exited
  <1>1. PICK q : q = Saved(<<>>)
    OBVIOUS
  <1>2. SavedIs(q, Len(mem[current]), cpu) /\ halted' = "no"
    BY <1>1, SavedNow, MagicNow DEF sched_schedule
  <1>3. current \in DOMAIN r \ exited /\ current # Main /\ exited' = exited
    BY DEF CInv, Lives, sched_schedule
  <1>4. PICK saved : saved = [r EXCEPT ![current] = q]
    OBVIOUS
  <1>5. PICK t \in DOMAIN r \ exited : ARCH_SWITCH_CONTEXT(t, saved[t], mem, saved)
    BY <1>1, <1>3, <1>4 DEF sched_schedule, Runnable, SavedAll
  <1>6. Len(mem[current]) \in Nat
    BY <1>3, StackNow DEF CInv, TypeOK
  <1>7. WellSaved(saved, exited, current) /\ saved[current] = q
    BY <1>2, <1>3, <1>4, <1>6, SavedAround DEF SavedIs
  <1>8. ASSUME NEW u \in DOMAIN r \ exited
        PROVE  saved[u].esp = Len(mem[u]) /\ \A f \in Registers : saved[u][f] = RegsOf(u)[f]
    <2>1. CASE u = current
      BY <1>2, <1>7, <2>1, RegsOfIs DEF SavedIs
    <2>2. CASE u # current
      BY <1>7, <2>2 DEF WellSaved
    <2> QED BY <2>1, <2>2
  <1>9. PICK p : p = saved[t]
    OBVIOUS
  <1>10. HasRegs(p, Len(mem[t]))
    BY <1>7, <1>8, <1>9 DEF HasRegs, WellSaved
  <1>11. WellSaved(saved, exited', t)
    BY <1>3, <1>7, <1>8 DEF WellSaved
  <1>12. ARCH_SWITCH_CONTEXT(t, p, mem, saved)
    BY <1>5, <1>9
  <1>13. Goes(t, [f \in Registers |-> p[f]])
    BY <1>2, <1>10, <1>11, <1>12, SwitchGoes, Zenon
  <1>14. RegsOf(t) = [f \in Registers |-> p[f]]
    BY <1>8, <1>9, RegsOfIs
  <1> QED BY <1>3, <1>13, <1>14

(* A system call other than exit goes on with its result in eax. *)
LEMMA HubGoes ==
    ASSUME CInv, NEW v, syscall_hub(v)
    PROVE  /\ current \in DOMAIN r \ exited /\ exited' = exited
           /\ Goes(current, [cpu EXCEPT !["eax"] = Abstract!Result(v)])
  <1>1. PICK q : q = Saved(<<>>)
    OBVIOUS
  <1>2. SavedIs(q, Len(mem[current]), cpu) /\ halted' = "no"
    BY <1>1, SavedNow, MagicNow DEF syscall_hub
  <1>3. current \in DOMAIN r \ exited /\ exited' = exited
    BY DEF CInv, Lives, syscall_hub
  <1>4. PICK p : p = [q EXCEPT !.eax = Abstract!Result(v)]
    OBVIOUS
  <1>5. ARCH_SWITCH_CONTEXT(current, p, mem, r)
    BY <1>1, <1>4 DEF syscall_hub
  <1>6. "eax" \in Registers /\ "eax" \in Fields /\ "esp" \in Fields
    BY RegistersAre DEF Fields
  <1>7. HasRegs(p, Len(mem[current]))
    BY <1>2, <1>4, <1>6 DEF SavedIs, HasRegs
  <1>8. WellSaved(r, exited', current)
    BY <1>3, RegsOfIs DEF CInv, TypeOK, Shapes, SavedStacks, WellSaved
  <1>9. Goes(current, [f \in Registers |-> p[f]])
    BY <1>2, <1>3, <1>5, <1>7, <1>8, SwitchGoes, Zenon
  <1>10. [f \in Registers |-> p[f]] = [cpu EXCEPT !["eax"] = Abstract!Result(v)]
    <2>1. \A f \in Registers : p[f] = IF f = "eax" THEN Abstract!Result(v) ELSE cpu[f]
      BY <1>2, <1>4, <1>6 DEF SavedIs, Fields
    <2>2. cpu = [f \in Registers |-> cpu[f]]
      BY DEF CInv, Shapes
    <2> QED BY <1>6, <2>1, <2>2
  <1> QED BY <1>3, <1>9, <1>10

(* exit goes on with another thread. *)
LEMMA ExitGoes ==
    ASSUME CInv, syscall_exit
    PROVE  /\ current \in DOMAIN r \ exited /\ current # Main
           /\ exited' = exited \cup {current}
           /\ \E t \in DOMAIN r \ exited' : Goes(t, RegsOf(t))
  <1>1. PICK F : F = Frame(mem[current], cpu, <<>>)
    OBVIOUS
  <1>2. PICK q : q = save_pre_irq_regs(F, InHandler, <<>>)
    OBVIOUS
  <1>3. /\ current \in DOMAIN r \ exited /\ current # Main
        /\ exited' = exited \cup {current}
    BY ContextAssumption DEF CInv, Lives, syscall_exit
  <1>4. Len(F) \in Nat /\ \E V : F \in Seq(V)
    <2>1. PICK n \in Nat : n = Len(mem[current])
      BY <1>3, StackNow DEF CInv, TypeOK
    <2>2. PICK W : mem[current] \in Seq(W)
      BY <1>3, StackNow DEF CInv, TypeOK, HasStack
    <2>3. F \in Seq(Pushable(W, cpu))
      BY <1>1, <2>1, <2>2, FrameWords
    <2> QED BY <2>3, LenProperties
  <1>5. SavedIs(q, Len(F), InHandler)
    BY <1>2, <1>4, SavedRegs
  <1>6. halted' = "no"
    BY <1>1, <1>2, <1>5, MagicNow DEF syscall_exit, MagicCheck, SavedIs, TailCall
  <1>7. PICK saved : saved = [r EXCEPT ![current] = q]
    OBVIOUS
  <1>8. PICK t \in (DOMAIN r \ exited) \ {current} : ARCH_SWITCH_CONTEXT(t, saved[t], mem, saved)
    BY <1>1, <1>2, <1>7 DEF syscall_exit, Runnable, TailCall
  <1>9. WellSaved(saved, exited, current) /\ \A u \in DOMAIN r \ {current} : saved[u] = r[u]
    BY <1>3, <1>4, <1>5, <1>7, SavedAround DEF SavedIs
  <1>10. PICK p : p = saved[t]
    OBVIOUS
  <1>11. HasRegs(p, Len(mem[t])) /\ RegsOf(t) = [f \in Registers |-> p[f]]
    BY <1>8, <1>9, <1>10, RegsOfIs DEF HasRegs, WellSaved
  <1>12. WellSaved(saved, exited', t)
    BY <1>3, <1>9 DEF WellSaved
  <1>13. ARCH_SWITCH_CONTEXT(t, p, mem, saved)
    BY <1>8, <1>10
  <1>14. Goes(t, [f \in Registers |-> p[f]])
    BY <1>6, <1>8, <1>11, <1>12, <1>13, SwitchGoes, Zenon
  <1> QED BY <1>3, <1>8, <1>11, <1>14

(* An interrupt that returns: of the code that boots, or of a thread. *)
LEMMA ReturnGoes ==
    ASSUME CInv, irq_return
    PROVE  /\ exited' = exited
           /\ IF current = Main THEN UNCHANGED vars
              ELSE current \in DOMAIN r \ exited /\ Goes(current, cpu)
  <1>1. PICK q : q = Saved(<<>>)
    OBVIOUS
  <1>2. SavedIs(q, Len(mem[current]), cpu) /\ halted' = "no"
    BY <1>1, SavedNow, MagicNow DEF irq_return
  <1>3. /\ mem[current] \in Seq(Range(mem[current])) /\ Len(mem[current]) \in Nat
        /\ cpu = [f \in Registers |-> cpu[f]]
        /\ mem = [u \in DOMAIN mem |-> mem[u]]
    BY StackNow DEF CInv, TypeOK, HasStack, Shapes
  <1>4. PICK E : E = Epilogue(Frame(mem[current], cpu, <<>>))
    OBVIOUS
  <1>5. Popped(E, cpu["cr3"]) = [f \in Registers |-> cpu[f]] /\ AfterIret(E) = mem[current]
    BY <1>3, <1>4, Returned
  <1>6. cpu' = cpu /\ mem' = mem /\ current' = current /\ exited' = exited
    BY <1>3, <1>4, <1>5 DEF irq_return
  <1>7. CASE current = Main
    BY <1>2, <1>6, <1>7 DEF irq_return, SavedAll, vars, CInv
  <1>8. CASE current # Main
    <2>1. current \in DOMAIN r \ exited
      BY <1>8 DEF CInv, Lives
    <2>2. r' = [r EXCEPT ![current] = q]
      BY <1>1, <1>8 DEF irq_return, SavedAll
    <2>3. PICK saved : saved = [r EXCEPT ![current] = q]
      OBVIOUS
    <2>4. WellSaved(saved, exited, current)
      BY <1>2, <1>3, <1>8, <2>3, SavedAround DEF SavedIs
    <2>5. Goes(current, cpu)
      BY <1>2, <1>6, <2>2, <2>3, <2>4 DEF WellSaved, Goes
    <2> QED BY <1>6, <1>8, <2>1, <2>5
  <1> QED BY <1>7, <1>8

-----------------------------------------------------------------------------
(* A sequence over any set is one over its own words. *)
LEMMA OwnWords ==
    ASSUME NEW V, NEW u \in Seq(V)
    PROVE  u \in Seq(Range(u))
  <1>1. Len(u) \in Nat /\ DOMAIN u = 1 .. Len(u) /\ u = [i \in 1 .. Len(u) |-> u[i]]
    BY LenProperties
  <1>2. u \in [1 .. Len(u) -> Range(u)]
    BY <1>1 DEF Range
  <1> QED BY <1>1, <1>2, FunctionIsSeq, Zenon

(* What a thread does to its own stack. *)
LEMMA StackSteps ==
    ASSUME NEW V, NEW s \in Seq(V), Len(s) <= MaxDepth, NEW t, NEW v,
           NEW u \in Abstract!StackAfter(t, s, v)
    PROVE  u \in Seq(Range(u)) /\ Len(u) <= MaxDepth
  <1>1. Len(s) \in Nat /\ MaxDepth \in Nat
    BY LenProperties, ContextAssumption
  <1> DEFINE w == <<t, "word", v>>
  <1>2. CASE u = s
    BY <1>2, OwnWords
  <1>3. CASE Len(s) < MaxDepth /\ u = Append(s, w)
    <2> HIDE DEF w
    <2>1. s \in Seq(V \cup {w}) /\ w \in V \cup {w}
      BY SeqMonotonic
    <2>2. u \in Seq(V \cup {w}) /\ Len(u) = Len(s) + 1
      BY <1>3, <2>1, AppendProperties
    <2>3. Len(u) <= MaxDepth
      BY <1>1, <1>3, <2>2
    <2> QED BY <2>2, <2>3, OwnWords
  <1>4. CASE s # <<>> /\ u = SubSeq(s, 1, Len(s) - 1)
    <2>1. Len(s) - 1 \in Nat /\ Len(s) - 1 <= Len(s)
      BY <1>1, <1>4, EmptySeq
    <2>2. u \in Seq(V) /\ Len(u) = Len(s) - 1
      BY <1>4, <2>1, Shorter
    <2>3. Len(u) <= MaxDepth
      BY <1>1, <2>2
    <2> QED BY <2>2, <2>3, OwnWords
  <1> QED BY <1>2, <1>3, <1>4 DEF Abstract!StackAfter

LEMMA ComputeCInv ==
    ASSUME CInv, NEW v, Compute(v)
    PROVE  CInv'
  <1>1. PICK s \in Abstract!StackAfter(current, mem[current], v) :
            mem' = [mem EXCEPT ![current] = s]
    BY DEF Compute
  <1>2. s \in Seq(Range(s)) /\ Len(s) <= MaxDepth
    BY <1>1, StackSteps DEF CInv, TypeOK, Shapes
  <1>3. /\ current' = current /\ r' = r /\ exited' = exited /\ halted' = halted
        /\ cpu' = [f \in Registers |-> cpu'[f]] /\ DOMAIN cpu' = Registers
    BY DEF Compute, Abstract!Computed, Registers
  <1>4. /\ DOMAIN mem' = DOMAIN mem /\ mem' = [t \in DOMAIN mem |-> mem'[t]]
        /\ mem'[current] = s /\ \A t \in DOMAIN mem \ {current} : mem'[t] = mem[t]
    BY <1>1 DEF CInv, TypeOK, Shapes
  <1>5. TypeOK'
    BY <1>2, <1>3, <1>4 DEF CInv, TypeOK
  <1>6. Shapes'
    BY <1>2, <1>3, <1>4 DEF CInv, Shapes
  <1>7. Lives' /\ halted' = "no"
    BY <1>3 DEF CInv, Lives
  <1>8. SavedStacks'
    BY <1>3, <1>4 DEF CInv, TypeOK, SavedStacks
  <1> QED BY <1>5, <1>6, <1>7, <1>8 DEF CInv

(* The struct pt_regs of a new thread. *)
LEMMA MadeRegs ==
    ASSUME NEW t
    PROVE  /\ sched_mk_process(t) = [f \in Fields |-> sched_mk_process(t)[f]]
           /\ sched_mk_process(t).esp = 0
           /\ [f \in Registers |-> sched_mk_process(t)[f]] = Abstract!Fresh(t, cpu)
  <1> DEFINE a == Abstract!Fresh(t, cpu)
             p == sched_mk_process(t)
  <1>1. DOMAIN a = Registers /\ a = [f \in Registers |-> a[f]]
    BY DEF Abstract!Fresh, Registers
  <1> HIDE DEF a
  <1>2. p = [f \in Fields |-> CASE f = "esp" -> 0 [] f = "magic" -> <<"zero">> [] OTHER -> a[f]]
    BY DEF sched_mk_process, a
  <1>3. "esp" \in Fields /\ "esp" \notin Registers /\ "magic" \notin Registers
    BY RegistersAre DEF Fields
  <1> HIDE DEF p
  <1>4. p = [f \in Fields |-> p[f]] /\ p.esp = 0
    BY <1>2, <1>3
  <1>5. \A f \in Registers : p[f] = a[f]
    BY <1>2, <1>3 DEF Fields
  <1>6. [f \in Registers |-> p[f]] = a
    BY <1>1, <1>5
  <1> QED BY <1>4, <1>6 DEF a, p

(* The first switch, from the code that boots to the idle thread. *)
LEMMA StartGoes ==
    ASSUME CInv, sched_start_idle
    PROVE  /\ current = Main /\ DOMAIN r = {} /\ DOMAIN mem = {Main}
           /\ current' = idle /\ exited' = exited /\ exited = {} /\ halted' = "no"
           /\ cpu' = Abstract!Fresh(idle, cpu)
           /\ DOMAIN mem' = {Main, idle, init} /\ mem' = [t \in DOMAIN mem' |-> mem'[t]]
           /\ mem'[Main] = mem[Main] /\ mem'[idle] = <<>> /\ mem'[init] = <<>>
           /\ DOMAIN r' = {idle, init} /\ r' = [t \in DOMAIN r' |-> r'[t]]
           /\ r'[idle] = [f \in Fields |-> r'[idle][f]] /\ r'[idle].esp \in Nat
           /\ r'[init] = sched_mk_process(init)
  <1>1. /\ current = Main /\ DOMAIN r = {} /\ DOMAIN mem = {Main} /\ exited = {}
        /\ exited' = exited /\ halted' = "no"
    BY DEF CInv, TypeOK, Lives, sched_start_idle
  <1>2. idle # init /\ idle # Main /\ init # Main
    BY ContextAssumption
  <1>3. PICK m : m = WithStacks({idle, init})
    OBVIOUS
  <1>4. PICK saved : saved = MakeAll({idle, init})
    OBVIOUS
  <1>5. PICK p : p = sched_mk_process(idle)
    OBVIOUS
  <1>6. /\ DOMAIN m = {Main, idle, init} /\ m = [t \in DOMAIN m |-> m[t]]
        /\ m[Main] = mem[Main] /\ m[idle] = <<>> /\ m[init] = <<>>
    BY <1>1, <1>2, <1>3 DEF WithStacks
  <1>7. /\ DOMAIN saved = {idle, init} /\ saved = [t \in DOMAIN saved |-> saved[t]]
        /\ saved[init] = sched_mk_process(init)
    BY <1>1, <1>2, <1>4 DEF MakeAll
  <1>8. /\ p = [f \in Fields |-> p[f]] /\ p.esp = 0
        /\ [f \in Registers |-> p[f]] = Abstract!Fresh(idle, cpu)
    BY <1>5, MadeRegs
  <1>9. HasStack(m, idle) /\ HasRegs(p, Len(m[idle]))
    BY <1>6, <1>8 DEF HasStack, HasRegs
  <1>10. ARCH_SWITCH_CONTEXT(idle, p, m, saved)
    BY <1>3, <1>4, <1>5 DEF sched_start_idle
  <1>11. GoesOn(idle, p, m, saved)
    BY <1>9, <1>10, SwitchContext, Zenon
  <1>12. PICK e \in Nat : r' = [saved EXCEPT ![idle] = [p EXCEPT !.esp = e]]
    BY <1>11 DEF GoesOn
  <1>13. current' = idle /\ mem' = m /\ cpu' = Abstract!Fresh(idle, cpu)
    BY <1>8, <1>11 DEF GoesOn
  <1>14. /\ DOMAIN r' = {idle, init} /\ r' = [t \in DOMAIN r' |-> r'[t]]
         /\ r'[idle] = [p EXCEPT !.esp = e] /\ r'[init] = sched_mk_process(init)
    BY <1>2, <1>7, <1>12
  <1>15. r'[idle] = [f \in Fields |-> r'[idle][f]] /\ r'[idle].esp \in Nat
    <2>1. "esp" \in Fields
      BY DEF Fields
    <2> QED BY <1>8, <1>14, <2>1
  <1> QED BY <1>1, <1>6, <1>13, <1>14, <1>15

LEMMA StartCInv ==
    ASSUME CInv, sched_start_idle
    PROVE  CInv'
  <1>1. idle # init /\ idle # Main /\ init # Main /\ {idle, init} \subseteq Thread
    BY ContextAssumption
  <1>2. Len(<<>>) = 0 /\ <<>> \in Seq(Range(<<>>)) /\ 0 <= MaxDepth
    BY ContextAssumption
  <1>3. cpu' = [f \in Registers |-> cpu'[f]] /\ DOMAIN cpu' = Registers
    BY StartGoes DEF Abstract!Fresh, Registers
  <1>4. /\ r'[init] = [f \in Fields |-> r'[init][f]] /\ r'[init].esp = 0
        /\ r'[idle] = [f \in Fields |-> r'[idle][f]] /\ r'[idle].esp \in Nat
    BY StartGoes, MadeRegs
  <1>5. TypeOK'
    <2>1. \A u \in DOMAIN r' : DOMAIN r'[u] = Fields /\ r'[u].esp \in Nat
      BY <1>1, <1>4, StartGoes
    <2>2. \A u \in DOMAIN mem' : Len(mem'[u]) <= MaxDepth
      <3>1. Len(mem[Main]) <= MaxDepth
        BY StartGoes DEF CInv, TypeOK
      <3> QED BY <1>1, <1>2, <3>1, StartGoes
    <2> QED BY <1>1, <1>3, <2>1, <2>2, StartGoes DEF TypeOK
  <1>6. Shapes'
    BY <1>1, <1>2, <1>3, <1>4, StartGoes DEF CInv, Shapes
  <1>7. Lives' /\ halted' = "no"
    BY <1>1, StartGoes DEF Lives
  <1>8. SavedStacks'
    BY <1>1, <1>2, <1>4, StartGoes DEF SavedStacks
  <1> QED BY <1>5, <1>6, <1>7, <1>8 DEF CInv

(* Init makes thread t. *)
Made(t) ==
    /\ current = init /\ current # Main /\ current \in DOMAIN r \ exited
    /\ t \notin DOMAIN r /\ t # Main
    /\ current' = current /\ cpu' = cpu /\ exited' = exited /\ halted' = halted
    /\ DOMAIN mem' = DOMAIN mem \cup {t} /\ mem' = [u \in DOMAIN mem' |-> mem'[u]]
    /\ mem'[t] = <<>> /\ \A u \in DOMAIN mem : mem'[u] = mem[u]
    /\ DOMAIN r' = DOMAIN r \cup {t} /\ r' = [u \in DOMAIN r' |-> r'[u]]
    /\ r'[t] = sched_mk_process(t) /\ \A u \in DOMAIN r : r'[u] = r[u]

LEMMA MakeGoes ==
    ASSUME CInv, NEW t \in Thread, cmd_testmt(t)
    PROVE  Made(t)
  <1>1. /\ current = init /\ t \notin DOMAIN r /\ r' = MakeAll({t}) /\ mem' = WithStacks({t})
        /\ UNCHANGED <<current, cpu, exited, halted>>
    BY DEF cmd_testmt
  <1>2. t # Main /\ init # Main
    BY ContextAssumption
  <1>3. t \notin DOMAIN mem
    BY <1>1, <1>2 DEF CInv, TypeOK
  <1>4. current \in DOMAIN r \ exited
    BY <1>1, <1>2 DEF CInv, Lives
  <1>5. /\ DOMAIN r' = DOMAIN r \cup {t} /\ r' = [u \in DOMAIN r' |-> r'[u]]
        /\ r'[t] = sched_mk_process(t) /\ \A u \in DOMAIN r : r'[u] = r[u]
    BY <1>1 DEF MakeAll
  <1>6. /\ DOMAIN mem' = DOMAIN mem \cup {t} /\ mem' = [u \in DOMAIN mem' |-> mem'[u]]
        /\ mem'[t] = <<>> /\ \A u \in DOMAIN mem : mem'[u] = mem[u]
    BY <1>1, <1>3 DEF WithStacks
  <1> QED BY <1>1, <1>2, <1>4, <1>5, <1>6 DEF Made

LEMMA MakeCInv ==
    ASSUME CInv, NEW t \in Thread, cmd_testmt(t)
    PROVE  CInv'
  <1>1. Len(<<>>) = 0 /\ <<>> \in Seq(Range(<<>>)) /\ 0 <= MaxDepth
    BY ContextAssumption
  <1>2. Made(t)
    BY MakeGoes
  <1>3. r'[t] = [f \in Fields |-> r'[t][f]] /\ r'[t].esp = 0
    BY <1>2, MadeRegs DEF Made
  <1>4. TypeOK'
    <2>1. \A u \in DOMAIN r' : DOMAIN r'[u] = Fields /\ r'[u].esp \in Nat
      BY <1>2, <1>3 DEF Made, CInv, TypeOK
    <2>2. \A u \in DOMAIN mem' : Len(mem'[u]) <= MaxDepth
      BY <1>1, <1>2 DEF Made, CInv, TypeOK
    <2> QED BY <1>2, <2>1, <2>2 DEF Made, CInv, TypeOK
  <1>5. Shapes'
    <2>1. /\ cpu' = [f \in Registers |-> cpu'[f]]
          /\ mem' = [u \in DOMAIN mem' |-> mem'[u]] /\ r' = [u \in DOMAIN r' |-> r'[u]]
      BY <1>2, Zenon DEF Made, CInv, Shapes
    <2>2. \A u \in DOMAIN mem' : mem'[u] \in Seq(Range(mem'[u]))
      BY <1>1, <1>2, Zenon DEF Made, CInv, Shapes
    <2>3. \A u \in DOMAIN r' : r'[u] = [f \in Fields |-> r'[u][f]]
      BY <1>2, <1>3, Zenon DEF Made, CInv, Shapes
    <2> QED BY <2>1, <2>2, <2>3, Zenon DEF Shapes
  <1>6. Lives' /\ halted' = "no"
    BY <1>2 DEF Made, CInv, Lives
  <1>7. SavedStacks'
    BY <1>1, <1>2, <1>3 DEF Made, CInv, TypeOK, SavedStacks
  <1> QED BY <1>4, <1>5, <1>6, <1>7 DEF CInv

-----------------------------------------------------------------------------
(* Every step goes on with some thread, makes threads, or computes. *)
LEMMA NextCInv == CInv /\ [Next]_vars => CInv'
  <1> SUFFICES ASSUME CInv, [Next]_vars PROVE CInv'
    OBVIOUS
  <1>1. ASSUME NEW v \in Version, Compute(v) PROVE CInv'
    BY <1>1, ComputeCInv
  <1>2. ASSUME NEW v \in Version, syscall_hub(v) PROVE CInv'
    <2>1. PICK c : c = [cpu EXCEPT !["eax"] = Abstract!Result(v)]
      OBVIOUS
    <2>2. c = [f \in Registers |-> c[f]]
      BY <2>1 DEF CInv, Shapes
    <2>3. current \in DOMAIN r \ exited /\ exited' = exited /\ Goes(current, c)
      BY <1>2, <2>1, HubGoes
    <2> QED BY <2>2, <2>3, GoesCInv DEF CInv, TypeOK
  <1>3. CASE irq_return
    <2>1. CASE current = Main
      BY <1>3, <2>1, ReturnGoes DEF vars, CInv, TypeOK, Shapes, Lives, SavedStacks
    <2>2. CASE current # Main
      <3>1. current \in DOMAIN r \ exited /\ exited' = exited /\ Goes(current, cpu)
        BY <1>3, <2>2, ReturnGoes
      <3> QED BY <3>1, GoesCInv DEF CInv, TypeOK, Shapes
    <2> QED BY <2>1, <2>2
  <1>4. CASE sched_schedule(<<>>)
    <2>1. PICK t \in DOMAIN r \ exited : Goes(t, RegsOf(t)) /\ exited' = exited
      BY <1>4, ScheduleGoes
    <2> QED BY <2>1, RegsOfIs, GoesCInv DEF CInv, TypeOK
  <1>5. CASE syscall_exit
    <2>1. PICK t \in DOMAIN r \ exited' : Goes(t, RegsOf(t))
      BY <1>5, ExitGoes
    <2>2. exited' \subseteq DOMAIN r
      BY <1>5, ExitGoes DEF CInv, TypeOK
    <2> QED BY <2>1, <2>2, RegsOfIs, GoesCInv
  <1>6. CASE sched_start_idle
    BY <1>6, StartCInv
  <1>7. ASSUME NEW t \in Thread, cmd_testmt(t) PROVE CInv'
    BY <1>7, MakeCInv
  <1>8. CASE UNCHANGED vars
    BY <1>8 DEF vars, CInv, TypeOK, Shapes, Lives, SavedStacks
  <1> QED BY <1>1, <1>2, <1>3, <1>4, <1>5, <1>6, <1>7, <1>8
          DEF Next, pit_irq, post_schedule_noirq, TailCall

(* The invariant holds in every state. *)
THEOREM ContextInductive == Spec => []CInv
  BY InitCInv, NextCInv, PTL DEF Spec

(***************************************************************************)
(* save_pre_irq_regs never panics: it finds the magic word in every        *)
(* interrupt, also in the one that exit raises (x86.h, sched.c).           *)
(***************************************************************************)
THEOREM MagicAlwaysFound == Spec => []MagicFound
<1>1. CInv => MagicFound
  BY DEF CInv, MagicFound
<1> QED BY <1>1, ContextInductive, PTL

-----------------------------------------------------------------------------
(* The refinement mapping, under the invariant: the stack of every thread  *)
(* that lives is what mem has of it.                                       *)
Regs == [t \in Alive |-> RegsOf(t)]
Stacks == [t \in Alive |-> mem[t]]

LEMMA StacksAre == CInv => [t \in Alive |-> StackOf(t)] = Stacks
  <1> SUFFICES ASSUME CInv, NEW t \in Alive PROVE StackOf(t) = mem[t]
    BY DEF Stacks
  <1>1. CASE t = current
    BY <1>1 DEF StackOf
  <1>2. CASE t # current
    <2>1. t \in DOMAIN mem /\ r[t].esp = Len(mem[t])
      BY <1>2 DEF CInv, TypeOK, SavedStacks, Alive
    <2>2. mem[t] \in [1 .. Len(mem[t]) -> Range(mem[t])]
      BY <2>1, StackNow, LenProperties DEF HasStack
    <2>3. UpTo(mem[t], Len(mem[t])) = [i \in 1 .. Len(mem[t]) |-> mem[t][i]]
      BY <2>1, StackNow DEF UpTo
    <2> QED BY <1>2, <2>1, <2>2, <2>3 DEF StackOf
  <1> QED BY <1>1, <1>2

LEMMA AliveIs == CInv => /\ current = Main => Alive = {Main}
                         /\ current # Main => Alive = DOMAIN r \ exited
                         /\ Main \notin DOMAIN r /\ current \in Alive
  BY ContextAssumption DEF CInv, TypeOK, Lives, Alive

(* What Goes means to the threads. *)
LEMMA GoesMeans ==
    ASSUME CInv, CInv', current # Main, NEW t \in DOMAIN r \ exited', NEW c, Goes(t, c)
    PROVE  /\ Alive' = DOMAIN r \ exited' /\ current' = t
           /\ Regs' = [u \in DOMAIN r \ exited' |-> IF u = t THEN c ELSE RegsOf(u)]
           /\ Stacks' = [u \in DOMAIN r \ exited' |-> mem[u]]
  <1>1. t # Main /\ current' = t /\ cpu' = c /\ DOMAIN r' = DOMAIN r /\ mem' = mem
    BY AliveIs DEF Goes
  <1>2. Alive' = DOMAIN r \ exited'
    BY <1>1 DEF Alive
  <1>3. ASSUME NEW u \in DOMAIN r \ exited', u # t PROVE RegsOf(u)' = RegsOf(u)
    <2>1. RegsOf(u)' = [f \in Registers |-> r'[u][f]]
      BY <1>1, <1>3 DEF RegsOf, CInv, TypeOK
    <2>2. \A f \in Registers : r'[u][f] = RegsOf(u)[f]
      BY <1>3 DEF Goes
    <2>3. RegsOf(u) = [f \in Registers |-> RegsOf(u)[f]]
      BY RegsOfIs
    <2> QED BY <2>1, <2>2, <2>3
  <1>4. RegsOf(t)' = c
    BY <1>1 DEF RegsOf
  <1>5. Regs' = [u \in DOMAIN r \ exited' |-> IF u = t THEN c ELSE RegsOf(u)]
    BY <1>2, <1>3, <1>4 DEF Regs
  <1>6. Stacks' = [u \in DOMAIN r \ exited' |-> mem[u]]
    BY <1>1, <1>2 DEF Stacks
  <1> QED BY <1>1, <1>2, <1>5, <1>6

(* The abstract actions, in terms of Regs and Stacks. *)
LEMMA Mapped ==
    ASSUME CInv, CInv'
    PROVE  /\ [t \in Alive |-> RegsOf(t)] = Regs /\ [t \in Alive |-> RegsOf(t)]' = Regs'
           /\ [t \in Alive |-> StackOf(t)] = Stacks /\ [t \in Alive |-> StackOf(t)]' = Stacks'
           /\ DOMAIN Regs = Alive /\ DOMAIN Regs' = Alive'
  <1>1. (CInv => [t \in Alive |-> StackOf(t)] = Stacks)'
    BY StacksAre, PTL
  <1> QED BY <1>1, StacksAre DEF Regs

(* A step of the code is a step of the threads, or none. *)
LEMMA NextThreads == CInv /\ CInv' /\ [Next]_vars => [Abstract!Next]_(Abstract!vars)
  <1> SUFFICES ASSUME CInv, CInv', [Next]_vars PROVE [Abstract!Next]_(Abstract!vars)
    OBVIOUS
  <1>1. ASSUME NEW v \in Version, Compute(v) PROVE Abstract!Computes
    <2>1. PICK s \in Abstract!StackAfter(current, mem[current], v) :
              mem' = [mem EXCEPT ![current] = s]
      BY <1>1 DEF Compute
    <2>2. /\ current' = current /\ r' = r /\ exited' = exited
          /\ cpu' = Abstract!Computed(current, cpu, v)
      BY <1>1 DEF Compute
    <2>3. Alive' = Alive /\ current \in Alive /\ Alive \subseteq DOMAIN mem
      BY <2>2, AliveIs DEF Alive, CInv, TypeOK
    <2>4. DOMAIN cpu = Registers /\ DOMAIN cpu' = Registers
      BY DEF CInv, TypeOK
    <2>5. \A t \in Alive \ {current} : RegsOf(t)' = RegsOf(t)
      BY <2>2, <2>4 DEF RegsOf
    <2>6. RegsOf(current)' = Abstract!Computed(current, RegsOf(current), v)
      BY <2>2 DEF RegsOf
    <2>7. Regs' = [Regs EXCEPT ![current] = Abstract!Computed(current, Regs[current], v)]
      BY <2>3, <2>5, <2>6, <2>2 DEF Regs
    <2>8. Stacks' = [Stacks EXCEPT ![current] = s] /\ Stacks[current] = mem[current]
      BY <2>1, <2>3 DEF Stacks
    <2> QED BY <2>1, <2>2, <2>7, <2>8, Mapped DEF Abstract!Computes
  <1>2. ASSUME NEW v \in Version, syscall_hub(v) PROVE Abstract!Calls
    <2>1. PICK c : c = [cpu EXCEPT !["eax"] = Abstract!Result(v)]
      OBVIOUS
    <2>2. current \in DOMAIN r \ exited /\ exited' = exited /\ Goes(current, c)
      BY <1>2, <2>1, HubGoes
    <2>3. current # Main /\ Alive = DOMAIN r \ exited
      BY <2>2, AliveIs
    <2>4. /\ current' = current
          /\ Regs' = [u \in Alive |-> IF u = current THEN c ELSE RegsOf(u)]
          /\ Stacks' = [u \in Alive |-> mem[u]]
      BY <2>2, <2>3, GoesMeans
    <2>5. Regs' = [Regs EXCEPT ![current]["eax"] = Abstract!Result(v)]
      BY <2>1, <2>4, RegsOfIs DEF Regs
    <2> QED BY <2>4, <2>5, Mapped DEF Abstract!Calls, Stacks
  <1>3. CASE irq_return
    <2>1. CASE current = Main
      BY <1>3, <2>1, ReturnGoes DEF vars, Abstract!vars, Alive, RegsOf, StackOf
    <2>2. CASE current # Main
      <3>1. current \in DOMAIN r \ exited /\ exited' = exited /\ Goes(current, cpu)
        BY <1>3, <2>2, ReturnGoes
      <3>2. Alive = DOMAIN r \ exited
        BY <2>2, AliveIs
      <3>3. /\ current' = current
            /\ Regs' = [u \in Alive |-> IF u = current THEN cpu ELSE RegsOf(u)]
            /\ Stacks' = [u \in Alive |-> mem[u]]
        BY <2>2, <3>1, <3>2, GoesMeans
      <3>4. Regs' = Regs /\ Stacks' = Stacks
        BY <3>3, RegsOfIs DEF Regs, Stacks
      <3> QED BY <3>3, <3>4, Mapped DEF Abstract!vars
    <2> QED BY <2>1, <2>2
  <1>4. CASE sched_schedule(<<>>)
    <2>1. PICK t \in DOMAIN r \ exited : Goes(t, RegsOf(t)) /\ exited' = exited
      BY <1>4, ScheduleGoes
    <2>2. current # Main /\ Alive = DOMAIN r \ exited
      BY <1>4, AliveIs DEF sched_schedule
    <2>3. /\ current' = t
          /\ Regs' = [u \in Alive |-> IF u = t THEN RegsOf(t) ELSE RegsOf(u)]
          /\ Stacks' = [u \in Alive |-> mem[u]]
      BY <2>1, <2>2, GoesMeans
    <2>4. Regs' = Regs /\ Stacks' = Stacks
      BY <2>3 DEF Regs, Stacks
    <2>5. Abstract!Switches
      BY <2>1, <2>2, <2>3, <2>4, Mapped DEF Abstract!Switches
    <2> QED BY <2>5 DEF Abstract!Next
  <1>5. CASE syscall_exit
    <2>1. PICK t \in DOMAIN r \ exited' : Goes(t, RegsOf(t))
      BY <1>5, ExitGoes
    <2>2. current # Main /\ exited' = exited \cup {current}
      BY <1>5, ExitGoes
    <2>3. Alive \ {current} = DOMAIN r \ exited'
      BY <2>2, AliveIs
    <2>4. /\ current' = t
          /\ Regs' = [u \in Alive \ {current} |-> IF u = t THEN RegsOf(t) ELSE RegsOf(u)]
          /\ Stacks' = [u \in Alive \ {current} |-> mem[u]]
      BY <2>1, <2>2, <2>3, GoesMeans
    <2>5. /\ Regs' = [u \in Alive \ {current} |-> Regs[u]]
          /\ Stacks' = [u \in Alive \ {current} |-> Stacks[u]]
      BY <2>4 DEF Regs, Stacks
    <2>6. Abstract!Exits
      BY <2>1, <2>2, <2>3, <2>4, <2>5, Mapped DEF Abstract!Exits
    <2> QED BY <2>6 DEF Abstract!Next
  <1>6. CASE sched_start_idle
    <2>1. idle # init /\ idle # Main /\ init # Main /\ {idle, init} \subseteq Thread
      BY ContextAssumption
    <2>2. Alive = {Main} /\ Alive' = {idle, init}
      BY <1>6, <2>1, StartGoes, AliveIs DEF Alive
    <2>3. RegsOf(current) = cpu /\ Regs[current] = cpu
      BY <1>6, <2>2, StartGoes DEF RegsOf, Regs
    <2>4. RegsOf(idle)' = Abstract!Fresh(idle, cpu)
      BY <1>6, StartGoes DEF RegsOf
    <2>5. RegsOf(init)' = Abstract!Fresh(init, cpu)
      <3>1. DOMAIN cpu' = Registers
        BY DEF CInv, TypeOK
      <3> QED BY <1>6, <2>1, <3>1, StartGoes, MadeRegs DEF RegsOf
    <2>6. Regs' = [t \in {idle, init} |-> Abstract!Fresh(t, Regs[current])]
      BY <2>2, <2>3, <2>4, <2>5 DEF Regs
    <2>7. Stacks' = [t \in {idle, init} |-> <<>>]
      BY <1>6, <2>2, StartGoes DEF Stacks
    <2>8. current = Main /\ current' = idle
      BY <1>6, StartGoes
    <2>9. /\ DOMAIN Regs' \ DOMAIN Regs = {idle, init} /\ DOMAIN Regs \ {Main} = {}
      BY <2>1, <2>2, Mapped
    <2>10. Abstract!Makes
      BY <2>1, <2>6, <2>7, <2>8, <2>9, Mapped DEF Abstract!Makes
    <2> QED BY <2>10 DEF Abstract!Next
  <1>7. ASSUME NEW t \in Thread, cmd_testmt(t) PROVE Abstract!Makes
    <2>1. Made(t)
      BY <1>7, MakeGoes
    <2>2. /\ current # Main /\ current' = current /\ cpu' = cpu
          /\ Alive = DOMAIN r \ exited /\ t \notin Alive /\ Main \notin Alive
      BY <2>1, AliveIs DEF Made
    <2>3. Alive' = Alive \cup {t}
      BY <2>1, <2>2 DEF Alive, Made, CInv, TypeOK
    <2>4. RegsOf(current) = cpu /\ Regs[current] = cpu
      BY <2>2, AliveIs DEF RegsOf, Regs
    <2>5. RegsOf(t)' = Abstract!Fresh(t, cpu)
      <3>1. DOMAIN cpu = Registers /\ t # current
        BY <2>1 DEF CInv, TypeOK, Made
      <3> QED BY <2>1, <3>1, MadeRegs DEF RegsOf, Made
    <2>6. \A u \in Alive : RegsOf(u)' = RegsOf(u) /\ mem'[u] = mem[u]
      BY <2>1, <2>2 DEF RegsOf, Made, CInv, TypeOK
    <2>7. mem'[t] = <<>>
      BY <2>1 DEF Made
    <2>8. Regs' = [u \in Alive \cup {t} |->
                      IF u \in {t} THEN Abstract!Fresh(u, Regs[current]) ELSE Regs[u]]
      BY <2>2, <2>3, <2>4, <2>5, <2>6 DEF Regs
    <2>9. Stacks' = [u \in Alive \cup {t} |-> IF u \in {t} THEN <<>> ELSE Stacks[u]]
      BY <2>2, <2>3, <2>6, <2>7 DEF Stacks
    <2>10. DOMAIN Regs' \ DOMAIN Regs = {t} /\ DOMAIN Regs \ {Main} = Alive
      BY <2>2, <2>3, Mapped
    <2> QED BY <2>2, <2>8, <2>9, <2>10, Mapped DEF Abstract!Makes
  <1>8. CASE UNCHANGED vars
    BY <1>8 DEF vars, Abstract!vars, Alive, RegsOf, StackOf
  <1> QED BY <1>1, <1>2, <1>3, <1>4, <1>5, <1>6, <1>7, <1>8
          DEF Next, Abstract!Next, pit_irq, post_schedule_noirq, TailCall

LEMMA InitThreads == Init => Abstract!Init
  <1> SUFFICES ASSUME Init PROVE Abstract!Init
    OBVIOUS
  <1>1. CInv
    BY InitCInv
  <1>2. current = Main /\ mem[Main] = <<>> /\ Alive = {Main}
    BY <1>1, AliveIs DEF Init
  <1>3. [t \in Alive |-> StackOf(t)] = [t \in {Main} |-> <<>>]
    BY <1>1, <1>2, StacksAre DEF Stacks
  <1> QED BY <1>2, <1>3 DEF Abstract!Init

(***************************************************************************)
(* The entry and exit code of interrupts, save_pre_irq_regs and            *)
(* arch_sched_setup_stack implement threads that have registers and stacks *)
(* of their own (x86.h, arch/x86/sched.c).                                 *)
(***************************************************************************)
THEOREM ThreadsImplemented == Spec => ImplementsThreads
<1>1. CInv /\ CInv' /\ [Next]_vars => [Abstract!Next]_(Abstract!vars)
  BY NextThreads
<1> QED BY <1>1, InitThreads, ContextInductive, PTL DEF Spec, ImplementsThreads, Abstract!Spec
=============================================================================
