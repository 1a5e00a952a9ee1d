---------------------------- MODULE DeviceProofs ----------------------------
(***************************************************************************)
(* The devices: the disk driver (Ata), the keyboard driver (Keyboard) and  *)
(* interrupt delivery (Irq), for every geometry of the disk, every buffer  *)
(* of the keyboard and every set of interrupt lines, and the output side   *)
(* of the terminal (Terminal), for every set of printers and every size of *)
(* its buffer.  The four are separate systems here, with variables and a   *)
(* specification each.                                                     *)
(***************************************************************************)
EXTENDS Ata, Keyboard, Irq, Terminal, FiniteSetTheorems, SequenceTheorems, TLAPS

(***************************************************************************)
(* The disk driver.                                                        *)
(***************************************************************************)
WordsOfDrive ==
    {<<"junk">>} \cup ({"none", "identify", "read"} \X (0 .. Sectors - 1) \X Nat)

DriveType ==
    [st : {"ready", "written", "busy"}, cmd : {"none", "identify", "read"},
     lba : 0 .. Sectors - 1, left : 0 .. Words, err : BOOLEAN]

CallType == [pos : Nat, count : 0 .. MaxCount, i : Nat, w : 0 .. Words]

RegsType == (0 .. Nibble - 1) \X (0 .. Byte - 1) \X (0 .. Byte - 1) \X (0 .. Byte - 1)

Records ==
    /\ bus \in {"drive", "none", "open"}
    /\ regs \in RegsType
    /\ drive \in DriveType
    /\ pc \in {"identify", "status", "id_data", "idle", "one", "delay", "bsy", "drq", "data",
               "stopped"}
    /\ call \in CallType
    /\ buf \in Seq(WordsOfDrive)
    /\ reads \in 0 .. MaxReads

Flags == online \in BOOLEAN /\ ignored \in BOOLEAN

InRead == pc \in {"one", "delay", "bsy", "drq", "data", "stopped"}

(***************************************************************************)
(* How far the read has come, in sectors and words, and what that is in    *)
(* words of the caller's buffer.                                           *)
(***************************************************************************)
Progress ==
    /\ InRead =>
          /\ 0 < call.count /\ call.pos + call.count <= Sectors
          /\ Len(buf) = call.i * Words + call.w
          /\ call.i <= call.count
          /\ pc # "one" => call.i < call.count
          /\ pc = "data" => call.w < Words
          /\ pc # "data" => call.w = 0
    /\ ~InRead =>
          /\ call.count = 0 /\ call.i = 0
          /\ pc # "idle" => buf = <<>>
          /\ Len(buf) <= MaxCount * Words

(***************************************************************************)
(* What the drive does while the driver is in one of its steps.  Only the  *)
(* first command of a read can meet a drive that is busy; from the wait    *)
(* for the command to the last word the drive is at the sector that was    *)
(* asked for, unless it has missed the command.                            *)
(***************************************************************************)
InStep ==
    bus = "drive" =>
        /\ drive.st = "busy" => drive.left = 0
        /\ pc \in {"bsy", "drq", "data"} => drive.st # "written"
        /\ pc \in {"drq", "data", "stopped"} => drive.st = "ready"
        /\ pc \in {"delay", "bsy", "drq"} /\ drive.st = "ready" => drive.left \in {0, Words}
        /\ pc = "data" => drive.left = Words - call.w
        /\ pc = "one" /\ call.i > 0 => drive.st = "ready" /\ drive.left = 0
        /\ pc \in {"delay", "bsy", "drq", "data", "stopped"} /\ ~ignored =>
              drive.cmd = "read" /\ drive.lba = call.pos + call.i

(* Without a drive nothing happens to it, and nothing is ever read. *)
NoDrive ==
    /\ bus # "drive" =>
          /\ pc \notin {"drq", "data", "stopped"}
          /\ drive.st = "ready" /\ drive.left = 0
    /\ bus = "none" => pc \in {"identify", "status", "idle"} /\ ~online

StopsInRead == StopsOnReadError /\ (halted # "no" <=> pc = "stopped")

AInv ==
    Records /\ Flags /\ Progress /\ InStep /\ NoDrive /\ SectorsExact /\ StopsInRead

-----------------------------------------------------------------------------
(* Division with remainder, by what determines it. *)
LEMMA Quotient ==
    ASSUME NEW m \in Nat \ {0}, NEW a \in Nat
    PROVE  /\ a \div m \in Nat /\ a % m \in 0 .. m - 1
           /\ a = m * (a \div m) + (a % m)
OBVIOUS

LEMMA QuotientUnique ==
    ASSUME NEW m \in Nat \ {0}, NEW a \in Nat, NEW q \in Nat, NEW d \in 0 .. m - 1,
           a = m * q + d
    PROVE  a \div m = q /\ a % m = d
OBVIOUS

LEMMA Commutes ==
    ASSUME NEW m \in Nat, NEW n \in Nat
    PROVE  m * n = n * m /\ m * n \in Nat
OBVIOUS

(* A number below m times n, written with a digit below m at its end. *)
LEMMA Digit ==
    ASSUME NEW m \in Nat, NEW n \in Nat, NEW q \in Nat, NEW d \in 0 .. m - 1
    PROVE  /\ m * q + d < m * n => q < n
           /\ q < n => m * q + d < m * n
<1>1. ASSUME q >= n PROVE m * q >= m * n
  <2>1. PICK x \in Nat : q = n + x
    BY <1>1
  <2>2. m * q = m * n + m * x /\ m * x \in Nat
    BY <2>1
  <2> QED BY <2>2
<1>2. ASSUME q < n PROVE m * n >= m * q + m
  <2>1. PICK x \in Nat : n = q + 1 + x
    <3>1. n - q - 1 \in Nat /\ n = q + 1 + (n - q - 1)
      BY <1>2
    <3> QED BY <3>1
  <2>2. m * n = m * q + m + m * x /\ m * x \in Nat
    BY <2>1
  <2> QED BY <2>2
<1>3. m * q \in Nat /\ m * n \in Nat
  OBVIOUS
<1> QED BY <1>1, <1>2, <1>3

(***************************************************************************)
(* The registers that ata_read_one writes select the sector that it means, *)
(* for every sector whose number fits into them.                           *)
(***************************************************************************)
LEMMA SplitAddress ==
    ASSUME NEW lba \in 0 .. Sectors - 1
    PROVE  /\ Address(Split(lba)) = lba
           /\ Split(lba) \in (0 .. Nibble - 1) \X (0 .. Byte - 1) \X (0 .. Byte - 1)
                              \X (0 .. Byte - 1)
<1> DEFINE q1 == lba \div Byte
           r0 == lba % Byte
           q2 == q1 \div Byte
           r1 == q1 % Byte
           q3 == q2 \div Byte
           r2 == q2 % Byte
<1>0. /\ Byte \in Nat \ {0} /\ Nibble \in Nat \ {0} /\ lba \in Nat
      /\ lba < Byte * Byte * Byte * Nibble
  BY AtaAssumption DEF Sectors
<1>1. q1 \in Nat /\ r0 \in 0 .. Byte - 1 /\ lba = Byte * q1 + r0
  BY <1>0, Quotient
<1> HIDE DEF q1, r0
<1>2. q2 \in Nat /\ r1 \in 0 .. Byte - 1 /\ q1 = Byte * q2 + r1
  BY <1>0, <1>1, Quotient
<1> HIDE DEF q2, r1
<1>3. q3 \in Nat /\ r2 \in 0 .. Byte - 1 /\ q2 = Byte * q3 + r2
  BY <1>0, <1>2, Quotient
<1> HIDE DEF q3, r2
<1> DEFINE B2 == Byte * Byte
           B3 == Byte * Byte * Byte
           d2 == Byte * r1 + r0
           d3 == B2 * r2 + d2
<1>4. B2 \in Nat \ {0} /\ B3 \in Nat \ {0} /\ B3 = B2 * Byte
  BY <1>0
<1>5. d2 \in 0 .. B2 - 1 /\ lba = B2 * q2 + d2
  <2>1. Byte * r1 + r0 < Byte * Byte
    BY <1>0, <1>1, <1>2, Digit
  <2>2. lba = Byte * (Byte * q2 + r1) + r0
    BY <1>1, <1>2
  <2>3. Byte * (Byte * q2 + r1) = (Byte * Byte) * q2 + Byte * r1
    BY <1>0, <1>2
  <2>4. Byte * r1 \in Nat /\ (Byte * Byte) * q2 \in Nat
    BY <1>0, <1>2
  <2> QED BY <1>0, <1>1, <2>1, <2>2, <2>3, <2>4
<1> HIDE DEF B2, d2
<1>6. d3 \in 0 .. B3 - 1 /\ lba = B3 * q3 + d3
  <2>1. B2 * r2 + d2 < B2 * Byte
    BY <1>0, <1>3, <1>4, <1>5, Digit
  <2>2. lba = B2 * (Byte * q3 + r2) + d2
    BY <1>3, <1>5
  <2>3. B2 * (Byte * q3 + r2) = (B2 * Byte) * q3 + B2 * r2
    BY <1>0, <1>3, <1>4
  <2>4. B2 * r2 \in Nat /\ (B2 * Byte) * q3 \in Nat
    BY <1>0, <1>3, <1>4
  <2> QED BY <1>4, <1>5, <2>1, <2>2, <2>3, <2>4
<1>7. q3 < Nibble
  <2>1. B3 * q3 + d3 < B3 * Nibble
    BY <1>0, <1>6
  <2> HIDE DEF B3, d3
  <2> QED BY <1>0, <1>3, <1>4, <1>6, <2>1, Digit
<1>8. q3 % Nibble = q3
  <2>1. q3 = Nibble * 0 + q3 /\ q3 \in 0 .. Nibble - 1 /\ 0 \in Nat
    BY <1>0, <1>3, <1>7
  <2> QED BY <1>0, <1>3, <2>1, QuotientUnique, Zenon
<1> HIDE DEF B3, d3
<1>9. lba \div B2 = q2 /\ lba \div B3 = q3
  <2>1. lba \div B2 = q2
    BY <1>0, <1>2, <1>4, <1>5, QuotientUnique, Zenon
  <2>2. lba \div B3 = q3
    BY <1>0, <1>3, <1>4, <1>6, QuotientUnique, Zenon
  <2> QED BY <2>1, <2>2
<1>10. Split(lba) = <<q3, r2, r1, r0>>
  BY <1>8, <1>9, Zenon DEF Split, B2, B3, r0, r1, r2, q1
<1>11. Address(<<q3, r2, r1, r0>>) = ((q3 * Byte + r2) * Byte + r1) * Byte + r0
  BY DEF Address
<1>12. ((q3 * Byte + r2) * Byte + r1) * Byte + r0 = lba
  <2>1. q3 * Byte + r2 = q2
    BY <1>0, <1>3
  <2>2. q2 * Byte + r1 = q1
    BY <1>0, <1>2
  <2>3. q1 * Byte + r0 = lba
    BY <1>0, <1>1
  <2> QED BY <2>1, <2>2, <2>3, Zenon
<1>13. q3 \in 0 .. Nibble - 1
  BY <1>0, <1>3, <1>7
<1> QED BY <1>1, <1>2, <1>3, <1>10, <1>11, <1>12, <1>13

-----------------------------------------------------------------------------
LEMMA Positive ==
    /\ Words \in Nat \ {0} /\ Byte \in Nat \ {0} /\ Nibble \in Nat \ {0}
    /\ MaxCount \in Nat \ {0} /\ MaxReads \in Nat \ {0} /\ Sectors \in Nat \ {0}
<1>1. /\ Words \in Nat \ {0} /\ Byte \in Nat \ {0} /\ Nibble \in Nat \ {0}
      /\ MaxCount \in Nat \ {0} /\ MaxReads \in Nat \ {0}
  BY AtaAssumption
<1>2. \A x, y \in Nat \ {0} : x * y \in Nat \ {0}
  OBVIOUS
<1> QED BY <1>1, <1>2 DEF Sectors

LEMMA InitAInv == Init => AInv
<1> SUFFICES ASSUME Init PROVE AInv
  OBVIOUS
<1> USE Positive DEF Init, NoCall, Ready
<1>1. /\ drive.st = "ready" /\ drive.left = 0
      /\ call.count = 0 /\ call.i = 0 /\ Len(buf) = 0
  OBVIOUS
<1>2. regs \in RegsType
  BY DEF RegsType
<1>3. drive \in DriveType /\ call \in CallType
  BY DEF DriveType, CallType
<1>4. Records
  BY <1>2, <1>3 DEF Records
<1>5. Flags
  BY DEF Flags
<1>6. MaxCount * Words \in Nat
  OBVIOUS
<1>7. Progress
  BY <1>1, <1>6 DEF Progress, InRead
<1>8. InStep /\ NoDrive /\ SectorsExact /\ StopsInRead
  BY <1>1 DEF InStep, NoDrive, SectorsExact, StopsInRead, StopsOnReadError
<1> QED BY <1>4, <1>5, <1>7, <1>8 DEF AInv

(* The invariant gives the properties of the run. *)
LEMMA AInvReadsExact == AInv => ReadsExact
<1> SUFFICES ASSUME AInv PROVE ReadsExact
  OBVIOUS
<1> USE Positive
<1>1. /\ call.pos \in Nat /\ call.count \in 0 .. MaxCount /\ call.i \in Nat
      /\ call.w \in 0 .. Words /\ Len(buf) \in Nat
  BY DEF AInv, Records, CallType
<1>2. call.i \in 0 .. call.count
  BY <1>1 DEF AInv, Progress
<1>3. InRead => Len(buf) <= call.count * Words
  <2> SUFFICES ASSUME InRead PROVE Len(buf) <= call.count * Words
    OBVIOUS
  <2>1. Len(buf) = call.i * Words + call.w /\ call.i <= call.count
    BY DEF AInv, Progress
  <2>2. CASE call.i < call.count
    <3>1. PICK x \in Nat : call.count = call.i + 1 + x
      <4>1. /\ call.count - call.i - 1 \in Nat
            /\ call.count = call.i + 1 + (call.count - call.i - 1)
        BY <1>1, <2>2
      <4> QED BY <1>1, <4>1
    <3>2. call.count * Words = call.i * Words + Words + x * Words /\ x * Words \in Nat
      BY <1>1, <3>1
    <3>3. call.i * Words \in Nat
      BY <1>1
    <3>4. \A a, b, n, m \in Nat :
              n = a + call.w /\ m = a + Words + b => n <= m
      BY <1>1
    <3>5. call.count * Words \in Nat
      BY <1>1
    <3> QED BY <1>1, <2>1, <3>2, <3>3, <3>4, <3>5, Zenon
  <2>3. CASE call.i = call.count
    <3>1. call.w = 0
      BY <1>1, <2>3 DEF AInv, Progress, InRead
    <3>2. call.count * Words \in Nat
      BY <1>1
    <3> QED BY <2>1, <2>3, <3>1, <3>2
  <2> QED BY <1>1, <2>1, <2>2, <2>3
<1>4. call.count * Words <= MaxCount * Words /\ MaxCount * Words \in Nat /\ call.count * Words \in Nat
  <2>1. PICK x \in Nat : MaxCount = call.count + x
    <3>1. MaxCount - call.count \in Nat
      BY <1>1
    <3> QED BY <1>1, <3>1
  <2>2. MaxCount * Words = call.count * Words + x * Words /\ x * Words \in Nat
    BY <1>1, <2>1
  <2> QED BY <1>1, <2>2
<1>5. /\ Len(buf) <= MaxCount * Words
      /\ pc # "idle" => Len(buf) <= call.count * Words
  <2>1. CASE InRead
    BY <1>1, <1>3, <1>4, <2>1
  <2>2. CASE ~InRead
    <3>1. Len(<<>>) = 0
      OBVIOUS
    <3> QED BY <1>4, <2>2, <3>1 DEF AInv, Progress
  <2> QED BY <2>1, <2>2
<1>6. /\ drive.st \in {"ready", "written", "busy"} /\ drive.cmd \in {"none", "identify", "read"}
      /\ drive.lba \in 0 .. Sectors - 1 /\ drive.left \in 0 .. Words
  BY DEF AInv, Records, DriveType
<1>7. drive.err \in BOOLEAN /\ online \in BOOLEAN /\ ignored \in BOOLEAN
  BY Zenon DEF AInv, Records, Flags, DriveType
<1>8. TypeOK
  BY <1>1, <1>2, <1>5, <1>6, <1>7 DEF AInv, Records, RegsType, TypeOK
<1>9. DataWhenOffered
  BY <1>1, <1>6 DEF AInv, Progress, InRead, InStep, DataWhenOffered
<1> QED BY <1>8, <1>9 DEF AInv, ReadsExact

-----------------------------------------------------------------------------
(* The fields of the drive and of the call. *)
LEMMA Fields ==
    ASSUME AInv
    PROVE  /\ call.pos \in Nat /\ call.count \in 0 .. MaxCount /\ call.i \in Nat
           /\ call.w \in 0 .. Words /\ Len(buf) \in Nat
           /\ drive.st \in {"ready", "written", "busy"}
           /\ drive.cmd \in {"none", "identify", "read"}
           /\ drive.lba \in 0 .. Sectors - 1 /\ drive.left \in 0 .. Words
BY DEF AInv, Records, CallType, DriveType

(* The status of the drive, and the locals of ata_read, after a step. *)
DriveWith(d, st, left, err) == [d EXCEPT !.st = st, !.left = left, !.err = err]

CallWith(cl, w, sec) == [cl EXCEPT !.w = w, !.i = sec]

LEMMA DriveStep ==
    ASSUME NEW d \in DriveType, NEW st \in {"ready", "written", "busy"},
           NEW left \in 0 .. Words, NEW err \in BOOLEAN
    PROVE  /\ DriveWith(d, st, left, err) \in DriveType
           /\ DriveWith(d, st, left, err).st = st
           /\ DriveWith(d, st, left, err).left = left
           /\ DriveWith(d, st, left, err).cmd = d.cmd
           /\ DriveWith(d, st, left, err).lba = d.lba
BY DEF DriveType, DriveWith

LEMMA CallStep ==
    ASSUME NEW cl \in CallType, NEW w \in 0 .. Words, NEW sec \in Nat
    PROVE  /\ CallWith(cl, w, sec) \in CallType
           /\ CallWith(cl, w, sec).pos = cl.pos /\ CallWith(cl, w, sec).count = cl.count
           /\ CallWith(cl, w, sec).w = w /\ CallWith(cl, w, sec).i = sec
BY DEF CallType, CallWith

(* The drive takes the command, or ends it with data or an error. *)
LEMMA DriveAInv ==
    ASSUME AInv, Takes \/ Ends
    PROVE  AInv'
<1> USE Positive
<1>1. UNCHANGED <<bus, regs, pc, call, buf, online, reads, ignored, halted>>
  BY DEF Takes, Ends
<1>2. /\ drive' \in DriveType
      /\ drive.st = "written" => drive'.st = "busy" /\ drive'.left = 0
      /\ drive.st # "written" =>
            drive.st = "busy" /\ drive'.st = "ready" /\ drive'.left \in {0, Words}
      /\ drive'.cmd = drive.cmd /\ drive'.lba = drive.lba
  <2>1. CASE Takes
    <3>1. PICK err \in BOOLEAN : drive' = DriveWith(drive, "busy", 0, err)
      BY <2>1, Zenon DEF Takes, DriveWith
    <3>2. drive.st = "written" /\ drive \in DriveType
      BY <2>1 DEF Takes, AInv, Records
    <3>3. /\ drive' \in DriveType /\ drive'.st = "busy" /\ drive'.left = 0
          /\ drive'.cmd = drive.cmd /\ drive'.lba = drive.lba
      BY <3>1, <3>2, DriveStep
    <3> QED BY <3>2, <3>3
  <2>2. CASE Ends
    <3>1. PICK err \in BOOLEAN : drive' = [drive EXCEPT !.st = "ready", !.err = err,
                                           !.left = IF err THEN 0 ELSE Words]
      BY <2>2 DEF Ends
    <3> DEFINE left == IF err THEN 0 ELSE Words
    <3>2. left \in {0, Words}
      OBVIOUS
    <3>3. drive.st = "busy" /\ drive \in DriveType
      BY <2>2 DEF Ends, AInv, Records
    <3>4. drive' = DriveWith(drive, "ready", left, err)
      BY <3>1, <3>3 DEF DriveType, DriveWith
    <3> HIDE DEF left
    <3>5. /\ drive' \in DriveType /\ drive'.st = "ready" /\ drive'.left = left
          /\ drive'.cmd = drive.cmd /\ drive'.lba = drive.lba
      <4>1. left \in 0 .. Words
        BY <3>2
      <4> QED BY <3>3, <3>4, <4>1, DriveStep
    <3> QED BY <3>2, <3>3, <3>5
  <2> QED BY <2>1, <2>2
<1>3. drive.st # "ready" /\ bus = "drive"
  BY DEF Takes, Ends, AInv, NoDrive
<1>4. pc \notin {"drq", "data", "stopped"} /\ ~(pc = "one" /\ call.i > 0)
  BY <1>3 DEF AInv, InStep
<1>5. Records' /\ Flags' /\ Progress' /\ NoDrive'
  BY <1>1, <1>2, <1>3 DEF AInv, Records, Flags, Progress, InRead, NoDrive
<1>6. InStep'
  BY <1>1, <1>2, <1>3, <1>4 DEF AInv, InStep
<1>7. SectorsExact' /\ StopsInRead'
  BY <1>1, <1>4 DEF AInv, SectorsExact, StopsInRead, StopsOnReadError
<1> QED BY <1>5, <1>6, <1>7 DEF AInv

(* A command that is written is taken down unless the drive is busy. *)
LEMMA WrittenIs ==
    ASSUME AInv, NEW cmd \in {"identify", "read"}, NEW r \in RegsType,
           Address(r) \in 0 .. Sectors - 1
    PROVE  /\ Written(cmd, r) \in DriveType
           /\ Written(cmd, r).left = drive.left
           /\ drive.st = "busy" => Written(cmd, r) = drive
           /\ drive.st # "busy" =>
                 /\ Written(cmd, r).st = "written" /\ Written(cmd, r).cmd = cmd
                 /\ Written(cmd, r).lba = Address(r)
BY DEF AInv, Records, DriveType, Written

(* One word less in the drive. *)
LEMMA AfterWordIs ==
    ASSUME AInv
    PROVE  /\ AfterWord \in DriveType
           /\ AfterWord.st = drive.st /\ AfterWord.cmd = drive.cmd
           /\ AfterWord.lba = drive.lba /\ AfterWord.err = drive.err
           /\ AfterWord.left = IF drive.left = 0 THEN 0 ELSE drive.left - 1
<1>1. drive \in DriveType
  BY DEF AInv, Records
<1>2. CASE drive.left = 0
  BY <1>1, <1>2 DEF AfterWord
<1>3. CASE drive.left # 0
  <2>1. PICK n : n = drive.left - 1
    OBVIOUS
  <2>2. n \in 0 .. Words
    BY <1>1, <1>3, <2>1, Positive DEF DriveType
  <2>3. AfterWord = [drive EXCEPT !.left = n]
    BY <1>3, <2>1 DEF AfterWord
  <2> QED BY <1>1, <1>3, <2>1, <2>2, <2>3 DEF DriveType
<1> QED BY <1>2, <1>3

(* What the driver can tell from the status register. *)
LEMMA StatusBits ==
    ASSUME AInv
    PROVE  /\ bus = "none" => Status = {}
           /\ bus = "open" => "BSY" \in Status
           /\ bus = "drive" /\ "BSY" \notin Status => drive.st # "busy"
           /\ bus = "drive" /\ "DRQ" \in Status => drive.left > 0
           /\ bus = "drive" /\ "ERR" \in Status => drive.err
BY DEF AInv, Records, Status

LEMMA IdentifyAInv ==
    ASSUME AInv, ide_identify \/ identify_status \/ identify_data
    PROVE  AInv'
<1> USE Positive
<1> DEFINE Outside == {"identify", "status", "id_data", "idle"}
<1>1. /\ UNCHANGED <<bus, buf, reads, ignored, halted>>
      /\ pc \in Outside \ {"idle"} /\ pc' \in Outside
  BY DEF ide_identify, identify_status, identify_data
<1>2. /\ call.count = 0 /\ call.i = 0 /\ buf = <<>> /\ Len(buf) = 0
  BY <1>1 DEF AInv, Progress, InRead
<1>3. regs' \in RegsType /\ online' \in BOOLEAN /\ ignored' \in BOOLEAN
  <2>1. regs' = regs \/ regs' = <<0, 0, 0, 0>>
    BY DEF ide_identify, identify_status, identify_data
  <2>2. <<0, 0, 0, 0>> \in RegsType
    BY DEF RegsType
  <2>3. online' = online \/ online' = TRUE
    BY DEF ide_identify, identify_status, identify_data
  <2> QED BY <1>1, <2>1, <2>2, <2>3, Zenon DEF AInv, Records, Flags
<1>4. call' \in CallType /\ call'.count = 0 /\ call'.i = 0
  BY <1>2 DEF ide_identify, identify_status, identify_data, AInv, Records, CallType, NoCall
<1>5. /\ drive' \in DriveType
      /\ drive'.st = "busy" => drive.st = "busy" /\ (drive.left = 0 => drive'.left = 0)
      /\ bus # "drive" => drive'.st = drive.st /\ (drive.left = 0 => drive'.left = 0)
  <2>1. CASE ide_identify
    <3>1. <<0, 0, 0, 0>> \in RegsType
      BY DEF RegsType
    <3>2. Address(<<0, 0, 0, 0>>) = 0
      BY DEF Address
    <3>3. drive' = IF bus = "drive" THEN Written("identify", <<0, 0, 0, 0>>) ELSE drive
      BY <2>1 DEF ide_identify
    <3> QED BY <3>1, <3>2, <3>3, WrittenIs DEF AInv, Records
  <2>2. CASE identify_status
    BY <2>2 DEF identify_status, AInv, Records
  <2>3. CASE identify_data
    <3>1. drive' = drive \/ drive' = AfterWord
      BY <2>3 DEF identify_data
    <3> QED BY <3>1, AfterWordIs DEF AInv, Records
  <2> QED BY <2>1, <2>2, <2>3
<1>6. Records' /\ Flags'
  BY <1>1, <1>3, <1>4, <1>5 DEF AInv, Records, Flags
<1>7. MaxCount * Words \in Nat
  OBVIOUS
<1>8. Progress'
  BY <1>1, <1>2, <1>4, <1>7 DEF Progress, InRead
<1>9. InStep'
  BY <1>1, <1>5 DEF AInv, InStep
<1>11. bus = "none" => pc' \in {"identify", "status", "idle"} /\ ~online'
  <2>1. bus = "none" => pc # "id_data" /\ ~online
    BY DEF AInv, NoDrive
  <2> QED BY <2>1, StatusBits DEF ide_identify, identify_status, identify_data
<1>12. NoDrive'
  BY <1>1, <1>5, <1>11 DEF AInv, NoDrive
<1>10. SectorsExact' /\ StopsInRead'
  BY <1>1, <1>4 DEF AInv, SectorsExact, StopsInRead, StopsOnReadError
<1> QED BY <1>6, <1>8, <1>9, <1>10, <1>12 DEF AInv

(* The beginning and the end of a read. *)
LEMMA ReadAInv ==
    ASSUME AInv, NEW count \in 1 .. MaxCount, NEW pos \in 0 .. Sectors - count,
           ata_read(pos, count)
    PROVE  AInv'
<1> USE Positive
<1>1. /\ UNCHANGED <<bus, regs, drive, online, ignored, halted>>
      /\ pc = "idle" /\ pc' = "one" /\ buf' = <<>> /\ Len(buf') = 0
      /\ reads' \in 0 .. MaxReads
  BY DEF ata_read, AInv, Records
<1>2. /\ call' \in CallType /\ call'.pos = pos /\ call'.count = count /\ call'.i = 0
      /\ call'.w = 0
  <2>1. call' = [pos |-> pos, count |-> count, i |-> 0, w |-> 0]
    BY DEF ata_read, NoCall
  <2>2. pos \in Nat /\ count \in 0 .. MaxCount
    OBVIOUS
  <2> QED BY <2>1, <2>2 DEF CallType
<1>3. buf' \in Seq(WordsOfDrive)
  BY <1>1
<1>4. Records'
  BY <1>1, <1>2, <1>3 DEF AInv, Records
<1>5. 0 * Words = 0
  OBVIOUS
<1>6. Progress' /\ Flags'
  BY <1>1, <1>2, <1>5 DEF AInv, Progress, InRead, Flags
<1>8. online
  BY DEF ata_read
<1>7. InStep' /\ NoDrive' /\ SectorsExact' /\ StopsInRead'
  BY <1>1, <1>2, <1>8 DEF AInv, InStep, NoDrive, SectorsExact, StopsInRead, StopsOnReadError
<1> QED BY <1>4, <1>6, <1>7 DEF AInv

LEMMA DoneAInv ==
    ASSUME AInv, read_done
    PROVE  AInv'
<1> USE Positive
<1>1. /\ UNCHANGED <<bus, regs, drive, buf, online, reads, ignored, halted>>
      /\ pc = "one" /\ pc' = "idle"
      /\ call' \in CallType /\ call'.count = 0 /\ call'.i = 0
  BY DEF read_done, NoCall, CallType
<1>2. Len(buf) <= MaxCount * Words
  BY AInvReadsExact DEF ReadsExact, TypeOK
<1>3. Records' /\ Flags'
  BY <1>1 DEF AInv, Records, Flags
<1>4. Progress'
  BY <1>1, <1>2 DEF Progress, InRead
<1>5. InStep' /\ NoDrive' /\ SectorsExact' /\ StopsInRead'
  BY <1>1 DEF AInv, InStep, NoDrive, SectorsExact, StopsInRead, StopsOnReadError
<1> QED BY <1>3, <1>4, <1>5 DEF AInv

(* The command for a sector is written. *)
LEMMA OneAInv ==
    ASSUME AInv, ata_read_one
    PROVE  AInv'
<1> USE Positive
<1>1. /\ UNCHANGED <<bus, call, buf, online, reads, halted>>
      /\ pc = "one" /\ pc' = "delay" /\ call.i < call.count
      /\ regs' = Split(call.pos + call.i)
      /\ drive' = IF bus = "drive" THEN Written("read", regs') ELSE drive
  BY DEF ata_read_one
<1>2. call.pos + call.i \in 0 .. Sectors - 1
  <2>1. call.pos + call.count <= Sectors
    BY <1>1 DEF AInv, Progress, InRead
  <2>2. call.pos \in Nat /\ call.i \in Nat /\ call.count \in Nat /\ Sectors \in Nat
    BY Fields
  <2>3. call.i < call.count
    BY <1>1
  <2>4. \A p, sec, n, m \in Nat : p + n <= m /\ sec < n => p + sec \in 0 .. m - 1
    OBVIOUS
  <2> QED BY <2>1, <2>2, <2>3, <2>4, Zenon
<1>3. regs' \in RegsType /\ Address(regs') = call.pos + call.i
  BY <1>1, <1>2, SplitAddress DEF RegsType
<1>4. /\ drive' \in DriveType
      /\ drive'.left = drive.left
      /\ bus = "drive" /\ drive.st = "busy" => drive' = drive
      /\ bus = "drive" /\ drive.st # "busy" =>
            drive'.st = "written" /\ drive'.cmd = "read" /\ drive'.lba = call.pos + call.i
      /\ bus # "drive" => drive' = drive
  <2>1. CASE bus = "drive"
    BY <1>1, <1>2, <1>3, <2>1, WrittenIs
  <2>2. CASE bus # "drive"
    BY <1>1, <2>2 DEF AInv, Records
  <2> QED BY <2>1, <2>2
<1>5. ignored' \in BOOLEAN /\ (~ignored' => ~ignored /\ drive.st # "busy")
  BY Zenon DEF ata_read_one, AInv, Flags
<1>6. Records' /\ Flags'
  BY <1>1, <1>3, <1>4, <1>5 DEF AInv, Records, Flags
<1>7. Progress'
  BY <1>1 DEF AInv, Progress, InRead
<1>8. InStep' /\ NoDrive'
  BY <1>1, <1>4, <1>5 DEF AInv, InStep, NoDrive
<1>9. SectorsExact' /\ StopsInRead'
  BY <1>1, <1>5 DEF AInv, SectorsExact, StopsInRead, StopsOnReadError
<1> QED BY <1>6, <1>7, <1>8, <1>9 DEF AInv

(* The driver waits for the command to be taken and the drive to be ready. *)
LEMMA PollAInv ==
    ASSUME AInv, ide_400ns_delay \/ poll_bsy
    PROVE  AInv'
<1> USE Positive
<1>1. /\ UNCHANGED <<bus, regs, drive, call, buf, online, reads, ignored, halted>>
      /\ \/ pc = "delay" /\ pc' = "bsy" /\ drive.st # "written"
         \/ pc = "bsy" /\ pc' = "drq" /\ "BSY" \notin Status
  BY DEF ide_400ns_delay, poll_bsy, DelayOver
<1>2. Records' /\ Flags' /\ Progress'
  BY <1>1 DEF AInv, Records, Flags, Progress, InRead
<1>3. pc' = "drq" => bus = "drive" /\ drive.st = "ready"
  <2> SUFFICES ASSUME pc' = "drq" PROVE bus = "drive" /\ drive.st = "ready"
    OBVIOUS
  <2>1. "BSY" \notin Status /\ pc = "bsy"
    BY <1>1
  <2>2. bus = "drive"
    \* Without a drive the driver never gets here: there is no read of one
    \* that is not there, and the status of an open bus is always busy.
    BY <2>1, StatusBits DEF AInv, Records, NoDrive
  <2> QED BY <2>1, <2>2, StatusBits, Fields DEF AInv, InStep
<1>4. InStep' /\ NoDrive'
  BY <1>1, <1>3 DEF AInv, InStep, NoDrive
<1>5. SectorsExact' /\ StopsInRead'
  BY <1>1 DEF AInv, SectorsExact, StopsInRead, StopsOnReadError
<1> QED BY <1>2, <1>4, <1>5 DEF AInv

LEMMA DrqAInv ==
    ASSUME AInv, poll_drq
    PROVE  AInv'
<1> USE Positive
<1>1. /\ UNCHANGED <<bus, regs, drive, call, buf, online, reads, ignored>>
      /\ pc = "drq"
      /\ \/ pc' = "stopped" /\ "ERR" \in Status
         \/ pc' = "data" /\ halted' = "no" /\ "DRQ" \in Status
      /\ halted' # "no" <=> pc' = "stopped"
  BY DEF poll_drq, ErrorSeen
<1>2. bus = "drive" /\ drive.st = "ready" /\ drive.left \in {0, Words} /\ call.w = 0
  BY <1>1 DEF AInv, NoDrive, InStep, Progress, InRead
<1>3. Records' /\ Flags'
  BY <1>1 DEF AInv, Records, Flags
<1>4. Progress'
  BY <1>1, <1>2 DEF AInv, Progress, InRead
<1>5. pc' = "data" => drive.left = Words
  BY <1>1, <1>2, StatusBits
<1>6. InStep' /\ NoDrive'
  BY <1>1, <1>2, <1>5 DEF AInv, InStep, NoDrive
<1>7. ~ignored => drive.cmd = "read"
  BY <1>1, <1>2 DEF AInv, InStep
<1>8. pc' = "stopped" => drive.err
  BY <1>1, <1>2, StatusBits
<1>9. SectorsExact'
  BY <1>1 DEF AInv, SectorsExact
<1>10. StopsInRead'
  BY <1>1, <1>7, <1>8 DEF StopsInRead, StopsOnReadError
<1> QED BY <1>3, <1>4, <1>6, <1>9, <1>10 DEF AInv

(* One word of the sector. *)
LEMMA WordAInv ==
    ASSUME AInv, read_word
    PROVE  AInv'
<1> USE Positive
<1>1. /\ UNCHANGED <<bus, regs, online, reads, ignored, halted>>
      /\ pc = "data" /\ drive' = AfterWord /\ buf' = Append(buf, DataWord)
      /\ IF call.w + 1 = Words
         THEN call' = [call EXCEPT !.w = 0, !.i = @ + 1] /\ pc' = "one"
         ELSE call' = [call EXCEPT !.w = call.w + 1] /\ pc' = "data"
  BY DEF read_word, LastWord
<1>2. /\ bus = "drive" /\ drive.st = "ready" /\ drive.left = Words - call.w
      /\ call.w < Words /\ call.i < call.count
      /\ 0 < call.count /\ call.pos + call.count <= Sectors
      /\ ~ignored => drive.cmd = "read" /\ drive.lba = call.pos + call.i
  BY <1>1 DEF AInv, NoDrive, InStep, Progress, InRead
<1>3. /\ call' \in CallType /\ call'.pos = call.pos /\ call'.count = call.count
      /\ call.w + 1 = Words => call'.w = 0 /\ call'.i = call.i + 1
      /\ call.w + 1 # Words => call'.w = call.w + 1 /\ call'.i = call.i
  <2>1. call \in CallType
    BY DEF AInv, Records
  <2>2. CASE call.w + 1 = Words
    <3>1. call' = CallWith(call, 0, call.i + 1)
      BY <1>1, <2>1, <2>2 DEF CallType, CallWith
    <3> DEFINE n == call.i + 1
    <3>2. 0 \in 0 .. Words /\ n \in Nat
      BY Fields
    <3>4. call' = CallWith(call, 0, n)
      BY <3>1
    <3> HIDE DEF n
    <3>3. /\ call' \in CallType /\ call'.pos = call.pos /\ call'.count = call.count
          /\ call'.w = 0 /\ call'.i = n
      BY <2>1, <3>2, <3>4, CallStep
    <3> QED BY <2>2, <3>3 DEF n
  <2>3. CASE call.w + 1 # Words
    <3>1. call' = [call EXCEPT !.w = call.w + 1] /\ call.w + 1 \in 0 .. Words
      BY <1>1, <1>2, <2>1, <2>3 DEF CallType
    <3> QED BY <2>1, <2>3, <3>1 DEF CallType
  <2> QED BY <2>2, <2>3
<1>4. /\ DataWord = <<drive.cmd, drive.lba, call.w + 1>>
      /\ DataWord \in WordsOfDrive
  <2>1. drive.left > 0 /\ Words - drive.left + 1 = call.w + 1
    BY <1>2, Fields
  <2>2. DataWord = <<drive.cmd, drive.lba, call.w + 1>>
    BY <1>2, <2>1 DEF DataWord
  <2>3. /\ drive.cmd \in {"none", "identify", "read"} /\ drive.lba \in 0 .. Sectors - 1
        /\ call.w + 1 \in Nat
    BY Fields
  <2> QED BY <2>2, <2>3, Zenon DEF WordsOfDrive
<1>5. /\ buf \in Seq(WordsOfDrive) /\ buf' \in Seq(WordsOfDrive)
      /\ Len(buf') = Len(buf) + 1
      /\ \A k \in 1 .. Len(buf) : buf'[k] = buf[k]
      /\ buf'[Len(buf) + 1] = DataWord
      /\ DOMAIN buf' = 1 .. Len(buf) + 1 /\ DOMAIN buf = 1 .. Len(buf)
  BY <1>1, <1>4 DEF AInv, Records
<1>6. /\ drive' \in DriveType /\ drive'.st = "ready" /\ drive'.cmd = drive.cmd
      /\ drive'.lba = drive.lba /\ drive'.left = Words - (call.w + 1)
  <2>1. drive.left # 0 /\ drive.left - 1 = Words - (call.w + 1)
    BY <1>2, Fields
  <2> QED BY <1>1, <1>2, <2>1, AfterWordIs
<1>7. Records' /\ Flags'
  BY <1>1, <1>3, <1>5, <1>6 DEF AInv, Records, Flags
<1>8. Progress'
  <2>1. Len(buf) = call.i * Words + call.w
    BY <1>1 DEF AInv, Progress, InRead
  <2>2. /\ Len(buf) + 1 = call.i * Words + (call.w + 1)
        /\ call.w + 1 = Words => Len(buf) + 1 = (call.i + 1) * Words + 0
    <3> DEFINE sec == call.i
               w == call.w
               n == Len(buf)
    <3>1. sec \in Nat /\ w \in 0 .. Words /\ n \in Nat /\ n = sec * Words + w
      BY <2>1, Fields
    <3> HIDE DEF sec, w, n
    <3>2. /\ n + 1 = sec * Words + (w + 1)
          /\ w + 1 = Words => n + 1 = (sec + 1) * Words + 0
      <4>1. Words \in Nat \ {0}
        OBVIOUS
      <4>2. sec * Words \in Nat /\ (sec + 1) * Words = sec * Words + Words
        BY <3>1, <4>1
      <4> QED BY <3>1, <4>1, <4>2
    <3> QED BY <3>2, Zenon DEF sec, w, n
  <2>3. Len(buf') = call'.i * Words + call'.w
    BY <1>3, <1>5, <2>2, Zenon
  <2>4. 0 < call'.count /\ call'.pos + call'.count <= Sectors
    BY <1>2, <1>3
  <2>5. /\ call'.i <= call'.count /\ (pc' # "one" => call'.i < call'.count)
        /\ (pc' = "data" => call'.w < Words) /\ (pc' # "data" => call'.w = 0)
        /\ pc' \in {"one", "data"}
    <3>1. CASE call.w + 1 = Words
      <4>1. /\ call'.w = 0 /\ call'.i = call.i + 1 /\ call'.count = call.count
            /\ pc' = "one"
        BY <1>1, <1>3, <3>1
      <4>2. call.i + 1 <= call.count
        BY <1>2, Fields
      <4> QED BY <4>1, <4>2
    <3>2. CASE call.w + 1 # Words
      <4>1. /\ call'.w = call.w + 1 /\ call'.i = call.i /\ call'.count = call.count
            /\ pc' = "data"
        BY <1>1, <1>3, <3>2
      <4>2. call.w + 1 < Words
        BY <1>2, <3>2, Fields
      <4> QED BY <1>2, <4>1, <4>2, Fields
    <3> QED BY <3>1, <3>2
  <2> QED BY <2>3, <2>4, <2>5 DEF Progress, InRead
<1>9. InStep' /\ NoDrive'
  <2>1. pc' = "data" => drive'.left = Words - call'.w
    BY <1>1, <1>3, <1>6
  <2>2. pc' = "one" => drive'.left = 0
    BY <1>1, <1>3, <1>6, Fields
  <2>3. pc' = "data" /\ ~ignored => drive'.cmd = "read" /\ drive'.lba = call'.pos + call'.i
    BY <1>1, <1>2, <1>3, <1>6
  <2> QED BY <1>1, <1>2, <1>6, <2>1, <2>2, <2>3 DEF InStep, NoDrive
<1>10. SectorsExact'
  <2> SUFFICES ASSUME ~ignored, NEW k \in 1 .. Len(buf) + 1
               PROVE  buf'[k] = <<"read", call.pos + ((k - 1) \div Words),
                                  ((k - 1) % Words) + 1>>
    BY <1>1, <1>2, <1>3, <1>5 DEF SectorsExact
  <2>1. CASE k \in 1 .. Len(buf)
    BY <1>2, <1>5, <2>1 DEF AInv, SectorsExact
  <2>2. CASE k = Len(buf) + 1
    <3>1. k - 1 \in Nat /\ call.w \in 0 .. Words - 1 /\ k - 1 = Words * call.i + call.w
      <4>1. Len(buf) = call.i * Words + call.w
        BY <1>1 DEF AInv, Progress, InRead
      <4>2. Len(buf) = Words * call.i + call.w
        BY <4>1, Fields, Commutes
      <4>3. k - 1 = Len(buf) /\ call.w \in 0 .. Words - 1
        BY <1>2, <2>2, Fields
      <4> QED BY <4>2, <4>3, Fields, Zenon
    <3>2. (k - 1) \div Words = call.i /\ (k - 1) % Words = call.w
      BY <3>1, Fields, QuotientUnique, Zenon
    <3> QED BY <1>2, <1>4, <1>5, <2>2, <3>2, Zenon
  <2>3. Len(buf) \in Nat
    BY Fields
  <2>4. k \in 1 .. Len(buf) \/ k = Len(buf) + 1
    BY <2>3
  <2> QED BY <2>1, <2>2, <2>4, Zenon
<1>11. StopsInRead'
  BY <1>1 DEF AInv, StopsInRead, StopsOnReadError
<1> QED BY <1>7, <1>8, <1>9, <1>10, <1>11 DEF AInv

LEMMA NextAInv == AInv /\ [Next]_vars => AInv'
<1> SUFFICES ASSUME AInv, [Next]_vars PROVE AInv'
  OBVIOUS
<1>1. CASE UNCHANGED vars
  BY <1>1 DEF vars, AInv, Records, Flags, Progress, InRead, InStep, NoDrive, SectorsExact,
              StopsInRead, StopsOnReadError
<1> QED BY <1>1, DriveAInv, IdentifyAInv, ReadAInv, OneAInv, PollAInv, DrqAInv, WordAInv,
           DoneAInv
        DEF Next, Driver

(***************************************************************************)
(* The inductive invariant: the position of the read in the buffer, and    *)
(* what the drive does in each step of the driver.                         *)
(***************************************************************************)
THEOREM AtaInductive == Spec => []AInv
BY InitAInv, NextAInv, PTL DEF Spec

(***************************************************************************)
(* ata_read delivers the sectors asked for, word by word, and takes a word *)
(* only when one is offered (ata.c).                                       *)
(***************************************************************************)
THEOREM AtaReadsExact == Spec => []ReadsExact
BY AInvReadsExact, AtaInductive, PTL

(***************************************************************************)
(* The panic of ide_poll is for an error of a read (or of IDENTIFY, if     *)
(* that is what the drive still worked on).                                *)
(***************************************************************************)
THEOREM AtaStops == Spec => []StopsOnReadError
<1>1. AInv => StopsOnReadError
  BY DEF AInv, StopsInRead
<1> QED BY <1>1, AtaInductive, PTL

-----------------------------------------------------------------------------
(***************************************************************************)
(* The keyboard driver: its counters, the modifiers and the order of keys, *)
(* for every size of the buffer, every width of keys_avail and any number  *)
(* of keys.                                                                *)
(***************************************************************************)

(***************************************************************************)
(* Where the shell is in keyboard_get_key.  The key_loc that it has loaded *)
(* is not above the one in memory, as the interrupt only counts up, and is *)
(* the one in memory as long as no key came in the window.                 *)
(***************************************************************************)
Removal ==
    /\ shell_pc \in {"first", "store"} =>
          /\ 1 <= loc /\ loc <= key_loc
          /\ ~raced => loc = key_loc
    /\ shell_pc = "shift" => i <= LastCell
    /\ shell_pc = "count" => i = BUFSIZE

(* The writes behind the buffer stop the machine. *)
Room == kbd_halted = "no" => key_loc <= BUFSIZE

(***************************************************************************)
(* Without a race, the buffer holds the keys that are pending, in their    *)
(* order: from cell 0 on, or, from the step that takes cell 0 until the    *)
(* shift has reached them, one cell further up.                            *)
(***************************************************************************)
CellOf(n) == IF shell_pc = "store" \/ (shell_pc = "shift" /\ n >= i) THEN n + 1 ELSE n

Contents ==
    (kbd_halted = "no" /\ ~raced) =>
        \A n \in 0 .. BUFSIZE - 1 :
            n < Len(pending) => keybuf[CellOf(n)] = pending[n + 1]

KInv == CountersSound /\ Removal /\ Room /\ Contents /\ ShiftNotStuck

-----------------------------------------------------------------------------
(* keys_avail as a number modulo its width: one key more, one key less. *)
LEMMA ModUnique ==
    ASSUME NEW m \in Nat \ {0}, NEW a \in Nat, NEW q \in Int, NEW d \in 0 .. m - 1,
           a = m * q + d
    PROVE  a % m = d
OBVIOUS

LEMMA ModSucc ==
    ASSUME NEW m \in Nat \ {0}, NEW a \in Nat
    PROVE  /\ a % m \in 0 .. m - 1
           /\ (a + 1) % m = IF a % m = m - 1 THEN 0 ELSE (a % m) + 1
<1> DEFINE q == a \div m
           d == a % m
<1>1. a = m * q + d /\ d \in 0 .. m - 1 /\ q \in Int
  OBVIOUS
<1> HIDE DEF q, d
<1>2. ASSUME d = m - 1 PROVE (a + 1) % m = 0
  <2>1. /\ a + 1 \in Nat /\ q + 1 \in Int /\ 0 \in 0 .. m - 1
        /\ a + 1 = m * (q + 1) + 0
    BY <1>1, <1>2
  <2> QED BY <2>1, ModUnique, Zenon
<1>3. ASSUME d # m - 1 PROVE (a + 1) % m = d + 1
  <2>1. a + 1 \in Nat /\ a + 1 = m * q + (d + 1) /\ d + 1 \in 0 .. m - 1
    BY <1>1, <1>3
  <2> QED BY <1>1, <2>1, ModUnique, Zenon
<1>4. d \in 0 .. m - 1 /\ (a + 1) % m = IF d = m - 1 THEN 0 ELSE d + 1
  BY <1>1, <1>2, <1>3, Zenon
<1> QED BY <1>4, Zenon DEF d

LEMMA ModSmall ==
    ASSUME NEW m \in Nat \ {0}, NEW d \in 0 .. m - 1
    PROVE  d % m = d /\ (d + m) % m = d
<1>1. /\ d = m * 0 + d /\ d + m = m * 1 + d
      /\ d \in Nat /\ d + m \in Nat /\ 0 \in Int /\ 1 \in Int
  OBVIOUS
<1> QED BY <1>1, ModUnique, Zenon

LEMMA CountUp ==
    ASSUME NEW m \in Nat \ {0}, NEW a \in Nat
    PROVE  ((a % m) + 1) % m = (a + 1) % m
<1> DEFINE d == a % m
<1>1. d \in 0 .. m - 1 /\ (a + 1) % m = IF d = m - 1 THEN 0 ELSE d + 1
  BY ModSucc, Zenon
<1> HIDE DEF d
<1>2. d \in Nat
  BY <1>1
<1>3. d % m = d
  BY <1>1, ModSmall, Zenon
<1>4. (d + 1) % m = IF d % m = m - 1 THEN 0 ELSE (d % m) + 1
  BY <1>2, ModSucc, Zenon
<1>5. (d + 1) % m = (a + 1) % m
  BY <1>1, <1>3, <1>4, Zenon
<1> QED BY <1>5, Zenon DEF d

LEMMA CountBack ==
    ASSUME NEW m \in Nat \ {0}, NEW a \in Nat
    PROVE  (((a + 1) % m) + m - 1) % m = a % m
<1> DEFINE d == a % m
           u == (a + 1) % m
<1>1. d \in 0 .. m - 1 /\ u = IF d = m - 1 THEN 0 ELSE d + 1
  BY ModSucc, Zenon
<1> HIDE DEF d, u
<1>2. d % m = d /\ (d + m) % m = d
  BY <1>1, ModSmall, Zenon
<1>3. u + m - 1 = IF d = m - 1 THEN d ELSE d + m
  BY <1>1
<1>4. (u + m - 1) % m = d
  BY <1>2, <1>3, Zenon
<1> QED BY <1>4, Zenon DEF d, u

-----------------------------------------------------------------------------
LEMMA InitKInv == KbdInit => KInv
<1> SUFFICES ASSUME KbdInit PROVE KInv
  OBVIOUS
<1> USE KeyboardAssumption DEF KbdInit
<1>0. mods \in [shift : BOOLEAN, caps : BOOLEAN] /\ raced \in BOOLEAN /\ faked \in BOOLEAN
  OBVIOUS
<1>1. KbdTypeOK
  BY <1>0 DEF KbdTypeOK
<1>2. 0 % AVAIL_MOD = 0
  <2>1. 0 \in 0 .. AVAIL_MOD - 1
    OBVIOUS
  <2> QED BY <2>1, ModSmall
<1>3. CountersSound
  BY <1>1, <1>2 DEF CountersSound, Uncounted, Unstored
<1>4. Removal /\ Room /\ Contents
  BY DEF Removal, Room, Contents
<1>5. ShiftNotStuck
  BY DEF ShiftNotStuck
<1> QED BY <1>3, <1>4, <1>5 DEF KInv

(* Both counters and the buffer after kbd_irq has put a character there. *)
LEMMA CharKInv ==
    ASSUME KInv, NEW key \in Keys, kbd_irq_char(key)
    PROVE  KInv'
<1> USE KeyboardAssumption DEF kbd_irq_char, readerVars, LastCell
<1> DEFINE ch == keyboard_to_ascii(key)
<1>1. ch \in Chars
  BY DEF keyboard_to_ascii, Chars
<1> HIDE DEF ch
<1>2. /\ pending \in Seq(Chars) /\ pending' = Append(pending, ch)
      /\ Len(pending') = Len(pending) + 1 /\ pending' \in Seq(Chars)
      /\ \A n \in 1 .. Len(pending) : pending'[n] = pending[n]
      /\ pending'[Len(pending) + 1] = ch
  BY <1>1 DEF KInv, CountersSound, KbdTypeOK, ch
<1>0. (~raced' => ~raced /\ ~InWindow) /\ raced' \in BOOLEAN
  BY Zenon DEF KInv, CountersSound, KbdTypeOK
<1>3. keys_avail' = (Len(pending') + Uncounted') % AVAIL_MOD
  <2>1. Len(pending) + Uncounted \in Nat
    BY <1>2 DEF Uncounted
  <2>2. keys_avail = (Len(pending) + Uncounted) % AVAIL_MOD /\ Uncounted' = Uncounted
    BY DEF KInv, CountersSound, Uncounted
  <2>3. keys_avail' = (Len(pending) + Uncounted + 1) % AVAIL_MOD
    BY <2>1, <2>2, CountUp, Zenon
  <2>4. Len(pending) + Uncounted + 1 = Len(pending') + Uncounted'
    BY <1>2, <2>1, <2>2 DEF Uncounted
  <2> QED BY <2>3, <2>4
<1>4. KbdTypeOK'
  <2>1. keys_avail' \in 0 .. AVAIL_MOD - 1
    BY DEF KInv, CountersSound, KbdTypeOK
  <2>2. keybuf' \in [0 .. BUFSIZE -> Chars \cup {Unknown}]
    <3>1. keybuf \in [0 .. BUFSIZE -> Chars \cup {Unknown}]
      BY DEF KInv, CountersSound, KbdTypeOK
    <3>2. keybuf' = keybuf \/ keybuf' = [keybuf EXCEPT ![key_loc] = ch]
      BY DEF ch
    <3> QED BY <1>1, <3>1, <3>2
  <2>3. key_loc \in 0 .. BUFSIZE + 1 /\ typed \in 0 .. MAX_KEYS /\ key_loc <= BUFSIZE
    BY DEF KInv, CountersSound, KbdTypeOK, Room
  <2>4. key_loc' \in 0 .. BUFSIZE + 1 /\ typed' \in 0 .. MAX_KEYS
    BY <2>3
  <2>5. kbd_halted' \in {"no", "heap_corrupt"}
    OBVIOUS
  <2> QED BY <1>0, <1>2, <2>1, <2>2, <2>4, <2>5 DEF KInv, CountersSound, KbdTypeOK
<1>5. CountersSound'
  <2>1. /\ key_loc <= Len(pending) + Unstored
        /\ ~raced => key_loc = Len(pending) + Unstored
        /\ key_loc \in Nat /\ Unstored \in Nat
    BY DEF KInv, CountersSound, KbdTypeOK, Unstored
  <2>2. key_loc' = key_loc + 1 /\ Unstored' = Unstored
    BY DEF Unstored
  <2>3. Len(pending) \in Nat /\ Len(pending') = Len(pending) + 1
    BY <1>2
  <2>4. /\ key_loc' <= Len(pending') + Unstored'
        /\ ~raced => key_loc' = Len(pending') + Unstored'
    BY <2>1, <2>2, <2>3
  <2> QED BY <1>0, <1>3, <1>4, <2>4, Zenon DEF CountersSound
<1>6. Removal' /\ Room' /\ ShiftNotStuck'
  BY <1>0 DEF KInv, CountersSound, KbdTypeOK, Removal, Room, ShiftNotStuck, InWindow
<1>7. Contents'
  <2> SUFFICES ASSUME kbd_halted' = "no", ~raced', NEW n \in 0 .. BUFSIZE - 1, n < Len(pending')
               PROVE  keybuf'[CellOf(n)'] = pending'[n + 1]
    BY DEF Contents
  <2>types. /\ keybuf \in [0 .. BUFSIZE -> Chars \cup {Unknown}]
            /\ key_loc \in Nat /\ i \in Nat
            /\ ~raced => key_loc = Len(pending) + Unstored
    BY DEF KInv, CountersSound, KbdTypeOK
  <2>step. /\ kbd_halted = "no" /\ ~(key_loc >= BUFSIZE)
           /\ keybuf' = [keybuf EXCEPT ![key_loc] = ch]
           /\ shell_pc' = shell_pc /\ i' = i
    BY Zenon DEF ch
  <2> HIDE DEF kbd_irq_char
  <2>1. /\ kbd_halted = "no" /\ ~raced /\ ~InWindow /\ key_loc < BUFSIZE
        /\ keybuf' = [keybuf EXCEPT ![key_loc] = ch]
        /\ keybuf \in [0 .. BUFSIZE -> Chars \cup {Unknown}]
        /\ key_loc = Len(pending) /\ key_loc \in Nat
        /\ shell_pc' = shell_pc /\ i' = i /\ i \in Nat
    <3>1. ~raced /\ ~InWindow
      BY <1>0
    <3>2. Unstored = 0
      BY <3>1 DEF Unstored, InWindow
    <3>3. key_loc = Len(pending)
      BY <1>2, <2>types, <3>1, <3>2
    <3>4. key_loc < BUFSIZE
      BY <2>types, <2>step
    <3> QED BY <2>types, <2>step, <3>1, <3>3, <3>4, Zenon
  <2>2. CellOf(n)' = CellOf(n)
    BY <2>1 DEF CellOf
  <2>3. CASE n = Len(pending)
    BY <1>2, <2>1, <2>2, <2>3 DEF CellOf, InWindow
  <2>4. CASE n < Len(pending)
    <3>1. keybuf[CellOf(n)] = pending[n + 1]
      BY <2>1, <2>4 DEF KInv, Contents
    <3>2. CellOf(n) # key_loc
      BY <2>1, <2>4 DEF CellOf, InWindow
    <3> QED BY <1>2, <2>1, <2>2, <2>4, <3>1, <3>2 DEF CellOf
  <2> QED BY <1>2, <2>3, <2>4
<1> QED BY <1>5, <1>6, <1>7 DEF KInv

(* The modifier keys leave the buffer alone. *)
LEMMA ModifierKInv ==
    ASSUME KInv,
           kbd_irq_capslock \/ kbd_irq_fake_shift
              \/ \E key \in ShiftKeys : kbd_irq_shift(key)
    PROVE  KInv'
<1>1. /\ UNCHANGED <<keybuf, key_loc, keys_avail, readerVars, kbd_halted, typed, pending, raced>>
      /\ mods \in [shift : BOOLEAN, caps : BOOLEAN] /\ held \subseteq ShiftKeys
      /\ faked \in BOOLEAN
  BY DEF kbd_irq_capslock, kbd_irq_fake_shift, kbd_irq_shift, KInv, CountersSound, KbdTypeOK
<1>2. /\ mods' \in [shift : BOOLEAN, caps : BOOLEAN] /\ held' \subseteq ShiftKeys
      /\ faked' \in BOOLEAN /\ ShiftNotStuck'
  <2>1. CASE kbd_irq_capslock
    BY <1>1, <2>1 DEF kbd_irq_capslock, KInv, ShiftNotStuck
  <2>2. CASE kbd_irq_fake_shift
    BY <1>1, <2>2 DEF kbd_irq_fake_shift, Pressed, Released, KInv, ShiftNotStuck
  <2>3. ASSUME NEW key \in ShiftKeys, kbd_irq_shift(key)
        PROVE  /\ mods' \in [shift : BOOLEAN, caps : BOOLEAN] /\ held' \subseteq ShiftKeys
               /\ faked' \in BOOLEAN /\ ShiftNotStuck'
    BY <1>1, <2>3 DEF kbd_irq_shift, Pressed, Released, KInv, ShiftNotStuck
  <2> QED BY <2>1, <2>2, <2>3
<1> QED BY <1>1, <1>2
        DEF KInv, CountersSound, KbdTypeOK, Uncounted, Unstored, Removal, Room, Contents, CellOf,
            readerVars, LastCell

(* The steps of the shell that neither take nor move keys. *)
LEMMA PollKInv ==
    ASSUME KInv, kbd_read \/ get_load \/ grab_input
    PROVE  KInv'
<1> USE KeyboardAssumption DEF kbd_read, get_load, grab_input, Reads, irqVars
<1>1. UNCHANGED <<keybuf, key_loc, keys_avail, mods, held, faked, kbd_halted, typed, raced, pending>>
  OBVIOUS
<1>2. KbdTypeOK'
  <2>1. key_loc \in 0 .. BUFSIZE
    BY DEF KInv, CountersSound, KbdTypeOK, Room
  <2>2. loc' \in 0 .. BUFSIZE /\ i' \in 0 .. BUFSIZE
    BY <2>1 DEF KInv, CountersSound, KbdTypeOK
  <2>3. c' \in Chars \cup {NUL, Unknown}
    BY DEF KInv, CountersSound, KbdTypeOK
  <2>4. shell_pc' \in {"poll", "load", "first", "store", "shift", "count", "out"}
    OBVIOUS
  <2>5. /\ mods' \in [shift : BOOLEAN, caps : BOOLEAN] /\ raced' \in BOOLEAN
        /\ faked' \in BOOLEAN
    BY <1>1 DEF KInv, CountersSound, KbdTypeOK
  <2> HIDE DEF kbd_read, get_load, grab_input
  <2> QED BY <1>1, <2>2, <2>3, <2>4, <2>5 DEF KInv, CountersSound, KbdTypeOK
<1>3. CountersSound'
  BY <1>1, <1>2 DEF KInv, CountersSound, Uncounted, Unstored
<1>4. Removal' /\ Room' /\ ShiftNotStuck'
  BY <1>1 DEF KInv, CountersSound, KbdTypeOK, Removal, Room, ShiftNotStuck
<1>5. Contents'
  BY <1>1 DEF KInv, Contents, CellOf
<1> QED BY <1>3, <1>4, <1>5 DEF KInv

(* The first key is taken. *)
LEMMA FirstKInv ==
    ASSUME KInv, get_first
    PROVE  KInv' /\ (~raced => c' = Head(pending))
<1> USE KeyboardAssumption DEF get_first, Reads, irqVars
<1>1. UNCHANGED <<keybuf, key_loc, keys_avail, mods, held, faked, kbd_halted, typed, raced, loc, i>>
  OBVIOUS
<1>2. /\ pending \in Seq(Chars) /\ Len(pending) \in Nat /\ Len(pending) >= 1
      /\ pending' \in Seq(Chars) /\ Len(pending') = Len(pending) - 1
      /\ \A n \in 1 .. Len(pending') : pending'[n] = pending[n + 1]
      /\ Head(pending) = pending[1]
  BY DEF KInv, CountersSound, KbdTypeOK, Removal, Unstored
<1>3. /\ keybuf \in [0 .. BUFSIZE -> Chars \cup {Unknown}] /\ key_loc \in Nat
      /\ key_loc <= Len(pending)
      /\ ~raced => key_loc = Len(pending)
  BY DEF KInv, CountersSound, KbdTypeOK, Unstored
<1>4. KbdTypeOK'
  <2>1. c' \in Chars \cup {NUL, Unknown} /\ shell_pc' = "store"
    BY <1>3
  <2> QED BY <1>1, <1>2, <2>1 DEF KInv, CountersSound, KbdTypeOK
<1>5. CountersSound'
  <2>1. keys_avail = (Len(pending) + 0) % AVAIL_MOD
    BY DEF KInv, CountersSound, Uncounted
  <2>2. Len(pending) + 0 = Len(pending') + Uncounted'
    BY <1>2 DEF Uncounted
  <2>3. keys_avail' = (Len(pending') + Uncounted') % AVAIL_MOD
    BY <1>1, <2>1, <2>2, Zenon
  <2>4. Unstored' = 1
    BY DEF Unstored
  <2>5. key_loc' = key_loc /\ raced' = raced
    BY <1>1
  <2>6. /\ key_loc' <= Len(pending') + Unstored'
        /\ ~raced' => key_loc' = Len(pending') + Unstored'
    <3>1. Len(pending) \in Nat /\ Len(pending') = Len(pending) - 1
      BY <1>2
    <3>2. key_loc \in Nat /\ key_loc <= Len(pending) /\ (~raced => key_loc = Len(pending))
      BY <1>3
    <3>3. key_loc' <= Len(pending') + Unstored'
      BY <2>4, <2>5, <3>1, <3>2
    <3>4. ~raced' => key_loc' = Len(pending') + Unstored'
      BY <2>4, <2>5, <3>1, <3>2
    <3> QED BY <3>3, <3>4
  <2> QED BY <1>4, <2>3, <2>6, Zenon DEF CountersSound
<1>6. Removal' /\ Room' /\ ShiftNotStuck'
  BY <1>1 DEF KInv, CountersSound, KbdTypeOK, Removal, Room, ShiftNotStuck
<1>7. ASSUME ~raced, NEW n \in Nat, n < Len(pending)
      PROVE  n \in 0 .. BUFSIZE - 1 /\ keybuf[n] = pending[n + 1]
  <2>1. n \in 0 .. BUFSIZE - 1
    BY <1>3, <1>7 DEF KInv, Room
  <2>2. CellOf(n) = n
    BY DEF CellOf
  <2> QED BY <1>7, <2>1, <2>2 DEF KInv, Contents
<1>8. Contents'
  <2> SUFFICES ASSUME ~raced, NEW n \in 0 .. BUFSIZE - 1, n < Len(pending')
               PROVE  keybuf[CellOf(n)'] = pending'[n + 1]
    BY <1>1 DEF Contents
  <2>1. CellOf(n)' = n + 1
    BY DEF CellOf
  <2>2. n + 1 \in Nat /\ n + 1 < Len(pending) /\ pending'[n + 1] = pending[n + 2]
    BY <1>2
  <2>3. keybuf[n + 1] = pending[(n + 1) + 1]
    BY <1>7, <2>2
  <2> QED BY <2>1, <2>2, <2>3
<1>9. ~raced => c' = Head(pending)
  BY <1>2, <1>7
<1> QED BY <1>5, <1>6, <1>8, <1>9 DEF KInv

LEMMA StoreKInv ==
    ASSUME KInv, get_store
    PROVE  KInv'
<1> USE KeyboardAssumption DEF get_store, Reads, irqVars
<1>1. UNCHANGED <<keybuf, keys_avail, mods, held, faked, kbd_halted, typed, raced, loc, c, pending>>
  OBVIOUS
<1>2. KbdTypeOK'
  BY <1>1 DEF KInv, CountersSound, KbdTypeOK, Removal
<1>3. CountersSound'
  BY <1>1, <1>2 DEF KInv, CountersSound, KbdTypeOK, Uncounted, Unstored, Removal
<1>4. Removal' /\ Room' /\ ShiftNotStuck'
  BY <1>1 DEF KInv, CountersSound, KbdTypeOK, Removal, Room, ShiftNotStuck, LastCell
<1>5. Contents'
  BY <1>1 DEF KInv, Contents, CellOf
<1> QED BY <1>3, <1>4, <1>5 DEF KInv

LEMMA ShiftKInv ==
    ASSUME KInv, get_shift
    PROVE  KInv'
<1> USE KeyboardAssumption DEF get_shift, Reads, irqVars, LastCell
<1>1. UNCHANGED <<key_loc, keys_avail, mods, held, faked, kbd_halted, typed, raced, loc, c, pending>>
  OBVIOUS
<1>2. /\ keybuf \in [0 .. BUFSIZE -> Chars \cup {Unknown}] /\ i \in 0 .. BUFSIZE - 1
      /\ i' = i + 1 /\ keybuf' = [keybuf EXCEPT ![i] = keybuf[i + 1]]
      /\ shell_pc = "shift" /\ shell_pc' = (IF i < BUFSIZE - 1 THEN "shift" ELSE "count")
  BY DEF KInv, CountersSound, KbdTypeOK, Removal
<1>3. KbdTypeOK'
  BY <1>1, <1>2 DEF KInv, CountersSound, KbdTypeOK
<1>4. CountersSound'
  BY <1>1, <1>2, <1>3 DEF KInv, CountersSound, Uncounted, Unstored
<1>5. Removal' /\ Room' /\ ShiftNotStuck'
  BY <1>1, <1>2 DEF KInv, Removal, Room, ShiftNotStuck
<1>6. Contents'
  <2> SUFFICES ASSUME kbd_halted = "no", ~raced, NEW n \in 0 .. BUFSIZE - 1, n < Len(pending)
               PROVE  keybuf'[CellOf(n)'] = pending[n + 1]
    BY <1>1 DEF Contents
  <2>1. keybuf[CellOf(n)] = pending[n + 1]
    BY DEF KInv, Contents
  <2> QED BY <1>2, <2>1 DEF CellOf
<1> QED BY <1>4, <1>5, <1>6 DEF KInv

LEMMA CountKInv ==
    ASSUME KInv, get_count
    PROVE  KInv'
<1> USE KeyboardAssumption DEF get_count, Reads, irqVars
<1>1. UNCHANGED <<keybuf, key_loc, mods, held, faked, kbd_halted, typed, raced, loc, c, i, pending>>
  OBVIOUS
<1>2. keys_avail' = Len(pending') % AVAIL_MOD
  <2>1. /\ Len(pending) \in Nat /\ pending' = pending
        /\ keys_avail = (Len(pending) + 1) % AVAIL_MOD
    BY <1>1 DEF KInv, CountersSound, KbdTypeOK, Uncounted
  <2>2. keys_avail' = (keys_avail + AVAIL_MOD - 1) % AVAIL_MOD
    BY DEF CountDown
  <2> QED BY <2>1, <2>2, CountBack, Zenon
<1>3. keys_avail' \in 0 .. AVAIL_MOD - 1
  BY DEF KInv, CountersSound, KbdTypeOK, CountDown
<1>4. KbdTypeOK'
  BY <1>1, <1>3 DEF KInv, CountersSound, KbdTypeOK
<1>5. CountersSound'
  BY <1>1, <1>2, <1>4 DEF KInv, CountersSound, KbdTypeOK, Uncounted, Unstored
<1>6. Removal' /\ Room' /\ ShiftNotStuck' /\ Contents'
  BY <1>1 DEF KInv, Removal, Room, ShiftNotStuck, Contents, CellOf
<1> QED BY <1>5, <1>6 DEF KInv

(***************************************************************************)
(* The inductive invariant: the counters are right, the reader's copy of   *)
(* key_loc is, and, as long as no key has come in the window, so are the   *)
(* cells of the buffer.                                                    *)
(***************************************************************************)
LEMMA NextKInv == KInv /\ [KbdNext]_kbdVars => KInv'
<1> SUFFICES ASSUME KInv, [KbdNext]_kbdVars PROVE KInv'
  OBVIOUS
<1>1. CASE UNCHANGED kbdVars
  BY <1>1 DEF kbdVars, readerVars, KInv, CountersSound, KbdTypeOK, Uncounted, Unstored, Removal,
              Room, Contents, CellOf, ShiftNotStuck, LastCell
<1> QED BY <1>1, CharKInv, ModifierKInv, PollKInv, FirstKInv, StoreKInv, ShiftKInv, CountKInv
        DEF KbdNext, ReadStep, KbdStopped

THEOREM KeyboardInductive == KbdSpec => []KInv
BY InitKInv, NextKInv, PTL DEF KbdSpec

(***************************************************************************)
(* keys_avail and key_loc count what they should at any time, whatever     *)
(* interrupts whatever (keyboard.c:256-268, 440-441).                      *)
(***************************************************************************)
THEOREM CountersCorrect == KbdSpec => []CountersSound
<1>1. KInv => CountersSound
  BY DEF KInv
<1> QED BY <1>1, KeyboardInductive, PTL

(* Shift outlasts the shift keys only by a fake shift of the keyboard's    *)
(* that came with none of them down: keyboard.c:403 clears the flag at any *)
(* release, prefixed or not.                                               *)
THEOREM ShiftCorrect == KbdSpec => []ShiftNotStuck
<1>1. KInv => ShiftNotStuck
  BY DEF KInv
<1> QED BY <1>1, KeyboardInductive, PTL

(***************************************************************************)
(* keyboard_get_key returns the oldest key, until a key comes in its       *)
(* window.                                                                 *)
(***************************************************************************)
THEOREM KeysInOrder == KbdSpec => InOrder
<1>1. KInv /\ [KbdNext]_kbdVars =>
        [(shell_pc = "first" /\ shell_pc' = "store" /\ ~raced) => c' = Head(pending)]_kbdVars
  <2> SUFFICES ASSUME KInv, KbdNext, shell_pc = "first", shell_pc' = "store", ~raced
               PROVE  c' = Head(pending)
    BY DEF kbdVars
  <2>1. get_first
    BY DEF KbdNext, ReadStep, KbdStopped, kbdVars, readerVars, kbd_irq_char, kbd_irq_shift, kbd_irq_fake_shift,
           kbd_irq_capslock, kbd_read, get_load, get_store, get_shift, get_count, grab_input,
           Reads
  <2> QED BY <2>1, FirstKInv
<1> QED BY <1>1, KeyboardInductive, PTL DEF KbdSpec, InOrder

-----------------------------------------------------------------------------
(***************************************************************************)
(* What interrupts may do to the boot, and what their acknowledgements     *)
(* end, for every set of lines that have a device.                         *)
(***************************************************************************)

(***************************************************************************)
(* A gate leads only where the boot has set it to: to a panic for the      *)
(* vectors of the exceptions, to a driver for the vector of its line.      *)
(***************************************************************************)
Fits(v, h) ==
    /\ h \in Handlers
    /\ h = "panic" => v < 16
    /\ h = "pit_irq" => v = 32 + TIMER
    /\ h = "kbd_irq" => v = 32 + KBD
    /\ h = "ide_prim_irq" => v = 32 + IDE

Gates ==
    /\ \A v \in Vectors : Fits(v, idt[v])
    /\ \A v \in DOMAIN writing : Fits(v, writing[v])

(* The stages in which the vectors have moved, and a gate is open. *)
BootOrder ==
    /\ remapped <=> stage \notin {"off", "idt", "exceptions"}
    /\ writing # Nothing => stage \in {"idt", "irq", "pit", "ata"}

IrqInv == StopsOnlyInBoot /\ Gates /\ BootOrder

-----------------------------------------------------------------------------
LEMMA StageSet ==
    /\ {Stages[n] : n \in DOMAIN Stages} =
          {"off", "idt", "exceptions", "irq", "pit", "ata", "keyboard", "idle"}
    /\ stage \in {"idt", "irq", "pit", "ata"} => ~Reached("keyboard")
<1>1. /\ DOMAIN Stages = 1 .. 8
      /\ Stages[1] = "off" /\ Stages[2] = "idt" /\ Stages[3] = "exceptions"
      /\ Stages[4] = "irq" /\ Stages[5] = "pit" /\ Stages[6] = "ata"
      /\ Stages[7] = "keyboard" /\ Stages[8] = "idle"
  BY DEF Stages
<1>2. \A n : n \in 1 .. 8 <=> n \in {1, 2, 3, 4, 5, 6, 7, 8}
  OBVIOUS
<1>3. stage \in {"idt", "irq", "pit", "ata"} => ~Reached("keyboard")
  BY <1>1, <1>2 DEF Reached
<1> QED BY <1>1, <1>2, <1>3

LEMMA NumberOf ==
    /\ DOMAIN Number = {"pit_irq", "kbd_irq", "ide_prim_irq"}
    /\ Number["pit_irq"] = 0 /\ Number["kbd_irq"] = 33 /\ Number["ide_prim_irq"] = 32
BY DEF Number

LEMMA HandlerSet ==
    Handlers = {"none", "noop", "panic", "pit_irq", "kbd_irq", "ide_prim_irq"}
BY NumberOf DEF Handlers

(* The vectors of a line before and after irq_remap. *)
LEMMA VectorOf ==
    ASSUME NEW l \in Lines
    PROVE  /\ Vector(l, TRUE) = 32 + l /\ Vector(l, TRUE) \in Vectors
           /\ Vector(l, FALSE) \in Vectors
           /\ Vector(l, FALSE) \in (8 .. 15) \cup (112 .. 119)
           /\ l \in (0 .. 15) \ {2}
<1>1. l \in (0 .. 15) \ {2}
  BY IrqAssumption DEF CASCADE
<1>2. /\ Vector(l, TRUE) = 32 + l
      /\ Vector(l, FALSE) = IF l < 8 THEN 8 + l ELSE 112 + l - 8
  BY Zenon DEF Vector
<1> DEFINE f == Vector(l, FALSE)
<1>3. f = IF l < 8 THEN 8 + l ELSE 112 + l - 8
  BY <1>2
<1> HIDE DEF f
<1>4. f \in (8 .. 15) \cup (112 .. 119)
  BY <1>1, <1>3
<1>5. Vector(l, TRUE) \in Vectors /\ Vector(l, FALSE) \in Vectors
  BY Zenon DEF Vectors
<1> QED BY <1>1, <1>2, <1>4, <1>5, Zenon DEF f

LEMMA NothingEmpty == DOMAIN Nothing = {}
BY DEF Nothing

(* The first in service, if it is before all others, is the highest one. *)
LEMMA HighestIs ==
    ASSUME NEW S \in SUBSET (0 .. 15), NEW l \in S, \A n \in S : l <= n
    PROVE  Highest(S) = {l}
<1>1. \A x \in S : (\A y \in S : x <= y) => x = l
  OBVIOUS
<1>2. Min(S) \in S /\ \A y \in S : Min(S) <= y
  BY DEF Min
<1> QED BY <1>1, <1>2 DEF Highest

-----------------------------------------------------------------------------
LEMMA InitIrqInv == IrqInit => IrqInv
<1> SUFFICES ASSUME IrqInit PROVE IrqInv
  OBVIOUS
<1> USE DEF IrqInit
<1>1. remapped \in BOOLEAN /\ can_schedule \in BOOLEAN
  OBVIOUS
<1>2. IrqTypeOK
  BY <1>1, StageSet, HandlerSet, NothingEmpty DEF IrqTypeOK
<1>3. StopsOnlyInBoot
  BY <1>2 DEF StopsOnlyInBoot
<1>4. Gates
  BY HandlerSet, NothingEmpty DEF Gates, Fits
<1>5. BootOrder
  BY DEF BootOrder
<1> QED BY <1>3, <1>4, <1>5 DEF IrqInv

(***************************************************************************)
(* The delivery of a line: what stops the machine, and what is left in     *)
(* service.                                                                *)
(***************************************************************************)
LEMMA InterruptIrqInv ==
    ASSUME IrqInv, NEW l \in Lines, interrupt(l)
    PROVE  IrqInv'
<1> DEFINE v == Vector(l, remapped)
<1>1. UNCHANGED <<idt, writing, remapped, stage, can_schedule>> /\ stage # "off"
  BY DEF interrupt
<1>2. v \in Vectors /\ (remapped => v = 32 + l) /\ l \in (0 .. 15) \ {2}
  BY VectorOf DEF IrqInv, StopsOnlyInBoot, IrqTypeOK
<1> HIDE DEF v
<1>3. PICK h \in Leads(v) :
        LET isr == IF h \in DOMAIN Number THEN send_eoi(Number[h], Served(l))
                                          ELSE Served(l)
        IN  /\ m_isr' = isr.m /\ s_isr' = isr.s
            /\ irq_halted' = IF h \in {"panic", "torn"} THEN h ELSE "no"
  BY DEF interrupt, v
<1>4. m_isr' \subseteq 0 .. 7 /\ s_isr' \subseteq 8 .. 15
  <2>1. m_isr \subseteq 0 .. 7 /\ s_isr \subseteq 8 .. 15
    BY DEF IrqInv, StopsOnlyInBoot, IrqTypeOK
  <2>2. Served(l).m \subseteq 0 .. 7 /\ Served(l).s \subseteq 8 .. 15
    BY <1>2, <2>1 DEF Served, CASCADE
  <2> QED BY <1>3, <2>2 DEF send_eoi
<1>5. h = "panic" => v < 16
  BY <1>2 DEF Leads, IrqInv, Gates, Fits
<1>6. h = "torn" => writing # Nothing
  <2>1. idt[v] # "torn"
    BY <1>2, HandlerSet DEF IrqInv, Gates, Fits
  <2> QED BY <2>1, NothingEmpty DEF Leads
<1>7. IrqTypeOK'
  <2>1. irr' \subseteq Lines /\ irq_halted' \in {"no", "panic", "torn"}
    BY <1>3 DEF interrupt, IrqInv, StopsOnlyInBoot, IrqTypeOK
  <2> QED BY <1>1, <1>4, <2>1 DEF IrqInv, StopsOnlyInBoot, IrqTypeOK
<1>8. irq_halted' = "panic" => stage \in {"idt", "exceptions"} /\ ~remapped
  <2> SUFFICES ASSUME irq_halted' = "panic" PROVE stage \in {"idt", "exceptions"} /\ ~remapped
    OBVIOUS
  <2>1. v < 16
    BY <1>3, <1>5
  <2>2. ~remapped
    BY <1>2, <2>1
  <2> QED BY <1>1, <2>2, Zenon DEF IrqInv, BootOrder
<1>9. irq_halted' = "torn" => writing # Nothing /\ ~Reached("keyboard")
  BY <1>3, <1>6, StageSet DEF IrqInv, BootOrder
<1>10. StopsOnlyInBoot'
  BY <1>1, <1>7, <1>8, <1>9 DEF StopsOnlyInBoot, Reached
<1> QED BY <1>1, <1>10 DEF IrqInv, Gates, BootOrder

(* A gate is opened for a handler that fits its vector. *)
LEMMA LowIrqInv ==
    ASSUME IrqInv, NEW s \in {"idt", "irq", "pit", "ata"}, NEW gates \in SUBSET Vectors, NEW h,
           \A v \in gates : Fits(v, h), irq_set_low(s, gates, h)
    PROVE  IrqInv'
<1> USE DEF irq_set_low, Boots, picVars
<1>1. /\ UNCHANGED <<idt, remapped, irr, m_isr, s_isr, stage, can_schedule, irq_halted>>
      /\ writing' = [v \in gates |-> h] /\ irq_halted = "no" /\ stage = s
  OBVIOUS
<1>2. IrqTypeOK'
  BY <1>1 DEF IrqInv, StopsOnlyInBoot, IrqTypeOK
<1>3. StopsOnlyInBoot'
  BY <1>1, <1>2 DEF StopsOnlyInBoot
<1>4. Gates'
  BY <1>1 DEF IrqInv, Gates
<1>5. BootOrder'
  BY <1>1 DEF IrqInv, BootOrder
<1> QED BY <1>3, <1>4, <1>5 DEF IrqInv

(* A gate is closed, and the boot goes on. *)
LEMMA HighIrqInv ==
    ASSUME IrqInv, NEW s, NEW next,
           <<s, next>> \in {<<"idt", "exceptions">>, <<"irq", "pit">>, <<"pit", "ata">>,
                            <<"ata", "keyboard">>},
           irq_set_high(s, next)
    PROVE  IrqInv'
<1> USE DEF irq_set_high, Boots, picVars
<1>1. /\ UNCHANGED <<remapped, irr, m_isr, s_isr, can_schedule, irq_halted>>
      /\ idt' = [v \in Vectors |-> IF v \in DOMAIN writing THEN writing[v] ELSE idt[v]]
      /\ writing' = Nothing /\ irq_halted = "no" /\ stage = s /\ stage' = next
  OBVIOUS
<1>2. Gates'
  BY <1>1, NothingEmpty DEF IrqInv, Gates
<1>3. idt' \in [Vectors -> Handlers]
  BY <1>1, <1>2 DEF Gates, Fits
<1>4. IrqTypeOK'
  BY <1>1, <1>3, NothingEmpty, StageSet DEF IrqInv, StopsOnlyInBoot, IrqTypeOK
<1>5. StopsOnlyInBoot'
  BY <1>1, <1>4 DEF StopsOnlyInBoot
<1>6. BootOrder'
  BY <1>1 DEF IrqInv, BootOrder
<1> QED BY <1>2, <1>5, <1>6 DEF IrqInv

LEMMA BootIrqInv ==
    ASSUME IrqInv, Boot
    PROVE  IrqInv'
<1> USE DEF Boots, picVars
<1>1. ASSUME idt_init PROVE IrqInv'
  <2>1. IrqTypeOK' /\ irq_halted' = "no"
    BY <1>1, HandlerSet, StageSet DEF idt_init, IrqInv, StopsOnlyInBoot, IrqTypeOK
  <2> QED BY <1>1, <2>1, HandlerSet
          DEF idt_init, IrqInv, StopsOnlyInBoot, Gates, Fits, BootOrder
<1>2. ASSUME irq_init PROVE IrqInv'
  <2>1. IrqTypeOK' /\ irq_halted' = "no"
    BY <1>2, StageSet DEF irq_init, IrqInv, StopsOnlyInBoot, IrqTypeOK
  <2> QED BY <1>2, <2>1 DEF irq_init, IrqInv, StopsOnlyInBoot, Gates, BootOrder
<1>3. ASSUME sched_start_idle PROVE IrqInv'
  <2>1. IrqTypeOK' /\ irq_halted' = "no"
    BY <1>3, StageSet DEF sched_start_idle, IrqInv, StopsOnlyInBoot, IrqTypeOK
  <2> QED BY <1>3, <2>1 DEF sched_start_idle, IrqInv, StopsOnlyInBoot, Gates, BootOrder
<1>4. ASSUME exceptions_init PROVE IrqInv'
  <2>1. Exceptions \in SUBSET Vectors /\ \A v \in Exceptions : Fits(v, "panic")
    BY HandlerSet DEF Exceptions, Fits
  <2> QED BY <1>4, <2>1, LowIrqInv, HighIrqInv DEF exceptions_init
<1>5. /\ {TIMER, KBD, IDE} \subseteq Lines
      /\ Fits(Vector(TIMER, TRUE), "pit_irq") /\ Fits(Vector(KBD, TRUE), "kbd_irq")
      /\ Fits(Vector(IDE, TRUE), "ide_prim_irq")
  BY HandlerSet, IrqAssumption DEF Fits, Vector, TIMER, KBD, IDE
<1>6. ASSUME pit_init PROVE IrqInv'
  <2> DEFINE gates == {Vector(TIMER, TRUE)}
  <2>1. gates \in SUBSET Vectors /\ \A v \in gates : Fits(v, "pit_irq")
    BY <1>5, VectorOf, Zenon
  <2>2. irq_set_low("irq", gates, "pit_irq") \/ irq_set_high("irq", "pit")
    BY <1>6 DEF pit_init
  <2> HIDE DEF gates
  <2> QED BY <2>1, <2>2, LowIrqInv, HighIrqInv
<1>7. ASSUME ata_init PROVE IrqInv'
  <2> DEFINE gates == {Vector(IDE, TRUE)}
  <2>1. gates \in SUBSET Vectors /\ \A v \in gates : Fits(v, "ide_prim_irq")
    BY <1>5, VectorOf, Zenon
  <2>2. irq_set_low("pit", gates, "ide_prim_irq") \/ irq_set_high("pit", "ata")
    BY <1>7 DEF ata_init
  <2> HIDE DEF gates
  <2> QED BY <2>1, <2>2, LowIrqInv, HighIrqInv
<1>8. ASSUME keyboard_init PROVE IrqInv'
  <2> DEFINE gates == {Vector(KBD, TRUE)}
  <2>1. gates \in SUBSET Vectors /\ \A v \in gates : Fits(v, "kbd_irq")
    BY <1>5, VectorOf, Zenon
  <2>2. irq_set_low("ata", gates, "kbd_irq") \/ irq_set_high("ata", "keyboard")
    BY <1>8 DEF keyboard_init
  <2> HIDE DEF gates
  <2> QED BY <2>1, <2>2, LowIrqInv, HighIrqInv
<1> QED BY <1>1, <1>2, <1>3, <1>4, <1>6, <1>7, <1>8 DEF Boot

LEMMA NextIrqInv == IrqInv /\ [IrqNext]_idtVars => IrqInv'
<1> SUFFICES ASSUME IrqInv, [IrqNext]_idtVars PROVE IrqInv'
  OBVIOUS
<1>1. CASE UNCHANGED idtVars
  BY <1>1 DEF idtVars, IrqInv, StopsOnlyInBoot, IrqTypeOK, Reached, Gates, BootOrder
<1>2. ASSUME NEW l \in Lines, raise(l) PROVE IrqInv'
  <2>1. IrqTypeOK'
    BY <1>2 DEF raise, IrqInv, StopsOnlyInBoot, IrqTypeOK
  <2> QED BY <1>2, <2>1 DEF raise, IrqInv, StopsOnlyInBoot, Gates, BootOrder
<1>3. ASSUME post_schedule_noirq PROVE IrqInv'
  <2>1. m_isr' \subseteq m_isr /\ s_isr' \subseteq s_isr
    BY <1>3 DEF post_schedule_noirq, YieldEoi, send_eoi
  <2>2. IrqTypeOK' /\ irq_halted' = "no"
    BY <1>3, <2>1 DEF post_schedule_noirq, Boots, IrqInv, StopsOnlyInBoot, IrqTypeOK
  <2> QED BY <1>3, <2>2 DEF post_schedule_noirq, IrqInv, StopsOnlyInBoot, Gates, BootOrder
<1> QED BY <1>1, <1>2, <1>3, InterruptIrqInv, BootIrqInv DEF IrqNext, IrqStopped

(***************************************************************************)
(* The inductive invariant: gates lead where the boot has set them to, and *)
(* vectors move and gates open in the order of the boot.                   *)
(***************************************************************************)
THEOREM IrqInductive == IrqSpec => []IrqInv
BY InitIrqInv, NextIrqInv, PTL DEF IrqSpec

(***************************************************************************)
(* An interrupt stops the machine only before irq_remap or through a gate  *)
(* that is half written (idt.c, exception.c, irq.c).                       *)
(***************************************************************************)
THEOREM BootStops == IrqSpec => []StopsOnlyInBoot
<1>1. IrqInv => StopsOnlyInBoot
  BY DEF IrqInv
<1> QED BY <1>1, IrqInductive, PTL

(***************************************************************************)
(* The EOI of a driver's handler ends the service of its own line, and of  *)
(* the cascade if it came that way (send_eoi of irq.c).                    *)
(***************************************************************************)
THEOREM OwnEoi == IrqSpec => OwnLineAcknowledged
<1> DEFINE Acks ==
      \A l \in Lines :
          (Taken(l) /\ idt[Vector(l, remapped)] \in DOMAIN Number /\ writing = Nothing) =>
              /\ l \notin m_isr' \cup s_isr'
              /\ l >= 8 => CASCADE \notin m_isr'
<1>1. IrqInv /\ [IrqNext]_idtVars => [Acks]_idtVars
  <2> SUFFICES ASSUME IrqInv, IrqNext, NEW l \in Lines, Taken(l), writing = Nothing,
                      idt[Vector(l, remapped)] \in DOMAIN Number
               PROVE  /\ l \notin m_isr' \cup s_isr'
                      /\ l >= 8 => CASCADE \notin m_isr'
    OBVIOUS
  <2> DEFINE h == idt[Vector(l, remapped)]
  <2>1. interrupt(l)
    BY DEF Taken, IrqNext, raise, interrupt, Boot, idt_init, exceptions_init, irq_init, pit_init,
           ata_init, keyboard_init, sched_start_idle, irq_set_low, irq_set_high, Boots,
           picVars, post_schedule_noirq, IrqStopped, idtVars
  <2>2. Leads(Vector(l, remapped)) = {h}
    BY NothingEmpty DEF Leads
  <2>3. /\ m_isr' = send_eoi(Number[h], Served(l)).m
        /\ s_isr' = send_eoi(Number[h], Served(l)).s
    BY <2>1, <2>2 DEF interrupt
  <2>4. /\ m_isr \subseteq 0 .. 7 /\ s_isr \subseteq 8 .. 15 /\ l \in (0 .. 15) \ {2}
        /\ Deliverable(l)
    BY <2>1, VectorOf DEF interrupt, IrqInv, StopsOnlyInBoot, IrqTypeOK
  <2>5. CASE l < 8
    <3>1. Served(l) = [m |-> m_isr \cup {l}, s |-> s_isr]
      BY <2>5 DEF Served
    <3>2. Highest(m_isr \cup {l}) = {l}
      <4>1. m_isr \cup {l} \in SUBSET (0 .. 15) /\ \A n \in m_isr \cup {l} : l <= n
        BY <2>4, <2>5 DEF Deliverable
      <4> QED BY <4>1, HighestIs
    <3>3. m_isr' = (m_isr \cup {l}) \ {l} /\ s_isr' \subseteq s_isr
      BY <2>3, <3>1, <3>2 DEF send_eoi
    <3> QED BY <2>4, <2>5, <3>3
  <2>6. CASE ~(l < 8)
    <3>1. Served(l) = [m |-> m_isr \cup {CASCADE}, s |-> s_isr \cup {l}]
      BY <2>6 DEF Served
    <3>2. Number[h] > 8
      <4>1. remapped \in BOOLEAN
        BY DEF IrqInv, StopsOnlyInBoot, IrqTypeOK
      <4>2. Vector(l, remapped) \in Vectors /\ Vector(l, remapped) # 32
        <5>1. CASE remapped = TRUE
          <6>1. Vector(l, TRUE) \in Vectors /\ Vector(l, TRUE) = 32 + l
            BY VectorOf, Zenon
          <6>2. 32 + l # 32
            BY <2>4, <2>6
          <6> QED BY <5>1, <6>1, <6>2, Zenon
        <5>2. CASE remapped = FALSE
          <6> DEFINE f == Vector(l, FALSE)
          <6>1. f \in Vectors /\ f \in (8 .. 15) \cup (112 .. 119)
            BY VectorOf, Zenon
          <6> HIDE DEF f
          <6>2. f \in Vectors /\ f # 32
            BY <6>1
          <6> QED BY <5>2, <6>2, Zenon DEF f
        <5> QED BY <4>1, <5>1, <5>2
      <4>3. h # "pit_irq"
        BY <4>2 DEF IrqInv, Gates, Fits, TIMER
      <4> QED BY <4>3, NumberOf
    <3>3. Highest(m_isr \cup {CASCADE}) = {CASCADE} /\ Highest(s_isr \cup {l}) = {l}
      <4>1. /\ m_isr \cup {CASCADE} \in SUBSET (0 .. 15)
            /\ \A n \in m_isr \cup {CASCADE} : CASCADE <= n
            /\ s_isr \cup {l} \in SUBSET (0 .. 15) /\ \A n \in s_isr \cup {l} : l <= n
        <5>1. (\A n \in m_isr : 2 < n) /\ (\A n \in s_isr : l < n)
          BY <2>4, <2>6 DEF Deliverable, CASCADE
        <5>2. m_isr \cup {2} \in SUBSET (0 .. 15) /\ \A n \in m_isr \cup {2} : 2 <= n
          BY <2>4, <5>1
        <5>3. s_isr \cup {l} \in SUBSET (0 .. 15) /\ \A n \in s_isr \cup {l} : l <= n
          BY <2>4, <5>1
        <5> QED BY <5>2, <5>3 DEF CASCADE
      <4> QED BY <4>1, HighestIs
    <3>4. /\ m_isr' = (m_isr \cup {CASCADE}) \ {CASCADE}
          /\ s_isr' = (s_isr \cup {l}) \ {l}
      <4>1. send_eoi(Number[h], Served(l)) =
               [m |-> (m_isr \cup {CASCADE}) \ {CASCADE}, s |-> (s_isr \cup {l}) \ {l}]
        <5>1. PICK n, isr : n = Number[h] /\ isr = Served(l)
          OBVIOUS
        <5>2. /\ n > 8 /\ isr.m = m_isr \cup {CASCADE} /\ isr.s = s_isr \cup {l}
              /\ Highest(isr.m) = {CASCADE} /\ Highest(isr.s) = {l}
          <6>1. isr.m = m_isr \cup {CASCADE} /\ isr.s = s_isr \cup {l}
            BY <3>1, <5>1
          <6>2. n > 8
            BY <3>2, <5>1, Zenon
          <6> QED BY <3>3, <6>1, <6>2, Zenon
        <5>3. send_eoi(n, isr) = [m |-> isr.m \ {CASCADE}, s |-> isr.s \ {l}]
          BY <5>2 DEF send_eoi
        <5> QED BY <5>1, <5>2, <5>3
      <4> QED BY <2>3, <4>1
    <3> QED BY <2>4, <2>6, <3>4
  <2> QED BY <2>5, <2>6, <2>4
<1> QED BY <1>1, IrqInductive, PTL DEF IrqSpec, OwnLineAcknowledged

(***************************************************************************)
(* The terminal.  The invariant: what the places of the printers allow,    *)
(* where l is one of them.                                                 *)
(***************************************************************************)
PrintPlaces == {"idle", "fill", "copy", "emit", "load", "index", "char", "flush", "send", "reset"}

Prints == [pc : PrintPlaces, off : BOOLEAN, direct : BOOLEAN, msg : Seq(TtyChars),
           todo : Seq(TtyChars), then : {"store", "load", "done"}, idx : Nat, n : Nat, i : Nat]

(* In the last part of tty_output_write, and in a flush. *)
Ending(l) == l.pc = "char" \/ (l.pc \in {"flush", "send", "reset"} /\ l.then = "done")

PrintOK(l) ==
    /\ l.pc = "idle" => l = Idle
    /\ l.pc # "idle" => Len(l.msg) \in 1 .. 2 /\ Len(l.todo) \in 1 .. Len(l.msg)
    /\ l.pc \in {"fill", "copy"} => Len(l.todo) = 2
    /\ l.pc = "fill" => l.n \in 1 .. 2
    /\ l.pc = "copy" => l.n \in 0 .. 1
    /\ l.direct => Len(l.msg) = 1
    /\ Straight(l) => l.pc \in {"idle", "fill", "copy", "emit", "send"}
    /\ l.pc = "send" => l.i < l.n /\ l.n <= TTY_OUT_BUFSIZE + MaxMixed
    /\ l.pc = "send" /\ Straight(l) => l.n = 1

TtyTyped ==
    /\ emitter \in {"notty", "tty"}
    /\ outputbuf \in [Cells -> TtyChars] /\ outputidx \in Nat
    /\ tbuf \in TtyChars \X TtyChars
    /\ line \in Seq(TtyChars) /\ wanted \in Seq(TtyChars)
    /\ overlap \in [calls : Nat, threads : Nat]
    /\ place \in [Printer -> Prints]
    /\ \A p \in Printer : PrintOK(place[p])

Nested == overlap.calls + overlap.threads

Overlaps ==
    /\ Nested <= Len(wanted) /\ Nested <= MaxMixed
    /\ \A p, q \in Printer : place[p].off /\ place[q].off => p = q
    /\ \A p, q \in Busy :
          /\ overlap.threads = 0 /\ ~place[p].off /\ ~place[q].off => p = q
          /\ Alone => p = q
    /\ emitter = "notty" => \A p \in Busy : p = boot

(* A character that is in the buffer will be flushed. *)
Flushes(l) == ~Straight(l) /\ l.pc \in {"char", "flush", "send", "reset"}

Emptied == outputidx # 0 => \E p \in Printer : Flushes(place[p])

(* The index, while only system calls interrupt a print. *)
Space ==
    overlap.threads = 0 =>
        /\ outputidx <= TTY_OUT_BUFSIZE
        /\ \A p \in Printer :
              /\ place[p].pc \in {"index", "char"} => place[p].idx < TTY_OUT_BUFSIZE
              /\ place[p].pc = "load" =>
                    \/ outputidx < TTY_OUT_BUFSIZE
                    \/ \E q \in Printer \ {p} : place[q].off /\ Flushes(place[q])

(* The characters that are still to be put into the buffer. *)
Left(l) == IF l.pc = "idle" THEN 0 ELSE IF Ending(l) THEN Len(l.todo) - 1 ELSE Len(l.todo)

Pending == {s \in Printer \X (1 .. 2) : s[2] <= Left(place[s[1]])}

Counted ==
    /\ outputidx + Cardinality(Pending) <= Len(wanted)
    /\ \A p \in Printer : place[p].pc = "index" => place[p].idx + Cardinality(Pending) <= Len(wanted)

(* A print that found the buffer empty and was not interrupted since. *)
Solo(l) ==
    /\ outputidx = IF Ending(l) /\ ~Straight(l) THEN 1 ELSE 0
    /\ l.pc \in {"index", "char"} => l.idx = 0
    /\ l.pc = "send" /\ ~Straight(l) => l.then = "done" /\ l.n = 1

Clean == Alone \/ Len(wanted) > MaxMixed

Solos ==
    Clean => \A p \in Busy : Busy = {p} /\ Solo(place[p])

Bounded ==
    \A p \in Printer : place[p].pc = "char" => place[p].idx < TTY_OUT_BUFSIZE + MaxMixed

(* What is not yet sent, and what must have been by then. *)
Unsent(l) == IF l.pc = "reset" /\ l.then = "done" THEN Tail(l.todo) ELSE l.todo

EndsWith(s, m, d) == d <= Len(s) /\ \A k \in 1 .. d : s[Len(s) - d + k] = m[k]

Whole(l) == l.todo = l.msg \/ (Len(l.msg) = 2 /\ l.todo = <<l.msg[2]>>)

Unspoken(l) ==
    /\ Whole(l)
    /\ EndsWith(line, l.msg, Len(l.msg) - Len(Unsent(l)))
    /\ Alone => wanted = line \o Unsent(l)

InTbuf(l) ==
    /\ l.pc = "fill" /\ l.n = 1 => tbuf[1] = l.msg[2]
    /\ l.pc = "copy" => tbuf[1] = l.msg[2] /\ tbuf[2] = l.msg[1]

InOutput(l) ==
    /\ l.pc = "char" => outputidx = l.idx + 1
    /\ l.pc = "flush" /\ l.then = "done" => outputidx > 0 /\ outputbuf[outputidx - 1] = Head(l.todo)
    /\ l.pc = "send" /\ ~Straight(l) /\ l.then = "done" => outputbuf[l.n - 1] = Head(l.todo)

Own(l) ==
    /\ Unspoken(l) /\ InTbuf(l) /\ InOutput(l)
    /\ Len(l.todo) < Len(l.msg) => Solo(l)

Owned == \A p \in Busy : place[p].off \/ Alone => Own(place[p])

Quiet == Alone /\ Busy = {} => line = wanted

TtyInv ==
    /\ TtyTyped /\ Overlaps
    /\ Emptied /\ Space
    /\ Counted /\ Solos /\ Bounded
    /\ Owned /\ Quiet

(***************************************************************************)
(* One lemma for every step: which place it leads to.                      *)
(***************************************************************************)
Same(l, r) == r.off = l.off /\ r.direct = l.direct /\ r.msg = l.msg

Moved(p) ==
    /\ place[p].pc # "idle"
    /\ \A q \in Printer \ {p} : ~place[q].off /\ place'[q] = place[q]
    /\ place' \in [Printer -> Prints]
    /\ emitter' = emitter /\ wanted' = wanted /\ overlap' = overlap
    /\ place'[p] = Idle \/ (place'[p].pc # "idle" /\ Same(place[p], place'[p]))

LEMMA IdleTyped == Idle \in Prints
BY DEF Idle, Prints, PrintPlaces

LEMMA Lengths ==
    ASSUME TtyTyped, NEW p \in Printer, place[p].pc # "idle"
    PROVE  /\ place[p] \in Prints
           /\ Len(place[p].msg) = 1 \/ Len(place[p].msg) = 2
           /\ Len(place[p].todo) = 1 \/ Len(place[p].todo) = 2
           /\ Len(place[p].todo) <= Len(place[p].msg)
<1> PICK l \in Prints : l = place[p]  BY DEF TtyTyped
<1>1. l.msg \in Seq(TtyChars) /\ l.todo \in Seq(TtyChars)  BY DEF Prints
<1>2. PICK a \in Nat, b \in Nat : a = Len(l.msg) /\ b = Len(l.todo)  BY <1>1
<1>3. a \in 1 .. 2 /\ b \in 1 .. a  BY <1>2 DEF TtyTyped, PrintOK
<1>4. (a = 1 \/ a = 2) /\ (b = 1 \/ b = 2) /\ b <= a  BY <1>3
<1> QED  BY <1>2, <1>4

LEMMA MovedTo ==
    ASSUME TtyTyped, NEW p \in Printer, NEW r \in Prints, NEW at, Runs(p, at), at # "idle",
           place' = [place EXCEPT ![p] = r],
           emitter' = emitter, wanted' = wanted, overlap' = overlap,
           r = Idle \/ (r.pc # "idle" /\ Same(place[p], r))
    PROVE  Moved(p) /\ place[p].pc = at /\ place'[p] = r
<1>1. place \in [Printer -> Prints]  BY DEF TtyTyped
<1>2. place' \in [Printer -> Prints] /\ place'[p] = r  BY <1>1
<1> QED  BY <1>1, <1>2 DEF Runs, Moved

LEMMA FillIs ==
    ASSUME TtyTyped, NEW p \in Printer, itoa_fill(p)
    PROVE  /\ Moved(p) /\ place[p].pc = "fill"
           /\ outputbuf' = outputbuf /\ outputidx' = outputidx /\ line' = line
           /\ tbuf' = [tbuf EXCEPT ![3 - place[p].n] = place[p].todo[place[p].n]]
           /\ place'[p].todo = place[p].todo
           /\ \/ place[p].n = 2 /\ place'[p].pc = "fill" /\ place'[p].n = 1
              \/ place[p].n = 1 /\ place'[p].pc = "copy" /\ place'[p].n = 0
<1>1. place[p] \in Prints /\ (place[p].n = 1 \/ place[p].n = 2)
  BY DEF TtyTyped, PrintOK, itoa_fill, Runs
<1> PICK l \in Prints : l = place[p]  BY <1>1
<1>2. CASE l.n = 2
  <2> DEFINE r == [l EXCEPT !.n = 1, !.pc = "fill"]
  <2>1. r \in Prints /\ r.pc = "fill" /\ r.n = 1 /\ r.todo = l.todo /\ Same(l, r)
    BY DEF Prints, PrintPlaces, Same
  <2>2. place' = [place EXCEPT ![p] = r]
    BY <1>2 DEF itoa_fill, TtyTyped
  <2> HIDE DEF r
  <2>3. Moved(p) /\ place[p].pc = "fill" /\ place'[p] = r
    BY <2>1, <2>2, MovedTo DEF itoa_fill, hist
  <2> QED  BY <1>2, <2>1, <2>3 DEF itoa_fill
<1>3. CASE l.n = 1
  <2> DEFINE r == [l EXCEPT !.n = 0, !.pc = "copy"]
  <2>1. r \in Prints /\ r.pc = "copy" /\ r.n = 0 /\ r.todo = l.todo /\ Same(l, r)
    BY DEF Prints, PrintPlaces, Same
  <2>2. place' = [place EXCEPT ![p] = r]
    BY <1>3 DEF itoa_fill, TtyTyped
  <2> HIDE DEF r
  <2>3. Moved(p) /\ place[p].pc = "fill" /\ place'[p] = r
    BY <2>1, <2>2, MovedTo DEF itoa_fill, hist
  <2> QED  BY <1>3, <2>1, <2>3 DEF itoa_fill
<1> QED  BY <1>1, <1>2, <1>3

LEMMA CopyIs ==
    ASSUME TtyTyped, NEW p \in Printer, itoa_copy(p)
    PROVE  /\ Moved(p) /\ place[p].pc = "copy"
           /\ outputbuf' = outputbuf /\ outputidx' = outputidx /\ line' = line /\ tbuf' = tbuf
           /\ \/ /\ place[p].n = 0 /\ place'[p].pc = "copy" /\ place'[p].n = 1
                 /\ place'[p].todo = [place[p].todo EXCEPT ![1] = tbuf[2]]
              \/ /\ place[p].n = 1 /\ place'[p].pc = "emit" /\ place'[p].n = 0
                 /\ place'[p].todo = [place[p].todo EXCEPT ![2] = tbuf[1]]
<1>1. place[p] \in Prints /\ (place[p].n = 0 \/ place[p].n = 1) /\ Len(place[p].todo) = 2
  BY DEF TtyTyped, PrintOK, itoa_copy, Runs
<1> PICK l \in Prints : l = place[p]  BY <1>1
<1>2. PICK one, two : one = tbuf[1] /\ two = tbuf[2]  OBVIOUS
<1>3. one \in TtyChars /\ two \in TtyChars  BY <1>2 DEF TtyTyped
<1>4. l.todo \in Seq(TtyChars) /\ Len(l.todo) = 2  BY <1>1 DEF Prints
<1>5. \A k \in 1 .. 2, v \in TtyChars : [l.todo EXCEPT ![k] = v] \in Seq(TtyChars)
  BY <1>4, ExceptSeq
<1>6. CASE l.n = 0
  <2> PICK t : t = [l.todo EXCEPT ![1] = two]  OBVIOUS
  <2> DEFINE r == [l EXCEPT !.todo = t, !.n = 1, !.pc = "copy"]
  <2>0. t \in Seq(TtyChars)  BY <1>3, <1>5
  <2>1. /\ r \in Prints /\ r.pc = "copy" /\ r.n = 1
        /\ r.todo = t /\ Same(l, r)
    BY <2>0 DEF Prints, PrintPlaces, Same
  <2>2. place' = [place EXCEPT ![p] = r]
    BY <1>6, <1>2 DEF itoa_copy, CopyFrom
  <2> HIDE DEF r
  <2>3. Moved(p) /\ place[p].pc = "copy" /\ place'[p] = r
    BY <2>1, <2>2, MovedTo DEF itoa_copy, hist, tty
  <2> QED  BY <1>2, <1>6, <2>1, <2>3 DEF itoa_copy, tty
<1>7. CASE l.n = 1
  <2> PICK t : t = [l.todo EXCEPT ![2] = one]  OBVIOUS
  <2> DEFINE r == [l EXCEPT !.todo = t, !.n = 0, !.pc = "emit"]
  <2>0. t \in Seq(TtyChars)  BY <1>3, <1>5
  <2>1. /\ r \in Prints /\ r.pc = "emit" /\ r.n = 0
        /\ r.todo = t /\ Same(l, r)
    BY <2>0 DEF Prints, PrintPlaces, Same
  <2>2. place' = [place EXCEPT ![p] = r]
    BY <1>7, <1>2 DEF itoa_copy, CopyFrom
  <2> HIDE DEF r
  <2>3. Moved(p) /\ place[p].pc = "copy" /\ place'[p] = r
    BY <2>1, <2>2, MovedTo DEF itoa_copy, hist, tty
  <2> QED  BY <1>2, <1>7, <2>1, <2>3 DEF itoa_copy, tty
<1> QED  BY <1>1, <1>6, <1>7

(* Behind the test for space. *)
Stored(l, r) ==
    /\ Same(l, r) /\ r.todo = l.todo
    /\ \/ r.pc = "flush" /\ r.then = "load"
       \/ r.pc = "load"

LEMMA StoreIs == \A l \in Prints : Store(l) \in Prints /\ Stored(l, Store(l))
BY DEF Store, Stored, Flush, Prints, PrintPlaces, Same

LEMMA EmitIs ==
    ASSUME TtyTyped, NEW p \in Printer, emit(p)
    PROVE  /\ Moved(p) /\ place[p].pc = "emit"
           /\ outputbuf' = outputbuf /\ outputidx' = outputidx /\ line' = line /\ tbuf' = tbuf
           /\ place'[p].todo = place[p].todo
           /\ \/ /\ Straight(place[p])
                 /\ place'[p].pc = "send" /\ place'[p].n = 1 /\ place'[p].i = 0
              \/ /\ ~Straight(place[p]) /\ OutOfSpace
                 /\ place'[p].pc = "flush" /\ place'[p].then = "store"
              \/ /\ ~Straight(place[p]) /\ ~OutOfSpace
                 /\ \/ place'[p].pc = "flush" /\ place'[p].then = "load"
                    \/ place'[p].pc = "load"
<1> PICK l \in Prints : l = place[p]  BY DEF TtyTyped
<1>1. CASE Straight(l)
  <2> DEFINE r == [[l EXCEPT !.n = 1, !.i = 0] EXCEPT !.pc = "send"]
  <2>1. /\ r \in Prints /\ r.pc = "send" /\ r.n = 1 /\ r.i = 0 /\ r.todo = l.todo /\ Same(l, r)
    BY DEF Prints, PrintPlaces, Same
  <2>2. Sending([l EXCEPT !.n = 1, !.i = 0]) = r  BY DEF Sending, Prints
  <2> HIDE DEF r
  <2>3. place' = [place EXCEPT ![p] = r]  BY <1>1, <2>2 DEF emit
  <2>4. Moved(p) /\ place[p].pc = "emit" /\ place'[p] = r
    BY <2>1, <2>3, MovedTo DEF emit, hist, tty
  <2> QED  BY <1>1, <2>1, <2>4 DEF emit, tty
<1>2. CASE ~Straight(l) /\ OutOfSpace
  <2> DEFINE r == Flush(l, "store")
  <2>1. r \in Prints /\ r.pc = "flush" /\ r.then = "store" /\ r.todo = l.todo /\ Same(l, r)
    BY DEF Prints, PrintPlaces, Same, Flush
  <2> HIDE DEF r
  <2>3. place' = [place EXCEPT ![p] = r]  BY <1>2 DEF emit, r
  <2>4. Moved(p) /\ place[p].pc = "emit" /\ place'[p] = r
    BY <2>1, <2>3, MovedTo DEF emit, hist, tty
  <2> QED  BY <1>2, <2>1, <2>4 DEF emit, tty
<1>3. CASE ~Straight(l) /\ ~OutOfSpace
  <2>1. PICK r : r = Store(l)  OBVIOUS
  <2>2. r \in Prints /\ Stored(l, r)  BY <2>1, StoreIs
  <2>3. place' = [place EXCEPT ![p] = r]  BY <1>3, <2>1 DEF emit
  <2>4. Moved(p) /\ place[p].pc = "emit" /\ place'[p] = r
    BY <2>2, <2>3, MovedTo DEF emit, hist, tty, Stored
  <2> QED  BY <1>3, <2>2, <2>4 DEF emit, tty, Stored
<1> QED  BY <1>1, <1>2, <1>3

LEMMA LoadIs ==
    ASSUME TtyTyped, NEW p \in Printer, tty_load(p)
    PROVE  /\ Moved(p) /\ place[p].pc = "load"
           /\ outputbuf' = outputbuf /\ outputidx' = outputidx /\ line' = line /\ tbuf' = tbuf
           /\ place'[p].todo = place[p].todo
           /\ place'[p].pc = "index" /\ place'[p].idx = outputidx
<1>1. place[p] \in Prints  BY DEF TtyTyped
<1> QED  BY <1>1 DEF TtyTyped, tty_load, Runs, Moved, Same, Prints, PrintPlaces, hist, tty

LEMMA IndexIs ==
    ASSUME TtyTyped, NEW p \in Printer, tty_index(p)
    PROVE  /\ Moved(p) /\ place[p].pc = "index"
           /\ outputbuf' = outputbuf /\ outputidx' = place[p].idx + 1 /\ line' = line /\ tbuf' = tbuf
           /\ place'[p].todo = place[p].todo
           /\ place'[p].pc = "char" /\ place'[p].idx = place[p].idx
<1>1. place[p] \in Prints  BY DEF TtyTyped
<1> QED  BY <1>1 DEF TtyTyped, tty_index, Goto, Runs, Moved, Same, Prints, PrintPlaces, hist

LEMMA CharIs ==
    ASSUME TtyTyped, NEW p \in Printer, tty_char(p)
    PROVE  /\ Moved(p) /\ place[p].pc = "char"
           /\ outputbuf' = [outputbuf EXCEPT ![place[p].idx] = Head(place[p].todo)]
           /\ outputidx' = outputidx /\ line' = line /\ tbuf' = tbuf
           /\ place'[p].todo = place[p].todo
           /\ place'[p].pc = "flush" /\ place'[p].then = "done"
<1>1. place[p] \in Prints  BY DEF TtyTyped
<1> QED  BY <1>1 DEF TtyTyped, tty_char, Char, AfterChar, Flush, Runs, Moved, Same, Prints, PrintPlaces, hist

LEMMA FlushIs ==
    ASSUME TtyTyped, NEW p \in Printer, tty_flush_output(p)
    PROVE  /\ Moved(p) /\ place[p].pc = "flush" /\ ~Straight(place[p])
           /\ outputbuf' = outputbuf /\ outputidx' = outputidx /\ line' = line /\ tbuf' = tbuf
           /\ place'[p].todo = place[p].todo /\ place'[p].then = place[p].then
           /\ place'[p].n = outputidx /\ place'[p].i = 0
           /\ place'[p].pc = IF outputidx = 0 THEN "reset" ELSE "send"
<1>1. place[p] \in Prints /\ ~Straight(place[p]) /\ outputidx \in Nat
  BY DEF TtyTyped, tty_flush_output, Runs, PrintOK
<1> PICK l \in Prints : l = place[p]  BY <1>1
<1> PICK n \in Nat : n = outputidx  BY <1>1
<1> DEFINE m == [l EXCEPT !.n = n, !.i = 0]
           at == IF n = 0 THEN "reset" ELSE "send"
           r == [m EXCEPT !.pc = at]
<1>2. /\ m.i = 0 /\ m.n = n /\ m.direct = l.direct /\ m.then = l.then /\ m.todo = l.todo
      /\ m.off = l.off /\ m.msg = l.msg /\ m \in Prints
  BY DEF Prints
<1> HIDE DEF m
<1>3. /\ r \in Prints /\ r.pc = at /\ r.pc # "idle" /\ r.then = l.then /\ r.n = n /\ r.i = 0
      /\ r.todo = l.todo /\ Same(l, r)
  BY <1>2 DEF Prints, PrintPlaces, Same
<1>4. Sending(m) = r
  BY <1>1, <1>2 DEF Sending, Straight
<1> HIDE DEF r
<1>5. place' = [place EXCEPT ![p] = r]
  BY <1>4 DEF tty_flush_output, m
<1>6. Moved(p) /\ place[p].pc = "flush" /\ place'[p] = r
  BY <1>3, <1>5, MovedTo DEF tty_flush_output, hist, tty
<1> QED  BY <1>1, <1>3, <1>6 DEF tty_flush_output, tty

(* The next character, or none. *)
Ended(l, r) ==
    \/ Len(l.todo) = 1 /\ r = Idle
    \/ Len(l.todo) = 2 /\ r.pc = "emit" /\ r.todo = Tail(l.todo)

LEMMA EmittedIs ==
    ASSUME NEW l \in Prints, Len(l.todo) \in 1 .. 2
    PROVE  /\ Emitted(l) \in Prints /\ Ended(l, Emitted(l))
           /\ Emitted(l) = Idle \/ (Emitted(l).pc # "idle" /\ Same(l, Emitted(l)))
<1>1. l.todo \in Seq(TtyChars)  BY DEF Prints
<1>2. CASE Len(l.todo) = 1
  BY <1>2, IdleTyped DEF Emitted, Ended
<1>3. CASE Len(l.todo) = 2
  <2> DEFINE r == [l EXCEPT !.todo = Tail(l.todo), !.pc = "emit"]
  <2>1. Emitted(l) = r  BY <1>3 DEF Emitted
  <2>2. Tail(l.todo) \in Seq(TtyChars)
    <3>1. PICK t \in Seq(TtyChars) : t = l.todo  BY <1>1
    <3>2. Len(t) = 2  BY <1>3, <3>1
    <3>3. t # <<>>  BY <3>2, EmptySeq
    <3>4. Tail(t) \in Seq(TtyChars)  BY <3>3, HeadTailProperties
    <3> QED  BY <3>1, <3>4
  <2>3. r \in Prints /\ r.todo = Tail(l.todo) /\ r.pc = "emit" /\ Same(l, r)
    BY <2>2 DEF Prints, PrintPlaces, Same
  <2> QED  BY <1>3, <2>1, <2>3 DEF Ended
<1> QED  BY <1>2, <1>3

LEMMA FlushedIs ==
    ASSUME TtyTyped, NEW p \in Printer, tty_flushed(p)
    PROVE  /\ Moved(p) /\ place[p].pc = "reset" /\ ~Straight(place[p])
           /\ outputbuf' = outputbuf /\ outputidx' = 0 /\ line' = line /\ tbuf' = tbuf
           /\ \/ place[p].then = "done" /\ Ended(place[p], place'[p])
              \/ /\ place[p].then # "done" /\ place'[p].todo = place[p].todo
                 /\ \/ place'[p].pc = "flush" /\ place'[p].then = "load"
                    \/ place'[p].pc = "load"
<1>0. place[p].pc = "reset"  BY DEF tty_flushed, Runs
<1>1. place[p] \in Prints /\ ~Straight(place[p]) /\ Len(place[p].todo) \in 1 .. 2
  BY <1>0, Lengths DEF TtyTyped, PrintOK
<1> PICK l \in Prints : l = place[p]  BY <1>1
<1>2. CASE l.then = "done"
  <2>1. PICK r : r = Emitted(l)  OBVIOUS
  <2>2. r \in Prints /\ Ended(l, r) /\ (r = Idle \/ (r.pc # "idle" /\ Same(l, r)))
    BY <1>1, <2>1, EmittedIs
  <2>3. place' = [place EXCEPT ![p] = r]  BY <1>2, <2>1 DEF tty_flushed
  <2>4. Moved(p) /\ place[p].pc = "reset" /\ place'[p] = r
    BY <2>2, <2>3, MovedTo DEF tty_flushed, hist
  <2> QED  BY <1>1, <1>2, <2>2, <2>4 DEF tty_flushed
<1>3. CASE l.then # "done"
  <2>1. PICK r : r = IF l.then = "store" THEN Store(l) ELSE [l EXCEPT !.pc = "load"]  OBVIOUS
  <2>2. r \in Prints /\ Stored(l, r)
    <3>1. CASE l.then = "store"  BY <2>1, <3>1, StoreIs
    <3>2. CASE l.then # "store"
      BY <2>1, <3>2 DEF Stored, Same, Prints, PrintPlaces
    <3> QED  BY <3>1, <3>2
  <2>3. l.then = "store" \/ l.then = "load"  BY <1>3 DEF Prints
  <2>4. place' = [place EXCEPT ![p] = r]  BY <1>3, <2>1, <2>3 DEF tty_flushed
  <2>5. Moved(p) /\ place[p].pc = "reset" /\ place'[p] = r
    BY <2>2, <2>4, MovedTo DEF tty_flushed, hist, Stored
  <2> QED  BY <1>1, <1>3, <2>2, <2>5 DEF tty_flushed, Stored
<1> QED  BY <1>2, <1>3

LEMMA SendIs ==
    ASSUME TtyTyped, NEW p \in Printer, console_send(p)
    PROVE  /\ Moved(p) /\ place[p].pc = "send" /\ place[p].i < place[p].n
           /\ outputbuf' = outputbuf /\ outputidx' = outputidx /\ tbuf' = tbuf
           /\ \/ /\ Straight(place[p]) /\ Ended(place[p], place'[p])
                 /\ line' = Append(line, Head(place[p].todo))
              \/ /\ ~Straight(place[p]) /\ place'[p].todo = place[p].todo
                 /\ place'[p].then = place[p].then /\ place'[p].n = place[p].n
                 /\ line' = Append(line, outputbuf[place[p].i])
                 /\ \/ place[p].i + 1 < place[p].n /\ place'[p].pc = "send" /\ place'[p].i = place[p].i + 1
                    \/ place[p].i + 1 = place[p].n /\ place'[p].pc = "reset"
<1>1. place[p] \in Prints /\ Len(place[p].todo) \in 1 .. 2 /\ place[p].i < place[p].n
  BY Lengths DEF TtyTyped, console_send, Runs, PrintOK
<1> PICK l \in Prints : l = place[p]  BY <1>1
<1>2. l.i \in Nat /\ l.n \in Nat  BY DEF Prints
<1>m. PICK m : m = [l EXCEPT !.i = l.i + 1]  OBVIOUS
<1>3. /\ m \in Prints /\ m.i = l.i + 1 /\ m.n = l.n /\ m.pc = l.pc /\ m.then = l.then
      /\ m.todo = l.todo /\ Same(l, m)
  <2>1. PICK k \in Nat : k = l.i + 1  BY <1>2
  <2>2. m = [l EXCEPT !.i = k]  BY <1>m, <2>1
  <2>3. m \in Prints  BY <2>2 DEF Prints
  <2>4. /\ m.i = k /\ m.n = l.n /\ m.pc = l.pc /\ m.then = l.then /\ m.todo = l.todo
        /\ m.off = l.off /\ m.direct = l.direct /\ m.msg = l.msg
    BY <2>2 DEF Prints
  <2> QED  BY <2>1, <2>3, <2>4 DEF Same
<1>4. PICK r : r = Sending(m)  OBVIOUS
<1>5. place' = [place EXCEPT ![p] = r]  BY <1>m, <1>4 DEF console_send
<1>6. CASE Straight(l)
  <2>1. l.n = 1  BY <1>6 DEF TtyTyped, console_send, Runs, PrintOK
  <2>2. r = Emitted(m)
    BY <1>1, <1>2, <1>3, <1>4, <1>6, <2>1 DEF Sending, Straight, Same
  <2>3. r \in Prints /\ Ended(m, r) /\ (r = Idle \/ (r.pc # "idle" /\ Same(m, r)))
    BY <1>1, <1>3, <2>2, EmittedIs
  <2>a. r = Idle \/ (r.pc # "idle" /\ Same(l, r))  BY <1>3, <2>3 DEF Same
  <2>4. Moved(p) /\ place[p].pc = "send" /\ place'[p] = r
    BY <1>5, <2>3, <2>a, MovedTo DEF console_send, hist, tty
  <2> QED  BY <1>1, <1>3, <1>6, <2>3, <2>4 DEF console_send, Sent, Char, tty, Ended
<1>7. CASE ~Straight(l)
  <2>0. PICK at : at = IF m.i < m.n THEN "send" ELSE "reset"  OBVIOUS
  <2>1. r = [m EXCEPT !.pc = at]
    BY <1>3, <1>4, <1>7, <2>0 DEF Sending, Straight, Same
  <2>a. at = "send" \/ at = "reset"  BY <2>0
  <2>2. /\ r \in Prints /\ r.pc = at /\ r.pc # "idle" /\ Same(l, r) /\ r.todo = l.todo
        /\ r.then = l.then /\ r.n = l.n /\ r.i = l.i + 1
    BY <1>3, <2>1, <2>a DEF Prints, PrintPlaces, Same
  <2>3. Moved(p) /\ place[p].pc = "send" /\ place'[p] = r
    BY <1>5, <2>2, MovedTo DEF console_send, hist, tty
  <2>4. \/ l.i + 1 < l.n /\ r.pc = "send"
        \/ l.i + 1 = l.n /\ r.pc = "reset"
    BY <1>1, <1>2, <1>3, <2>0, <2>2
  <2> QED  BY <1>1, <1>7, <2>2, <2>3, <2>4 DEF console_send, Sent, tty
<1> QED  BY <1>6, <1>7

LEMMA Sizes ==
    /\ TTY_OUT_BUFSIZE \in Nat /\ TTY_OUT_BUFSIZE > 0
    /\ MaxMixed \in Nat /\ MaxMixed > 0
BY TerminalAssumption DEF TerminalAssumption

LEMMA StepMoves ==
    ASSUME TtyTyped, NEW p \in Printer, Step(p)
    PROVE  Moved(p)
BY FillIs, CopyIs, EmitIs, LoadIs, IndexIs, CharIs, FlushIs, FlushedIs, SendIs DEF Step

(***************************************************************************)
(* The types.                                                              *)
(***************************************************************************)
LEMMA PairExcept ==
    ASSUME NEW S, NEW t \in S \X S, NEW v \in S
    PROVE  /\ [t EXCEPT ![1] = v] = <<v, t[2]>>
           /\ [t EXCEPT ![2] = v] = <<t[1], v>>
<1>1. PICK a \in S, b \in S : t = <<a, b>>  OBVIOUS
<1> QED  BY <1>1

LEMMA IdleOK == PrintOK(Idle)'
BY DEF PrintOK, Idle, Straight

LEMMA TypedFrom ==
    ASSUME TtyTyped, NEW p \in Printer, Moved(p),
           place'[p] = Idle \/ PrintOK(place[p])',
           outputbuf' \in [Cells -> TtyChars], outputidx' \in Nat,
           tbuf' \in TtyChars \X TtyChars, line' \in Seq(TtyChars)
    PROVE  TtyTyped'
<1>1. \A q \in Printer \ {p} : PrintOK(place[q])'
  BY DEF TtyTyped, Moved, PrintOK, Straight
<1>2. PrintOK(place[p])'  BY IdleOK DEF PrintOK, Straight
<1> QED  BY <1>1, <1>2 DEF TtyTyped, Moved

LEMMA TailOfTwo ==
    ASSUME NEW S, NEW s \in Seq(S), Len(s) = 2
    PROVE  Tail(s) \in Seq(S) /\ Len(Tail(s)) = 1 /\ Tail(s)[1] = s[2]
<1>1. s # <<>>  OBVIOUS
<1>2. /\ Tail(s) \in Seq(S) /\ Len(Tail(s)) = Len(s) - 1
      /\ \A j \in 1 .. Len(Tail(s)) : Tail(s)[j] = s[j + 1]
  BY <1>1, HeadTailProperties
<1>3. Len(Tail(s)) = 1  BY <1>2
<1>4. Tail(s)[1] = s[1 + 1]  BY <1>2, <1>3
<1> QED  BY <1>2, <1>3, <1>4

LEMMA EndedOK ==
    ASSUME TtyTyped, NEW p \in Printer, Moved(p), Ended(place[p], place'[p])
    PROVE  place'[p] = Idle \/ PrintOK(place[p])'
<1>1. place[p] \in Prints /\ place[p].pc # "idle" /\ PrintOK(place[p])
  BY DEF Moved, TtyTyped
<1> PICK l \in Prints : l = place[p]  BY <1>1
<1>2. l.todo \in Seq(TtyChars)  BY DEF Prints
<1>3. SUFFICES ASSUME place'[p] # Idle  PROVE PrintOK(place[p])'  OBVIOUS
<1>4. /\ Len(l.todo) = 2 /\ place'[p].pc = "emit" /\ place'[p].todo = Tail(l.todo)
      /\ Same(l, place'[p])
  BY <1>3 DEF Ended, Moved
<1>5. Len(place'[p].todo) = 1  BY <1>2, <1>4, TailOfTwo
<1>6. Len(l.msg) = 2
  <2>1. PICK a, b : a = Len(l.msg) /\ b = Len(l.todo)  OBVIOUS
  <2>2. (a = 1 \/ a = 2) /\ b <= a /\ b = 2  BY <1>1, <1>4, <2>1, Lengths
  <2>3. a = 2  BY <2>2
  <2> QED  BY <2>1, <2>3, Zenon
<1>7. Len(place'[p].msg) = 2  BY <1>4, <1>6 DEF Same
<1>8. place'[p].direct = l.direct  BY <1>4 DEF Same
<1> QED  BY <1>1, <1>4, <1>5, <1>6, <1>7, <1>8 DEF PrintOK, Straight

LEMMA TypedStep ==
    ASSUME TtyTyped, Bounded, outputidx <= TTY_OUT_BUFSIZE + MaxMixed,
           NEW p \in Printer, Step(p)
    PROVE  TtyTyped'
<1>1. Moved(p)  BY StepMoves
<1>2. place[p].pc # "idle" /\ place[p] \in Prints /\ PrintOK(place[p])
  BY <1>1 DEF Moved, TtyTyped
<1> PICK l \in Prints : l = place[p]  BY <1>2
<1>3. /\ outputbuf \in [Cells -> TtyChars] /\ outputidx \in Nat
      /\ tbuf \in TtyChars \X TtyChars /\ line \in Seq(TtyChars)
  BY DEF TtyTyped
<1>4. /\ l.todo \in Seq(TtyChars) /\ l.msg \in Seq(TtyChars)
      /\ Len(l.todo) = 1 \/ Len(l.todo) = 2
      /\ Len(l.msg) = 1 \/ Len(l.msg) = 2
      /\ Len(l.todo) <= Len(l.msg)
  BY <1>2, Lengths DEF Prints
<1>5. /\ Head(l.todo) \in TtyChars
      /\ \A k \in 1 .. Len(l.todo) : l.todo[k] \in TtyChars
  BY <1>4
<1>6. \A r \in Prints : Same(l, r) => (Straight(r)' <=> Straight(l))
  BY <1>1 DEF Moved, Same, Straight
<1>7. CASE itoa_fill(p)
  <2>1. /\ Moved(p) /\ l.pc = "fill"
        /\ tbuf' = [tbuf EXCEPT ![3 - l.n] = l.todo[l.n]]
        /\ place'[p].todo = l.todo
        /\ \/ l.n = 2 /\ place'[p].pc = "fill" /\ place'[p].n = 1
           \/ l.n = 1 /\ place'[p].pc = "copy" /\ place'[p].n = 0
    BY <1>7, FillIs
  <2>2. Len(l.todo) = 2  BY <1>2, <2>1 DEF PrintOK
  <2>3. tbuf' \in TtyChars \X TtyChars
    <3>1. CASE l.n = 1
      <4>1. tbuf' = [tbuf EXCEPT ![2] = l.todo[1]]  BY <2>1, <3>1
      <4> QED  BY <1>3, <1>5, <2>2, <4>1, PairExcept
    <3>2. CASE l.n = 2
      <4>1. tbuf' = [tbuf EXCEPT ![1] = l.todo[2]]  BY <2>1, <3>2
      <4> QED  BY <1>3, <1>5, <2>2, <4>1, PairExcept
    <3> QED  BY <2>1, <3>1, <3>2
  <2>4. PrintOK(place[p])'
    BY <1>2, <1>6, <2>1, <2>2 DEF Moved, Same, PrintOK, Idle
  <2> QED  BY <1>1, <1>3, <1>7, <2>3, <2>4, FillIs, TypedFrom
<1>8. CASE itoa_copy(p)
  <2>1. /\ Moved(p) /\ l.pc = "copy" /\ tbuf[1] \in TtyChars /\ tbuf[2] \in TtyChars
        /\ \/ place'[p].pc = "copy" /\ place'[p].n = 1
              /\ place'[p].todo = [l.todo EXCEPT ![1] = tbuf[2]]
           \/ place'[p].pc = "emit"
              /\ place'[p].todo = [l.todo EXCEPT ![2] = tbuf[1]]
    BY <1>3, <1>8, CopyIs
  <2>2. Len(l.todo) = 2  BY <1>2, <2>1 DEF PrintOK
  <2>3. \A k \in 1 .. 2, v \in TtyChars : Len([l.todo EXCEPT ![k] = v]) = 2
    BY <1>4, <2>2, ExceptSeq
  <2>4. Len(place'[p].todo) = 2  BY <2>1, <2>3
  <2>5. PrintOK(place[p])'
    BY <1>2, <1>4, <1>6, <2>1, <2>2, <2>4 DEF Moved, Same, PrintOK, Idle
  <2>6. outputbuf' = outputbuf /\ outputidx' = outputidx /\ line' = line /\ tbuf' = tbuf
    BY <1>8, CopyIs
  <2> QED  BY <1>1, <1>3, <2>1, <2>5, <2>6, TypedFrom
<1>9. CASE emit(p)
  <2>0. TTY_OUT_BUFSIZE + MaxMixed > 0  BY Sizes
  <2>1. PrintOK(place[p])'
    <3>1. CASE Straight(l)
      BY <1>2, <1>4, <1>6, <1>9, <2>0, <3>1, EmitIs, Sizes DEF Moved, Same, PrintOK, Idle
    <3>2. CASE ~Straight(l)
      BY <1>2, <1>4, <1>6, <1>9, <3>2, EmitIs DEF Moved, Same, PrintOK, Idle
    <3> QED  BY <3>1, <3>2
  <2> QED  BY <1>1, <1>3, <1>9, <2>1, EmitIs, TypedFrom
<1>10. CASE tty_load(p)
  <2>1. PrintOK(place[p])'
    BY <1>2, <1>4, <1>6, <1>10, LoadIs DEF Moved, Same, PrintOK, Idle
  <2> QED  BY <1>1, <1>3, <1>10, <2>1, LoadIs, TypedFrom
<1>11. CASE tty_index(p)
  <2>1. PrintOK(place[p])'
    BY <1>2, <1>4, <1>6, <1>11, IndexIs DEF Moved, Same, PrintOK, Idle
  <2>2. l.idx + 1 \in Nat  BY DEF Prints
  <2> QED  BY <1>1, <1>3, <1>11, <2>1, <2>2, IndexIs, TypedFrom
<1>12. CASE tty_char(p)
  <2>1. PrintOK(place[p])'
    BY <1>2, <1>4, <1>6, <1>12, CharIs DEF Moved, Same, PrintOK, Idle
  <2>2. outputbuf' \in [Cells -> TtyChars]
    BY <1>3, <1>5, <1>12, CharIs
  <2> QED  BY <1>1, <1>3, <1>12, <2>1, <2>2, CharIs, TypedFrom
<1>13. CASE tty_flush_output(p)
  <2>1. CASE outputidx = 0
    <3>1. PrintOK(place[p])'
      BY <1>2, <1>4, <1>6, <1>13, <2>1, FlushIs DEF Moved, Same, PrintOK, Idle
    <3> QED  BY <1>1, <1>3, <1>13, <3>1, FlushIs, TypedFrom
  <2>2. CASE outputidx # 0
    <3>1. place'[p].i < place'[p].n /\ place'[p].n <= TTY_OUT_BUFSIZE + MaxMixed
      BY <1>3, <1>13, <2>2, FlushIs DEF Bounded
    <3>2. PrintOK(place[p])'
      BY <1>2, <1>4, <1>6, <1>13, <2>2, <3>1, FlushIs DEF Moved, Same, PrintOK, Idle
    <3> QED  BY <1>1, <1>3, <1>13, <3>2, FlushIs, TypedFrom
  <2> QED  BY <2>1, <2>2
<1>14. CASE tty_flushed(p)
  <2>1. CASE l.then = "done"
    <3>1. Ended(l, place'[p])  BY <1>14, <2>1, FlushedIs
    <3> QED  BY <1>1, <1>3, <1>14, <3>1, EndedOK, FlushedIs, TypedFrom
  <2>2. CASE l.then # "done"
    <3>1. PrintOK(place[p])'
      BY <1>2, <1>4, <1>6, <1>14, <2>2, FlushedIs DEF Moved, Same, PrintOK, Idle
    <3> QED  BY <1>1, <1>3, <1>14, <3>1, FlushedIs, TypedFrom
  <2> QED  BY <2>1, <2>2
<1>15. CASE console_send(p)
  <2>1. place'[p] = Idle \/ PrintOK(place[p])'
    <3>1. CASE Straight(l)
      <4>1. Ended(l, place'[p])  BY <1>15, <3>1, SendIs
      <4> QED  BY <1>1, <4>1, EndedOK
    <3>2. CASE ~Straight(l)
      <4>1. l.i \in Nat /\ l.n \in Nat  BY DEF Prints
      <4> QED  BY <1>2, <1>4, <1>6, <1>15, <3>2, <4>1, SendIs DEF Moved, Same, PrintOK, Idle
    <3> QED  BY <3>1, <3>2
  <2>2. l.n <= TTY_OUT_BUFSIZE + MaxMixed /\ l.i < l.n /\ l.pc = "send"
    BY <1>2, <1>15, SendIs DEF PrintOK
  <2>3. l.i \in Cells  BY <2>2, Sizes DEF Cells, Prints
  <2>4. outputbuf[l.i] \in TtyChars  BY <1>3, <2>3
  <2>5. line' \in Seq(TtyChars)
    <3>1. \A v \in TtyChars : Append(line, v) \in Seq(TtyChars)  BY <1>3
    <3> QED  BY <1>5, <1>15, <2>4, <3>1, SendIs
  <2> QED  BY <1>1, <1>3, <1>15, <2>1, <2>5, SendIs, TypedFrom
<1> QED  BY <1>7, <1>8, <1>9, <1>10, <1>11, <1>12, <1>13, <1>14, <1>15 DEF Step

(***************************************************************************)
(* Who is printing.                                                        *)
(***************************************************************************)
LEMMA OverlapsStep ==
    ASSUME TtyTyped, Overlaps, NEW p \in Printer, Moved(p)
    PROVE  Overlaps'
<1>1. \A q \in Printer : q # p => place'[q] = place[q]  BY DEF Moved
<1>2. p \in Busy /\ (place'[p].off => place[p].off) /\ Busy' \subseteq Busy
  BY <1>1 DEF Moved, Busy, Same, Idle
<1>3. \A q \in Printer : place'[q].off => place[q].off  BY <1>1, <1>2
<1>4. \A q \in Busy' : place'[q].off = place[q].off
  BY <1>1 DEF Moved, Busy, Same, Idle
<1>5. Nested' = Nested /\ Alone' = Alone /\ emitter' = emitter /\ wanted' = wanted /\ overlap' = overlap
  BY DEF Nested, Alone, Moved
<1> QED  BY <1>2, <1>3, <1>4, <1>5 DEF Overlaps

(***************************************************************************)
(* What a step does to the index, to the need to flush, and to the number  *)
(* of characters that are left.                                            *)
(***************************************************************************)
IndexMoves(l, r) ==
    /\ outputidx' = outputidx \/ outputidx' = 0 \/ (l.pc = "index" /\ outputidx' = l.idx + 1)
    /\ r.pc = "index" => l.pc = "load" /\ r.idx = outputidx /\ outputidx' = outputidx
    /\ r.pc = "char" => l.pc = "index" /\ r.idx = l.idx /\ outputidx' = l.idx + 1
    /\ r.pc = "load" => outputidx' = 0 \/ (outputidx' = outputidx /\ ~OutOfSpace)

LEMMA IndexMove ==
    ASSUME TtyTyped, NEW p \in Printer, Step(p)
    PROVE  IndexMoves(place[p], place'[p])
<1>1. CASE itoa_fill(p)  BY <1>1, FillIs DEF IndexMoves
<1>2. CASE itoa_copy(p)  BY <1>2, CopyIs DEF IndexMoves
<1>3. CASE emit(p)  BY <1>3, EmitIs DEF IndexMoves
<1>4. CASE tty_load(p)  BY <1>4, LoadIs DEF IndexMoves
<1>5. CASE tty_index(p)  BY <1>5, IndexIs DEF IndexMoves
<1>6. CASE tty_char(p)  BY <1>6, CharIs DEF IndexMoves
<1>7. CASE tty_flush_output(p)  BY <1>7, FlushIs DEF IndexMoves
<1>8. CASE tty_flushed(p)  BY <1>8, FlushedIs DEF IndexMoves, Ended, Idle
<1>9. CASE console_send(p)  BY <1>9, SendIs DEF IndexMoves, Ended, Idle
<1> QED  BY <1>1, <1>2, <1>3, <1>4, <1>5, <1>6, <1>7, <1>8, <1>9 DEF Step

FlushMoves(p) ==
    /\ outputidx' = outputidx \/ outputidx' = 0 \/ Flushes(place[p])'
    /\ Flushes(place[p]) => Flushes(place[p])' \/ outputidx' = 0
    /\ \A q \in Printer \ {p} : Flushes(place[q])' <=> Flushes(place[q])

LEMMA FlushMove ==
    ASSUME TtyTyped, NEW p \in Printer, Step(p)
    PROVE  FlushMoves(p)
<1>1. Moved(p)  BY StepMoves
<1>2. \A q \in Printer \ {p} : Flushes(place[q])' <=> Flushes(place[q])
  BY <1>1 DEF Moved, Flushes, Straight
<1>3. place'[p].pc # "idle" => (Straight(place[p])' <=> Straight(place[p]))
  BY <1>1 DEF Moved, Same, Straight, Idle
<1>4. Straight(place[p]) => place[p].pc \in {"idle", "fill", "copy", "emit", "send"}
  BY DEF TtyTyped, PrintOK
<1>5. CASE itoa_fill(p)  BY <1>2, <1>5, FillIs DEF FlushMoves, Flushes
<1>6. CASE itoa_copy(p)  BY <1>2, <1>6, CopyIs DEF FlushMoves, Flushes
<1>7. CASE emit(p)  BY <1>2, <1>7, EmitIs DEF FlushMoves, Flushes
<1>8. CASE tty_load(p)  BY <1>2, <1>8, LoadIs DEF FlushMoves, Flushes
<1>9. CASE tty_index(p)  BY <1>2, <1>3, <1>4, <1>9, IndexIs DEF FlushMoves, Flushes
<1>10. CASE tty_char(p)  BY <1>2, <1>3, <1>10, CharIs DEF FlushMoves, Flushes
<1>11. CASE tty_flush_output(p)  BY <1>2, <1>3, <1>11, FlushIs DEF FlushMoves, Flushes
<1>12. CASE tty_flushed(p)  BY <1>2, <1>12, FlushedIs DEF FlushMoves
<1>13. CASE console_send(p)  BY <1>2, <1>3, <1>13, SendIs DEF FlushMoves, Flushes
<1> QED  BY <1>5, <1>6, <1>7, <1>8, <1>9, <1>10, <1>11, <1>12, <1>13 DEF Step

LEMMA LeftMove ==
    ASSUME TtyTyped, NEW p \in Printer, Step(p)
    PROVE  /\ Left(place[p]) \in 0 .. 2 /\ Left(place'[p]) \in 0 .. 2
           /\ Left(place'[p]) <= Left(place[p])
           /\ place[p].pc = "index" => Left(place'[p]) < Left(place[p])
<1>1. Moved(p) /\ place[p].pc # "idle"  BY StepMoves DEF Moved
<1>2. PICK b : b = Len(place[p].todo)  OBVIOUS
<1>3. b = 1 \/ b = 2  BY <1>1, <1>2, Lengths
<1>4. Left(Idle) = 0  BY DEF Left, Idle
<1>5. Ended(place[p], place'[p]) => Left(place'[p]) = b - 1
  <2>1. CASE b = 1  BY <1>2, <1>4, <2>1 DEF Ended
  <2>2. CASE b = 2
    <3>1. place[p].todo \in Seq(TtyChars)  BY <1>1, Lengths DEF Prints
    <3>2. Len(Tail(place[p].todo)) = 1  BY <1>2, <2>2, <3>1, TailOfTwo
    <3>3. PICK t : t = Tail(place[p].todo)  OBVIOUS
    <3>4. SUFFICES ASSUME place'[p].pc = "emit", place'[p].todo = t
                   PROVE  Left(place'[p]) = b - 1
      BY <1>2, <2>2, <3>3 DEF Ended
    <3> QED  BY <2>2, <3>2, <3>3, <3>4 DEF Left, Ending
  <2> QED  BY <1>3, <2>1, <2>2
<1>6. CASE itoa_fill(p)  BY <1>2, <1>3, <1>6, FillIs DEF Left, Ending
<1>7. CASE itoa_copy(p)
  <2>1. b = 2 /\ place[p].todo \in Seq(TtyChars)
    BY <1>1, <1>2, <1>7, CopyIs, Lengths DEF TtyTyped, PrintOK, Prints
  <2>2. PICK t : t = place[p].todo  OBVIOUS
  <2>3. PICK one \in TtyChars, two \in TtyChars : one = tbuf[1] /\ two = tbuf[2]
    BY DEF TtyTyped
  <2>a. t \in Seq(TtyChars) /\ Len(t) = 2  BY <1>2, <2>1, <2>2
  <2>b. Len([t EXCEPT ![1] = two]) = Len(t)  BY <2>a, ExceptSeq
  <2>c. Len([t EXCEPT ![2] = one]) = Len(t)  BY <2>a, ExceptSeq
  <2>4. Len([t EXCEPT ![1] = two]) = 2 /\ Len([t EXCEPT ![2] = one]) = 2
    BY <2>a, <2>b, <2>c
  <2>5. /\ place'[p].todo = [t EXCEPT ![1] = two] \/ place'[p].todo = [t EXCEPT ![2] = one]
        /\ place[p].pc = "copy" /\ (place'[p].pc = "copy" \/ place'[p].pc = "emit")
    BY <1>7, <2>2, <2>3, CopyIs
  <2>6. Len(place'[p].todo) = 2  BY <2>4, <2>5
  <2> QED  BY <1>2, <2>1, <2>5, <2>6 DEF Left, Ending
<1>8. CASE emit(p)  BY <1>2, <1>3, <1>8, EmitIs DEF Left, Ending
<1>9. CASE tty_load(p)  BY <1>2, <1>3, <1>9, LoadIs DEF Left, Ending
<1>10. CASE tty_index(p)  BY <1>2, <1>3, <1>10, IndexIs DEF Left, Ending
<1>11. CASE tty_char(p)  BY <1>2, <1>3, <1>11, CharIs DEF Left, Ending
<1>12. CASE tty_flush_output(p)
  <2>1. /\ place[p].pc = "flush" /\ place'[p].todo = place[p].todo
        /\ place'[p].then = place[p].then
        /\ place'[p].pc = "send" \/ place'[p].pc = "reset"
    BY <1>12, FlushIs
  <2>2. Left(place'[p]) = Left(place[p])  BY <2>1 DEF Left, Ending
  <2>3. Left(place[p]) = IF place[p].then = "done" THEN b - 1 ELSE b
    BY <1>2, <2>1 DEF Left, Ending
  <2> QED  BY <1>3, <2>1, <2>2, <2>3
<1>13. CASE tty_flushed(p)
  <2>1. CASE place[p].then = "done"
    <3>1. Left(place'[p]) = b - 1  BY <1>5, <1>13, <2>1, FlushedIs
    <3>2. Left(place[p]) = b - 1 /\ place[p].pc = "reset"
      BY <1>2, <1>13, <2>1, FlushedIs DEF Left, Ending
    <3> QED  BY <1>3, <3>1, <3>2
  <2>2. CASE place[p].then # "done"
    <3>1. Left(place'[p]) = b  BY <1>2, <1>13, <2>2, FlushedIs DEF Left, Ending
    <3>2. Left(place[p]) = b /\ place[p].pc = "reset"
      BY <1>2, <1>13, <2>2, FlushedIs DEF Left, Ending
    <3> QED  BY <1>3, <3>1, <3>2
  <2> QED  BY <2>1, <2>2
<1>14. CASE console_send(p)
  <2>1. Left(place[p]) = (IF place[p].then = "done" THEN b - 1 ELSE b) /\ place[p].pc = "send"
    BY <1>2, <1>14, SendIs DEF Left, Ending
  <2>2. CASE Straight(place[p])
    <3>1. Left(place'[p]) = b - 1  BY <1>5, <1>14, <2>2, SendIs
    <3> QED  BY <1>3, <2>1, <3>1
  <2>3. CASE ~Straight(place[p])
    <3>1. Left(place'[p]) = IF place[p].then = "done" THEN b - 1 ELSE b
      BY <1>2, <1>14, <2>3, SendIs DEF Left, Ending
    <3> QED  BY <1>3, <2>1, <3>1
  <2> QED  BY <2>2, <2>3
<1> QED  BY <1>6, <1>7, <1>8, <1>9, <1>10, <1>11, <1>12, <1>13, <1>14 DEF Step

LEMMA EmptiedStep ==
    ASSUME TtyTyped, Emptied, NEW p \in Printer, Step(p)
    PROVE  Emptied'
<1>1. FlushMoves(p)  BY FlushMove
<1>2. SUFFICES ASSUME outputidx' # 0, ~Flushes(place[p])'
               PROVE  \E q \in Printer : Flushes(place[q])'
  BY DEF Emptied
<1>3. PICK q \in Printer : Flushes(place[q])
  BY <1>1, <1>2 DEF FlushMoves, Emptied
<1> QED  BY <1>1, <1>2, <1>3 DEF FlushMoves

LEMMA SpaceStep ==
    ASSUME TtyTyped, Overlaps, Space, NEW p \in Printer, Step(p)
    PROVE  Space'
<1>1. Moved(p) /\ IndexMoves(place[p], place'[p]) /\ FlushMoves(p)
  BY StepMoves, IndexMove, FlushMove
<1>2. /\ outputidx \in Nat
      /\ \A q \in Printer : place[q] \in Prints /\ place[q].idx \in Nat /\ place[q].off \in BOOLEAN
  BY DEF TtyTyped, Prints
<1>3. SUFFICES ASSUME overlap.threads = 0
               PROVE  /\ outputidx' <= TTY_OUT_BUFSIZE
                      /\ \A q \in Printer :
                            /\ place'[q].pc \in {"index", "char"} => place'[q].idx < TTY_OUT_BUFSIZE
                            /\ place'[q].pc = "load" =>
                                  \/ outputidx' < TTY_OUT_BUFSIZE
                                  \/ \E w \in Printer \ {q} : place'[w].off /\ Flushes(place[w])'
  BY <1>1 DEF Moved, Space
<1>4. /\ outputidx <= TTY_OUT_BUFSIZE
      /\ \A q \in Printer :
            /\ place[q].pc \in {"index", "char"} => place[q].idx < TTY_OUT_BUFSIZE
            /\ place[q].pc = "load" =>
                  \/ outputidx < TTY_OUT_BUFSIZE
                  \/ \E w \in Printer \ {q} : place[w].off /\ Flushes(place[w])
  BY <1>3 DEF Space
<1>5. place[p].pc = "load" => outputidx < TTY_OUT_BUFSIZE
  BY <1>1, <1>4 DEF Moved
<1>6. outputidx' <= TTY_OUT_BUFSIZE
  BY <1>1, <1>2, <1>4, Sizes DEF IndexMoves
<1>7. place'[p].pc \in {"index", "char"} => place'[p].idx < TTY_OUT_BUFSIZE
  BY <1>1, <1>2, <1>4, <1>5 DEF IndexMoves
<1>8. place'[p].pc = "load" => outputidx' < TTY_OUT_BUFSIZE
  BY <1>1, <1>2, Sizes DEF IndexMoves, OutOfSpace
<1>9. ASSUME NEW q \in Printer \ {p}, place'[q].pc = "load"
      PROVE  \/ outputidx' < TTY_OUT_BUFSIZE
             \/ \E w \in Printer \ {q} : place'[w].off /\ Flushes(place[w])'
  <2>1. place[q].pc = "load" /\ ~place[q].off  BY <1>1, <1>9 DEF Moved
  <2>2. place[p].pc # "idle"  BY <1>1 DEF Moved
  <2>3. place[p].off
    BY <1>3, <2>1, <2>2 DEF Overlaps, Busy
  <2>4. CASE Flushes(place[p])'
    <3>1. place'[p] # Idle  BY <2>4 DEF Flushes, Idle
    <3>2. place'[p].off  BY <1>1, <2>3, <3>1 DEF Moved, Same
    <3> QED  BY <2>4, <3>2
  <2>5. CASE outputidx' = 0  BY <2>5, Sizes
  <2>6. CASE outputidx' = outputidx /\ ~Flushes(place[p])' /\ outputidx' # 0
    <3>1. ~Flushes(place[p])  BY <1>1, <2>6 DEF FlushMoves
    <3>2. outputidx < TTY_OUT_BUFSIZE
      BY <1>1, <1>4, <2>1, <3>1 DEF Moved
    <3> QED  BY <2>6, <3>2
  <2> QED  BY <1>1, <2>4, <2>5, <2>6 DEF FlushMoves
<1>10. \A q \in Printer \ {p} : place'[q] = place[q]  BY <1>1 DEF Moved
<1> QED  BY <1>4, <1>6, <1>7, <1>8, <1>9, <1>10

(***************************************************************************)
(* How much is in the buffer, or will be.                                  *)
(***************************************************************************)
LEMMA PendingFinite == IsFiniteSet(Pending) /\ IsFiniteSet(Pending')
<1>1. IsFiniteSet(Printer)  BY TerminalAssumption DEF TerminalAssumption
<1>2. 1 \in Int /\ 2 \in Int  OBVIOUS
<1>2a. IsFiniteSet(1 .. 2)  BY <1>2, FS_Interval
<1>3. IsFiniteSet(Printer \X (1 .. 2))  BY <1>1, <1>2a, FS_Product
<1>4. Pending \subseteq Printer \X (1 .. 2) /\ Pending' \subseteq Printer \X (1 .. 2)
  BY DEF Pending
<1> QED  BY <1>3, <1>4, FS_Subset

LEMMA PendingShrinks ==
    ASSUME TtyTyped, NEW p \in Printer, Step(p)
    PROVE  /\ Cardinality(Pending) \in Nat /\ Cardinality(Pending') \in Nat
           /\ Cardinality(Pending') <= Cardinality(Pending)
           /\ place[p].pc = "index" => Cardinality(Pending') <= Cardinality(Pending) - 1
<1>1. /\ Left(place[p]) \in 0 .. 2 /\ Left(place'[p]) \in 0 .. 2
      /\ Left(place'[p]) <= Left(place[p])
      /\ place[p].pc = "index" => Left(place'[p]) < Left(place[p])
  BY LeftMove
<1>2. \A q \in Printer \ {p} : place'[q] = place[q]  BY StepMoves DEF Moved
<1>3. PICK a \in 0 .. 2, b \in 0 .. 2 : a = Left(place[p]) /\ b = Left(place'[p])  BY <1>1
<1>4. ASSUME NEW x \in Pending'  PROVE x \in Pending
  <2>1. PICK q \in Printer, k \in 1 .. 2 : x = <<q, k>> /\ k <= Left(place'[q])
    BY <1>4 DEF Pending, Left, Ending
  <2>2. CASE q = p
    <3>1. k <= a  BY <1>1, <1>3, <2>1, <2>2
    <3> QED  BY <1>3, <2>1, <2>2, <3>1 DEF Pending
  <2>3. CASE q # p  BY <1>2, <2>1, <2>3 DEF Pending
  <2> QED  BY <2>2, <2>3
<1>5. Pending' \subseteq Pending  BY <1>4
<1>6. /\ Cardinality(Pending) \in Nat /\ Cardinality(Pending') \in Nat
      /\ Cardinality(Pending') <= Cardinality(Pending)
  BY <1>5, PendingFinite, FS_Subset, FS_CardinalityType
<1>7. ASSUME place[p].pc = "index"
      PROVE  Cardinality(Pending') <= Cardinality(Pending) - 1
  <2>1. b < a /\ a \in 1 .. 2  BY <1>1, <1>3, <1>7
  <2>2. <<p, a>> \in Pending  BY <1>3, <2>1 DEF Pending
  <2>3. <<p, a>> \notin Pending'
    <3>1. SUFFICES ASSUME <<p, a>> \in Pending'  PROVE FALSE  OBVIOUS
    <3>2. a <= b  BY <1>3, <3>1 DEF Pending, Left, Ending
    <3> QED  BY <2>1, <3>2
  <2>4. Pending' \subseteq Pending \ {<<p, a>>}  BY <1>5, <2>3
  <2>5. /\ IsFiniteSet(Pending \ {<<p, a>>})
        /\ Cardinality(Pending \ {<<p, a>>}) = Cardinality(Pending) - 1
    BY <2>2, PendingFinite, FS_RemoveElement
  <2>6. Cardinality(Pending') <= Cardinality(Pending \ {<<p, a>>})
    BY <2>4, <2>5, FS_Subset
  <2> QED  BY <2>5, <2>6
<1> QED  BY <1>6, <1>7

LEMMA CountedStep ==
    ASSUME TtyTyped, Counted, NEW p \in Printer, Step(p)
    PROVE  Counted'
<1>1. Moved(p) /\ IndexMoves(place[p], place'[p])  BY StepMoves, IndexMove
<1>2. /\ outputidx \in Nat
      /\ \A q \in Printer : place[q] \in Prints /\ place[q].idx \in Nat
      /\ Len(wanted) \in Nat /\ wanted' = wanted
  <2>1. outputidx \in Nat /\ line \in Seq(TtyChars) /\ wanted \in Seq(TtyChars)
    BY DEF TtyTyped
  <2>2. \A q \in Printer : place[q] \in Prints  BY DEF TtyTyped
  <2>3. \A q \in Printer : place[q].idx \in Nat  BY <2>2 DEF Prints
  <2> QED  BY <1>1, <2>1, <2>2, <2>3 DEF Moved
<1>3. PICK a, b : a = Cardinality(Pending) /\ b = Cardinality(Pending')  OBVIOUS
<1>4. a \in Nat /\ b \in Nat /\ b <= a /\ (place[p].pc = "index" => b <= a - 1)
  BY <1>3, PendingShrinks
<1>5. PICK w \in Nat : w = Len(wanted)  BY <1>2
<1>6. /\ outputidx + a <= w
      /\ \A q \in Printer : place[q].pc = "index" => place[q].idx + a <= w
  BY <1>3, <1>5 DEF Counted
<1>7. outputidx' + b <= w
  BY <1>1, <1>2, <1>4, <1>6 DEF IndexMoves
<1>8. ASSUME NEW q \in Printer, place'[q].pc = "index"
      PROVE  place'[q].idx + b <= w
  <2>1. CASE q = p
    BY <1>1, <1>2, <1>4, <1>6, <1>8, <2>1 DEF IndexMoves
  <2>2. CASE q # p
    BY <1>1, <1>2, <1>4, <1>6, <1>8, <2>2 DEF Moved
  <2> QED  BY <2>1, <2>2
<1> QED  BY <1>2, <1>3, <1>5, <1>7, <1>8 DEF Counted

(***************************************************************************)
(* A print that is not interrupted.                                        *)
(***************************************************************************)
LEMMA SoloStep ==
    ASSUME TtyTyped, NEW p \in Printer, Step(p), Solo(place[p]), place'[p] # Idle
    PROVE  Solo(place[p])'
<1>1. Moved(p)  BY StepMoves
<1>2. /\ Straight(place[p])' <=> Straight(place[p])
  BY <1>1 DEF Moved, Same, Straight
<1>3. Straight(place[p]) => place[p].pc \in {"idle", "fill", "copy", "emit", "send"}
  BY DEF TtyTyped, PrintOK
<1>4. CASE itoa_fill(p)  BY <1>2, <1>4, FillIs DEF Solo, Ending
<1>5. CASE itoa_copy(p)  BY <1>2, <1>5, CopyIs DEF Solo, Ending
<1>6. CASE emit(p)
  <2>1. outputidx = 0 /\ ~OutOfSpace
    BY <1>6, EmitIs, Sizes DEF Solo, Ending, OutOfSpace
  <2>2. CASE Straight(place[p])  BY <1>2, <1>6, <2>1, <2>2, EmitIs DEF Solo, Ending
  <2>3. CASE ~Straight(place[p])  BY <1>2, <1>6, <2>1, <2>3, EmitIs DEF Solo, Ending
  <2> QED  BY <2>2, <2>3
<1>7. CASE tty_load(p)  BY <1>2, <1>7, LoadIs DEF Solo, Ending
<1>8. CASE tty_index(p)  BY <1>2, <1>3, <1>8, IndexIs DEF Solo, Ending
<1>9. CASE tty_char(p)  BY <1>2, <1>9, CharIs DEF Solo, Ending
<1>10. CASE tty_flush_output(p)
  <2>1. CASE outputidx = 0  BY <1>2, <1>10, <2>1, FlushIs DEF Solo, Ending
  <2>2. CASE outputidx # 0  BY <1>2, <1>10, <2>2, FlushIs DEF Solo, Ending
  <2> QED  BY <2>1, <2>2
<1>11. CASE tty_flushed(p)  BY <1>2, <1>11, FlushedIs DEF Solo, Ending, Ended
<1>12. CASE console_send(p)
  <2>1. CASE Straight(place[p])  BY <1>2, <1>12, <2>1, SendIs DEF Solo, Ending, Ended
  <2>2. CASE ~Straight(place[p])  BY <1>2, <1>12, <2>2, SendIs DEF Solo, Ending
  <2> QED  BY <2>1, <2>2
<1> QED  BY <1>4, <1>5, <1>6, <1>7, <1>8, <1>9, <1>10, <1>11, <1>12 DEF Step

LEMMA SolosStep ==
    ASSUME TtyTyped, Solos, NEW p \in Printer, Step(p)
    PROVE  Solos'
<1>1. Moved(p)  BY StepMoves
<1>2. Clean' = Clean  BY <1>1 DEF Moved, Clean, Alone
<1>3. SUFFICES ASSUME Clean, NEW q \in Busy'
               PROVE  (Busy = {q} /\ Solo(place[q]))'
  BY <1>2 DEF Solos
<1>4. p \in Busy /\ Busy' \subseteq Busy  BY <1>1 DEF Moved, Busy, Idle
<1>5. Busy = {p} /\ Solo(place[p])  BY <1>3, <1>4 DEF Solos
<1>6. q = p /\ Busy' = {p}  BY <1>3, <1>4, <1>5
<1>7. place'[p] # Idle  BY <1>6 DEF Busy, Idle
<1>8. Solo(place[p])'  BY <1>5, <1>7, SoloStep
<1> QED  BY <1>6, <1>8

(* A busy terminal that is clean holds one character at most. *)
LEMMA IndexBounded ==
    ASSUME TtyTyped, Emptied, Counted, Solos
    PROVE  /\ outputidx <= TTY_OUT_BUFSIZE + MaxMixed
           /\ \A p \in Printer : place[p].pc = "index" => place[p].idx < TTY_OUT_BUFSIZE + MaxMixed
<1>1. Cardinality(Pending) \in Nat  BY PendingFinite, FS_CardinalityType
<1>2. /\ outputidx \in Nat /\ Len(wanted) \in Nat
      /\ \A q \in Printer : place[q] \in Prints /\ place[q].idx \in Nat
  BY DEF TtyTyped, Prints
<1>3. CASE ~Clean
  <2>1. Len(wanted) <= MaxMixed  BY <1>2, <1>3, Sizes DEF Clean
  <2> QED  BY <1>1, <1>2, <2>1, Sizes DEF Counted
<1>4. CASE Clean /\ Busy = {}
  <2>1. \A p \in Printer : place[p].pc = "idle"  BY <1>4 DEF Busy
  <2>2. outputidx = 0  BY <2>1 DEF Emptied, Flushes
  <2> QED  BY <2>1, <2>2, Sizes
<1>5. CASE Clean /\ Busy # {}
  <2>1. PICK q \in Busy : Busy = {q} /\ Solo(place[q])  BY <1>5 DEF Solos
  <2>2. outputidx = 0 \/ outputidx = 1  BY <2>1 DEF Solo
  <2>3. ASSUME NEW p \in Printer, place[p].pc = "index"  PROVE place[p].idx = 0
    <3>1. p = q  BY <2>1, <2>3 DEF Busy
    <3> QED  BY <2>1, <2>3, <3>1 DEF Solo
  <2> QED  BY <2>2, <2>3, Sizes
<1> QED  BY <1>3, <1>4, <1>5

LEMMA BoundedStep ==
    ASSUME TtyTyped, Emptied, Counted, Solos, Bounded, NEW p \in Printer, Step(p)
    PROVE  Bounded'
<1>1. Moved(p) /\ IndexMoves(place[p], place'[p])  BY StepMoves, IndexMove
<1>2. \A q \in Printer : place[q].pc = "index" => place[q].idx < TTY_OUT_BUFSIZE + MaxMixed
  BY IndexBounded
<1>4. ASSUME NEW q \in Printer, place'[q].pc = "char"
      PROVE  place'[q].idx < TTY_OUT_BUFSIZE + MaxMixed
  <2>1. CASE q = p  BY <1>1, <1>2, <1>4, <2>1 DEF IndexMoves
  <2>2. CASE q # p  BY <1>1, <1>4, <2>2 DEF Moved, Bounded
  <2> QED  BY <2>1, <2>2
<1> QED  BY <1>4 DEF Bounded

(***************************************************************************)
(* What a print sends.                                                     *)
(***************************************************************************)
LEMMA EndsNone ==
    ASSUME NEW S, NEW s \in Seq(S), NEW m
    PROVE  EndsWith(s, m, 0)
BY DEF EndsWith

LEMMA EndsMore ==
    ASSUME NEW S, NEW s \in Seq(S), NEW m, NEW d \in Nat, EndsWith(s, m, d), m[d + 1] \in S
    PROVE  EndsWith(Append(s, m[d + 1]), m, d + 1)
<1>1. PICK v \in S : v = m[d + 1]  OBVIOUS
<1>2. PICK n \in Nat : n = Len(s)  OBVIOUS
<1>3. PICK t : t = Append(s, v)  OBVIOUS
<1>4. Len(t) = n + 1 /\ t[n + 1] = v /\ \A k \in 1 .. n : t[k] = s[k]  BY <1>2, <1>3
<1>5. d <= n /\ \A k \in 1 .. d : s[n - d + k] = m[k]  BY <1>2 DEF EndsWith
<1>6. ASSUME NEW k \in 1 .. d + 1  PROVE t[(n + 1) - (d + 1) + k] = m[k]
  <2>1. (n + 1) - (d + 1) + k = n - d + k  OBVIOUS
  <2>2. CASE k = d + 1
    <3>1. n - d + k = n + 1  BY <2>2
    <3> QED  BY <1>1, <1>4, <2>1, <2>2, <3>1
  <2>3. CASE k # d + 1
    <3>1. k \in 1 .. d /\ n - d + k \in 1 .. n  BY <1>5, <2>3
    <3> QED  BY <1>4, <1>5, <2>1, <3>1
  <2> QED  BY <2>2, <2>3
<1>7. d + 1 <= Len(t)  BY <1>4, <1>5
<1> QED  BY <1>1, <1>3, <1>4, <1>6, <1>7 DEF EndsWith

LEMMA MoveHead ==
    ASSUME NEW S, NEW s \in Seq(S), NEW t \in Seq(S), Len(t) > 0
    PROVE  s \o t = Append(s, Head(t)) \o Tail(t)
<1>1. t # <<>>  OBVIOUS
<1>2. /\ Head(t) = t[1] /\ Head(t) \in S /\ Tail(t) \in Seq(S) /\ Len(Tail(t)) = Len(t) - 1
      /\ \A k \in 1 .. Len(Tail(t)) : Tail(t)[k] = t[k + 1]
  BY <1>1, HeadTailProperties
<1>3. <<Head(t)>> \in Seq(S) /\ Len(<<Head(t)>>) = 1 /\ <<Head(t)>>[1] = Head(t)  BY <1>2
<1>4. PICK u \in Seq(S), b \in Seq(S) : u = <<Head(t)>> /\ b = Tail(t)  BY <1>2, <1>3
<1>5. /\ u \o b \in Seq(S) /\ Len(u \o b) = Len(u) + Len(b)
      /\ \A k \in 1 .. Len(u) + Len(b) : (u \o b)[k] = IF k <= Len(u) THEN u[k] ELSE b[k - Len(u)]
  BY ConcatProperties
<1>6. Len(u) = 1 /\ Len(b) = Len(t) - 1  BY <1>2, <1>3, <1>4
<1>7. Len(u \o b) = Len(t)  BY <1>5, <1>6
<1>8. ASSUME NEW k \in 1 .. Len(t)  PROVE (u \o b)[k] = t[k]
  <2>1. CASE k = 1
    <3>1. (u \o b)[1] = u[1]  BY <1>5, <1>6
    <3> QED  BY <1>2, <1>3, <1>4, <2>1, <3>1
  <2>2. CASE k # 1
    <3>1. k - 1 \in 1 .. Len(b)  BY <1>6, <2>2
    <3>2. (u \o b)[k] = b[k - 1]  BY <1>5, <1>6, <2>2
    <3>3. b[k - 1] = t[(k - 1) + 1]  BY <1>2, <1>4, <3>1
    <3> QED  BY <3>2, <3>3
  <2> QED  BY <2>1, <2>2
<1>9. u \o b = t  BY <1>5, <1>7, <1>8, SeqEqual
<1>10. (s \o u) \o b = s \o (u \o b)  BY SMTT(20), ConcatAssociative
<1>11. Append(s, Head(t)) = s \o u  BY <1>2, <1>4, AppendIsConcat
<1> QED  BY <1>4, <1>9, <1>10, <1>11

LEMMA OneIs ==
    ASSUME NEW S, NEW s \in Seq(S), Len(s) = 1
    PROVE  s = <<s[1]>>
OBVIOUS

(* How long what is left is, and what it begins with. *)
LEMMA WholeIs ==
    ASSUME TtyTyped, NEW p \in Printer, place[p].pc # "idle", Whole(place[p])
    PROVE  LET l == place[p] IN
           /\ l.msg \in Seq(TtyChars) /\ l.todo \in Seq(TtyChars)
           /\ \/ Len(l.msg) = 1 /\ Len(l.todo) = 1 /\ l.todo = l.msg /\ Head(l.todo) = l.msg[1]
              \/ Len(l.msg) = 2 /\ Len(l.todo) = 2 /\ l.todo = l.msg /\ Head(l.todo) = l.msg[1]
                 /\ Tail(l.todo) = <<l.msg[2]>> /\ l.msg[2] \in TtyChars
              \/ Len(l.msg) = 2 /\ Len(l.todo) = 1 /\ Head(l.todo) = l.msg[2] /\ l.todo = <<l.msg[2]>>
           /\ Head(l.todo) \in TtyChars
           /\ Tail(l.todo) \in Seq(TtyChars) /\ Len(Tail(l.todo)) = Len(l.todo) - 1
<1>1. /\ place[p].msg \in Seq(TtyChars) /\ place[p].todo \in Seq(TtyChars)
      /\ Len(place[p].msg) = 1 \/ Len(place[p].msg) = 2
  BY Lengths DEF Prints
<1>2. PICK m \in Seq(TtyChars), t \in Seq(TtyChars) : m = place[p].msg /\ t = place[p].todo
  BY <1>1
<1>3. (Len(m) = 1 \/ Len(m) = 2) /\ (t = m \/ (Len(m) = 2 /\ t = <<m[2]>>))
  BY <1>1, <1>2 DEF Whole
<1>4. t # <<>>
  <2>1. Len(t) = 1 \/ Len(t) = 2
    <3>1. CASE t = m  BY <1>3, <3>1
    <3>2. CASE t = <<m[2]>>  BY <3>2
    <3> QED  BY <1>3, <3>1, <3>2
  <2>a. PICK b : b = Len(t)  OBVIOUS
  <2>b. b # 0  BY <2>1, <2>a
  <2>2. Len(t) # 0  BY <2>a, <2>b
  <2>3. Len(<<>>) = 0  BY EmptySeq
  <2> QED  BY <2>2, <2>3
<1>5. Head(t) = t[1] /\ Head(t) \in TtyChars /\ Tail(t) \in Seq(TtyChars) /\ Len(Tail(t)) = Len(t) - 1
  BY <1>4, HeadTailProperties
<1>6. Len(m) = 2 => m[2] \in TtyChars
  <2>1. SUFFICES ASSUME Len(m) = 2  PROVE m[2] \in TtyChars  OBVIOUS
  <2>2. 2 \in 1 .. Len(m)  BY <2>1
  <2> QED  BY <2>2, ElementOfSeq
<1>7. Len(m) = 2 /\ t = m => Tail(t) = <<m[2]>>
  <2>1. SUFFICES ASSUME Len(m) = 2, t = m  PROVE Tail(t) = <<m[2]>>  OBVIOUS
  <2>2. Tail(t) \in Seq(TtyChars) /\ Len(Tail(t)) = 1 /\ Tail(t)[1] = m[2]
    BY <2>1, TailOfTwo
  <2> QED  BY <2>2, OneIs
<1>8. CASE t = m
  BY <1>2, <1>3, <1>5, <1>6, <1>7, <1>8
<1>9. CASE Len(m) = 2 /\ t = <<m[2]>>
  <2>1. Len(t) = 1 /\ Head(t) = m[2]  BY <1>9
  <2> QED  BY <1>2, <1>5, <1>9, <2>1
<1> QED  BY <1>3, <1>8, <1>9

LEMMA WordsKept ==
    ASSUME NEW p \in Printer, Moved(p), line' = line, Unspoken(place[p]),
           place'[p] # Idle, place'[p].todo = place[p].todo,
           ~(place[p].pc = "reset" /\ place[p].then = "done"),
           ~(place'[p].pc = "reset" /\ place'[p].then = "done")
    PROVE  Unspoken(place[p])'
<1>1. place'[p].msg = place[p].msg /\ wanted' = wanted /\ (Alone' <=> Alone)
  BY DEF Moved, Same, Alone
<1>2. Unsent(place'[p]) = Unsent(place[p])  BY DEF Unsent
<1> QED  BY <1>1, <1>2 DEF Unspoken, Whole

Follows(m, t, x, h) ==
    /\ Len(x) = Len(t) - 1 /\ (Len(t) = 1 \/ Len(t) = 2)
    /\ (Len(m) = Len(t) /\ h = m[1]) \/ (Len(m) = 2 /\ Len(t) = 1 /\ h = m[2])

NextChar(m, t, x, h) ==
    /\ Len(m) - Len(t) \in Nat /\ h = m[(Len(m) - Len(t)) + 1]
    /\ Len(m) - Len(x) = (Len(m) - Len(t)) + 1

LEMMA NextOfMsg ==
    ASSUME NEW S, NEW m \in Seq(S), NEW t \in Seq(S), NEW x \in Seq(S), NEW h \in S,
           Follows(m, t, x, h)
    PROVE  NextChar(m, t, x, h)
<1>0. SUFFICES ASSUME Len(x) = Len(t) - 1, Len(t) = 1 \/ Len(t) = 2,
                      (Len(m) = Len(t) /\ h = m[1]) \/ (Len(m) = 2 /\ Len(t) = 1 /\ h = m[2])
               PROVE  /\ Len(m) - Len(t) \in Nat /\ h = m[(Len(m) - Len(t)) + 1]
                      /\ Len(m) - Len(x) = (Len(m) - Len(t)) + 1
  BY DEF Follows, NextChar
<1>1. PICK a \in Nat, b \in Nat, e \in Nat : a = Len(m) /\ b = Len(t) /\ e = Len(x)  OBVIOUS
<1>2. PICK d : d = a - b  OBVIOUS
<1>3. (b = 1 \/ b = 2) /\ e = b - 1  BY <1>0, <1>1
<1>4. CASE Len(m) = Len(t) /\ h = m[1]
  <2>1. a = b  BY <1>1, <1>4
  <2>2. d = 0 /\ d + 1 = 1 /\ a - e = 1  BY <1>2, <1>3, <2>1
  <2> QED  BY <1>1, <1>2, <1>4, <2>2
<1>5. CASE Len(m) = 2 /\ Len(t) = 1 /\ h = m[2]
  <2>1. a = 2 /\ b = 1  BY <1>1, <1>5
  <2>2. d = 1 /\ d + 1 = 2 /\ a - e = 2  BY <1>2, <1>3, <2>1
  <2> QED  BY <1>1, <1>2, <1>5, <2>2
<1> QED  BY <1>0, <1>4, <1>5

(* A character is sent, and the print goes on behind it. *)
LEMMA WordsSent ==
    ASSUME TtyTyped, NEW p \in Printer, place[p].pc # "idle", Unspoken(place[p]),
           ~(place[p].pc = "reset" /\ place[p].then = "done"),
           line' = Append(line, Head(place[p].todo)), wanted' = wanted, overlap' = overlap
    PROVE  LET l == place[p] IN
           /\ EndsWith(line', l.msg, Len(l.msg) - Len(Tail(l.todo)))
           /\ Alone => wanted' = line' \o Tail(l.todo)
<1>1. PICK l : l = place[p]  OBVIOUS
<1>2. Unsent(l) = l.todo  BY <1>1 DEF Unsent
<1>3. EndsWith(line, l.msg, Len(l.msg) - Len(l.todo)) /\ (Alone => wanted = line \o l.todo)
  BY <1>1, <1>2 DEF Unspoken
<1>4. PICK m \in Seq(TtyChars), t \in Seq(TtyChars) :
        /\ m = l.msg /\ t = l.todo
        /\ Head(t) \in TtyChars /\ Tail(t) \in Seq(TtyChars) /\ Len(Tail(t)) = Len(t) - 1
        /\ Len(t) = 1 \/ Len(t) = 2
        /\ \/ Len(m) = Len(t) /\ Head(t) = m[1]
           \/ Len(m) = 2 /\ Len(t) = 1 /\ Head(t) = m[2]
  <2>1. Whole(place[p])  BY DEF Unspoken
  <2> QED  BY <1>1, <2>1, WholeIs
<1>5. PICK ln \in Seq(TtyChars) : ln = line  BY DEF TtyTyped
<1>a. /\ Len(m) - Len(t) \in Nat /\ Head(t) = m[(Len(m) - Len(t)) + 1]
      /\ Len(m) - Len(Tail(t)) = (Len(m) - Len(t)) + 1
  <2>1. PICK x \in Seq(TtyChars), h \in TtyChars : x = Tail(t) /\ h = Head(t)  BY <1>4
  <2>2. Follows(m, t, x, h)  BY <1>4, <2>1 DEF Follows
  <2>3. NextChar(m, t, x, h)  BY <2>2, NextOfMsg
  <2> QED  BY <2>1, <2>3 DEF NextChar
<1>6. PICK d \in Nat : d = Len(m) - Len(t) /\ Head(t) = m[d + 1] /\ Len(m) - Len(Tail(t)) = d + 1
  BY <1>a
<1>7. EndsWith(ln, m, d)  BY <1>3, <1>4, <1>5, <1>6
<1>b. m[d + 1] \in TtyChars  BY <1>4, <1>6
<1>8. EndsWith(Append(ln, m[d + 1]), m, d + 1)  BY <1>7, <1>b, EndsMore
<1>9. ln \o t = Append(ln, Head(t)) \o Tail(t)
  <2>1. Len(t) > 0  BY <1>4
  <2> QED  BY <2>1, MoveHead
<1>10. line' = Append(ln, Head(t))  BY <1>1, <1>4, <1>5
<1>11. EndsWith(line', m, Len(m) - Len(Tail(t)))  BY <1>6, <1>8, <1>10
<1>12. Alone => wanted' = line' \o Tail(t)  BY <1>3, <1>4, <1>5, <1>9, <1>10
<1> QED  BY <1>1, <1>4, <1>11, <1>12

LEMMA OwnFill ==
    ASSUME TtyTyped, NEW p \in Printer, itoa_fill(p), Own(place[p]), place'[p] # Idle
    PROVE  Own(place[p])'
<1>1. PICK l \in Prints : l = place[p]  BY DEF TtyTyped
<1>2. /\ Moved(p) /\ l.pc = "fill"
      /\ outputidx' = outputidx /\ line' = line
      /\ tbuf' = [tbuf EXCEPT ![3 - l.n] = l.todo[l.n]]
      /\ place'[p].todo = l.todo
      /\ \/ l.n = 2 /\ place'[p].pc = "fill" /\ place'[p].n = 1
         \/ l.n = 1 /\ place'[p].pc = "copy" /\ place'[p].n = 0
  BY <1>1, FillIs
<1>3. Unspoken(place[p])'  BY <1>1, <1>2, WordsKept DEF Own
<1>4. Len(l.todo) = 2  BY <1>1, <1>2 DEF TtyTyped, PrintOK
<1>5. l.todo = l.msg /\ l.todo \in Seq(TtyChars)
  <2>1. Whole(place[p])  BY DEF Own, Unspoken
  <2> QED  BY <1>1, <1>2, <1>4, <2>1, WholeIs
<1>6. PICK t \in Seq(TtyChars) : t = l.todo  BY <1>5
<1>7. t[1] \in TtyChars /\ t[2] \in TtyChars
  <2>1. Len(t) = 2  BY <1>4, <1>6
  <2>2. 1 \in 1 .. Len(t) /\ 2 \in 1 .. Len(t)  BY <2>1
  <2> QED  BY <2>2, ElementOfSeq
<1>8. place'[p].msg = t  BY <1>1, <1>2, <1>5, <1>6 DEF Moved, Same
<1>9. InTbuf(place[p])'
  <2>1. CASE l.n = 2
    <3>1. tbuf' = [tbuf EXCEPT ![1] = t[2]]  BY <1>2, <1>6, <2>1
    <3>2. tbuf'[1] = t[2]  BY <1>7, <3>1, PairExcept DEF TtyTyped
    <3> QED  BY <1>2, <1>8, <2>1, <3>2 DEF InTbuf
  <2>2. CASE l.n = 1
    <3>1. tbuf' = [tbuf EXCEPT ![2] = t[1]]  BY <1>2, <1>6, <2>2
    <3>2. tbuf' = <<tbuf[1], t[1]>>  BY <1>7, <3>1, PairExcept DEF TtyTyped
    <3>3. tbuf[1] = t[2]  BY <1>1, <1>2, <1>5, <1>6, <2>2 DEF Own, InTbuf
    <3> QED  BY <1>2, <1>8, <2>2, <3>2, <3>3 DEF InTbuf
  <2> QED  BY <1>2, <2>1, <2>2
<1>10. InOutput(place[p])'  BY <1>2 DEF InOutput
<1>11. ~(Len(place'[p].todo) < Len(place'[p].msg))  BY <1>2, <1>4, <1>6, <1>8
<1> QED  BY <1>3, <1>9, <1>10, <1>11 DEF Own

LEMMA OwnCopy ==
    ASSUME TtyTyped, NEW p \in Printer, itoa_copy(p), Own(place[p]), place'[p] # Idle
    PROVE  Own(place[p])'
<1>1. PICK l \in Prints : l = place[p]  BY DEF TtyTyped
<1>2. /\ Moved(p) /\ l.pc = "copy"
      /\ outputidx' = outputidx /\ line' = line /\ tbuf' = tbuf
      /\ \/ /\ l.n = 0 /\ place'[p].pc = "copy" /\ place'[p].n = 1
            /\ place'[p].todo = [l.todo EXCEPT ![1] = tbuf[2]]
         \/ /\ l.n = 1 /\ place'[p].pc = "emit" /\ place'[p].n = 0
            /\ place'[p].todo = [l.todo EXCEPT ![2] = tbuf[1]]
  BY <1>1, CopyIs
<1>4. Len(l.todo) = 2  BY <1>1, <1>2 DEF TtyTyped, PrintOK
<1>5. l.todo = l.msg /\ l.todo \in Seq(TtyChars)
  <2>1. Whole(place[p])  BY DEF Own, Unspoken
  <2> QED  BY <1>1, <1>2, <1>4, <2>1, WholeIs
<1>6. PICK t \in Seq(TtyChars) : t = l.todo  BY <1>5
<1>7. tbuf[1] = t[2] /\ tbuf[2] = t[1]  BY <1>1, <1>2, <1>5, <1>6 DEF Own, InTbuf
<1>8. [t EXCEPT ![1] = t[1]] = t /\ [t EXCEPT ![2] = t[2]] = t  OBVIOUS
<1>9. place'[p].todo = l.todo  BY <1>2, <1>6, <1>7, <1>8
<1>10. Unspoken(place[p])'  BY <1>1, <1>2, <1>9, WordsKept DEF Own
<1>11. place'[p].msg = t  BY <1>1, <1>2, <1>5, <1>6 DEF Moved, Same
<1>12. InTbuf(place[p])'  BY <1>2, <1>7, <1>11 DEF InTbuf
<1>13. InOutput(place[p])'  BY <1>2 DEF InOutput
<1>14. ~(Len(place'[p].todo) < Len(place'[p].msg))  BY <1>4, <1>6, <1>9, <1>11
<1> QED  BY <1>10, <1>12, <1>13, <1>14 DEF Own

(* The last conjunct, where nothing of todo goes. *)
LEMMA SoloKept ==
    ASSUME TtyTyped, NEW p \in Printer, Step(p), Own(place[p]), place'[p] # Idle,
           place'[p].todo = place[p].todo
    PROVE  Len(place'[p].todo) < Len(place'[p].msg) => Solo(place[p])'
<1>1. Moved(p)  BY StepMoves
<1>2. place'[p].msg = place[p].msg  BY <1>1 DEF Moved, Same
<1> QED  BY <1>2, SoloStep DEF Own

LEMMA OwnEmit ==
    ASSUME TtyTyped, NEW p \in Printer, emit(p), Own(place[p]), place'[p] # Idle
    PROVE  Own(place[p])'
<1>1. Step(p)  BY DEF Step
<1>2. Unspoken(place[p])'  BY EmitIs, WordsKept DEF Own
<1>3. InTbuf(place[p])'  BY EmitIs DEF InTbuf
<1>4. Straight(place[p])' <=> Straight(place[p])  BY EmitIs DEF Moved, Same, Straight
<1>5. InOutput(place[p])'
  <2>1. CASE Straight(place[p])  BY <1>4, <2>1, EmitIs DEF InOutput
  <2>2. CASE ~Straight(place[p])  BY <2>2, EmitIs DEF InOutput
  <2> QED  BY <2>1, <2>2
<1>6. Len(place'[p].todo) < Len(place'[p].msg) => Solo(place[p])'
  BY <1>1, EmitIs, SoloKept
<1> QED  BY <1>2, <1>3, <1>5, <1>6 DEF Own

LEMMA OwnLoad ==
    ASSUME TtyTyped, NEW p \in Printer, tty_load(p), Own(place[p]), place'[p] # Idle
    PROVE  Own(place[p])'
<1>1. Step(p)  BY DEF Step
<1>2. Unspoken(place[p])'  BY LoadIs, WordsKept DEF Own
<1>3. InTbuf(place[p])' /\ InOutput(place[p])'  BY LoadIs DEF InTbuf, InOutput
<1>4. Len(place'[p].todo) < Len(place'[p].msg) => Solo(place[p])'
  BY <1>1, LoadIs, SoloKept
<1> QED  BY <1>2, <1>3, <1>4 DEF Own

LEMMA OwnIndex ==
    ASSUME TtyTyped, NEW p \in Printer, tty_index(p), Own(place[p]), place'[p] # Idle
    PROVE  Own(place[p])'
<1>1. Step(p)  BY DEF Step
<1>2. Unspoken(place[p])'  BY IndexIs, WordsKept DEF Own
<1>3. InTbuf(place[p])' /\ InOutput(place[p])'  BY IndexIs DEF InTbuf, InOutput
<1>4. Len(place'[p].todo) < Len(place'[p].msg) => Solo(place[p])'
  BY <1>1, IndexIs, SoloKept
<1> QED  BY <1>2, <1>3, <1>4 DEF Own

LEMMA OwnChar ==
    ASSUME TtyTyped, Bounded, NEW p \in Printer, tty_char(p), Own(place[p]), place'[p] # Idle
    PROVE  Own(place[p])'
<1>1. Step(p)  BY DEF Step
<1>2. Unspoken(place[p])'  BY CharIs, WordsKept DEF Own
<1>3. InTbuf(place[p])'  BY CharIs DEF InTbuf
<1>4. PICK k \in Nat : k = place[p].idx  BY DEF TtyTyped, Prints
<1>5. place[p].pc = "char"  BY CharIs
<1>6. k \in Cells /\ outputidx = k + 1
  <2>1. k < TTY_OUT_BUFSIZE + MaxMixed  BY <1>4, <1>5 DEF Bounded
  <2> QED  BY <1>4, <1>5, <2>1, Sizes DEF Cells, Own, InOutput
<1>7. outputbuf' = [outputbuf EXCEPT ![k] = Head(place[p].todo)]  BY <1>4, CharIs
<1>8. outputbuf'[k] = Head(place[p].todo)  BY <1>6, <1>7 DEF TtyTyped
<1>9. outputidx' = k + 1 /\ outputidx' > 0 /\ outputidx' - 1 = k  BY <1>6, CharIs
<1>10. InOutput(place[p])'  BY <1>8, <1>9, CharIs DEF InOutput
<1>11. Len(place'[p].todo) < Len(place'[p].msg) => Solo(place[p])'
  BY <1>1, CharIs, SoloKept
<1> QED  BY <1>2, <1>3, <1>10, <1>11 DEF Own

LEMMA OwnFlush ==
    ASSUME TtyTyped, NEW p \in Printer, tty_flush_output(p), Own(place[p]), place'[p] # Idle
    PROVE  Own(place[p])'
<1>1. Step(p)  BY DEF Step
<1>2. place[p].pc = "flush" /\ place[p].then = "done" => outputidx > 0 /\ outputidx # 0
  BY DEF Own, InOutput, TtyTyped
<1>3. ~(place'[p].pc = "reset" /\ place'[p].then = "done")  BY <1>2, FlushIs
<1>4. Unspoken(place[p])'  BY <1>3, FlushIs, WordsKept DEF Own
<1>5. InTbuf(place[p])'
  <2>1. place'[p].pc # "fill" /\ place'[p].pc # "copy"  BY FlushIs
  <2> QED  BY <2>1 DEF InTbuf
<1>6. InOutput(place[p])'
  <2>1. place'[p].pc # "char" /\ place'[p].pc # "flush"  BY FlushIs
  <2>2. SUFFICES ASSUME place'[p].pc = "send", place'[p].then = "done"
                 PROVE  outputbuf'[place'[p].n - 1] = Head(place'[p].todo)
    BY <2>1 DEF InOutput
  <2>3. place[p].pc = "flush" /\ place[p].then = "done" /\ place'[p].n = outputidx
    BY <2>2, FlushIs
  <2> QED  BY <2>3, FlushIs DEF Own, InOutput
<1>7. Len(place'[p].todo) < Len(place'[p].msg) => Solo(place[p])'
  BY <1>1, FlushIs, SoloKept
<1> QED  BY <1>4, <1>5, <1>6, <1>7 DEF Own

LEMMA OwnFlushed ==
    ASSUME TtyTyped, NEW p \in Printer, tty_flushed(p), Own(place[p]), place'[p] # Idle
    PROVE  Own(place[p])'
<1>1. Step(p) /\ Moved(p) /\ place[p].pc = "reset"  BY FlushedIs DEF Step
<1>2. CASE place[p].then # "done"
  <2>1. /\ place'[p].todo = place[p].todo
        /\ \/ place'[p].pc = "flush" /\ place'[p].then = "load"
           \/ place'[p].pc = "load"
    BY <1>2, FlushedIs
  <2>2. Unspoken(place[p])'  BY <1>1, <1>2, <2>1, FlushedIs, WordsKept DEF Own
  <2>3. InTbuf(place[p])' /\ InOutput(place[p])'  BY <2>1 DEF InTbuf, InOutput
  <2>4. Len(place'[p].todo) < Len(place'[p].msg) => Solo(place[p])'
    BY <1>1, <2>1, SoloKept
  <2> QED  BY <2>2, <2>3, <2>4 DEF Own
<1>3. CASE place[p].then = "done"
  <2>1. Len(place[p].todo) = 2 /\ place'[p].pc = "emit" /\ place'[p].todo = Tail(place[p].todo)
    BY <1>3, FlushedIs DEF Ended
  <2>2. Whole(place[p]) /\ place[p].pc # "idle"  BY <1>1 DEF Own, Unspoken
  <2>3. Len(place[p].msg) = 2 /\ Tail(place[p].todo) = <<place[p].msg[2]>>
    BY <2>1, <2>2, WholeIs
  <2>4. place'[p].msg = place[p].msg /\ wanted' = wanted /\ (Alone' <=> Alone) /\ line' = line
    BY <1>1, FlushedIs DEF Moved, Same, Alone
  <2>5. Whole(place'[p])  BY <2>1, <2>3, <2>4 DEF Whole
  <2>6. Unsent(place'[p]) = Unsent(place[p])  BY <1>1, <1>3, <2>1 DEF Unsent
  <2>7. Unspoken(place[p])'  BY <2>4, <2>5, <2>6 DEF Own, Unspoken, Whole
  <2>8. InTbuf(place[p])' /\ InOutput(place[p])'  BY <2>1 DEF InTbuf, InOutput
  <2>9. Solo(place[p])'  BY <2>1, FlushedIs DEF Solo, Ending
  <2> QED  BY <2>7, <2>8, <2>9 DEF Own
<1> QED  BY <1>2, <1>3

(* A console that printk writes to directly has nothing in the buffer. *)
LEMMA NothingBuffered ==
    ASSUME Emptied, emitter = "notty"
    PROVE  outputidx = 0
BY DEF Emptied, Flushes, Straight

LEMMA OwnSend ==
    ASSUME TtyTyped, Emptied, NEW p \in Printer, console_send(p), Own(place[p]),
           Alone => Solo(place[p]), place'[p] # Idle
    PROVE  Own(place[p])'
<1>1. Step(p) /\ Moved(p) /\ place[p].pc = "send"  BY SendIs DEF Step
<1>2. Unspoken(place[p]) /\ Whole(place[p]) /\ place[p].pc # "idle"  BY <1>1 DEF Own, Unspoken
<1>3. /\ place'[p].msg = place[p].msg /\ wanted' = wanted /\ overlap' = overlap
      /\ (Alone' <=> Alone) /\ (Straight(place[p])' <=> Straight(place[p]))
  BY <1>1 DEF Moved, Same, Alone, Straight
<1>4. CASE Straight(place[p])
  <2>1. /\ line' = Append(line, Head(place[p].todo))
        /\ Len(place[p].todo) = 2 /\ place'[p].pc = "emit" /\ place'[p].todo = Tail(place[p].todo)
    BY <1>4, SendIs DEF Ended
  <2>2. Len(place[p].msg) = 2 /\ Tail(place[p].todo) = <<place[p].msg[2]>>
    BY <1>2, <2>1, WholeIs
  <2>3. emitter = "notty"
    <3>1. place[p].direct => Len(place[p].msg) = 1  BY DEF TtyTyped, PrintOK
    <3> QED  BY <1>4, <2>2, <3>1 DEF Straight
  <2>4. /\ EndsWith(line', place[p].msg, Len(place[p].msg) - Len(Tail(place[p].todo)))
        /\ Alone => wanted' = line' \o Tail(place[p].todo)
    BY <1>1, <1>2, <1>3, <2>1, WordsSent
  <2>5. Unsent(place'[p]) = Tail(place[p].todo)  BY <2>1 DEF Unsent
  <2>6. Whole(place'[p])  BY <1>3, <2>1, <2>2 DEF Whole
  <2>7. Unspoken(place[p])'  BY <1>3, <2>4, <2>5, <2>6 DEF Unspoken, Whole
  <2>8. InTbuf(place[p])' /\ InOutput(place[p])'  BY <2>1 DEF InTbuf, InOutput
  <2>9. outputidx' = 0  BY <2>3, NothingBuffered, SendIs
  <2>10. Solo(place[p])'  BY <2>1, <2>9 DEF Solo, Ending
  <2> QED  BY <2>7, <2>8, <2>10 DEF Own
<1>5. CASE ~Straight(place[p])
  <2>1. /\ place'[p].todo = place[p].todo /\ place'[p].then = place[p].then
        /\ place'[p].n = place[p].n /\ outputbuf' = outputbuf
        /\ line' = Append(line, outputbuf[place[p].i])
        /\ \/ place[p].i + 1 < place[p].n /\ place'[p].pc = "send"
           \/ place[p].i + 1 = place[p].n /\ place'[p].pc = "reset"
    BY <1>5, SendIs
  <2>2. /\ Len(place[p].todo) < Len(place[p].msg) \/ Alone => place[p].then = "done" /\ place[p].n = 1
    BY <1>1, <1>5 DEF Own, Solo
  <2>3. place[p].i \in Nat /\ place[p].n \in Nat  BY DEF TtyTyped, Prints
  <2>4. InTbuf(place[p])'  BY <2>1 DEF InTbuf
  <2>5. place[p].then = "done" => outputbuf[place[p].n - 1] = Head(place[p].todo)
    BY <1>1, <1>5 DEF Own, InOutput
  <2>6. InOutput(place[p])'  BY <2>1, <2>5 DEF InOutput
  <2>7. Len(place'[p].todo) < Len(place'[p].msg) => Solo(place[p])'
    BY <1>1, <2>1, SoloKept
  <2>8. Whole(place'[p])  BY <1>2, <1>3, <2>1 DEF Whole
  <2>9. CASE place[p].then = "done" /\ place'[p].pc = "reset"
    <3>1. place[p].n - 1 = place[p].i  BY <2>1, <2>3, <2>9
    <3>2. line' = Append(line, Head(place[p].todo))  BY <2>1, <2>5, <2>9, <3>1
    <3>3. /\ EndsWith(line', place[p].msg, Len(place[p].msg) - Len(Tail(place[p].todo)))
          /\ Alone => wanted' = line' \o Tail(place[p].todo)
      BY <1>1, <1>2, <1>3, <3>2, WordsSent
    <3>4. Unsent(place'[p]) = Tail(place[p].todo)  BY <2>1, <2>9 DEF Unsent
    <3>5. Unspoken(place[p])'  BY <1>3, <2>8, <3>3, <3>4 DEF Unspoken, Whole
    <3> QED  BY <2>4, <2>6, <2>7, <3>5 DEF Own
  <2>10. CASE ~(place[p].then = "done" /\ place'[p].pc = "reset")
    <3>1. ~(Len(place[p].todo) < Len(place[p].msg)) /\ ~Alone
      BY <2>1, <2>2, <2>3, <2>10
    <3>2. Unsent(place'[p]) = place[p].todo  BY <2>1, <2>10 DEF Unsent
    <3>3. Len(place[p].msg) - Len(place[p].todo) = 0  BY <1>2, <3>1, WholeIs
    <3>4. line' \in Seq(TtyChars)
      <4>1. place[p].i < place[p].n /\ place[p].n <= TTY_OUT_BUFSIZE + MaxMixed
        BY <1>1 DEF TtyTyped, PrintOK
      <4>2. place[p].i \in Cells  BY <2>3, <4>1, Sizes DEF Cells
      <4>3. outputbuf[place[p].i] \in TtyChars  BY <4>2 DEF TtyTyped
      <4> QED  BY <2>1, <4>3, AppendProperties DEF TtyTyped
    <3>5. EndsWith(line', place[p].msg, 0)
      <4>1. PICK ln \in Seq(TtyChars) : ln = line'  BY <3>4
      <4> QED  BY <4>1, EndsNone
    <3>6. Unspoken(place[p])'  BY <1>3, <2>8, <3>1, <3>2, <3>3, <3>5 DEF Unspoken, Whole
    <3> QED  BY <2>4, <2>6, <2>7, <3>6 DEF Own
  <2> QED  BY <2>9, <2>10
<1> QED  BY <1>4, <1>5

LEMMA OwnStep ==
    ASSUME TtyTyped, Emptied, Bounded, NEW p \in Printer, Step(p), Own(place[p]),
           Alone => Solo(place[p]), place'[p] # Idle
    PROVE  Own(place[p])'
BY OwnFill, OwnCopy, OwnEmit, OwnLoad, OwnIndex, OwnChar, OwnFlush, OwnFlushed, OwnSend DEF Step

(* The end of a print. *)
LEMMA OwnEnd ==
    ASSUME TtyTyped, NEW p \in Printer, Step(p), Own(place[p]), place'[p] = Idle
    PROVE  /\ EndsWith(line', place[p].msg, Len(place[p].msg))
           /\ Alone => wanted' = line'
<1>1. Moved(p) /\ place[p].pc # "idle"  BY StepMoves DEF Moved
<1>2. Unspoken(place[p]) /\ Whole(place[p])  BY DEF Own, Unspoken
<1>3. wanted' = wanted /\ overlap' = overlap  BY <1>1 DEF Moved
<1>4. \/ /\ place[p].pc = "reset" /\ place[p].then = "done" /\ line' = line
         /\ Len(place[p].todo) = 1
      \/ /\ place[p].pc = "send" /\ line' = Append(line, Head(place[p].todo))
         /\ Len(place[p].todo) = 1
  <2>1. place'[p].pc = "idle"  BY DEF Idle
  <2>2. CASE itoa_fill(p)  BY <2>1, <2>2, FillIs
  <2>3. CASE itoa_copy(p)  BY <2>1, <2>3, CopyIs
  <2>4. CASE emit(p)  BY <2>1, <2>4, EmitIs
  <2>5. CASE tty_load(p)  BY <2>1, <2>5, LoadIs
  <2>6. CASE tty_index(p)  BY <2>1, <2>6, IndexIs
  <2>7. CASE tty_char(p)  BY <2>1, <2>7, CharIs
  <2>8. CASE tty_flush_output(p)  BY <2>1, <2>8, FlushIs
  <2>9. CASE tty_flushed(p)  BY <2>1, <2>9, FlushedIs DEF Ended
  <2>10. CASE console_send(p)  BY <2>1, <2>10, SendIs DEF Ended
  <2> QED  BY <2>2, <2>3, <2>4, <2>5, <2>6, <2>7, <2>8, <2>9, <2>10 DEF Step
<1>5. /\ EndsWith(line', place[p].msg, Len(place[p].msg) - Len(Tail(place[p].todo)))
      /\ Alone => wanted' = line' \o Tail(place[p].todo)
  <2>1. CASE place[p].pc = "reset" /\ place[p].then = "done" /\ line' = line
    <3>1. Unsent(place[p]) = Tail(place[p].todo)  BY <2>1 DEF Unsent
    <3> QED  BY <1>2, <1>3, <2>1, <3>1 DEF Unspoken
  <2>2. CASE place[p].pc = "send" /\ line' = Append(line, Head(place[p].todo))
    BY <1>1, <1>2, <1>3, <2>2, WordsSent
  <2> QED  BY <1>4, <2>1, <2>2
<1>6. PICK x \in Seq(TtyChars), m \in Seq(TtyChars) : x = Tail(place[p].todo) /\ m = place[p].msg
  BY <1>1, <1>2, WholeIs
<1>7. Len(x) = 0  BY <1>1, <1>2, <1>4, <1>6, WholeIs
<1>8. x = <<>>  BY <1>7
<1>9. PICK ln \in Seq(TtyChars) : ln = line'
  <2>1. line \in Seq(TtyChars) /\ Head(place[p].todo) \in TtyChars
    BY <1>1, <1>2, WholeIs DEF TtyTyped
  <2> QED  BY <1>4, <2>1, AppendProperties
<1>10. ln \o <<>> = ln  BY ConcatEmptySeq
<1>11. Len(m) - Len(x) = Len(m)  BY <1>7
<1> QED  BY <1>5, <1>6, <1>8, <1>9, <1>10, <1>11

LEMMA OwnedStep ==
    ASSUME TtyInv, NEW p \in Printer, Step(p)
    PROVE  Owned' /\ Quiet'
<1>1. /\ TtyTyped /\ Overlaps /\ Emptied /\ Solos /\ Bounded /\ Owned /\ Quiet
  BY DEF TtyInv
<1>2. Moved(p) /\ place[p].pc # "idle" /\ p \in Busy  BY <1>1, StepMoves DEF Moved, Busy
<1>3. Alone' <=> Alone  BY <1>2 DEF Moved, Alone
<1>4. Alone => Busy = {p} /\ Solo(place[p])  BY <1>1, <1>2 DEF Solos, Clean
<1>5. Busy' \subseteq Busy /\ (p \in Busy' => place'[p] # Idle /\ place'[p].off = place[p].off)
  BY <1>2 DEF Moved, Busy, Idle, Same
<1>6. place[p].off \/ Alone => Own(place[p])  BY <1>1, <1>2 DEF Owned
<1>7. Owned'
  <2>1. SUFFICES ASSUME NEW q \in Busy', place'[q].off \/ Alone'  PROVE Own(place[q])'
    BY DEF Owned
  <2>2. CASE q = p
    <3>1. Own(place[p]) /\ place'[p] # Idle  BY <1>3, <1>5, <1>6, <2>1, <2>2
    <3>2. Own(place[p])'  BY <1>1, <1>4, <3>1, OwnStep
    <3> QED  BY <2>2, <3>2
  <2>3. CASE q # p
    <3>1. ~place'[q].off  BY <1>2, <2>3 DEF Moved, Busy
    <3>2. Alone  BY <1>3, <2>1, <3>1
    <3> QED  BY <1>4, <1>5, <2>1, <2>3, <3>2
  <2> QED  BY <2>2, <2>3
<1>8. Quiet'
  <2>1. SUFFICES ASSUME Alone, Busy' = {}  PROVE line' = wanted'
    BY <1>3 DEF Quiet
  <2>2. place'[p] = Idle  BY <1>2, <2>1 DEF Moved, Busy
  <2> QED  BY <1>1, <1>6, <2>1, <2>2, OwnEnd
<1> QED  BY <1>7, <1>8

LEMMA InvStep ==
    ASSUME TtyInv, NEW p \in Printer, Step(p)
    PROVE  TtyInv'
<1>1. /\ TtyTyped /\ Overlaps /\ Emptied /\ Space /\ Counted /\ Solos /\ Bounded
  BY DEF TtyInv
<1>2. TtyTyped'
  <2>1. outputidx <= TTY_OUT_BUFSIZE + MaxMixed  BY <1>1, IndexBounded
  <2> QED  BY <1>1, <2>1, TypedStep
<1>3. Overlaps'
  <2>1. Moved(p)  BY <1>1, StepMoves
  <2> QED  BY <1>1, <2>1, OverlapsStep
<1>4. Emptied' /\ Space'  BY <1>1, EmptiedStep, SpaceStep
<1>5. Counted' /\ Solos' /\ Bounded'  BY <1>1, CountedStep, SolosStep, BoundedStep
<1> QED  BY <1>2, <1>3, <1>4, <1>5, OwnedStep DEF TtyInv

(***************************************************************************)
(* The beginning of a print: l is the place that it starts from.           *)
(***************************************************************************)
Fresh(l) ==
    /\ l \in Prints /\ l.pc \in {"emit", "fill"}
    /\ l.todo = l.msg /\ (Len(l.msg) = 1 \/ Len(l.msg) = 2)
    /\ l.pc = "fill" => l.n = 2 /\ Len(l.msg) = 2
    /\ l.direct => Len(l.msg) = 1 /\ l.pc = "emit"

LEMMA CharsTyped ==
    /\ NL \in TtyChars /\ CR \in TtyChars /\ Blank \in TtyChars
    /\ \A ch \in Letter : ch \in TtyChars
    /\ \A d \in Numerals : d[1] \in TtyChars /\ d[2] \in TtyChars /\ d = <<d[1], d[2]>>
<1>1. ASSUME NEW d \in Numerals  PROVE d[1] \in Range(d) /\ d[2] \in Range(d)
  <2>1. d = <<d[1], d[2]>>  BY TerminalAssumption DEF TerminalAssumption
  <2>2. DOMAIN d = 1 .. 2  BY <2>1
  <2> QED  BY <2>2 DEF Range
<1>2. \A d \in Numerals : Range(d) \subseteq TtyChars  BY DEF TtyChars
<1>3. \A d \in Numerals : d = <<d[1], d[2]>>  BY TerminalAssumption DEF TerminalAssumption
<1>4. /\ NL \in TtyChars /\ CR \in TtyChars /\ Blank \in TtyChars
      /\ \A ch \in Letter : ch \in TtyChars
  BY DEF TtyChars
<1> QED  BY <1>1, <1>2, <1>3, <1>4

LEMMA FreshBegins ==
    ASSUME NEW p \in Printer, Starts(p)
    PROVE  \E l : Fresh(l) /\ Begin(p, l)
<1>2. ASSUME NEW ch \in Letter \cup {NL}, NEW off \in BOOLEAN, printk_char(p, ch, off)
      PROVE  \E l : Fresh(l) /\ Begin(p, l)
  <2>1. PICK m : m = WithReturn(ch)  OBVIOUS
  <2>2. m \in Seq(TtyChars) /\ (Len(m) = 1 \/ Len(m) = 2)
    BY <2>1, CharsTyped DEF WithReturn
  <2>4. PICK l : l = [Idle EXCEPT !.pc = "emit", !.msg = m, !.todo = m, !.off = off]
    OBVIOUS
  <2>5. Fresh(l)  BY <2>2, <2>4 DEF Fresh, Idle, Prints, PrintPlaces
  <2>6. Begin(p, l)  BY <1>2, <2>1, <2>4 DEF printk_char
  <2> QED  BY <2>5, <2>6
<1>3. ASSUME NEW d \in Numerals, NEW off \in BOOLEAN, printk_number(p, d, off)
      PROVE  \E l : Fresh(l) /\ Begin(p, l)
  <2>1. d \in Seq(TtyChars) /\ Len(d) = 2  BY CharsTyped
  <2>2. PICK l : l = [Idle EXCEPT !.pc = "fill", !.msg = d, !.todo = d, !.n = 2, !.off = off]
    OBVIOUS
  <2>3. Fresh(l)  BY <2>1, <2>2 DEF Fresh, Idle, Prints, PrintPlaces
  <2> QED  BY <1>3, <2>2, <2>3 DEF printk_number
<1>4. ASSUME NEW ch \in Letter \cup {NL}, console_file_write(p, ch)
      PROVE  \E l : Fresh(l) /\ Begin(p, l)
  <2>1. <<ch>> \in Seq(TtyChars) /\ Len(<<ch>>) = 1  BY CharsTyped
  <2>2. PICK l : l = [Idle EXCEPT !.pc = "emit", !.msg = <<ch>>, !.todo = <<ch>>, !.off = TRUE,
                                  !.direct = TRUE]
    OBVIOUS
  <2>3. Fresh(l)  BY <2>1, <2>2 DEF Fresh, Idle, Prints, PrintPlaces
  <2> QED  BY <1>4, <2>2, <2>3 DEF console_file_write
<1> QED  BY <1>2, <1>3, <1>4 DEF Starts

Begun(p, l) ==
    /\ place[p].pc = "idle" /\ ~place[p].off
    /\ \A q \in Printer \ {p} : ~place[q].off /\ place'[q] = place[q]
    /\ place' \in [Printer -> Prints] /\ place'[p] = l
    /\ Busy' = Busy \cup {p} /\ p \notin Busy
    /\ emitter = "notty" => p = boot
    /\ emitter' = emitter /\ outputbuf' = outputbuf /\ outputidx' = outputidx
    /\ tbuf' = tbuf /\ line' = line
    /\ wanted' = wanted \o l.msg /\ wanted' \in Seq(TtyChars)
    /\ Len(wanted') = Len(wanted) + Len(l.msg)

(* Whether the print begins inside of another one. *)
BegunInside(l) ==
    \/ Busy = {} /\ overlap' = overlap
    \/ /\ Busy # {} /\ Len(wanted') <= MaxMixed /\ Nested' = Nested + 1
       /\ overlap' \in [calls : Nat, threads : Nat]
       /\ overlap'.threads = IF l.off THEN overlap.threads ELSE overlap.threads + 1

LEMMA BeginIs ==
    ASSUME TtyTyped, NEW p \in Printer, NEW l, Fresh(l), Begin(p, l)
    PROVE  Begun(p, l) /\ BegunInside(l)
<1>1. l \in Prints /\ l.pc # "idle" /\ l.msg \in Seq(TtyChars)
  BY DEF Fresh, Prints
<1>2. place[p] = Idle /\ place[p].pc = "idle" /\ ~place[p].off
  BY DEF TtyTyped, PrintOK, Begin, Runs, Idle
<1>3. place' \in [Printer -> Prints] /\ place'[p] = l /\ \A q \in Printer \ {p} : place'[q] = place[q]
  BY <1>1 DEF TtyTyped, Begin
<1>4. Busy' = Busy \cup {p} /\ p \notin Busy
  BY <1>1, <1>2, <1>3 DEF Busy
<1>5. /\ wanted' = wanted \o l.msg /\ wanted' \in Seq(TtyChars)
      /\ Len(wanted') = Len(wanted) + Len(l.msg)
  BY <1>1, ConcatProperties DEF TtyTyped, Begin
<1>6. Begun(p, l)
  BY <1>2, <1>3, <1>4, <1>5 DEF Begun, Begin, Runs, tty
<1>7. BegunInside(l)
  <2>1. CASE Busy = {}  BY <2>1 DEF Begin, BegunInside
  <2>2. CASE Busy # {}
    <3>1. Len(wanted') <= MaxMixed  BY <2>2 DEF Begin
    <3>2. PICK a \in Nat, b \in Nat : overlap = [calls |-> a, threads |-> b]
      BY DEF TtyTyped
    <3>3. CASE l.off
      <4>1. overlap' = [calls |-> a + 1, threads |-> b]
        BY <2>2, <3>2, <3>3 DEF Begin
      <4> QED  BY <2>2, <3>1, <3>2, <3>3, <4>1 DEF BegunInside, Nested
    <3>4. CASE ~l.off
      <4>1. overlap' = [calls |-> a, threads |-> b + 1]
        BY <2>2, <3>2, <3>4 DEF Begin
      <4> QED  BY <2>2, <3>1, <3>2, <3>4, <4>1 DEF BegunInside, Nested
    <3> QED  BY <3>3, <3>4
  <2> QED  BY <2>1, <2>2
<1> QED  BY <1>6, <1>7

LEMMA TypedBegin ==
    ASSUME TtyTyped, NEW p \in Printer, NEW l, Fresh(l), Begun(p, l), BegunInside(l)
    PROVE  TtyTyped'
<1>1. \A q \in Printer \ {p} : PrintOK(place[q])'
  BY DEF TtyTyped, Begun, PrintOK, Straight
<1>2. PrintOK(place[p])'
  <2>1. place'[p] = l  BY DEF Begun
  <2>2. l.pc = "emit" \/ l.pc = "fill"  BY DEF Fresh
  <2>3. l.todo = l.msg  BY DEF Fresh
  <2>4. PICK k : k = Len(l.msg)  OBVIOUS
  <2>5. k = 1 \/ k = 2  BY <2>4 DEF Fresh
  <2>6. k \in 1 .. 2 /\ k \in 1 .. k  BY <2>5
  <2>7. /\ l.pc = "fill" => l.n = 2 /\ k = 2
        /\ l.direct => k = 1 /\ l.pc = "emit"
    BY <2>4 DEF Fresh
  <2> QED  BY <2>1, <2>2, <2>3, <2>4, <2>6, <2>7 DEF PrintOK
<1>3. overlap' \in [calls : Nat, threads : Nat]  BY DEF TtyTyped, BegunInside
<1> QED  BY <1>1, <1>2, <1>3 DEF TtyTyped, Begun

LEMMA OverlapsBegin ==
    ASSUME TtyTyped, Overlaps, NEW p \in Printer, NEW l, Fresh(l), Begun(p, l), BegunInside(l)
    PROVE  Overlaps'
<1>1. PICK a \in Nat, b \in Nat, w \in Nat, k \in Nat :
        a = overlap.calls /\ b = overlap.threads /\ w = Len(wanted) /\ k = Len(l.msg)
  BY DEF TtyTyped, Fresh, Prints
<1>a. k = 1 \/ k = 2  BY <1>1 DEF Fresh
<1>b. Len(wanted') = w + k  BY <1>1 DEF Begun
<1>2. k >= 1 /\ Len(wanted') = w + k  BY <1>a, <1>b
<1>3. Nested = a + b /\ a + b <= w /\ a + b <= MaxMixed
  BY <1>1 DEF Nested, Overlaps
<1>4. Nested' <= Len(wanted') /\ Nested' <= MaxMixed
  <2>1. CASE Busy = {} /\ overlap' = overlap
    <3>1. Nested' = a + b  BY <1>1, <2>1 DEF Nested
    <3> QED  BY <1>2, <1>3, <3>1
  <2>2. CASE Len(wanted') <= MaxMixed /\ Nested' = Nested + 1
    <3>1. Nested' = a + b + 1  BY <1>3, <2>2
    <3> QED  BY <1>2, <1>3, <2>2, <3>1, Sizes
  <2> QED  BY <2>1, <2>2 DEF BegunInside
<1>5. \A q \in Printer \ {p} : ~place'[q].off  BY DEF Begun
<1>6. ASSUME NEW q \in Busy', NEW r \in Busy', q # r
      PROVE  /\ ~(overlap'.threads = 0 /\ ~place'[q].off /\ ~place'[r].off)
             /\ ~Alone'
  <2>1. Busy # {}  BY <1>6 DEF Begun
  <2>2. /\ Nested' = a + b + 1
        /\ overlap'.threads = IF l.off THEN b ELSE b + 1
    BY <1>1, <1>3, <2>1 DEF BegunInside
  <2>3. Nested' # 0  BY <2>2
  <2>4. ~Alone'  BY <2>3 DEF Alone, Nested
  <2>5. SUFFICES ASSUME overlap'.threads = 0, ~place'[q].off, ~place'[r].off  PROVE FALSE
    BY <2>4
  <2>6. l.off /\ b = 0  BY <2>2, <2>5
  <2>7. q # p /\ r # p  BY <2>5, <2>6 DEF Begun
  <2>8. q \in Busy /\ r \in Busy /\ place'[q] = place[q] /\ place'[r] = place[r]
    BY <1>6, <2>7 DEF Begun, Busy
  <2> QED  BY <1>1, <1>6, <2>5, <2>6, <2>8 DEF Overlaps
<1>7. emitter' = "notty" => \A q \in Busy' : q = boot
  BY DEF Overlaps, Begun
<1> QED  BY <1>4, <1>5, <1>6, <1>7 DEF Overlaps

LEMMA EmptiedBegin ==
    ASSUME Emptied, NEW p \in Printer, NEW l, Begun(p, l)
    PROVE  Emptied'
<1>1. \A q \in Printer : Flushes(place[q]) => Flushes(place[q])'
  BY DEF Begun, Flushes, Straight
<1> QED  BY <1>1 DEF Emptied, Begun

LEMMA SpaceBegin ==
    ASSUME TtyTyped, Space, NEW p \in Printer, NEW l, Fresh(l), Begun(p, l), BegunInside(l)
    PROVE  Space'
<1>1. SUFFICES ASSUME overlap'.threads = 0  PROVE Space'
  BY DEF Space
<1>2. overlap.threads = 0
  <2>1. PICK b \in Nat : b = overlap.threads  BY DEF TtyTyped
  <2> QED  BY <1>1, <2>1 DEF BegunInside
<1>3. l.pc # "index" /\ l.pc # "char" /\ l.pc # "load"  BY DEF Fresh
<1>4. \A w \in Printer : ~place[w].off  BY DEF Begun
<1>5. \A q \in Printer : place[q].pc = "load" => outputidx < TTY_OUT_BUFSIZE
  BY <1>2, <1>4 DEF Space
<1>6. \A q \in Printer : place'[q].pc = "load" => outputidx' < TTY_OUT_BUFSIZE
  BY <1>3, <1>5 DEF Begun
<1>7. \A q \in Printer : place'[q].pc \in {"index", "char"} => place'[q].idx < TTY_OUT_BUFSIZE
  BY <1>2, <1>3 DEF Space, Begun
<1>8. outputidx' <= TTY_OUT_BUFSIZE  BY <1>2 DEF Space, Begun
<1> QED  BY <1>6, <1>7, <1>8 DEF Space

LEMMA AtMostOneMore ==
    ASSUME NEW S, IsFiniteSet(S), NEW x
    PROVE  /\ IsFiniteSet(S \cup {x}) /\ Cardinality(S) \in Nat /\ Cardinality(S \cup {x}) \in Nat
           /\ Cardinality(S \cup {x}) <= Cardinality(S) + 1
BY FS_AddElement, FS_CardinalityType

LEMMA PendingGrows ==
    ASSUME TtyTyped, NEW p \in Printer, NEW l, Fresh(l), Begun(p, l)
    PROVE  /\ Cardinality(Pending) \in Nat /\ Cardinality(Pending') \in Nat
           /\ Cardinality(Pending') <= Cardinality(Pending) + Len(l.msg)
<1>1. PICK k : k = Len(l.msg)  OBVIOUS
<1>2. k = 1 \/ k = 2  BY <1>1 DEF Fresh
<1>3. Left(l) = k /\ place'[p] = l  BY <1>1 DEF Fresh, Left, Ending, Begun
<1>4. \A q \in Printer \ {p} : place'[q] = place[q]  BY DEF Begun
<1>5. ASSUME NEW x \in Pending'
      PROVE  x \in Pending \/ x = <<p, 1>> \/ (k = 2 /\ x = <<p, 2>>)
  <2>1. PICK q \in Printer, j \in 1 .. 2 : x = <<q, j>> /\ j <= Left(place'[q])
    BY <1>5 DEF Pending, Left, Ending
  <2>2. CASE q = p
    <3>1. j <= k  BY <1>3, <2>1, <2>2
    <3>2. j = 1 \/ (j = 2 /\ k = 2)  BY <1>2, <3>1
    <3> QED  BY <2>1, <2>2, <3>2
  <2>3. CASE q # p  BY <1>4, <2>1, <2>3 DEF Pending
  <2> QED  BY <2>2, <2>3
<1>6. PICK S : S = Pending  OBVIOUS
<1>7. PICK T : T = Pending'  OBVIOUS
<1>8. IsFiniteSet(S) /\ IsFiniteSet(T)  BY <1>6, <1>7, PendingFinite
<1>9. PICK one, two : one = <<p, 1>> /\ two = <<p, 2>>  OBVIOUS
<1>10. /\ IsFiniteSet(S \cup {one}) /\ Cardinality(S) \in Nat /\ Cardinality(S \cup {one}) \in Nat
       /\ Cardinality(S \cup {one}) <= Cardinality(S) + 1
  BY <1>8, AtMostOneMore
<1>11. /\ IsFiniteSet((S \cup {one}) \cup {two}) /\ Cardinality((S \cup {one}) \cup {two}) \in Nat
       /\ Cardinality((S \cup {one}) \cup {two}) <= Cardinality(S \cup {one}) + 1
  BY <1>10, AtMostOneMore
<1>12. Cardinality(T) \in Nat  BY <1>8, FS_CardinalityType
<1>13. Cardinality(T) <= Cardinality(S) + k
  <2>1. CASE k = 1
    <3>1. T \subseteq S \cup {one}  BY <1>5, <1>6, <1>7, <1>9, <2>1
    <3>2. Cardinality(T) <= Cardinality(S \cup {one})  BY <1>10, <3>1, FS_Subset
    <3> QED  BY <1>10, <1>12, <2>1, <3>2
  <2>2. CASE k = 2
    <3>1. T \subseteq (S \cup {one}) \cup {two}  BY <1>5, <1>6, <1>7, <1>9
    <3>2. Cardinality(T) <= Cardinality((S \cup {one}) \cup {two})  BY <1>11, <3>1, FS_Subset
    <3> QED  BY <1>10, <1>11, <1>12, <2>2, <3>2
  <2> QED  BY <1>2, <2>1, <2>2
<1> QED  BY <1>1, <1>6, <1>7, <1>10, <1>12, <1>13

LEMMA CountedBegin ==
    ASSUME TtyTyped, Counted, NEW p \in Printer, NEW l, Fresh(l), Begun(p, l)
    PROVE  Counted'
<1>1. PICK a, b, k, w, x :
        /\ a = Cardinality(Pending) /\ b = Cardinality(Pending') /\ k = Len(l.msg)
        /\ w = Len(wanted) /\ x = Len(wanted')
  OBVIOUS
<1>2. a \in Nat /\ b \in Nat /\ b <= a + k  BY <1>1, PendingGrows
<1>3. (k = 1 \/ k = 2) /\ w \in Nat /\ x = w + k
  <2>1. k = 1 \/ k = 2  BY <1>1 DEF Fresh
  <2>2. w \in Nat  BY <1>1 DEF TtyTyped
  <2>3. x = w + k  BY <1>1 DEF Begun
  <2> QED  BY <2>1, <2>2, <2>3
<1>4. outputidx \in Nat /\ \A q \in Printer : place[q].idx \in Nat  BY DEF TtyTyped, Prints
<1>5. /\ outputidx + a <= w
      /\ \A q \in Printer : place[q].pc = "index" => place[q].idx + a <= w
  BY <1>1 DEF Counted
<1>6. outputidx + b <= x  BY <1>2, <1>3, <1>4, <1>5
<1>7. \A q \in Printer : place[q].pc = "index" => place[q].idx + b <= x
  BY <1>2, <1>3, <1>4, <1>5
<1>8. ASSUME NEW q \in Printer, place'[q].pc = "index"
      PROVE  place'[q] = place[q]
  BY <1>8 DEF Begun, Fresh
<1>9. outputidx' = outputidx  BY DEF Begun
<1> QED  BY <1>1, <1>6, <1>7, <1>8, <1>9 DEF Counted

LEMMA SolosBegin ==
    ASSUME TtyTyped, Emptied, NEW p \in Printer, NEW l, Fresh(l), Begun(p, l), BegunInside(l)
    PROVE  Solos'
<1>1. SUFFICES ASSUME Clean'  PROVE Busy = {}  /\ outputidx = 0
  BY DEF Solos, Begun, Solo, Ending, Fresh
<1>2. Busy = {}
  <2>1. SUFFICES ASSUME Busy # {}  PROVE FALSE  OBVIOUS
  <2>2. Len(wanted') <= MaxMixed /\ Nested' = Nested + 1  BY <2>1 DEF BegunInside
  <2>3. PICK w \in Nat : w = Len(wanted')  BY DEF Begun
  <2>4. ~(Len(wanted') > MaxMixed)  BY <2>2, <2>3, Sizes
  <2>5. Nested' # 0  BY <2>2 DEF TtyTyped, Nested
  <2> QED  BY <1>1, <2>4, <2>5 DEF Clean, Alone, Nested
<1>3. \A q \in Printer : place[q].pc = "idle"  BY <1>2 DEF Busy
<1> QED  BY <1>2, <1>3 DEF Emptied, Flushes

LEMMA OwnedBegin ==
    ASSUME TtyTyped, Quiet, NEW p \in Printer, NEW l, Fresh(l), Begun(p, l), BegunInside(l)
    PROVE  Owned' /\ Quiet'
<1>1. Quiet'  BY DEF Quiet, Begun
<1>2. SUFFICES ASSUME NEW q \in Busy', place'[q].off \/ Alone'  PROVE Own(place[q])'
  BY <1>1 DEF Owned
<1>3. Alone' => Busy = {} /\ Alone
  <2>1. SUFFICES ASSUME Alone'  PROVE Busy = {} /\ Alone  OBVIOUS
  <2>2. CASE Busy = {} /\ overlap' = overlap  BY <2>1, <2>2 DEF Alone
  <2>3. CASE Nested' = Nested + 1
    <3>1. Nested' # 0  BY <2>3 DEF TtyTyped, Nested
    <3> QED  BY <2>1, <3>1 DEF Alone, Nested
  <2> QED  BY <2>2, <2>3 DEF BegunInside
<1>4. q = p
  BY <1>2, <1>3 DEF Begun, Busy
<1>5. place'[p] = l  BY DEF Begun
<1>6. l.todo = l.msg /\ (l.pc = "emit" \/ l.pc = "fill") /\ (l.pc = "fill" => l.n = 2)
  BY DEF Fresh
<1>7. l.msg \in Seq(TtyChars)  BY DEF Fresh, Prints
<1>8. PICK m \in Seq(TtyChars) : m = l.msg  BY <1>7
<1>9. Unsent(l) = m /\ Len(m) - Len(Unsent(l)) = 0  BY <1>6, <1>8 DEF Unsent
<1>10. EndsWith(line, m, 0)
  <2>1. PICK ln \in Seq(TtyChars) : ln = line  BY DEF TtyTyped
  <2> QED  BY <2>1, EndsNone
<1>11. Alone' => wanted' = line' \o m
  BY <1>3, <1>8 DEF Quiet, Begun
<1>12. Unspoken(l)'
  BY <1>6, <1>8, <1>9, <1>10, <1>11 DEF Unspoken, Whole, Begun
<1>13. InTbuf(l)'  BY <1>6 DEF InTbuf
<1>14. InOutput(l)'  BY <1>6 DEF InOutput
<1>15. ~(Len(l.todo) < Len(l.msg))  BY <1>6, <1>8
<1>16. Own(l)'  BY <1>12, <1>13, <1>14, <1>15 DEF Own
<1> QED  BY <1>4, <1>5, <1>16 DEF Own, Unspoken, InTbuf, InOutput, Solo, Straight

LEMMA InvBegin ==
    ASSUME TtyInv, NEW p \in Printer, Starts(p)
    PROVE  TtyInv'
<1>1. /\ TtyTyped /\ Overlaps /\ Emptied /\ Space /\ Counted /\ Solos /\ Bounded /\ Quiet
  BY DEF TtyInv
<1>2. PICK l : Fresh(l) /\ Begin(p, l)  BY FreshBegins
<1>3. Begun(p, l) /\ BegunInside(l)  BY <1>1, <1>2, BeginIs
<1>4. TtyTyped' /\ Overlaps'  BY <1>1, <1>2, <1>3, TypedBegin, OverlapsBegin
<1>5. Emptied' /\ Space'  BY <1>1, <1>2, <1>3, EmptiedBegin, SpaceBegin
<1>6. Counted' /\ Solos'  BY <1>1, <1>2, <1>3, CountedBegin, SolosBegin
<1>7. Bounded'
  <2>1. place'[p] = l /\ l.pc # "char"  BY <1>2, <1>3 DEF Begun, Fresh
  <2> QED  BY <1>1, <1>3, <2>1 DEF Bounded, Begun
<1>8. Owned' /\ Quiet'  BY <1>1, <1>2, <1>3, OwnedBegin
<1> QED  BY <1>4, <1>5, <1>6, <1>7, <1>8 DEF TtyInv

(***************************************************************************)
(* The first state, and the switch from the consoles to the terminal.      *)
(***************************************************************************)
LEMMA AllIdle ==
    ASSUME \A q \in Printer : place[q] = Idle
    PROVE  /\ Busy = {} /\ Pending = {}
           /\ \A q \in Printer : ~Flushes(place[q]) /\ ~place[q].off
BY DEF Busy, Pending, Left, Idle, Flushes

LEMMA InvInit == TtyInit => TtyInv
<1> SUFFICES ASSUME TtyInit  PROVE TtyInv  OBVIOUS
<1>1. \A q \in Printer : place[q] = Idle  BY DEF TtyInit
<1>2. /\ Busy = {} /\ Pending = {}
      /\ \A q \in Printer : ~Flushes(place[q]) /\ ~place[q].off
  BY <1>1, AllIdle
<1>3. PrintOK(Idle)  BY DEF PrintOK, Idle, Straight
<1>4. <<>> \in Seq(TtyChars)  BY EmptySeq
<1>5. outputbuf \in [Cells -> TtyChars] /\ tbuf \in TtyChars \X TtyChars
  BY CharsTyped DEF TtyInit
<1>6. overlap.calls = 0 /\ overlap.threads = 0 /\ overlap \in [calls : Nat, threads : Nat]
  BY DEF TtyInit
<1>7. TtyTyped
  BY <1>1, <1>3, <1>4, <1>5, <1>6, IdleTyped DEF TtyInit, TtyTyped
<1>8. Len(wanted) = 0 /\ outputidx = 0 /\ line = wanted  BY DEF TtyInit
<1>9. Overlaps  BY <1>2, <1>6, <1>8, Sizes DEF Overlaps, Nested
<1>10. Emptied /\ Space  BY <1>1, <1>8, Sizes DEF Emptied, Space, Idle
<1>11. Cardinality(Pending) = 0  BY <1>2, FS_EmptySet
<1>12. Counted /\ Bounded  BY <1>1, <1>8, <1>11 DEF Counted, Bounded, Idle
<1>13. Solos /\ Owned /\ Quiet  BY <1>2, <1>8 DEF Solos, Owned, Quiet
<1> QED  BY <1>7, <1>9, <1>10, <1>12, <1>13 DEF TtyInv

LEMMA InvSwitch ==
    ASSUME TtyInv, printk_switch_tty
    PROVE  TtyInv'
<1>1. /\ Busy = {} /\ emitter' = "tty" /\ outputbuf' = outputbuf /\ outputidx' = outputidx
      /\ tbuf' = tbuf /\ line' = line /\ place' = place /\ wanted' = wanted /\ overlap' = overlap
  BY DEF printk_switch_tty, hist
<1>2. /\ TtyTyped /\ Overlaps /\ Emptied /\ Space /\ Counted /\ Solos /\ Bounded /\ Quiet
  BY DEF TtyInv
<1>3. \A q \in Printer : place[q] = Idle  BY <1>1, <1>2 DEF Busy, TtyTyped, PrintOK
<1>4. Busy' = {}  BY <1>1 DEF Busy
<1>5. TtyTyped'
  <2>1. PrintOK(Idle)'  BY IdleOK
  <2>2. \A q \in Printer : PrintOK(place[q])'  BY <1>1, <1>3, <2>1 DEF PrintOK, Straight
  <2> QED  BY <1>1, <1>2, <2>2 DEF TtyTyped
<1>6. Overlaps'  BY <1>1, <1>2, <1>4 DEF Overlaps, Nested
<1>7. outputidx = 0  BY <1>2, <1>3, AllIdle DEF Emptied
<1>8. Emptied'  BY <1>1, <1>7 DEF Emptied
<1>9. Space'  BY <1>1, <1>2, <1>3 DEF Space, Idle
<1>10. Pending' = Pending  BY <1>1 DEF Pending, Left, Ending
<1>11. Counted' /\ Bounded'  BY <1>1, <1>2, <1>10 DEF Counted, Bounded
<1>12. Solos' /\ Owned' /\ Quiet'  BY <1>1, <1>2, <1>4 DEF Solos, Owned, Quiet, Alone
<1> QED  BY <1>5, <1>6, <1>8, <1>9, <1>11, <1>12 DEF TtyInv

LEMMA InvStays ==
    ASSUME TtyInv, UNCHANGED ttyVars
    PROVE  TtyInv'
<1>1. /\ emitter' = emitter /\ outputbuf' = outputbuf /\ outputidx' = outputidx
      /\ tbuf' = tbuf /\ line' = line /\ place' = place /\ wanted' = wanted /\ overlap' = overlap
  BY DEF ttyVars, tty, hist
<1>2. TtyTyped'  BY <1>1 DEF TtyInv, TtyTyped, PrintOK, Straight
<1>3. Overlaps' /\ Emptied' /\ Space'
  BY <1>1 DEF TtyInv, Overlaps, Nested, Alone, Busy, Emptied, Space, Flushes, Straight
<1>4. Counted' /\ Bounded'  BY <1>1 DEF TtyInv, Counted, Bounded, Pending, Left, Ending
<1>5. Solos'  BY <1>1 DEF TtyInv, Solos, Clean, Alone, Busy, Solo, Ending, Straight
<1>6. \A q \in Printer : Own(place[q])' <=> Own(place[q])
  BY <1>1 DEF Own, Unspoken, Whole, InTbuf, InOutput, Solo, Ending, Straight, Unsent, Alone
<1>7. Owned' /\ Quiet'  BY <1>1, <1>6 DEF TtyInv, Owned, Quiet, Busy, Alone
<1> QED  BY <1>2, <1>3, <1>4, <1>5, <1>7 DEF TtyInv

LEMMA InvNext == TtyInv /\ [TtyNext]_ttyVars => TtyInv'
BY InvStep, InvBegin, InvSwitch, InvStays DEF TtyNext

(***************************************************************************)
(* The inductive invariant of the terminal: types and the place that every *)
(* print is at, who may flush what is in the buffer, how many characters   *)
(* are still to be stored, and what a print that nobody interrupts has     *)
(* sent and has in the buffer.                                             *)
(***************************************************************************)
THEOREM TtyInductive == TtySpec => []TtyInv
BY InvInit, InvNext, PTL DEF TtySpec

LEMMA OffAtMostOne ==
    ASSUME Overlaps
    PROVE  Cardinality({p \in Printer : place[p].off}) <= 1
<1>1. CASE \E p \in Printer : place[p].off
  <2>1. PICK p \in Printer : place[p].off  BY <1>1
  <2>2. {q \in Printer : place[q].off} = {p}  BY <2>1 DEF Overlaps
  <2>3. Cardinality({p}) = 1  BY FS_Singleton
  <2>4. Cardinality({q \in Printer : place[q].off}) = 1  BY <2>2, <2>3
  <2> QED  BY <2>4
<1>2. CASE ~\E p \in Printer : place[p].off
  <2>1. {q \in Printer : place[q].off} = {}  BY <1>2
  <2> QED  BY <2>1, FS_EmptySet
<1> QED  BY <1>1, <1>2

LEMMA TypeOKHolds ==
    ASSUME TtyInv
    PROVE  TtyTypeOK
<1>1. /\ TtyTyped /\ Overlaps /\ Emptied /\ Counted /\ Solos  BY DEF TtyInv
<1>2. outputidx \in Cells
  <2>1. outputidx <= TTY_OUT_BUFSIZE + MaxMixed  BY <1>1, IndexBounded
  <2> QED  BY <1>1, <2>1, Sizes DEF TtyTyped, Cells
<1>3. \A s \in Seq(TtyChars) : Range(s) \subseteq TtyChars
  <2>1. SUFFICES ASSUME NEW s \in Seq(TtyChars), NEW k \in DOMAIN s  PROVE s[k] \in TtyChars
    BY DEF Range
  <2>2. k \in 1 .. Len(s)  BY LenProperties
  <2> QED  BY <2>2, ElementOfSeq
<1>4. Range(line) \cup Range(wanted) \subseteq TtyChars  BY <1>1, <1>3 DEF TtyTyped
<1>5. overlap \in [{"calls", "threads"} -> 0 .. MaxMixed]
  <2>1. PICK a \in Nat, b \in Nat : overlap = [calls |-> a, threads |-> b]
    BY <1>1 DEF TtyTyped
  <2>2. a + b <= MaxMixed  BY <1>1, <2>1 DEF Overlaps, Nested
  <2>3. a \in 0 .. MaxMixed /\ b \in 0 .. MaxMixed  BY <2>2, Sizes
  <2> QED  BY <2>1, <2>3
<1> QED  BY <1>1, <1>2, <1>4, <1>5, OffAtMostOne DEF TtyTypeOK, TtyTyped

LEMMA IndexHolds ==
    ASSUME TtyInv
    PROVE  IndexInBuffer
<1>1. /\ TtyTyped /\ Emptied /\ Space  BY DEF TtyInv
<1>2. Busy = {} => outputidx = 0
  <2>1. SUFFICES ASSUME Busy = {}  PROVE outputidx = 0  OBVIOUS
  <2>2. \A q \in Printer : place[q] = Idle  BY <1>1, <2>1 DEF Busy, TtyTyped, PrintOK
  <2> QED  BY <1>1, <2>2, AllIdle DEF Emptied
<1> QED  BY <1>1, <1>2, TypeOKHolds DEF IndexInBuffer, Space

LEMMA PrefixIs ==
    ASSUME NEW S, NEW s \in Seq(S), NEW t \in Seq(S), Len(s) <= Len(t),
           \A k \in 1 .. Len(s) : s[k] = t[k]
    PROVE  IsPrefix(s, t)
<1>1. PICK n \in Nat : n = Len(s)  OBVIOUS
<1>2. \A k \in 1 .. n : t[k] \in S  BY <1>1, ElementOfSeq
<1>3. PICK u : u = SubSeq(t, 1, n)  OBVIOUS
<1>4. /\ u \in Seq(S) /\ Len(u) = (IF 1 <= n THEN n - 1 + 1 ELSE 0)
      /\ \A k \in 1 .. n - 1 + 1 : u[k] = t[1 + k - 1]
  BY <1>2, <1>3, SubSeqProperties
<1>5. Len(u) = n  BY <1>4
<1>6. ASSUME NEW k \in 1 .. n  PROVE u[k] = s[k]
  <2>1. k \in 1 .. n - 1 + 1 /\ 1 + k - 1 = k  OBVIOUS
  <2> QED  BY <1>1, <1>4, <2>1
<1>7. u = s  BY <1>1, <1>4, <1>5, <1>6, SeqEqual
<1>8. SubSeq(s, 1, Len(s)) = s  BY SubSeqFull
<1> QED  BY <1>1, <1>3, <1>7, <1>8 DEF IsPrefix

LEMMA ReverseIs ==
    ASSUME NEW S, NEW s \in Seq(S)
    PROVE  /\ Reverse(s) \in Seq(S) /\ Len(Reverse(s)) = Len(s)
           /\ \A k \in 1 .. Len(s) : Reverse(s)[k] = s[Len(s) - k + 1]
<1>1. PICK n \in Nat : n = Len(s)  OBVIOUS
<1>2. \A k \in 1 .. n : (n - k) + 1 \in 1 .. n  OBVIOUS
<1>3. \A k \in 1 .. n : s[(n - k) + 1] \in S  BY <1>1, <1>2, ElementOfSeq
<1>4. Reverse(s) = [k \in 1 .. n |-> s[(n - k) + 1]]  BY <1>1 DEF Reverse
<1>5. Reverse(s) \in Seq(S)  BY <1>3, <1>4, IsASeq
<1>6. DOMAIN Reverse(s) = 1 .. n  BY <1>4
<1>7. Len(Reverse(s)) = n  BY <1>5, <1>6, LenProperties
<1> QED  BY <1>1, <1>4, <1>5, <1>7

LEMMA EndsSuffix ==
    ASSUME NEW S, NEW s \in Seq(S), NEW m \in Seq(S), EndsWith(s, m, Len(m))
    PROVE  IsSuffix(m, s)
<1>1. PICK a \in Seq(S), b \in Seq(S) : a = Reverse(m) /\ b = Reverse(s)  BY ReverseIs
<1>2. PICK n \in Nat, w \in Nat : n = Len(m) /\ w = Len(s)  OBVIOUS
<1>3. Len(a) = n /\ \A k \in 1 .. n : a[k] = m[n - k + 1]  BY <1>1, <1>2, ReverseIs
<1>4. Len(b) = w /\ \A k \in 1 .. w : b[k] = s[w - k + 1]  BY <1>1, <1>2, ReverseIs
<1>5. n <= w /\ \A k \in 1 .. n : s[w - n + k] = m[k]  BY <1>2 DEF EndsWith
<1>6. ASSUME NEW k \in 1 .. Len(a)  PROVE a[k] = b[k]
  <2>1. k \in 1 .. n /\ k \in 1 .. w /\ n - k + 1 \in 1 .. n  BY <1>3, <1>5
  <2>a. PICK j \in 1 .. n : j = n - k + 1  BY <2>1
  <2>2. w - n + j = w - k + 1  BY <2>1, <2>a
  <2>b. s[w - n + j] = m[j]  BY <1>5
  <2>3. s[w - k + 1] = m[n - k + 1]  BY <2>2, <2>a, <2>b
  <2> QED  BY <1>3, <1>4, <2>1, <2>3
<1>7. Len(a) <= Len(b)  BY <1>3, <1>4, <1>5
<1>8. IsPrefix(a, b)  BY <1>6, <1>7, PrefixIs
<1> QED  BY <1>1, <1>8 DEF IsSuffix

LEMMA OrderHolds ==
    ASSUME TtyInv
    PROVE  AloneInOrder
<1>1. /\ TtyTyped /\ Owned /\ Quiet  BY DEF TtyInv
<1>2. SUFFICES ASSUME Alone  PROVE IsPrefix(line, wanted) /\ (Busy = {} => line = wanted)
  BY DEF AloneInOrder
<1>3. PICK ln \in Seq(TtyChars), w \in Seq(TtyChars) : ln = line /\ w = wanted
  BY <1>1 DEF TtyTyped
<1>4. CASE Busy = {}
  <2>1. ln = w  BY <1>1, <1>2, <1>3, <1>4 DEF Quiet
  <2>2. IsPrefix(ln, w)  BY <2>1, PrefixIs
  <2> QED  BY <1>3, <2>1, <2>2
<1>5. CASE Busy # {}
  <2>1. PICK p \in Busy : TRUE  BY <1>5
  <2>2. p \in Printer /\ place[p].pc # "idle" /\ Unspoken(place[p])
    BY <1>1, <1>2, <2>1 DEF Owned, Own, Busy
  <2>3. Whole(place[p])  BY <2>2 DEF Unspoken
  <2>4. PICK x \in Seq(TtyChars) : x = Unsent(place[p])
    BY <1>1, <2>2, <2>3, WholeIs DEF Unsent
  <2>5. w = ln \o x  BY <1>2, <1>3, <2>2, <2>4 DEF Unspoken
  <2>6. /\ Len(w) = Len(ln) + Len(x)
        /\ \A k \in 1 .. Len(ln) + Len(x) : w[k] = IF k <= Len(ln) THEN ln[k] ELSE x[k - Len(ln)]
    BY <2>5, ConcatProperties
  <2>7. Len(ln) <= Len(w)  BY <2>6
  <2>8. \A k \in 1 .. Len(ln) : ln[k] = w[k]  BY <2>6
  <2>9. IsPrefix(ln, w)  BY <2>7, <2>8, PrefixIs
  <2> QED  BY <1>3, <1>5, <2>9
<1> QED  BY <1>4, <1>5

LEMMA CallIsWhole ==
    ASSUME TtyInv, TtyInv', [TtyNext]_ttyVars, NEW p \in Printer, place[p].off, ~place'[p].off
    PROVE  IsSuffix(place[p].msg, line')
<1>1. /\ TtyTyped /\ Owned /\ line' \in Seq(TtyChars)  BY DEF TtyInv, TtyTyped
<1>2. place[p].pc # "idle"  BY <1>1 DEF TtyTyped, PrintOK, Idle
<1>3. Own(place[p])  BY <1>1, <1>2 DEF Owned, Busy
<1>4. Step(p)
  <2>1. ~UNCHANGED ttyVars  BY DEF ttyVars
  <2>2. ~printk_switch_tty  BY DEF printk_switch_tty
  <2>3. PICK q \in Printer : Step(q) \/ Starts(q)  BY <2>1, <2>2 DEF TtyNext
  <2>4. CASE Step(q)
    <3>1. Moved(q)  BY <1>1, <2>4, StepMoves
    <3>2. q = p  BY <3>1 DEF Moved
    <3> QED  BY <2>4, <3>2
  <2>5. CASE Starts(q)
    <3>1. PICK l : Fresh(l) /\ Begin(q, l)  BY <2>5, FreshBegins
    <3>2. Begun(q, l)  BY <1>1, <3>1, BeginIs
    <3>3. FALSE  BY <3>2 DEF Begun
    <3> QED  BY <3>3
  <2> QED  BY <2>3, <2>4, <2>5
<1>5. Moved(p)  BY <1>1, <1>4, StepMoves
<1>6. place'[p] = Idle  BY <1>5 DEF Moved, Same
<1>7. EndsWith(line', place[p].msg, Len(place[p].msg))  BY <1>1, <1>3, <1>4, <1>6, OwnEnd
<1>8. PICK m \in Seq(TtyChars), s \in Seq(TtyChars) : m = place[p].msg /\ s = line'
  BY <1>1 DEF TtyTyped, Prints
<1>9. IsSuffix(m, s)  BY <1>7, <1>8, EndsSuffix
<1> QED  BY <1>8, <1>9

(***************************************************************************)
(* The index of tty_output_write: as long as the only prints that begin    *)
(* inside of another one are system calls, nothing is stored behind        *)
(* outputbuf, whatever its size, and a terminal that nobody prints on has  *)
(* an empty buffer.                                                        *)
(***************************************************************************)
THEOREM IndexStaysInBuffer == TtySpec => []IndexInBuffer
BY TtyInductive, IndexHolds, PTL

(***************************************************************************)
(* Prints that do not overlap arrive in order, each character once,        *)
(* through printk, itoa and the terminal.                                  *)
(***************************************************************************)
THEOREM AloneIsInOrder == TtySpec => []AloneInOrder
BY TtyInductive, OrderHolds, PTL

(***************************************************************************)
(* What a system call prints arrives whole, whatever it interrupts.        *)
(***************************************************************************)
THEOREM SystemCallsAreWhole == TtySpec => SystemCallWhole
<1>1. TtyInv /\ TtyInv' /\ [TtyNext]_ttyVars =>
        [\A p \in Printer :
            place[p].off /\ ~place'[p].off => IsSuffix(place[p].msg, line')]_ttyVars
  BY CallIsWhole
<1> QED  BY <1>1, TtyInductive, PTL DEF TtySpec, SystemCallWhole
=============================================================================
