-------------------------------- MODULE Ata --------------------------------
(***************************************************************************)
(* The disk driver, drivers/ata.c: identification of the drive at boot and *)
(* programmed reads of sectors.                                            *)
(*                                                                         *)
(* The driver is sequential (nobody reads while another read is under      *)
(* way), but the drive works on its own.  The drive is external: it takes  *)
(* a command some time after it is written, is then busy, and ends with    *)
(* data or an error; a command that is written while it is busy is         *)
(* ignored.  The bus may also have no drive (status 0) or be disconnected  *)
(* (every bit of the status is set).                                       *)
(***************************************************************************)
EXTENDS Integers, Sequences

CONSTANTS
    Words,      \* words of a sector (256)
    Byte,       \* values of a byte (256): a register holds part of an address
    Nibble,     \* values of the top part of an address (16)
    MaxCount,   \* bound on the sectors of one read
    MaxReads    \* bound on the reads

ASSUME AtaAssumption ==
    {Words, Byte, Nibble, MaxCount, MaxReads} \subseteq Nat \ {0}

Sectors == Byte * Byte * Byte * Nibble

VARIABLES
    bus,        \* what is connected: "drive", "none" or "open"
    regs,       \* the registers of the address: HDDEVSEL, LBA2, LBA1, LBA0
    drive,      \* what the drive does: its command, sector, words left
    pc,
    call,       \* the arguments and locals of ata_read
    buf,        \* the buffer of the caller, as the words written so far
    online,     \* whether the drive was registered as a device
    reads,
    ignored,    \* history: a command was written while the drive was busy
    halted

vars == <<bus, regs, drive, pc, call, buf, online, reads, ignored, halted>>

NoCall == [pos |-> 0, count |-> 0, i |-> 0, w |-> 0]

Ready == [st |-> "ready", cmd |-> "none", lba |-> 0, left |-> 0, err |-> FALSE]

Init ==
    /\ bus \in {"drive", "none", "open"}
    /\ regs = <<0, 0, 0, 0>>
    /\ drive = Ready
    /\ pc = "identify" /\ call = NoCall /\ buf = <<>>
    /\ online = FALSE /\ reads = 0 /\ ignored = FALSE /\ halted = "no"

-----------------------------------------------------------------------------
(***************************************************************************)
(* The drive.  Between "written" and "busy" the status is still the one    *)
(* of before.                                                              *)
(***************************************************************************)
Address(r) == ((r[1] * Byte + r[2]) * Byte + r[3]) * Byte + r[4]

Written(c, r) ==
    IF drive.st = "busy" THEN drive
    ELSE [drive EXCEPT !.st = "written", !.cmd = c, !.lba = Address(r)]

Takes ==
    /\ drive.st = "written"
    /\ drive' = [drive EXCEPT !.st = "busy", !.left = 0, !.err = FALSE]
    /\ UNCHANGED <<bus, regs, pc, call, buf, online, reads, ignored, halted>>

Ends ==
    /\ drive.st = "busy"
    /\ \E err \in BOOLEAN :
          drive' = [drive EXCEPT !.st = "ready", !.err = err, !.left = IF err THEN 0 ELSE Words]
    /\ UNCHANGED <<bus, regs, pc, call, buf, online, reads, ignored, halted>>

(* The bits of the status register. *)
Status ==
    CASE bus = "none" -> {}
      [] bus = "open" -> {"BSY", "DRQ", "ERR", "DRDY"}
      [] bus = "drive" ->
            {"DRDY"} \cup (IF drive.st = "busy" THEN {"BSY"} ELSE {})
                     \cup (IF drive.err THEN {"ERR"} ELSE {})
                     \cup (IF drive.left > 0 THEN {"DRQ"} ELSE {})

(* A read of the data register: the word, and the drive behind it. *)
DataWord ==
    IF bus = "drive" /\ drive.left > 0
    THEN <<drive.cmd, drive.lba, Words - drive.left + 1>>
    ELSE <<"junk">>

AfterWord == IF drive.left = 0 THEN drive ELSE [drive EXCEPT !.left = @ - 1]

-----------------------------------------------------------------------------
(***************************************************************************)
(* ide_identify writes its command and looks at the status at once; any    *)
(* bit means that there is a drive.  The data is read without waiting for  *)
(* it, and thrown away.                                                    *)
(***************************************************************************)
ide_identify ==
    /\ pc = "identify"
    /\ regs' = <<0, 0, 0, 0>>
    /\ drive' = IF bus = "drive" THEN Written("identify", regs') ELSE drive
    /\ pc' = "status"
    /\ UNCHANGED <<bus, call, buf, online, reads, ignored, halted>>

identify_status ==
    /\ pc = "status"
    /\ pc' = IF Status = {} THEN "idle" ELSE "id_data"
    /\ UNCHANGED <<bus, regs, drive, call, buf, online, reads, ignored, halted>>

identify_data ==
    /\ pc = "id_data"
    /\ IF call.w < Words
       THEN /\ drive' = AfterWord
            /\ call' = [call EXCEPT !.w = @ + 1]
            /\ UNCHANGED <<pc, online>>
       ELSE /\ pc' = "idle" /\ online' = TRUE /\ call' = NoCall
            /\ UNCHANGED drive
    /\ UNCHANGED <<bus, regs, buf, reads, ignored, halted>>

(* A read of count sectors from pos, by ext2. *)
ata_read(pos, count) ==
    /\ pc = "idle" /\ online /\ reads < MaxReads
    /\ call' = [NoCall EXCEPT !.pos = pos, !.count = count]
    /\ buf' = <<>> /\ reads' = reads + 1
    /\ pc' = "one"
    /\ UNCHANGED <<bus, regs, drive, online, ignored, halted>>

(* The four registers that take the address of a sector. *)
Split_ThreeBytes(lba) ==
    <<0, (lba \div (Byte * Byte)) % Byte, (lba \div Byte) % Byte, lba % Byte>>

Split(lba) ==
    <<(lba \div (Byte * Byte * Byte)) % Nibble, (lba \div (Byte * Byte)) % Byte,
      (lba \div Byte) % Byte, lba % Byte>>

ata_read_one ==
    /\ pc = "one" /\ call.i < call.count
    /\ regs' = Split(call.pos + call.i)
    /\ drive' = IF bus = "drive" THEN Written("read", regs') ELSE drive
    /\ ignored' = (ignored \/ drive.st = "busy")
    /\ pc' = "delay"
    /\ UNCHANGED <<bus, call, buf, online, reads, halted>>

(* ide_poll.  400 ns are enough for a drive to take the command. *)
DelayOver_AtOnce == TRUE

DelayOver == drive.st # "written"

ide_400ns_delay ==
    /\ pc = "delay" /\ DelayOver
    /\ pc' = "bsy"
    /\ UNCHANGED <<bus, regs, drive, call, buf, online, reads, ignored, halted>>

poll_bsy ==
    /\ pc = "bsy" /\ "BSY" \notin Status
    /\ pc' = "drq"
    /\ UNCHANGED <<bus, regs, drive, call, buf, online, reads, ignored, halted>>

ErrorSeen_Never == FALSE

ErrorSeen == "ERR" \in Status

poll_drq ==
    /\ pc = "drq"
    /\ halted' = IF ErrorSeen THEN "ata error" ELSE "no"
    /\ ErrorSeen \/ "DRQ" \in Status
    /\ pc' = IF ErrorSeen THEN "stopped" ELSE "data"
    /\ UNCHANGED <<bus, regs, drive, call, buf, online, reads, ignored>>

(* One word; behind the last one of a sector, the next sector. *)
LastWord(w) == w = Words

read_word ==
    /\ pc = "data"
    /\ buf' = Append(buf, DataWord)
    /\ drive' = AfterWord
    /\ LET w == call.w + 1 IN
          IF LastWord(w)
          THEN call' = [call EXCEPT !.w = 0, !.i = @ + 1] /\ pc' = "one"
          ELSE call' = [call EXCEPT !.w = w] /\ UNCHANGED pc
    /\ UNCHANGED <<bus, regs, online, reads, ignored, halted>>

read_done ==
    /\ pc = "one" /\ call.i = call.count
    /\ pc' = "idle" /\ call' = NoCall
    /\ UNCHANGED <<bus, regs, drive, buf, online, reads, ignored, halted>>

Driver ==
    \/ ide_identify \/ identify_status \/ identify_data
    \/ ata_read_one \/ ide_400ns_delay \/ poll_bsy \/ poll_drq \/ read_word \/ read_done

Next ==
    \/ Takes \/ Ends
    \/ Driver
    \/ \E count \in 1 .. MaxCount : \E pos \in 0 .. Sectors - count : ata_read(pos, count)

Spec == Init /\ [][Next]_vars

(* The driver runs on, and a drive takes and ends every command. *)
FairSpec == Spec /\ WF_vars(Driver) /\ WF_vars(Takes) /\ WF_vars(Ends)

-----------------------------------------------------------------------------
TypeOK ==
    /\ regs \in (0 .. Nibble - 1) \X (0 .. Byte - 1) \X (0 .. Byte - 1) \X (0 .. Byte - 1)
    /\ drive.st \in {"ready", "written", "busy"} /\ drive.err \in BOOLEAN
    /\ drive.cmd \in {"none", "identify", "read"}
    /\ drive.lba \in 0 .. Sectors - 1 /\ drive.left \in 0 .. Words
    /\ call.i \in 0 .. call.count /\ call.w \in 0 .. Words
    /\ Len(buf) <= MaxCount * Words
    /\ pc # "idle" => Len(buf) <= call.count * Words
    /\ online \in BOOLEAN /\ ignored \in BOOLEAN /\ reads \in 0 .. MaxReads

(***************************************************************************)
(* The words that a read has delivered so far are those of the sectors     *)
(* asked for, in their order, for every address that fits into the         *)
(* registers, even though IDENTIFY may have left the drive with data that  *)
(* nobody waited for; unless the drive was so slow to identify itself that *)
(* it has missed the command of the first read.                            *)
(***************************************************************************)
SectorsExact ==
    bus = "drive" /\ ~ignored /\ call.count > 0 =>
        \A k \in DOMAIN buf :
            buf[k] = <<"read", call.pos + (k - 1) \div Words, ((k - 1) % Words) + 1>>

(***************************************************************************)
(* The driver takes a word from the data register only when the drive      *)
(* offers one, and does not leave words behind that the next read would    *)
(* get.                                                                    *)
(***************************************************************************)
DataWhenOffered ==
    bus = "drive" =>
        /\ pc = "data" => drive.left > 0
        /\ pc = "one" /\ call.i > 0 => drive.left = 0

(***************************************************************************)
(* ata_read is exact from the registers of the address to the words in     *)
(* the caller's buffer: the two parts above, in every state of the drive.  *)
(***************************************************************************)
ReadsExact == TypeOK /\ SectorsExact /\ DataWhenOffered

(***************************************************************************)
(* The machine stops for a disk error only if the drive has reported one,  *)
(* for a read or, when that command was missed, for IDENTIFY: never for an *)
(* error of IDENTIFY that is still in the status when a read is written.   *)
(***************************************************************************)
StopsOnReadError ==
    halted # "no" => drive.err /\ (drive.cmd = "read" \/ ignored)

(***************************************************************************)
(* Every read ends or stops the machine.                                   *)
(***************************************************************************)
ReadEnds == (pc = "one") ~> (pc \in {"idle", "stopped"} \/ bus = "open")
=============================================================================
