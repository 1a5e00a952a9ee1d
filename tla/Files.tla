------------------------------- MODULE Files -------------------------------
(***************************************************************************)
(* Files, from the devices up to the shell: the devices that boot          *)
(* registers (kernel/device.c), the search for a root file system          *)
(* (fs/vfs.c, fs/devfs, ext2_mount), the boot test (main.c), the file      *)
(* table and the system calls on it (kernel/syscall.c), the shell's        *)
(* commands on files (kernel/shell.c) and the ELF loader                   *)
(* (kernel/bin/elf.c).  Only the thread of boot and then of the shell uses *)
(* files; what makes them hard is what one command leaves for the next:    *)
(* descriptors that are never closed, strtok's pointer, and a path that an *)
(* open file keeps as a pointer into the shell's line buffer.              *)
(*                                                                         *)
(* One system call is one action.  The lookups that it makes are those of  *)
(* Lookup; what a block holds is <<inode, block of that file>>.  Memory    *)
(* does not run out here (see Heap).                                       *)
(***************************************************************************)
EXTENDS Lookup

CONSTANTS
    Inodes,
    Paths,          \* the paths that are typed
    TestPaths,      \* "/levex.txt": a path that the disk has, and one that it has not
    Size,           \* inode -> its size in bytes
    Elf,            \* the inodes that start with the magic of ELF
    Word,           \* inode -> the value at an offset of its ELF header
    BS,             \* EXT2_PRIV(fs)->blocksize
    NFILES,         \* the entries of a file table (128)
    MaxCommands     \* bound on the commands that are typed

(* The names that directories are searched for. *)
Names == UNION {DOMAIN Dir[i] : i \in Inodes}

ASSUME FilesAssumption ==
    /\ ROOT \in Inodes /\ Inodes \subseteq Nat
    /\ Dir \in [Inodes -> [Names -> Inodes \cup {ENOENT}]]
    /\ Paths \cup TestPaths \subseteq Seq(Names)
    /\ Size \in [Inodes -> Nat] /\ Elf \subseteq Inodes
    /\ \A i \in Elf : \A off \in DOMAIN Word[i] : Word[i][off] \in Nat
    /\ \A i \in Inodes : Size[i] < 12 * BS     \* direct blocks only (see Ext2)
    /\ {BS, NFILES} \subseteq Nat \ 0 .. 3 /\ MaxCommands \in Nat

EMFILE  == -24
ENODEV  == -19
EBADF   == -9
ENOEXEC == -8
ENOSYS  == -38
EINVAL  == -22

VARIABLES
    disk,       \* what the disk holds: "ext2", "other", or there is "none"
    devs,       \* the registered devices, by type
    mounts,     \* the mounts, as the file systems they have; all on "/"
    root_mount, \* the last one on "/"
    __fs,       \* the last file system that ext2 has mounted
    pc,
    left,       \* strtok's pointer
    files,      \* every struct file made so far
    table,      \* the file table of init
    line,       \* the shell's line buffer: a command and its argument
    loc,        \* locals of the command
    typed,
    halted

boot == <<disk, devs, mounts, root_mount, __fs>>
vars == <<disk, devs, mounts, root_mount, __fs, pc, left, files, table, line, loc, typed, halted>>

(* What an entry of the table can be apart from the number of a file. *)
Free    == 0
Console == -1   \* &console_file
JunkPtr == -2   \* what the memory held before

Text == 0       \* where "/levex.txt" is: not in the line buffer

NoLine == [cmd |-> "", arg |-> <<>>]

(* size: st_size; buf: what was read; begun, for the properties only: the  *)
(* pointer of strtok when the command started.                             *)
NoHeader == [e_type |-> 0, e_phoff |-> 0, e_phnum |-> 0]

NoLocals == [fd |-> 0, size |-> 0, buf |-> <<>>, elf |-> FALSE, ret |-> 0,
             header |-> NoHeader, begun |-> NULL]

(***************************************************************************)
(* sched_make_filetable sets the first two entries.  The others are what   *)
(* malloc has returned, which in one of its cases is not cleared.          *)
(***************************************************************************)
FileTables ==
    {[fd \in 0 .. NFILES - 1 |->
         CASE fd = 0 -> Free [] fd = 1 -> Console [] fd \in dirty -> JunkPtr [] OTHER -> Free] :
       dirty \in SUBSET (2 .. NFILES - 1)}

Init ==
    /\ disk \in {"ext2", "other", "none"}
    /\ devs = <<>> /\ mounts = <<>> /\ root_mount = 0 /\ __fs = 0
    /\ pc = "drivers" /\ left = NULL /\ files = <<>>
    /\ table \in FileTables
    /\ line = NoLine /\ loc = NoLocals /\ typed = 0 /\ halted = "no"

-----------------------------------------------------------------------------
(***************************************************************************)
(* Boot.  The drivers register their devices (one terminal stands for      *)
(* four), the disk if it was found; then every device is offered to devfs  *)
(* and to ext2, as the root.                                               *)
(***************************************************************************)
drivers_init ==
    /\ pc = "drivers"
    /\ devs' = <<"PSEUDO", "PSEUDO", "TTY">> \o (IF disk = "none" THEN <<>> ELSE <<"BLK">>)
                                          \o <<"TTY_INPUT">>
    /\ pc' = "mount"
    /\ loc' = [loc EXCEPT !.fd = 1]         \* the i of do_mount
    /\ UNCHANGED <<disk, mounts, root_mount, __fs, left, files, table, line, typed, halted>>

devfs_mount == ENODEV

ext2_mount(i) ==
    CASE devs[i] # "BLK" -> ENODEV
      [] devs[i] = "BLK" /\ disk # "ext2" -> EINVAL
      [] OTHER -> i

(* An error number, as a pointer, is not positive. *)
Mounted_NotNull(fs) == fs # 0

Mounted(fs) == fs > 0

vfs_mount_fs(i) ==
    IF Mounted(devfs_mount) THEN devfs_mount
    ELSE IF Mounted(ext2_mount(i)) THEN ext2_mount(i) ELSE 0

vfs_mount ==
    /\ pc = "mount" /\ loc.fd <= Len(devs)
    /\ __fs' = IF ~Mounted(devfs_mount) /\ ext2_mount(loc.fd) > 0 THEN ext2_mount(loc.fd) ELSE __fs
    /\ LET fs == vfs_mount_fs(loc.fd) IN
          IF fs = 0 THEN UNCHANGED <<mounts, root_mount>>
          ELSE mounts' = Append(mounts, fs) /\ root_mount' = fs
    /\ loc' = [loc EXCEPT !.fd = @ + 1]
    /\ UNCHANGED <<disk, devs, pc, left, files, table, line, typed, halted>>

do_mount ==
    /\ pc = "mount" /\ loc.fd > Len(devs)
    /\ IF root_mount = 0
       THEN halted' = "unable to mount root directory" /\ pc' = "stopped"
       ELSE pc' = "test" /\ UNCHANGED halted
    /\ loc' = NoLocals
    /\ UNCHANGED <<boot, left, files, table, line, typed>>

-----------------------------------------------------------------------------
(* Every mount is on "/", and the loop of find_mount looks for longer      *)
(* names only: it always ends with the root.                               *)
find_mount == root_mount

(***************************************************************************)
(* ext2_read_file: a lookup, whose inode only has to exist, and one per    *)
(* block; a block whose lookup fails stays as kmalloc returned it, and the *)
(* read goes on.  l is strtok's pointer, p the string that respath points  *)
(* to.                                                                     *)
(***************************************************************************)
Unread == <<-1, -1>>

(* What strtok's pointer holds after the first lookup and after each of n  *)
(* more.                                                                   *)
Lefts(l, p, n) ==
    LET after[k \in 0 .. n] == Find(IF k = 0 THEN l ELSE after[k - 1], p).left
    IN  after

ReadBlock(l, p, block) ==
    LET found == Find(l, p) IN IF found.ino = ENOENT THEN Unread ELSE <<found.ino, block>>

ReadFile(l, p, pos, count) ==
    LET first == Find(l, p)
        n     == count \div BS + 1
        lefts == Lefts(l, p, n)
    IN  CASE count = 0 -> [ret |-> 0, left |-> l, pos |-> pos, buf |-> <<>>]
          [] count > 0 /\ first.ino = ENOENT ->
                [ret |-> ENOENT, left |-> first.left, pos |-> pos, buf |-> <<>>]
          [] OTHER ->
                [ret |-> count, left |-> lefts[n], pos |-> pos + count,
                 buf |-> [k \in 1 .. n |-> ReadBlock(lefts[k - 1], p, pos \div BS + k - 1)]]

(* Nothing of the file was read: the caller sees what its memory held. *)
Junk(r) == r.ret < 0 \/ r.buf = <<>> \/ r.buf[1] = Unread

(* The boot test: a lookup, stat, and a read of a file that is not closed. *)
do_test(p) ==
    /\ pc = "test"
    /\ LET found == Find(left, p)
           st    == Find(found.left, p)
           size  == Size[st.ino]
       IN  IF found.ino = ENOENT \/ st.ino = ENOENT
           THEN left' = (IF found.ino = ENOENT THEN found ELSE st).left /\ UNCHANGED files
           ELSE LET r == ReadFile(st.left, p, 0, size) IN
                /\ left' = r.left
                /\ files' = Append(files, [fs |-> find_mount, respath |-> Text, pos |-> r.pos, opened |-> p])
    /\ pc' = "prompt"
    /\ UNCHANGED <<boot, table, line, loc, typed, halted>>

-----------------------------------------------------------------------------
(***************************************************************************)
(* The shell.  The commands that have to do with files; a pointer to an    *)
(* argument is the offset of the argument in the line.                     *)
(***************************************************************************)
Offset == [c \in {"ls", "cat", "stat", "elf"} |->
             CASE c = "ls" -> 3 [] c = "stat" -> 5 [] OTHER -> 4]

grab_input(cmd, arg) ==
    /\ pc = "prompt" /\ typed < MaxCommands
    /\ line' = [cmd |-> cmd, arg |-> arg]
    /\ loc' = [NoLocals EXCEPT !.begun = left]
    /\ typed' = typed + 1
    /\ pc' = cmd
    /\ UNCHANGED <<boot, left, files, table, halted>>

(* The string at an offset of the line; at other offsets than the one of   *)
(* the argument it is part of the command.                                 *)
StringAt(off) == IF off = Offset[line.cmd] THEN line.arg ELSE <<>>

vfs_open == [fs |-> find_mount, respath |-> Offset[line.cmd], pos |-> 0, opened |-> line.arg]

(* cmd_ls: the flag isdir is -1 for every file, so it says nothing. *)
cmd_ls ==
    /\ pc = "ls"
    /\ files' = Append(files, vfs_open)
    /\ pc' = "prompt"
    /\ UNCHANGED <<boot, left, table, line, loc, typed, halted>>

StatFailed_Never(st) == FALSE

StatFailed(st) == st.ino = ENOENT

(* The stat of cmd_stat and of cmd_cat, which goes on when it succeeds. *)
syscall_stat ==
    /\ pc \in {"stat", "cat"}
    /\ LET st == Find(left, line.arg) IN
          /\ left' = st.left
          /\ loc' = [loc EXCEPT !.size = IF st.ino = ENOENT THEN 0 ELSE Size[st.ino]]
          /\ pc' = IF pc = "cat" /\ ~StatFailed(st) THEN "cat_open" ELSE "prompt"
    /\ UNCHANGED <<boot, files, table, line, typed, halted>>

FreeEntries_FromZero == {fd \in 0 .. NFILES - 1 : table[fd] = Free}

FreeEntries == {fd \in 3 .. NFILES - 1 : table[fd] = Free}

(* The entry that a new file goes to.  A file for which there is no entry  *)
(* is lost.                                                                *)
Entered(fd) == [table EXCEPT ![fd] = Len(files) + 1]

syscall_open_Cached ==
    /\ pc \in {"cat_open", "elf"}
    /\ LET same == {fd \in DOMAIN table : table[fd] \in DOMAIN files /\ files[table[fd]].respath = vfs_open.respath}
       IN  IF same # {}
           THEN loc' = [loc EXCEPT !.fd = Min(same)] /\ UNCHANGED <<files, table>>
           ELSE IF FreeEntries = {}
           THEN loc' = [loc EXCEPT !.fd = EMFILE] /\ files' = Append(files, vfs_open) /\ UNCHANGED table
           ELSE /\ loc' = [loc EXCEPT !.fd = Min(FreeEntries)]
                /\ files' = Append(files, vfs_open) /\ table' = Entered(Min(FreeEntries))
    /\ pc' = CASE loc'.fd <= 0 -> "prompt"
               [] loc'.fd > 0 /\ pc = "cat_open" -> "cat_read"
               [] OTHER -> "elf_probe"
    /\ UNCHANGED <<boot, left, line, typed, halted>>

syscall_open ==
    /\ pc \in {"cat_open", "elf"}
    /\ files' = Append(files, vfs_open)
    /\ IF FreeEntries = {}
       THEN loc' = [loc EXCEPT !.fd = EMFILE] /\ UNCHANGED table
       ELSE LET fd == Min(FreeEntries) IN
            loc' = [loc EXCEPT !.fd = fd] /\ table' = Entered(fd)
    /\ pc' = CASE loc'.fd <= 0 -> "prompt"
               [] loc'.fd > 0 /\ pc = "cat_open" -> "cat_read"
               [] OTHER -> "elf_probe"
    /\ UNCHANGED <<boot, left, line, typed, halted>>

(* The file of the descriptor that the command has opened. *)
Filp == files[table[loc.fd]]

Read(count) == ReadFile(left, StringAt(Filp.respath), Filp.pos, count)

ReadTo(r) ==
    /\ left' = r.left
    /\ files' = [files EXCEPT ![table[loc.fd]].pos = r.pos]

cat_read ==
    /\ pc = "cat_read"
    /\ LET r == Read(loc.size) IN
          /\ ReadTo(r)
          /\ loc' = [loc EXCEPT !.buf = r.buf]
    /\ pc' = "cat_write"
    /\ UNCHANGED <<boot, table, line, typed, halted>>

(* The result of the read is not looked at; the descriptor stays open. *)
cat_write ==
    /\ pc = "cat_write"
    /\ pc' = "prompt"
    /\ UNCHANGED <<boot, left, files, table, line, loc, typed, halted>>

-----------------------------------------------------------------------------
(***************************************************************************)
(* cmd_elf and elf_load.  elf_probe does not look at the result of its     *)
(* read either: if that fails, it judges what its stack held.              *)
(***************************************************************************)
Verdicts(r) ==
    IF Junk(r) THEN BOOLEAN ELSE {r.buf[1][1] \in Elf /\ Filp.pos = 0}

(* The offsets of fields in an ELF header. *)
FieldAt == [e_type |-> 16, e_version |-> 20, e_phoff |-> 28, e_shoff |-> 32,
            e_phnum |-> 44, e_shnum |-> 48]

WordAt(ino, off) == IF ino \in Elf /\ off \in DOMAIN Word[ino] THEN Word[ino][off] ELSE 0

Decoded(ino, pos) ==
    [e_type  |-> WordAt(ino, pos + FieldAt.e_type),
     e_phoff |-> WordAt(ino, pos + FieldAt.e_phoff),
     e_phnum |-> WordAt(ino, pos + FieldAt.e_phnum)]

JunkHeaders == [e_type : {0, 2}, e_phoff : {0}, e_phnum : {0, 1}]

Headers(r) == IF Junk(r) THEN JunkHeaders ELSE {Decoded(r.buf[1][1], Filp.pos)}

elf_probe ==
    /\ pc = "elf_probe"
    /\ LET r == Read(4) IN
          /\ ReadTo(r)
          /\ \E v \in Verdicts(r) :
                /\ loc' = [loc EXCEPT !.elf = v]
                /\ pc' = IF v THEN "elf_header" ELSE "elf_close"
    /\ UNCHANGED <<boot, table, line, typed, halted>>

syscall_close ==
    /\ pc = "elf_close"
    /\ table' = [table EXCEPT ![loc.fd] = Free]
    /\ pc' = "prompt"
    /\ UNCHANGED <<boot, left, files, line, loc, typed, halted>>

HEADER == 52        \* sizeof(elf_header_t)
PHEADER == 32       \* sizeof(elf_program_header_t)

(* cmd_elf prints fields of a header, and elf_load starts over. *)
StartPos_GoesOn(pos) == pos

StartPos(pos) == 0

elf_header ==
    /\ pc = "elf_header"
    /\ LET r == Read(HEADER) IN
          /\ left' = r.left
          /\ files' = [files EXCEPT ![table[loc.fd]].pos = StartPos(r.pos)]
    /\ pc' = "load_probe"
    /\ UNCHANGED <<boot, table, line, loc, typed, halted>>

load_probe ==
    /\ pc = "load_probe"
    /\ LET r == Read(4) IN
          /\ ReadTo(r)
          /\ \E v \in Verdicts(r) :
                /\ loc' = IF v THEN loc ELSE [loc EXCEPT !.ret = EBADF]
                /\ pc' = IF v THEN "load_header" ELSE "elf_done"
    /\ UNCHANGED <<boot, table, line, typed, halted>>

load_header ==
    /\ pc = "load_header"
    /\ LET r == Read(HEADER) IN
          /\ left' = r.left
          /\ \E h \in Headers(r) :
                LET refused == h.e_type >= 2 IN
                /\ loc' = [loc EXCEPT !.header = h, !.ret = IF refused THEN ENOEXEC ELSE 0]
                /\ files' = [files EXCEPT ![table[loc.fd]].pos = IF refused THEN r.pos ELSE h.e_phoff]
                /\ pc' = IF refused THEN "elf_done" ELSE "load_segments"
    /\ UNCHANGED <<boot, table, line, typed, halted>>

load_segments ==
    /\ pc = "load_segments"
    /\ ReadTo(Read(PHEADER * loc.header.e_phnum))
    /\ loc' = [loc EXCEPT !.ret = ENOSYS]
    /\ pc' = "elf_done"
    /\ UNCHANGED <<boot, table, line, typed, halted>>

(* The descriptor stays open. *)
elf_done ==
    /\ pc = "elf_done"
    /\ pc' = "prompt"
    /\ UNCHANGED <<boot, left, files, table, line, loc, typed, halted>>

Next ==
    \/ drivers_init \/ vfs_mount \/ do_mount
    \/ \E p \in TestPaths : do_test(p)
    \/ \E cmd \in DOMAIN Offset, arg \in Paths : grab_input(cmd, arg)
    \/ cmd_ls \/ syscall_stat \/ syscall_open \/ cat_read \/ cat_write
    \/ elf_probe \/ syscall_close \/ elf_header
    \/ load_probe \/ load_header \/ load_segments \/ elf_done

Spec == Init /\ [][Next]_vars

-----------------------------------------------------------------------------
Using == {"cat_read", "cat_write", "elf_probe", "elf_close", "elf_header",
          "load_probe", "load_header", "load_segments", "elf_done"}

TypeOK ==
    /\ mounts \in Seq(1 .. Len(devs)) /\ root_mount \in 0 .. Len(devs) /\ __fs \in 0 .. Len(devs)
    /\ table \in [0 .. NFILES - 1 -> {Free, Console, JunkPtr} \cup 1 .. Len(files)]
    /\ \A f \in Range(files) : f.respath \in {Text, 3, 4} /\ f.pos \in Nat /\ f.fs \in DOMAIN devs
    /\ loc.size \in Nat /\ loc.elf \in BOOLEAN
    /\ pc \in Using => loc.fd \in 3 .. NFILES - 1
    /\ loc.ret \in {0, EBADF, ENOEXEC, ENOSYS}
    /\ pc = "stopped" <=> halted # "no"

(***************************************************************************)
(* When boot goes on, the root is a file system that ext2 has found on the *)
(* disk, although every other device was offered first and refused with    *)
(* error numbers as pointers; and it is the one that the boot test looks   *)
(* into by itself.                                                         *)
(***************************************************************************)
RootUsable ==
    pc \notin {"drivers", "mount", "stopped"} =>
        /\ disk = "ext2"
        /\ root_mount \in DOMAIN devs /\ devs[root_mount] = "BLK"
        /\ __fs = root_mount

(***************************************************************************)
(* However many files the commands leave open, lose or close, and whatever *)
(* the table held when it was allocated: standard output stays the         *)
(* console, standard input stays empty, no file has two descriptors, and   *)
(* a file of ls or of the boot test has none.                              *)
(***************************************************************************)
TableSound ==
    /\ TypeOK
    /\ table[0] = Free /\ table[1] = Console
    /\ \A fd \in 2 .. NFILES - 1 :
          table[fd] \in DOMAIN files =>
              /\ files[table[fd]].respath = Offset["cat"]
              /\ \A other \in DOMAIN table \ {fd} : table[other] # table[fd]

(***************************************************************************)
(* A file keeps a pointer into the line buffer, which the next command     *)
(* overwrites.  A command reads only through the file that it has opened   *)
(* itself, for the path that is still in the line.                         *)
(***************************************************************************)
ReadsWhatItOpened ==
    pc \in Using =>
        /\ table[loc.fd] = Len(files)
        /\ Filp.respath = Offset[line.cmd] /\ Filp.opened = line.arg

Exists == Resolve(line.arg) # ENOENT

(***************************************************************************)
(* cat does not look at the result of its read, and yet writes the blocks  *)
(* of the file that it names, if there is one: its stat has used up any    *)
(* leftover of an earlier lookup.  The size is right unless there was a    *)
(* leftover; and only then can cat write anything for a file that does not *)
(* exist.                                                                  *)
(***************************************************************************)
CatWritesNamed ==
    pc = "cat_write" =>
        /\ Exists => \A k \in DOMAIN loc.buf : loc.buf[k] = <<Resolve(line.arg), k - 1>>
        /\ loc.begun = NULL => Exists /\ loc.size = Size[Resolve(line.arg)]

(***************************************************************************)
(* Neither does elf_probe: its verdict is right for every file that        *)
(* exists, if a leftover did not make the first lookup fail, and the       *)
(* second probe, in elf_load, agrees with the first.                       *)
(***************************************************************************)
ElfJudgesNamed ==
    (Exists /\ Find(loc.begun, line.arg).ino # ENOENT) =>
        /\ pc \in {"elf_close", "elf_header"} => (loc.elf <=> Resolve(line.arg) \in Elf)
        /\ pc = "elf_done" => loc.ret # EBADF

(***************************************************************************)
(* elf.c:24-31 "reset file back to the beginning of the file" and "read in *)
(* ELF header": the header that elf_load decodes is the one of the file.   *)
(***************************************************************************)
HeaderOfFile ==
    (pc = "load_segments" /\ Exists /\ loc.begun = NULL) =>
        loc.header = Decoded(Resolve(line.arg), 0)
=============================================================================
