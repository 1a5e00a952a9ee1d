-------------------------------- MODULE Ext2 --------------------------------
(***************************************************************************)
(* The read-only ext2 driver (fs/ext2) and the strtok that its path lookup *)
(* is built on (lib/string.c).  Only the boot test and the shell use it,   *)
(* one call at a time; what makes it hard is strtok's static pointer sp,   *)
(* which outlives a lookup that fails half-way.                            *)
(*                                                                         *)
(* A path is the sequence of its components, and so is the string sp       *)
(* points to: strtok skips any number of slashes, and a string without a   *)
(* component left (empty, or slashes) is <<>>, which is not NULL.  A read  *)
(* is followed block by block, as every block looks the path up again.     *)
(* What a block buffer holds is <<inode, block of that file>>.             *)
(***************************************************************************)
EXTENDS Integers, SequencesExt

CONSTANTS
    Names,          \* the names that occur in paths and directories
    StartsWith,     \* {<<n, m>> : the name n starts with the name m}
    Inodes,
    Dirs,           \* the inodes of type directory
    Entries,        \* inode -> what its blocks hold, read as a directory
    Paths,          \* the paths that callers ask for
    BS,             \* EXT2_PRIV(fs)->blocksize
    NDIRECT,        \* the direct block pointers of an inode, 12
    NPTRS,          \* bs / sizeof(uint32_t)
    Counts,         \* the byte counts that callers ask for
    MAX_POS,        \* bound of the model: the positions of a file
    NULL

ROOT   == 2
ENOENT == -2

ASSUME Ext2Assumption ==
    /\ StartsWith \subseteq Names \X Names
    /\ \A n \in Names : <<n, n>> \in StartsWith
    /\ Inodes \subseteq Nat /\ ROOT \in Dirs /\ Dirs \subseteq Inodes
    /\ Entries \in [Inodes -> Seq([name : Names, ino : Inodes])]
    /\ Paths \subseteq Seq(Names)
    /\ {BS, NDIRECT, NPTRS, MAX_POS} \subseteq Nat \ {0}
    /\ Counts \subseteq Nat \ {0}
    /\ NULL \notin Names /\ NULL \notin Seq(Names)

VARIABLES
    sp,         \* the static of strtok
    file,       \* the open file: its respath and pos
    call,       \* the locals of the call in progress, and begun (see below)
    pc,
    halted

vars == <<sp, file, call, pc, halted>>

Unread  == <<-1, -1>>   \* a buffer that ext2_file_read_block left alone
Garbage == <<-1, -2>>   \* one that it filled from some other block

NoFile == [respath |-> NULL, pos |-> 0]

(* for: who looks the path up, "stat", "read" or "block"; tok: pch;        *)
(* got: the block buffers filled so far; begun, for the properties only:   *)
(* sp when the lookup began.                                               *)
NoCall == [for |-> "stat", path |-> <<>>, ino |-> ROOT, tok |-> NULL,
           count |-> 0, got |-> <<>>, begun |-> NULL]

Init ==
    /\ sp = NULL
    /\ file = NoFile
    /\ call = NoCall
    /\ pc = "idle"
    /\ halted = "no"

-----------------------------------------------------------------------------
(***************************************************************************)
(* strtok(str, "/"): what is left of an earlier string goes first, a new   *)
(* one is only taken up when there is none.                                *)
(***************************************************************************)
Pending(str) == IF str # NULL /\ sp = NULL THEN str ELSE sp

AtEnd_KeepsPointer == <<>>

AtEnd == NULL

strtok(str) ==
    IF Pending(str) \in {NULL, <<>>}
    THEN [tok |-> NULL, sp |-> AtEnd]
    ELSE [tok |-> Head(Pending(str)), sp |-> Tail(Pending(str))]

(***************************************************************************)
(* ext2_read_directory.  The test for a directory is                       *)
(* "type & 0x4000 == 0", never true, so that any file is read as one; an   *)
(* entry is compared over the length of its own name.                      *)
(***************************************************************************)
ext2_read_directory_FromRoot(dino, f) ==
    LET matches == {i \in DOMAIN Entries[ROOT] :
                       <<f, Entries[ROOT][i].name>> \in StartsWith}
    IN  IF matches = {} THEN ENOENT ELSE Entries[ROOT][Min(matches)].ino

ext2_read_directory(dino, f) ==
    LET matches == {i \in DOMAIN Entries[dino] :
                       <<f, Entries[dino][i].name>> \in StartsWith}
    IN  IF matches = {} THEN ENOENT ELSE Entries[dino][Min(matches)].ino

(***************************************************************************)
(* ext2_find_file_inode: a turn of the loop per action.                    *)
(***************************************************************************)
NextToken(ino, c, t) ==
    /\ sp' = t.sp
    /\ call' = [c EXCEPT !.ino = ino, !.tok = t.tok]
    /\ pc' = IF t.tok = NULL THEN "found" ELSE "walk"

FindFrom(path, c) ==
    NextToken(ROOT, [c EXCEPT !.path = path, !.begun = sp], strtok(path))

ext2_find_file_inode ==
    /\ pc = "walk" /\ halted = "no"
    /\ LET ino == ext2_read_directory(call.ino, call.tok) IN
       IF ino = ENOENT
       THEN /\ pc' = "failed"
            /\ UNCHANGED <<sp, call>>
       ELSE NextToken(ino, call, strtok(NULL))
    /\ UNCHANGED <<file, halted>>

-----------------------------------------------------------------------------
(* ext2_stat returns the inode's fields, or the error of the lookup. *)
ext2_stat(p) ==
    /\ pc = "idle" /\ halted = "no"
    /\ FindFrom(p, NoCall)
    /\ UNCHANGED <<file, halted>>

stat_done ==
    /\ pc \in {"found", "failed"} /\ call.for = "stat" /\ halted = "no"
    /\ pc' = "idle"
    /\ call' = NoCall
    /\ UNCHANGED <<sp, file, halted>>

(* ext2_open looks nothing up. *)
ext2_open(p) ==
    /\ pc = "idle" /\ halted = "no"
    /\ file' = [respath |-> p, pos |-> 0]
    /\ UNCHANGED <<sp, call, pc, halted>>

file_set_position(n) ==
    /\ pc = "idle" /\ halted = "no" /\ file # NoFile
    /\ file' = [file EXCEPT !.pos = n]
    /\ UNCHANGED <<sp, call, pc, halted>>

-----------------------------------------------------------------------------
(***************************************************************************)
(* ext2_read_file: a lookup for the inode, then blocks + 1 block reads.    *)
(***************************************************************************)
ext2_read_file(count) ==
    /\ pc = "idle" /\ halted = "no" /\ file # NoFile
    /\ file.pos + count <= MAX_POS
    /\ FindFrom(file.respath, [NoCall EXCEPT !.for = "read", !.count = count])
    /\ UNCHANGED <<file, halted>>

read_failed ==
    /\ pc = "failed" /\ call.for = "read" /\ halted = "no"
    /\ pc' = "idle"
    /\ call' = NoCall
    /\ UNCHANGED <<sp, file, halted>>

read_blocks ==
    /\ pc = "found" /\ call.for = "read" /\ halted = "no"
    /\ FindFrom(file.respath, [call EXCEPT !.for = "block"])
    /\ UNCHANGED <<file, halted>>

blocks_Exact == (call.count - 1) \div BS

blocks == call.count \div BS

cblock == file.pos \div BS

(* The block that ext2_file_read_block is asked for: b. *)
b == cblock + Len(call.got)

(* On to the next block, with content in the buffer of this one.  An error *)
(* of ext2_file_read_block is ignored.                                     *)
BlockDone(content) ==
    LET c == [call EXCEPT !.got = Append(@, content)] IN
    IF Len(call.got) < blocks
    THEN FindFrom(file.respath, c)
    ELSE /\ call' = c
         /\ pc' = "copy"
         /\ UNCHANGED sp

ReadingBlock(result) == pc = result /\ call.for = "block" /\ halted = "no"

block_failed ==
    /\ ReadingBlock("failed")
    /\ BlockDone(Unread)
    /\ UNCHANGED <<file, halted>>

block_direct ==
    /\ ReadingBlock("found") /\ b < NDIRECT
    /\ BlockDone(<<call.ino, b>>)
    /\ UNCHANGED <<file, halted>>

(* The index into the indirect block is an uninitialized variable, the     *)
(* inner b of file.c:68: any block is read, or the index is out of memory. *)
block_indirect ==
    /\ ReadingBlock("found") /\ b >= NDIRECT /\ b < NPTRS
    /\ \/ \E content \in {<<call.ino, b>>, Garbage} :
             BlockDone(content) /\ UNCHANGED halted
       \/ halted' = "page_fault" /\ UNCHANGED <<sp, call, pc>>
    /\ UNCHANGED file

block_unsupported ==
    /\ ReadingBlock("found") /\ b >= NDIRECT /\ b >= NPTRS
    /\ BlockDone(Unread)
    /\ UNCHANGED <<file, halted>>

(* The bytes are copied and the position advances. *)
read_copy ==
    /\ pc = "copy" /\ halted = "no"
    /\ file' = [file EXCEPT !.pos = @ + call.count]
    /\ pc' = "idle"
    /\ call' = NoCall
    /\ UNCHANGED <<sp, halted>>

(* A page fault is a panic. *)
Stopped == halted # "no" /\ UNCHANGED vars

CallStep ==
    \/ ext2_find_file_inode
    \/ stat_done
    \/ read_failed \/ read_blocks \/ read_copy
    \/ block_failed \/ block_direct \/ block_indirect \/ block_unsupported

Next ==
    \/ \E p \in Paths : ext2_stat(p) \/ ext2_open(p)
    \/ \E n \in 0 .. MAX_POS : file_set_position(n)
    \/ \E n \in Counts : ext2_read_file(n)
    \/ CallStep
    \/ Stopped

Spec == Init /\ [][Next]_vars

-----------------------------------------------------------------------------
TypeOK ==
    /\ sp = NULL \/ sp \in Seq(Names)
    /\ file.respath = NULL \/ file.respath \in Paths
    /\ file.pos \in 0 .. MAX_POS
    /\ call.for \in {"stat", "read", "block"}
    /\ call.ino \in Inodes
    /\ pc = "walk" => call.tok \in Names
    /\ pc \in {"idle", "walk", "found", "failed", "copy"}
    /\ halted \in {"no", "page_fault"}

(***************************************************************************)
(* What a path means: the walk of Lookup from the root along the entries   *)
(* that have exactly the names of the path, through directories.           *)
(***************************************************************************)
Child(dir, n) ==
    LET named == {i \in DOMAIN Entries[dir] : Entries[dir][i].name = n}
    IN  IF dir \in Dirs /\ named # {} THEN Entries[dir][Min(named)].ino ELSE ENOENT

Meant == INSTANCE Lookup WITH Dir <- [i \in Inodes |-> [n \in Names |-> Child(i, n)]]

Resolve(path) == Meant!Resolve(path)

(* A path that the walk cannot mistake: every component that is looked up  *)
(* is looked up in a directory, and no entry that stands before it (or in  *)
(* its place) is a proper prefix of it.                                    *)
Plain(path) ==
    \A i \in 1 .. Len(path) :
        LET dir == Meant!Walk(path)[i - 1]
        IN  dir # ENOENT =>
               /\ dir \in Dirs
               /\ \A j \in DOMAIN Entries[dir] :
                     <<path[i], Entries[dir][j].name>> \in StartsWith =>
                        Entries[dir][j].name = path[i]

LookupDone == pc \in {"found", "failed"}

Answer == IF pc = "found" THEN call.ino ELSE ENOENT

(***************************************************************************)
(* A lookup of a plain path that finds no leftover of an earlier one in sp *)
(* returns what the path means.                                            *)
(***************************************************************************)
CleanLookup ==
    /\ TypeOK
    /\ (LookupDone /\ call.begun = NULL /\ Plain(call.path)) =>
        Answer = Resolve(call.path)

(***************************************************************************)
(* The walk, token by token, returns and leaves what Lookup says of a      *)
(* whole lookup: one that succeeds leaves nothing behind for the next one, *)
(* and one that fails leaves the part of its path (or of the leftover that *)
(* it took for its path) behind the component that was not found.          *)
(***************************************************************************)
Whole == INSTANCE Lookup WITH
             Dir <- [i \in Inodes |-> [n \in Names |-> ext2_read_directory(i, n)]]

LookupIsFind ==
    LookupDone => Whole!Find(call.begun, call.path) = [ino |-> Answer, left |-> sp]

(***************************************************************************)
(* The blocks that hold the bytes pos .. pos + count - 1 have been read    *)
(* when they are copied, if they are direct ones, the path is plain and    *)
(* exists, and the parts of blocks at both ends fit in one block.  This    *)
(* takes in the reads that begin with a leftover in sp: their first lookup *)
(* uses it up (the inode it gives is not used), as it must succeed.        *)
(***************************************************************************)
Wanted == cblock .. (file.pos + call.count - 1) \div BS

ReadDelivers ==
    (/\ pc = "copy"
     /\ Plain(file.respath) /\ Resolve(file.respath) # ENOENT
     /\ (file.pos % BS) + (call.count % BS) <= BS) =>
        \A n \in Wanted :
            n < NDIRECT =>
                /\ n - cblock + 1 \in DOMAIN call.got
                /\ call.got[n - cblock + 1] = <<Resolve(file.respath), n>>

=============================================================================
