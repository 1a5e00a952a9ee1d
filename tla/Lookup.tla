------------------------------- MODULE Lookup -------------------------------
(***************************************************************************)
(* What one call of ext2_find_file_inode returns and leaves behind, as a   *)
(* function of what strtok's static pointer held before it.  Ext2 follows  *)
(* the call token by token and is checked to agree with Find; Files uses   *)
(* Find for each of the lookups that a system call makes.                  *)
(*                                                                         *)
(* A path is the sequence of its components.  left is the string that an   *)
(* earlier lookup has left, or NULL: if there is one, it is looked up in   *)
(* place of the path.                                                      *)
(***************************************************************************)
EXTENDS Integers, SequencesExt

CONSTANTS
    Dir,        \* inode -> name -> what ext2_read_directory returns
    NULL

ROOT   == 2
ENOENT == -2

Enter(ino, n) == IF ino = ENOENT THEN ENOENT ELSE Dir[ino][n]

(* Where the walk is after each component of a path. *)
Walk(path) ==
    LET at[i \in 0 .. Len(path)] == IF i = 0 THEN ROOT ELSE Enter(at[i - 1], path[i])
    IN  at

Resolve(path) == Walk(path)[Len(path)]

(* The components of str that the walk does not get past: behind the first *)
(* of them is what stays in the pointer.                                   *)
Missing(str) == {i \in 1 .. Len(str) : Walk(str)[i] = ENOENT}

FindIn(str) ==
    IF Missing(str) = {}
    THEN [ino |-> Resolve(str), left |-> NULL]
    ELSE [ino |-> ENOENT, left |-> SubSeq(str, Min(Missing(str)) + 1, Len(str))]

Find(left, path) == FindIn(IF left = NULL THEN path ELSE left)
=============================================================================
