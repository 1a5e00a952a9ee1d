------------------------------ MODULE MCFiles ------------------------------
(***************************************************************************)
(* Files on a disk with an executable /a of two blocks, a text /b, a       *)
(* directory /d with a second executable /d/b, and an empty file /d/a.     *)
(* The boot test's file is on it (as /b) or not (/t).                      *)
(***************************************************************************)
EXTENDS Files

MCInodes == {2, 11, 12, 13, 14, 15}

MCNames == {"a", "b", "d", "t"}

MCDir == [i \in MCInodes |-> [n \in MCNames |->
    CASE i = 2  /\ n = "a" -> 11
      [] i = 2  /\ n = "b" -> 12
      [] i = 2  /\ n = "d" -> 13
      [] i = 13 /\ n = "a" -> 14
      [] i = 13 /\ n = "b" -> 15
      [] OTHER -> ENOENT]]

MCSize == [i \in MCInodes |->
    CASE i = 11 -> 1500 [] i = 12 -> 300 [] i = 14 -> 0 [] i = 15 -> 1024 [] OTHER -> 1024]

MCElf == {11, 15}

(* An executable and a shared object: e_type, e_version, e_phoff, e_shoff, *)
(* e_phnum and e_shnum, at their offsets.                                  *)
MCWord == [i \in MCElf |-> [off \in {16, 20, 28, 32, 44, 48} |->
    CASE off = 16 -> IF i = 11 THEN 2 ELSE 3
      [] off = 20 -> 1
      [] off = 28 -> HEADER
      [] off = 32 -> 1100
      [] off = 44 -> 1
      [] off = 48 -> 33]]

(* "/", "/a", "/b", "/d/a", "/d/b", and two paths that do not exist,      *)
(* "/t/b" and "/a/d/b".                                                    *)
MCPaths == {<<>>, <<"a">>, <<"b">>, <<"d", "a">>, <<"d", "b">>,
            <<"t", "b">>, <<"a", "d", "b">>}

MCTestPaths == {<<"t">>, <<"b">>}
=============================================================================
