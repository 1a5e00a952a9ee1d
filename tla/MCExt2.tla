------------------------------- MODULE MCExt2 -------------------------------
(***************************************************************************)
(* Ext2 on a small image, with one directory below the root:               *)
(*     /b   a file          /d    a directory       /bc   a file           *)
(*     /d/a a file          /d/ab a file                                   *)
(* and the entries "." and ".." that every directory starts with.  The     *)
(* bytes of the file /b happen to decode as a directory entry.  A name is  *)
(* the tuple of its characters.                                            *)
(***************************************************************************)
EXTENDS Ext2

Dot == <<".">>
A   == <<"a">>
AB  == <<"a", "b">>
B   == <<"b">>
BC  == <<"b", "c">>
D   == <<"d">>

MCNames == {Dot, Dot \o Dot, A, AB, B, BC, D}

MCStartsWith == {nm \in MCNames \X MCNames : IsPrefix(nm[2], nm[1])}

MCInodes == {2, 11, 12, 13, 14, 15}

MCDirs == {2, 12}

Entry(n, i) == [name |-> n, ino |-> i]

MCEntries == [i \in MCInodes |->
    CASE i = 2  -> <<Entry(Dot, 2), Entry(Dot \o Dot, 2), Entry(B, 11),
                     Entry(D, 12), Entry(BC, 13)>>
      [] i = 12 -> <<Entry(Dot, 12), Entry(Dot \o Dot, 2), Entry(AB, 14),
                     Entry(A, 15)>>
      [] i = 11 -> <<Entry(A, 13)>>
      [] OTHER  -> <<>>]

(* "/", "/b", "/bc", "/b/a", "/d/a", "/d/ab", "/d/../b", "/d/./a", "/./b", *)
(* and paths that do not exist, failing early and late.                    *)
MCPaths == {<<>>, <<B>>, <<BC>>, <<B, A>>, <<D, A>>, <<D, AB>>,
            <<D, Dot \o Dot, B>>, <<D, Dot, A>>, <<Dot, B>>,
            <<A>>, <<A, D, AB>>, <<D, D, B, A>>}

MCCounts == {1, 2, 3, 5, 6}
=============================================================================
