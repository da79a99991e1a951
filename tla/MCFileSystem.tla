---------------------------- MODULE MCFileSystem ----------------------------
(***************************************************************************)
(* Small images: two files, two of which one's name begins with the        *)
(* other's, and two of which the first is empty, with paths that hit, miss *)
(* or leave the mountpoint.                                                *)
(***************************************************************************)
EXTENDS FileSystem

File(n, s) == [name |-> n, size |-> s]
MCInputs == {<<File(<<"a">>, 2), File(<<"b">>, 1)>>,
             <<File(<<"a", "b">>, 1), File(<<"a">>, 2)>>,
             <<File(<<"a">>, 0), File(<<"b">>, 2)>>}
MCModules == {{"initrd"}, {"other"}, {}}
MCPaths == {<<"/", "a">>, <<"/", "b">>, <<"/", "c">>, <<"a">>}
MCCounts == {1, 2}
MCOffsets == {-1, 0}
MCMinFd == -1
MCMinPos == -1
=============================================================================
