----------------------------- MODULE MCFileTree -----------------------------
(***************************************************************************)
(* Small instances of FileTree for TLC.                                    *)
(***************************************************************************)
EXTENDS FileTree, TLC

Rel(elems) == [abs |-> FALSE, elems |-> elems]
Abs(elems) == [abs |-> TRUE, elems |-> elems]
Call(op, path) == [op |-> op, path |-> path, new |-> None]

\* A directory of the root is made, entered, left and removed; files are made,
\* linked, opened and removed in it and in the root.
TreeCalls ==
    {Call("mkdir", Abs(<<"a">>)), Call("chdir", Rel(<<"a">>)), Call("chdir", Rel(<<"..">>)),
     Call("creat", Rel(<<"a">>)), Call("openw", Rel(<<"a">>)),
     Call("unlink", Rel(<<"a">>)), Call("unlink", Rel(<<"b">>)),
     [op |-> "link", path |-> Rel(<<"a">>), new |-> Rel(<<"b">>)]}

\* Directories inside directories.
NestedCalls ==
    {Call("mkdir", Rel(<<"a">>)), Call("chdir", Rel(<<"a">>)), Call("chdir", Rel(<<"..">>)),
     Call("unlink", Rel(<<"a">>))}

\* The processes are interchangeable.
Symmetry == Permutations(Proc)
=============================================================================
