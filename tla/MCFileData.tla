----------------------------- MODULE MCFileData -----------------------------
(***************************************************************************)
(* Small instances of FileData for TLC.                                    *)
(***************************************************************************)
EXTENDS FileData

\* The processes, and the inodes, are interchangeable.
Symmetry == Permutations(Proc) \cup Permutations(Inum)
=============================================================================
