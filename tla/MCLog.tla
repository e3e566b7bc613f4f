------------------------------- MODULE MCLog -------------------------------
(***************************************************************************)
(* Small instances of Log for TLC.                                         *)
(***************************************************************************)
EXTENDS Log, TLC

\* The processes, and the home blocks, are interchangeable.
Symmetry == Permutations(Proc) \cup Permutations(Block)
=============================================================================
