----------------------------- MODULE MCBlockIO ------------------------------
(***************************************************************************)
(* Small instances of the disk driver, and of the buffer cache on top of   *)
(* it, for TLC.                                                            *)
(***************************************************************************)
EXTENDS BufferCache, TLC

Symmetry == Permutations(Proc) \cup Permutations(Block)
=============================================================================
