------------------------------- MODULE MCVm ---------------------------------
(***************************************************************************)
(* A small instance of Vm for TLC.                                         *)
(***************************************************************************)
EXTENDS Vm, TLC

\* The processes but the first are interchangeable.
Symmetry == Permutations(Proc \ {Init1})
=============================================================================
