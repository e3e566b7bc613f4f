----------------------------- MODULE MCSpinLock -----------------------------
(***************************************************************************)
(* Small instances of SpinLock for TLC.                                    *)
(***************************************************************************)
EXTENDS SpinLock, TLC

\* The harts are interchangeable.
Symmetry == Permutations(CPU)
=============================================================================
