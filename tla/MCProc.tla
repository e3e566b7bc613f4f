------------------------------- MODULE MCProc -------------------------------
(***************************************************************************)
(* Small instances of Proc for TLC.                                        *)
(***************************************************************************)
EXTENDS Proc, TLC

\* The harts are interchangeable.
Symmetry == Permutations(CPU)

\* Liveness is checked for the behaviours in which the timer preempts user
\* programs, and panic()'s loop, but no other kernel code.
UserPreemption ==
    \A c \in CPU, p \in Slot : Yield(c, p) => pc[p] \in {"preempt", "initpanic"}

UserPreemptionSpec == Init /\ [][Next /\ UserPreemption]_vars /\ Fairness
=============================================================================
