----------------------------- MODULE Processes -----------------------------
(***************************************************************************)
(* What fork, exit and wait promise, process by process and without        *)
(* locks, slots or a scheduler: a process identifier names one process     *)
(* for ever; every process but the first has a living parent; a process    *)
(* that exits leaves no children behind, and is reaped once, by its        *)
(* parent.                                                                 *)
(***************************************************************************)
EXTENDS Naturals

CONSTANT Pids    \* the process identifiers, 1 .. some bound

VARIABLES
    life,   \* how far each process has got
    par     \* the parent of a process that has started; 0 if it has none

lifevars == <<life, par>>

init == 1

LifeInit ==
    /\ life = [i \in Pids |-> IF i = init THEN "live" ELSE "unborn"]
    /\ par  = [i \in Pids |-> 0]

Become(i, stage) == life' = [life EXCEPT ![i] = stage]

\* Identifiers are handed out in order and never again.
Spawn(i) ==
    /\ life[i] = "unborn"
    /\ \A j \in Pids : j < i => life[j] # "unborn"
    /\ Become(i, "embryo")
    /\ UNCHANGED par

Abort(i) ==
    /\ life[i] = "embryo"
    /\ Become(i, "gone")
    /\ UNCHANGED par

Start(i, q) ==
    /\ life[i] = "embryo" /\ life[q] = "live"
    /\ Become(i, "live")
    /\ par' = [par EXCEPT ![i] = q]

Adopt(i) ==
    /\ life[i] \in {"live", "zombie"}
    /\ par[i] \notin {0, init}
    /\ par' = [par EXCEPT ![i] = init]
    /\ UNCHANGED life

Exit(i) ==
    /\ i # init /\ life[i] = "live"
    /\ \A j \in Pids : par[j] # i
    /\ Become(i, "zombie")
    /\ UNCHANGED par

Reap(i) ==
    /\ life[i] = "zombie"
    /\ par[i] \in Pids /\ life[par[i]] = "live"
    /\ Become(i, "gone")
    /\ par' = [par EXCEPT ![i] = 0]

LifeNext ==
    \E i \in Pids :
        \/ Spawn(i) \/ Abort(i) \/ Adopt(i) \/ Exit(i) \/ Reap(i)
        \/ \E q \in Pids : Start(i, q)

LifeSpec == LifeInit /\ [][LifeNext]_lifevars
=============================================================================
