------------------------------- MODULE Mutex -------------------------------
(***************************************************************************)
(* What a spin lock promises its users: a lock has at most one owner, only *)
(* a free lock is taken, and only its owner gives it up.  spinlock.c is    *)
(* shown to implement this (SpinLock.tla); Proc, Log and Pipe take one     *)
(* acquire() or release() to be one atomic step because of it.             *)
(***************************************************************************)
CONSTANTS
    CPU,    \* the harts
    Lock,   \* the spin locks
    NoCpu   \* the owner of a free lock

VARIABLE owner

Init == owner = [l \in Lock |-> NoCpu]

Acquire(c, l) ==
    /\ owner[l] = NoCpu
    /\ owner' = [owner EXCEPT ![l] = c]

Release(c, l) ==
    /\ owner[l] = c
    /\ owner' = [owner EXCEPT ![l] = NoCpu]

Next == \E c \in CPU, l \in Lock : Acquire(c, l) \/ Release(c, l)

Spec == Init /\ [][Next]_owner
=============================================================================
