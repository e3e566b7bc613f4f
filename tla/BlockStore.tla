----------------------------- MODULE BlockStore -----------------------------
(***************************************************************************)
(* What bread(), bwrite() and brelse() promise: a block is in the hands of *)
(* one process at a time, which finds in it what was written last.         *)
(***************************************************************************)
CONSTANTS Proc, Block, Val, None

VARIABLES store,        \* the contents of every block
          held, view    \* the block each process holds, and what it sees there

Open(p, k) ==
    /\ held[p] = None /\ \A q \in Proc : held[q] # k
    /\ held' = [held EXCEPT ![p] = k]
    /\ view' = [view EXCEPT ![p] = store[k]]
    /\ UNCHANGED store

Change(p, v) ==
    /\ held[p] # None
    /\ store' = [store EXCEPT ![held[p]] = v]
    /\ view' = [view EXCEPT ![p] = v]
    /\ UNCHANGED held

Close(p) ==
    /\ held[p] # None
    /\ held' = [held EXCEPT ![p] = None]
    /\ view' = [view EXCEPT ![p] = None]
    /\ UNCHANGED store

StoreInit ==
    /\ store \in [Block -> Val]
    /\ held = [p \in Proc |-> None] /\ view = [p \in Proc |-> None]

StoreNext ==
    \E p \in Proc : Close(p) \/ (\E k \in Block : Open(p, k)) \/ (\E v \in Val : Change(p, v))

StoreSpec == StoreInit /\ [][StoreNext]_<<store, held, view>>
=============================================================================
