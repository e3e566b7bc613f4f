----------------------------- MODULE NameSpace -----------------------------
(***************************************************************************)
(* What the directory tree promises to those who use it: names are bound   *)
(* and unbound one at a time, a directory has at most one name and goes    *)
(* only when it is empty, and nothing goes while it has a name or is in    *)
(* use.                                                                    *)
(***************************************************************************)
EXTENDS Naturals, Functions

CONSTANT Inum

VARIABLES
    kind,    \* of each inode: "free", "dir", ...
    tree,    \* of each directory: its names and what they are bound to
    inUse    \* the inodes that are somebody's open file or current directory

vars == <<kind, tree, inUse>>

Init ==
    /\ kind = [i \in Inum |-> IF i = 1 THEN "dir" ELSE "free"]
    /\ tree = [i \in Inum |-> <<>>]
    /\ inUse = {1}

Bound(i) == \E d \in Inum : \E n \in DOMAIN tree[d] : tree[d][n] = i

Alloc(i, k) ==
    /\ kind[i] = "free" /\ k # "free"
    /\ kind' = [kind EXCEPT ![i] = k]
    /\ UNCHANGED <<tree, inUse>>

Bind(d, n, i) ==
    /\ kind[d] = "dir" /\ kind[i] # "free"
    /\ n \notin DOMAIN tree[d]
    /\ kind[i] = "dir" => ~Bound(i)
    /\ tree' = [tree EXCEPT ![d] = [m \in DOMAIN @ \cup {n} |-> IF m = n THEN i ELSE @[m]]]
    /\ UNCHANGED <<kind, inUse>>

Unbind(d, n) ==
    /\ n \in DOMAIN tree[d]
    /\ DOMAIN tree[tree[d][n]] = {}
    /\ tree' = [tree EXCEPT ![d] = Restrict(@, DOMAIN @ \ {n})]
    /\ UNCHANGED <<kind, inUse>>

\* Whatever it still contains is lost with it.
Free(i) ==
    /\ ~Bound(i) /\ i \notin inUse
    /\ kind' = [kind EXCEPT ![i] = "free"]
    /\ tree' = [tree EXCEPT ![i] = <<>>]
    /\ UNCHANGED inUse

\* Files are opened and closed, directories entered and left.
Use ==
    /\ inUse' \in SUBSET Inum
    /\ \A i \in inUse' : kind[i] # "free"
    /\ UNCHANGED <<kind, tree>>

Next ==
    \/ \E i \in Inum : Free(i) \/ Alloc(i, kind'[i])
    \/ \E d, i \in Inum : \E n \in DOMAIN tree'[d] : Bind(d, n, i)
    \/ \E d \in Inum : \E n \in DOMAIN tree[d] : Unbind(d, n)
    \/ Use

Spec == Init /\ [][Next]_vars
=============================================================================
