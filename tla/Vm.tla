--------------------------------- MODULE Vm ---------------------------------
(***************************************************************************)
(* Who has which page of memory: kernel/kalloc.c, the user page tables of  *)
(* kernel/vm.c, and the calls that build and free them: fork(), exec(),    *)
(* sbrk(), and freeproc() after exit().  Any kalloc() can find no page.    *)
(*                                                                         *)
(* Pages are counted, not named: a page that is lost, freed twice, or      *)
(* freed while it is mapped, upsets the count.  A step allocates for one   *)
(* virtual page.  Sizes are in half pages, so that rounding matters.       *)
(***************************************************************************)
EXTENDS Naturals, FiniteSets, Sequences, FiniteSetsExt

CONSTANTS
    Proc, Init1,      \* the process slots, and the one of the first process
    NPAGE,            \* pages of memory for user processes
    MaxSize,          \* bound: the largest size a process asks for
    MaxSegs, MaxArgs, \* bounds: segments of a program, arguments of exec()
    USERSTACK

PGSIZE == 2

(***************************************************************************)
(* Virtual pages 0 .. MAXVA-1; a page-table page has two entries.  The two *)
(* page-table pages below the root that lead to a virtual page:            *)
(***************************************************************************)
MAXVA == 8

TRAMPOLINE == MAXVA - 1
TRAPFRAME == MAXVA - 2
Path(va) == <<<<1, va \div 4>>, <<0, va \div 2>>>>

ASSUME VmAssumption ==
    /\ Init1 \in Proc /\ NPAGE \in Nat /\ MaxSegs \in Nat /\ MaxArgs \in Nat
    /\ USERSTACK \in Nat /\ MaxSize \in 1 .. (TRAPFRAME - USERSTACK - 1) * PGSIZE

VARIABLES
    free,        \* the length of kmem.freelist
    pc,          \* of each process; "unused" if it has no process
    trapframe,   \* the processes that have a trapframe page
    tab,         \* page tables: the one of a process, and exec()'s new one
    sz,          \* p->sz
    call,        \* of each process: the variables of the call it makes
    panic

vars == <<free, pc, trapframe, tab, sz, call, panic>>

(***************************************************************************)
(* t is the table the call works on; a, from and to the page, oldsz and    *)
(* newsz of uvmalloc() or uvmcopy(); sz, segs and args exec()'s size,      *)
(* segments loaded, and pages with arguments.                              *)
(***************************************************************************)
NoCall(p) == [t |-> <<p, "cur">>, a |-> 0, from |-> 0, to |-> 0,
              sz |-> 0, segs |-> 0, args |-> 0]

Roundup(n) == (n + PGSIZE - 1) \div PGSIZE
Pages(n)   == 0 .. Roundup(n) - 1
Specials   == {TRAMPOLINE, TRAPFRAME}

NoTable == [root |-> FALSE, node |-> {}, map |-> {}]

\* The table of init, which userinit() has made, with one page of code.
FirstTable ==
    [root |-> TRUE, map |-> {0} \cup Specials,
     node |-> UNION {Range(Path(va)) : va \in {0} \cup Specials}]

\* The pages of a table: the root, its nodes, and user memory.
PagesOf(t) ==
    IF t.root THEN 1 + Cardinality(t.node) + Cardinality(t.map \ Specials) ELSE 0

Init ==
    /\ pc = [p \in Proc |-> IF p = Init1 THEN "user" ELSE "unused"]
    /\ trapframe = {Init1}
    /\ tab = [t \in Proc \X {"cur", "new"} |->
                IF t = <<Init1, "cur">> THEN FirstTable ELSE NoTable]
    /\ sz = [p \in Proc |-> IF p = Init1 THEN PGSIZE ELSE 0]
    /\ free = NPAGE - PagesOf(FirstTable) - 1
    /\ call = [p \in Proc |-> NoCall(p)]
    /\ panic = FALSE

Goto(p, l)  == pc' = [pc EXCEPT ![p] = l]
Table(p)    == tab[call[p].t]
Forking(p)  == call[p].t[1] # p
Child(p)    == call[p].t[1]
-----------------------------------------------------------------------------
(***************************************************************************)
(* mappages() of one page, with walk(): the missing page-table pages are   *)
(* allocated from the top down, and stay if there are too few of the f     *)
(* free ones.                                                              *)
(***************************************************************************)
Missing(t, va)   == SelectSeq(Path(va), LAMBDA x : x \notin t.node)
CanMap(t, va, f) == Len(Missing(t, va)) <= f
Walked(t, va, f) ==
    [t EXCEPT !.node = @ \cup Range(SubSeq(Missing(t, va), 1, Min({f, Len(Missing(t, va))})))]

\* What page-table pages have cost since the table was t.
Cost(t, u) == Cardinality(u.node) - Cardinality(t.node)

\* Page va is mapped; "mappages: remap" if it was already.
MapPage(p, va, f) ==
    LET t == Walked(Table(p), va, f)
    IN /\ tab' = [tab EXCEPT ![call[p].t] = [t EXCEPT !.map = @ \cup {va}]]
       /\ free' = f - Cost(Table(p), t)
       /\ panic' = (panic \/ va \in t.map)

\* uvmunmap() panics unless every page is mapped.
Unmap(t, S) == [t EXCEPT !.map = @ \ S]
UnmapPanics(t, S) == ~(S \subseteq t.map)

\* The pages freewalk() gives back; it panics if anything is still mapped.
TablePages(t) == 1 + Cardinality(t.node)

\* proc_freepagetable() with size n: the pages it frees, and its panics.
Freed(t, n)      == Cardinality(Pages(n)) + TablePages(t)
FreePanics(t, n) == t.map # Specials \cup Pages(n)
-----------------------------------------------------------------------------
(***************************************************************************)
(* A fork() or an exec() gives up: freeproc(np), or "bad:" of exec() and   *)
(* of sys_exec().  Before that, "back" pages were given back, and the      *)
(* table was t; n is the size it is freed with.                            *)
(***************************************************************************)
\* Mutant: the pages with the arguments are kept.
ArgPages_Lost(p) == 0

ArgPages(p) == call[p].args

GiveUp(p, t, n, back, panics) ==
    /\ free' = free - Cost(Table(p), t) + back
                 + (IF t.root THEN Freed(t, n) ELSE 0)
                 + (IF Forking(p) THEN 1 ELSE ArgPages(p))
    /\ panic' = (panic \/ panics)
    /\ tab' = [tab EXCEPT ![call[p].t] = NoTable]
    /\ IF Forking(p)
       THEN /\ trapframe' = trapframe \ {Child(p)}
            /\ pc' = [pc EXCEPT ![p] = "user", ![Child(p)] = "unused"]
       ELSE Goto(p, "user") /\ UNCHANGED trapframe
    /\ call' = [call EXCEPT ![p] = NoCall(p)]
    /\ UNCHANGED sz

\* fork(): allocproc() finds a slot and wants a trapframe.
Fork(p, np) ==
    /\ pc[p] = "user" /\ pc[np] = "unused" /\ free > 0
    /\ free' = free - 1
    /\ trapframe' = trapframe \cup {np}
    /\ call' = [call EXCEPT ![p].t = <<np, "cur">>]
    /\ pc' = [pc EXCEPT ![p] = "root", ![np] = "embryo"]
    /\ UNCHANGED <<tab, sz, panic>>

\* sys_exec() copies the arguments, a page each, ...
ExecArg(p) ==
    /\ pc[p] \in {"user", "args"} /\ call[p].args < MaxArgs /\ free > 0
    /\ free' = free - 1
    /\ call' = [call EXCEPT ![p].args = @ + 1, ![p].t = <<p, "new">>]
    /\ Goto(p, "args")
    /\ UNCHANGED <<trapframe, tab, sz, panic>>

\* ... and calls exec().
Exec(p) ==
    /\ pc[p] \in {"user", "args"}
    /\ call' = [call EXCEPT ![p].t = <<p, "new">>]
    /\ Goto(p, "root")
    /\ UNCHANGED <<free, trapframe, tab, sz, panic>>

\* exec() fails for another reason than memory, or an argument gets no page:
\* a bad argument or program, a read error, a stack that is too small.
ExecBad(p) ==
    \/ pc[p] = "args" /\ GiveUp(p, NoTable, 0, 0, FALSE)
    \/ /\ pc[p] \in {"load", "commit"}
       /\ GiveUp(p, Table(p), call[p].sz, 0, FreePanics(Table(p), call[p].sz))
-----------------------------------------------------------------------------
(***************************************************************************)
(* proc_pagetable(): the root, the trampoline, the trapframe.              *)
(***************************************************************************)
Root(p) ==
    /\ pc[p] = "root" /\ free > 0
    /\ free' = free - 1
    /\ tab' = [tab EXCEPT ![call[p].t].root = TRUE]
    /\ Goto(p, "tramp")
    /\ UNCHANGED <<trapframe, sz, call, panic>>

RootFails(p) == pc[p] = "root" /\ free = 0 /\ GiveUp(p, NoTable, 0, 0, FALSE)

Special(p) == IF pc[p] = "tramp" THEN TRAMPOLINE ELSE TRAPFRAME

MapSpecial(p) ==
    /\ pc[p] \in {"tramp", "tframe"} /\ CanMap(Table(p), Special(p), free)
    /\ MapPage(p, Special(p), free)
    /\ Goto(p, CASE pc[p] = "tramp" -> "tframe" [] Forking(p) -> "copy" [] OTHER -> "load")
    /\ UNCHANGED <<trapframe, sz, call>>

\* proc_pagetable() undoes what it did, and calls uvmfree().  (Only the
\* trampoline can fail: the trapframe needs no further page-table page.)
SpecialFails(p) ==
    /\ pc[p] \in {"tramp", "tframe"} /\ ~CanMap(Table(p), Special(p), free)
    /\ LET t == Unmap(Walked(Table(p), Special(p), free), {TRAMPOLINE})
       IN GiveUp(p, t, 0, 0, t.map # {})
-----------------------------------------------------------------------------
(***************************************************************************)
(* uvmcopy() and uvmalloc(), one page at a time.  If kalloc() finds no     *)
(* page, or mappages() none for its tables, the page is given back.        *)
(***************************************************************************)
PageFits(p) == free > 0 /\ CanMap(Table(p), call[p].a, free - 1)
Tried(p)    == IF free = 0 THEN Table(p) ELSE Walked(Table(p), call[p].a, free - 1)

Copying(p) == pc[p] = "copy" /\ call[p].a < Roundup(sz[p])
Growing(p) == pc[p] \in {"grow", "seg", "stack"} /\ call[p].a * PGSIZE < call[p].to

NextPage(p) ==
    /\ (Copying(p) \/ Growing(p)) /\ PageFits(p)
    /\ MapPage(p, call[p].a, free - 1)
    /\ call' = [call EXCEPT ![p].a = @ + 1]
    /\ UNCHANGED <<pc, trapframe, sz>>

CopiedPages(p) == 0 .. call[p].a - 1

\* uvmcopy() unmaps what it has copied; then freeproc(np), np->sz being 0.
CopyFails(p) ==
    /\ Copying(p) /\ ~PageFits(p)
    /\ LET S == CopiedPages(p)
           t == Unmap(Tried(p), S)
       IN GiveUp(p, t, 0, Cardinality(S), UnmapPanics(Tried(p), S) \/ FreePanics(t, 0))

ChildSize(p) == sz[p]

ForkDone(p) ==
    /\ pc[p] = "copy" /\ ~Copying(p)
    /\ sz' = [sz EXCEPT ![Child(p)] = ChildSize(p)]
    /\ pc' = [pc EXCEPT ![p] = "user", ![Child(p)] = "user"]
    /\ call' = [call EXCEPT ![p] = NoCall(p)]
    /\ UNCHANGED <<free, trapframe, tab, panic>>

\* uvmalloc() deallocates from a down to oldsz, which it has rounded up; then
\* sbrk() returns -1, and exec() gives up.
GrowFails(p) ==
    /\ Growing(p) /\ ~PageFits(p)
    /\ LET S == Roundup(call[p].from) .. call[p].a - 1
           t == Unmap(Tried(p), S)
       IN IF pc[p] = "grow"
          THEN /\ tab' = [tab EXCEPT ![call[p].t] = t]
               /\ free' = free - Cost(Table(p), t) + Cardinality(S)
               /\ panic' = (panic \/ UnmapPanics(Tried(p), S))
               /\ Goto(p, "user")
               /\ call' = [call EXCEPT ![p] = NoCall(p)]
               /\ UNCHANGED <<trapframe, sz>>
          ELSE GiveUp(p, t, call[p].sz, Cardinality(S),
                      UnmapPanics(Tried(p), S) \/ FreePanics(t, call[p].sz))

GrowDone(p) ==
    /\ pc[p] \in {"grow", "seg", "stack"} /\ ~Growing(p)
    /\ IF pc[p] = "grow"
       THEN /\ sz' = [sz EXCEPT ![p] = call[p].to]
            /\ call' = [call EXCEPT ![p] = NoCall(p)]
            /\ Goto(p, "user")
       ELSE /\ call' = [call EXCEPT ![p].sz = call[p].to]
            /\ Goto(p, IF pc[p] = "seg" THEN "load" ELSE "commit")
            /\ UNCHANGED sz
    /\ UNCHANGED <<free, trapframe, tab, panic>>
-----------------------------------------------------------------------------
\* uvmalloc() is called to grow a table from old to new.
Uvmalloc(p, old, new, at) ==
    /\ call' = [call EXCEPT ![p].from = old, ![p].to = new, ![p].a = Roundup(old),
                            ![p].segs = IF at = "seg" THEN @ + 1 ELSE @,
                            ![p].sz = IF at = "grow" THEN @ ELSE old]
    /\ Goto(p, at)
    /\ UNCHANGED <<free, trapframe, tab, sz, panic>>

\* Mutant: uvmdealloc() rounds the new size down.
Kept_Floor(n) == 0 .. (n \div PGSIZE) - 1

\* The pages that uvmdealloc() keeps.
Kept(n) == Pages(n)

\* sbrk(): growproc() to size n.  (A size below 0 wraps around, and then
\* uvmdealloc() does nothing: like n = sz.)
Sbrk(p, n) ==
    /\ pc[p] = "user"
    /\ \/ n > sz[p] /\ Uvmalloc(p, sz[p], n, "grow")
       \/ /\ n <= sz[p]
          /\ LET S == Pages(sz[p]) \ Kept(n)
             IN /\ tab' = [tab EXCEPT ![<<p, "cur">>] = Unmap(@, S)]
                /\ free' = free + Cardinality(S)
                /\ panic' = (panic \/ UnmapPanics(Table(p), S))
          /\ sz' = [sz EXCEPT ![p] = n]
          /\ UNCHANGED <<pc, trapframe, call>>

\* exec() loads a segment that ends at n, ...
Segment(p, n) ==
    /\ pc[p] = "load" /\ call[p].segs < MaxSegs /\ n > call[p].sz
    /\ Uvmalloc(p, call[p].sz, n, "seg")

\* ... and then makes the stack and its guard page.
Stack(p) ==
    /\ pc[p] = "load"
    /\ LET base == Roundup(call[p].sz) * PGSIZE
       IN Uvmalloc(p, base, base + (USERSTACK + 1) * PGSIZE, "stack")

\* The new image replaces the old one, which is freed, as are the arguments.
Commit(p) ==
    /\ pc[p] = "commit"
    /\ LET old == tab[<<p, "cur">>]
       IN /\ panic' = (panic \/ FreePanics(old, sz[p]))
          /\ free' = free + Freed(old, sz[p]) + ArgPages(p)
    /\ tab' = [tab EXCEPT ![<<p, "cur">>] = Table(p), ![<<p, "new">>] = NoTable]
    /\ sz' = [sz EXCEPT ![p] = call[p].sz]
    /\ call' = [call EXCEPT ![p] = NoCall(p)]
    /\ Goto(p, "user")
    /\ UNCHANGED trapframe

\* exit(), and freeproc() by the parent's wait(): never of init.
Exit(p) ==
    /\ pc[p] = "user" /\ p # Init1
    /\ panic' = (panic \/ FreePanics(Table(p), sz[p]))
    /\ free' = free + 1 + Freed(Table(p), sz[p])
    /\ tab' = [tab EXCEPT ![<<p, "cur">>] = NoTable]
    /\ trapframe' = trapframe \ {p}
    /\ sz' = [sz EXCEPT ![p] = 0]
    /\ Goto(p, "unused")
    /\ UNCHANGED call
-----------------------------------------------------------------------------
Next ==
    \E p \in Proc :
        \/ \E np \in Proc : Fork(p, np)
        \/ \E n \in 0 .. MaxSize : Sbrk(p, n) \/ Segment(p, n)
        \/ ExecArg(p) \/ Exec(p) \/ ExecBad(p) \/ Stack(p) \/ Commit(p)
        \/ Root(p) \/ RootFails(p) \/ MapSpecial(p) \/ SpecialFails(p)
        \/ NextPage(p) \/ CopyFails(p) \/ ForkDone(p) \/ GrowFails(p) \/ GrowDone(p)
        \/ Exit(p)

Spec == Init /\ [][Next]_vars
-----------------------------------------------------------------------------
TypeOK ==
    /\ free \in 0 .. NPAGE /\ trapframe \subseteq Proc /\ panic \in BOOLEAN
    /\ pc \in [Proc -> {"unused", "embryo", "user", "args", "root", "tramp", "tframe",
                        "copy", "load", "seg", "stack", "grow", "commit"}]
    /\ \A t \in DOMAIN tab : tab[t].map \subseteq 0 .. MAXVA - 1

\* Every page is on the free list or has exactly one use: a trapframe, a page
\* table, user memory, an argument.  So nothing leaks and nothing is freed
\* twice, wherever an allocation fails.
PagesConserved ==
    free + Cardinality(trapframe)
         + MapThenSumSet(LAMBDA t : PagesOf(tab[t]), DOMAIN tab)
         + MapThenSumSet(LAMBDA p : call[p].args, Proc) = NPAGE

\* A process outside the kernel has exactly the pages that its size says, and
\* its trampoline and trapframe, whatever calls failed and however sizes were
\* rounded before.
SizeMatchesMap ==
    \A p \in Proc : pc[p] = "user" =>
        p \in trapframe /\ tab[<<p, "cur">>].map = Specials \cup Pages(sz[p])

\* None of the panics of mappages(), uvmunmap() and freewalk() is reached.
NoPanic == ~panic

\* After any calls, failed ones too, the page table of a process agrees with
\* p->sz, so that freeing, copying and growing by p->sz never panic.
VmInv == TypeOK /\ NoPanic /\ SizeMatchesMap
=============================================================================
