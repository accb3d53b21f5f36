------------------------------ MODULE Umalloc -------------------------------
(***************************************************************************)
(* malloc() and free() of the user library (umalloc.c): a circular list of *)
(* free blocks in the order of their addresses.  Addresses and sizes count *)
(* units of sizeof(Header); a block starts with its header.  A process has *)
(* one thread, so that a call is one action.  The program may also move    *)
(* its break with sbrk(), which leaves holes between the arenas.           *)
(***************************************************************************)
EXTENDS Integers, FiniteSets, FiniteSetsExt

CONSTANTS
    HEADER,    \* sizeof(Header)
    NALLOC,    \* the least number of units morecore() asks for
    Limit,     \* bound: the break, in units, at which sbrk() fails
    Requests   \* bound: arguments of malloc()

NULL == -1
base == 0      \* &base, below the heap
Units == 0..Limit

VARIABLES
    ptr, size,  \* the headers
    freep,
    brk,        \* the break of the process
    arena,      \* the units morecore() has got
    used        \* the blocks the program has, with the bytes it asked for

vars == <<ptr, size, freep, brk, arena, used>>

Init ==
    /\ ptr = [a \in Units |-> NULL] /\ size = [a \in Units |-> 0]
    /\ freep = NULL
    /\ brk = 1
    /\ arena = {} /\ used = {}

heap == [ptr |-> ptr, size |-> size, freep |-> freep]

\* The header that is n steps from freep.
Hop(h) == LET f[n \in Nat] == IF n = 0 THEN h.freep ELSE h.ptr[f[n - 1]] IN f

\* The place of bp: after p, or at the seam of the ring.
After(h, p, bp) ==
    \/ bp > p /\ bp < h.ptr[p]
    \/ p >= h.ptr[p] /\ (bp > p \/ bp < h.ptr[p])

\* Fault: only the upper neighbour is joined.
JoinLowerNot(h, p, bp) == [h EXCEPT !.ptr[p] = bp]

JoinLower(h, p, bp) ==
    IF p + h.size[p] = bp
    THEN [h EXCEPT !.size[p] = @ + h.size[bp], !.ptr[p] = h.ptr[bp]]
    ELSE [h EXCEPT !.ptr[p] = bp]

\* Fault: the joined block does not grow.
JoinUpperThin(h, p, bp) ==
    LET up == h.ptr[p] IN
    IF bp + h.size[bp] = up THEN [h EXCEPT !.ptr[bp] = h.ptr[up]]
    ELSE [h EXCEPT !.ptr[bp] = up]

JoinUpper(h, p, bp) ==
    LET up == h.ptr[p] IN
    IF bp + h.size[bp] = up
    THEN [h EXCEPT !.size[bp] = @ + h.size[up], !.ptr[bp] = h.ptr[up]]
    ELSE [h EXCEPT !.ptr[bp] = up]

free(h, bp) ==
    LET n == CHOOSE i \in Units : /\ After(h, Hop(h)[i], bp)
                                  /\ \A j \in 0..(i - 1) : ~After(h, Hop(h)[j], bp)
        p == Hop(h)[n]
    IN  [JoinLower(JoinUpper(h, p, bp), p, bp) EXCEPT !.freep = p]

nunits(nbytes) == (nbytes + HEADER - 1) \div HEADER + 1

\* The steps the loop of malloc() makes before p is freep again.
Round(h) == Min({n \in 1..(Limit + 1) : Hop(h)[n] = h.freep})
Fitting(h, nu) == {n \in 1..Round(h) : h.size[Hop(h)[n]] >= nu}

\* The first block that is large enough gives its tail.
Carve(h, nu) ==
    LET n == Min(Fitting(h, nu))
        prevp == Hop(h)[n - 1]
        p == Hop(h)[n]
        q == p + h.size[p] - nu
    IN  [block |-> q,
         heap  |-> [IF q = p THEN [h EXCEPT !.ptr[prevp] = h.ptr[p]]
                    ELSE [h EXCEPT !.size[p] = @ - nu, !.size[q] = nu]
                    EXCEPT !.freep = prevp]]

\* What is no header of a block any more belongs to the program, which writes
\* over it: it is not kept.
Set(h) ==
    LET listed == {Hop(h)[n] : n \in Units} IN
    /\ freep' = h.freep
    /\ ptr'   = [a \in Units |-> IF a \in listed THEN h.ptr[a] ELSE NULL]
    /\ size'  = [a \in Units |-> IF a \in listed \/ \E b \in used' : b[1] = a
                                 THEN h.size[a] ELSE 0]

\* The list as the first call sets it up.
Based == IF freep = NULL
         THEN [heap EXCEPT !.ptr[base] = base, !.size[base] = 0, !.freep = base]
         ELSE heap

Malloc(nbytes) ==
    LET nu == nunits(nbytes)
        r  == Carve(Based, nu)
    IN  /\ Fitting(Based, nu) # {}
        /\ used' = used \cup {<<r.block, nbytes>>}
        /\ Set(r.heap)
        /\ UNCHANGED <<brk, arena>>

more(nu) == IF nu < NALLOC THEN NALLOC ELSE nu

\* Nothing fits: morecore() gets memory, frees it, and the search goes on.
MallocMore(nbytes) ==
    LET nu == nunits(nbytes)
        hp == brk
        h  == free([Based EXCEPT !.size[hp] = more(nu)], hp)
        r  == Carve(h, nu)
    IN  /\ Fitting(Based, nu) = {} /\ brk + more(nu) <= Limit
        /\ used' = used \cup {<<r.block, nbytes>>}
        /\ Set(r.heap)
        /\ brk' = brk + more(nu)
        /\ arena' = arena \cup (hp..(hp + more(nu) - 1))

\* sbrk() fails and malloc() returns 0.
MallocFail(nbytes) ==
    /\ Fitting(Based, nunits(nbytes)) = {}
    /\ brk + more(nunits(nbytes)) > Limit
    /\ UNCHANGED <<brk, arena, used>>
    /\ Set(Based)

Free(b) ==
    /\ b \in used
    /\ used' = used \ {b}
    /\ Set(free(heap, b[1]))
    /\ UNCHANGED <<brk, arena>>

\* The program takes a unit for itself.
Sbrk ==
    /\ brk < Limit
    /\ brk' = brk + 1
    /\ UNCHANGED <<ptr, size, freep, arena, used>>

Next ==
    \/ \E n \in Requests : Malloc(n) \/ MallocMore(n) \/ MallocFail(n)
    \/ \E b \in used : Free(b)
    \/ Sbrk

Spec == Init /\ [][Next]_vars

-----------------------------------------------------------------------------
FreeList == IF freep = NULL THEN {} ELSE {Hop(heap)[n] : n \in Units}
Block(a) == a..(a + size[a] - 1)

\* Every unit that morecore() got is in exactly one block, of the free list or
\* of the program, and the blocks of the program hold what it asked for: no
\* sequence of malloc() and free() loses memory or hands out a unit twice
\* (umalloc.c:30-43, 74-85).
HeapRight ==
    LET starts == (FreeList \ {base}) \cup {b[1] : b \in used}
    IN  /\ UNION {Block(a) : a \in starts} = arena
        /\ \A a, b \in starts : a # b => Block(a) \cap Block(b) = {}
        /\ Cardinality(starts) = Cardinality(FreeList \ {base}) + Cardinality(used)
        /\ \A b \in used : (size[b[1]] - 1) * HEADER >= b[2]

\* Free blocks never touch: memory that has been freed can be had again in one
\* piece (umalloc.c:33-42).
Coalesced ==
    \A a, b \in FreeList \ {base} : a + size[a] # b

\* The heap is sound, and free blocks that touch are one.
HeapSound == HeapRight /\ Coalesced
=============================================================================
