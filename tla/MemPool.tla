------------------------------- MODULE MemPool -------------------------------
(* The memory pool of MALLOC/malloc.c: a table with one entry per block. The     *)
(* blocks of an area all hold the area's length, from which it is freed.         *)
EXTENDS Integers

CONSTANTS
    BLOCKS,     \* memtblsize: blocks of 32 bytes in the pool (2880)
    NULL

ASSUME PoolAssumption == BLOCKS \in Nat /\ NULL \notin Int

VARIABLES
    memmap,     \* mem1mapbase: 0 for a free block, else the length of its area
    live        \* history: the pointers given out and not freed

poolVars == <<memmap, live>>

Block == 0..BLOCKS-1

PoolTypeOK == memmap \in [Block -> 0..BLOCKS] /\ live \subseteq Block

PoolInit == memmap = [i \in Block |-> 0] /\ live = {}

-------------------------------------------------------------------------------
(* n blocks in a row are free from p on. *)
Fits(n, p) ==
    /\ p \in Block /\ n >= 1 /\ p + n <= BLOCKS
    /\ \A i \in p..p+n-1 : memmap[i] = 0

(* The table is searched from its end, so the highest place is taken. *)
Found(n, p) == Fits(n, p) /\ \A q \in Block : Fits(n, q) => q <= p

NoRoom(n) == \A p \in Block : ~Fits(n, p)

(* mymalloc of n blocks returns p *)
mymalloc(n, p) ==
    /\ Found(n, p)
    /\ memmap' = [i \in Block |-> IF i \in p..p+n-1 THEN n ELSE memmap[i]]
    /\ live' = live \cup {p}

(* fault: one block too many *)
FreedFault(p) == p..p + memmap[p]

(* The blocks that the entry of p says belong to it. *)
Freed(p) == p..p + memmap[p] - 1

myfree(p) ==
    /\ memmap' = [i \in Block |-> IF i \in Freed(p) THEN 0 ELSE memmap[i]]
    /\ live' = live \ {p}

(* Any sequence of calls in which only pointers given out are freed, once each. *)
PoolNext ==
    \/ \E n \in 1..BLOCKS, p \in Block : mymalloc(n, p)
    \/ \E p \in live : myfree(p)

PoolSpec == PoolInit /\ [][PoolNext]_poolVars

-------------------------------------------------------------------------------
Held == INSTANCE Heap WITH
    areas <- {[first |-> p, length |-> memmap[p]] : p \in live}

(* The areas given out never overlap, and one that is freed or given out leaves  *)
(* all others as they are (mymem_malloc, mymem_free).                            *)
IsHeap == Held!Spec
=============================================================================
