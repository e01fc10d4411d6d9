-------------------------------- MODULE Heap --------------------------------
(* What a memory pool promises: the blocks it has given out lie in the pool, *)
(* do not overlap, and keep their place and length until they are returned.  *)
EXTENDS Integers

CONSTANT BLOCKS     \* blocks in the pool

VARIABLE areas      \* areas given out: the first block and the number of blocks

Within(a) == a.first..a.first + a.length - 1

Area == [first : 0..BLOCKS-1, length : 1..BLOCKS]

Init == areas = {}

Give(a) ==
    /\ Within(a) \subseteq 0..BLOCKS-1
    /\ \A b \in areas : Within(a) \cap Within(b) = {}
    /\ areas' = areas \cup {a}

TakeBack(a) == a \in areas /\ areas' = areas \ {a}

Next == \E a \in Area : Give(a) \/ TakeBack(a)

Spec == Init /\ [][Next]_areas
=============================================================================
