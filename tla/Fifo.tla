-------------------------------- MODULE Fifo --------------------------------
(* What a mailbox promises its one reader: every message that was accepted, *)
(* once, in the order of the posts, and never more than SIZE of them kept.  *)
EXTENDS Naturals

CONSTANTS
    Msg,    \* messages
    NONE,   \* no message
    SIZE    \* messages a mailbox keeps

VARIABLES
    count,  \* messages accepted and not yet handed over
    queue,  \* queue[k] for k in 1..count: the messages, oldest first
    hand    \* the message the reader was given and has not finished with

Init == count = 0 /\ queue = [k \in 1..0 |-> NONE] /\ hand = NONE

(* A message is accepted: it waits behind all others, *)
Put(m) ==
    /\ count < SIZE
    /\ count' = count + 1
    /\ queue' = [k \in 1..count+1 |-> IF k = count + 1 THEN m ELSE queue[k]]
    /\ hand' = hand

(* or goes straight to a reader who found none. *)
Pass(m) == count = 0 /\ hand = NONE /\ hand' = m /\ UNCHANGED <<count, queue>>

(* The reader takes the oldest, *)
Get ==
    /\ count > 0 /\ hand = NONE
    /\ hand' = queue[1]
    /\ count' = count - 1
    /\ queue' = [k \in 1..count-1 |-> queue[k+1]]

(* and comes back when it is done with it. *)
Finish == hand # NONE /\ hand' = NONE /\ UNCHANGED <<count, queue>>

Next == (\E m \in Msg : Put(m) \/ Pass(m)) \/ Get \/ Finish

Spec == Init /\ [][Next]_<<count, queue, hand>>
=============================================================================
