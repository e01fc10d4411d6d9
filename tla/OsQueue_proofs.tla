---------------------------- MODULE OsQueue_proofs ----------------------------
(* A mailbox of any size, with any timeouts and a tick counter of any width: the  *)
(* types, and that OSQPost and OSQPend implement the mailbox of Fifo. The two     *)
(* indices and the count say the same thing twice, and the reader in the wait     *)
(* list, whether or not its time is up, faces an empty queue.                     *)
(* Then the reader itself, tcpip_thread: its list of timers, for any intervals,   *)
(* and the same mailbox under its waits. What Left sums up is reasoned about by   *)
(* the least number for which a claim about it would fail.                        *)
EXTENDS TcpipThread, SequenceTheorems, WellFoundedInduction, TLAPS

(* The place of the k-th message. *)
Place(k) == IF OSQOut + k - 1 < SIZE THEN OSQOut + k - 1 ELSE OSQOut + k - 1 - SIZE

IndicesAgree ==
    OSQIn = IF OSQOut + OSQEntries < SIZE THEN OSQOut + OSQEntries
            ELSE OSQOut + OSQEntries - SIZE

QInv ==
    /\ QTypeOK
    /\ IndicesAgree
    /\ pend # "msg" => hand = NONE
    /\ InWaitList => OSQEntries = 0

-------------------------------------------------------------------------------
LEMMA QInvInit == QInit => QInv
BY QueueAssumption DEF QInit, QInv, QTypeOK, IndicesAgree, InWaitList, Index

LEMMA PostKeepsQInv ==
    ASSUME QInv, NEW m \in Msg, OSQPost(m)
    PROVE  QInv'
<1> USE QueueAssumption DEF QInv, QTypeOK, IndicesAgree, InWaitList, Index, queueVars, waitVars
<1>1. CASE PostToWaiter(m)
    BY <1>1 DEF PostToWaiter
<1>2. CASE PostToSlot(m)
    BY <1>2 DEF PostToSlot, Full, Wrapped
<1>3. QED
    BY <1>1, <1>2 DEF OSQPost

LEMMA PendKeepsQInv ==
    ASSUME QInv, NEW t \in Nat, OSQPend(t)
    PROVE  QInv'
<1> USE QueueAssumption DEF QInv, QTypeOK, IndicesAgree, InWaitList, Index, queueVars, waitVars
<1>1. CASE PendTakes
    BY <1>1 DEF PendTakes, Wrapped
<1>2. CASE PendWaits(t)
    BY <1>2 DEF PendWaits
<1>3. QED
    BY <1>1, <1>2 DEF OSQPend

LEMMA StepKeepsQInv ==
    QInv /\ [QNext]_<<queueVars, waitVars, OSTime>> => QInv'
<1> SUFFICES ASSUME QInv, [QNext]_<<queueVars, waitVars, OSTime>>
             PROVE  QInv'
    OBVIOUS
<1> USE QueueAssumption DEF QInv, QTypeOK, IndicesAgree, InWaitList, Index, queueVars, waitVars
<1>1. CASE PendExpires
    BY <1>1 DEF PendExpires
<1>2. CASE Return
    BY <1>2 DEF Return
<1>3. CASE OSTimeTick
    BY <1>3 DEF OSTimeTick
<1>4. CASE UNCHANGED <<queueVars, waitVars, OSTime>>
    BY <1>4
<1>5. CASE \E m \in Msg : OSQPost(m)
    BY <1>5, PostKeepsQInv
<1>6. CASE \E t \in Timeout : OSQPend(t)
    <2>1. PICK t \in Timeout : OSQPend(t)
        BY <1>6
    <2>2. t \in Nat
        OBVIOUS
    <2>3. QED
        BY <2>1, <2>2, PendKeepsQInv
<1>7. QED
    BY <1>1, <1>2, <1>3, <1>4, <1>5, <1>6 DEF QNext

LEMMA QInvHolds == QSpec => []QInv
BY QInvInit, StepKeepsQInv, PTL DEF QSpec

(* Indices and count stay in the array through every post, wait, timeout and tick *)
(* (os_q.c).                                                                     *)
THEOREM QueueTypeCorrect == QSpec => []QTypeOK
BY QInvHolds, PTL DEF QInv

-------------------------------------------------------------------------------
(* A post to a waiting reader passes the message; any other appends it. *)
LEMMA PostIsFifo ==
    ASSUME QInv, NEW m \in Msg, OSQPost(m)
    PROVE  Mailbox!Put(m) \/ Mailbox!Pass(m)
<1> USE QueueAssumption DEF QInv, QTypeOK, Index, queueVars, waitVars
<1>1. CASE PostToWaiter(m)
    <2>1. OSQEntries = 0 /\ hand = NONE /\ hand' = m /\ UNCHANGED queueVars
        BY <1>1 DEF PostToWaiter, InWaitList
    <2>2. UNCHANGED [k \in 1..OSQEntries |-> Nth(k)]
        BY <2>1 DEF Nth
    <2>3. QED
        BY <2>1, <2>2 DEF Mailbox!Pass
<1>2. CASE PostToSlot(m)
    <2>1. /\ OSQEntries < SIZE /\ OSQEntries' = OSQEntries + 1
          /\ slots' = [slots EXCEPT ![OSQIn] = m]
          /\ UNCHANGED <<hand, OSQOut>>
        BY <1>2 DEF PostToSlot, Full
    <2>2. \A k \in 1..OSQEntries+1 :
              Place(k) \in Index /\ (Place(k) = OSQIn <=> k = OSQEntries + 1)
        BY <2>1 DEF Place, IndicesAgree
    <2>3. \A k \in 1..OSQEntries+1 :
              Nth(k)' = IF k = OSQEntries + 1 THEN m ELSE Nth(k)
        BY <2>1, <2>2 DEF Nth, Place
    <2>4. [k \in 1..OSQEntries |-> Nth(k)]'
              = [k \in 1..OSQEntries+1 |->
                    IF k = OSQEntries + 1 THEN m ELSE [j \in 1..OSQEntries |-> Nth(j)][k]]
        BY <2>1, <2>3
    <2>5. QED
        BY <2>1, <2>4 DEF Mailbox!Put
<1>3. QED
    BY <1>1, <1>2 DEF OSQPost

(* What the reader takes is the first, and the others move up. *)
LEMMA TakeIsFifo ==
    ASSUME QInv, PendTakes
    PROVE  Mailbox!Get
<1> USE QueueAssumption DEF QInv, QTypeOK, Index
<1>1. /\ OSQEntries > 0 /\ OSQEntries' = OSQEntries - 1
      /\ OSQOut' = Wrapped(OSQOut + 1)
      /\ hand = NONE /\ hand' = slots[OSQOut]
      /\ UNCHANGED slots
    BY DEF PendTakes
<1>2. Nth(1) = slots[OSQOut]
    BY DEF Nth
<1>3. \A k \in 1..OSQEntries-1 : Nth(k)' = Nth(k + 1)
    BY <1>1 DEF Nth, Wrapped
<1>4. [k \in 1..OSQEntries |-> Nth(k)]'
          = [k \in 1..OSQEntries-1 |-> [j \in 1..OSQEntries |-> Nth(j)][k + 1]]
    BY <1>1, <1>3
<1>5. QED
    BY <1>1, <1>2, <1>4 DEF Mailbox!Get

(* Waits, timeouts and ticks do not touch the messages. *)
LEMMA RestIsFifo ==
    ASSUME QInv,
           \/ \E t \in Nat : PendWaits(t)
           \/ PendExpires \/ Return \/ OSTimeTick
           \/ UNCHANGED <<queueVars, waitVars, OSTime>>
    PROVE  \/ Mailbox!Finish
           \/ UNCHANGED <<OSQEntries, [k \in 1..OSQEntries |-> Nth(k)], hand>>
<1>1. UNCHANGED queueVars
    BY DEF PendWaits, PendExpires, Return, OSTimeTick
<1>2. UNCHANGED <<OSQEntries, [k \in 1..OSQEntries |-> Nth(k)]>>
    BY <1>1 DEF Nth, queueVars
<1>3. UNCHANGED hand \/ (hand # NONE /\ hand' = NONE)
    BY DEF PendWaits, PendExpires, Return, OSTimeTick, waitVars
<1>4. QED
    BY <1>2, <1>3 DEF Mailbox!Finish

QueueStep ==
    \/ \E m \in Msg : OSQPost(m)
    \/ PendTakes
    \/ \E t \in Nat : PendWaits(t)
    \/ PendExpires \/ Return \/ OSTimeTick
    \/ UNCHANGED <<queueVars, waitVars, OSTime>>

LEMMA StepIsFifo ==
    QInv /\ QueueStep
        => [Mailbox!Next]_<<OSQEntries, [k \in 1..OSQEntries |-> Nth(k)], hand>>
BY PostIsFifo, TakeIsFifo, RestIsFifo DEF QueueStep, Mailbox!Next

(* OSQPost and OSQPend, with all races of posts, timeouts and the reader, hand    *)
(* over every accepted message once and in order, for any size of the queue.     *)
THEOREM QueueIsMailbox == QSpec => IsMailbox
<1>1. QInit => Mailbox!Init
    BY DEF QInit, Mailbox!Init
<1>2. QInv /\ [QNext]_<<queueVars, waitVars, OSTime>>
          => [Mailbox!Next]_<<OSQEntries, [k \in 1..OSQEntries |-> Nth(k)], hand>>
    <2> SUFFICES ASSUME QInv, [QNext]_<<queueVars, waitVars, OSTime>>
                 PROVE  QueueStep
        BY StepIsFifo
    <2>1. (\E t \in Timeout : OSQPend(t)) => PendTakes \/ \E t \in Nat : PendWaits(t)
        BY QueueAssumption DEF OSQPend
    <2>2. QED
        BY <2>1 DEF QNext, QueueStep
<1>3. QED
    BY <1>1, <1>2, QInvHolds, PTL DEF QSpec, IsMailbox, Mailbox!Spec

-------------------------------------------------------------------------------
(* A set of natural numbers that is not empty has a least one: what the proofs by  *)
(* least counterexample below rest on.                                            *)
LEMMA LeastNumber ==
    ASSUME NEW T, T \subseteq Nat, T # {}
    PROVE  \E x \in T : \A y \in T : x <= y
<1>1. PICK x \in T : \A y \in T : ~(<<y, x>> \in OpToRel(<, Nat))
    BY NatLessThanWellFounded, WFMin
<1>2. \A y \in T : <<y, x>> \in OpToRel(<, Nat) <=> y < x
    BY DEF OpToRel
<1>3. \A y \in T : ~(y < x)
    BY <1>1, <1>2, Zenon
<1>4. x \in T
    OBVIOUS
<1> HIDE <1>1, <1>2
<1>5. QED
    BY <1>3, <1>4, SMT

(* g is the function that Left sums up with, as far as k. *)
IsSum(l, k, g) == g = [n \in 0..k |-> IF n = 0 THEN 0 ELSE g[n-1] + l[n].time]

LEMMA SumExists ==
    ASSUME NEW l
    PROVE  \A k \in Nat : \E g : IsSum(l, k, g)
<1> DEFINE T == {k \in Nat : ~ \E g : IsSum(l, k, g)}
<1>1. 0 \notin T
    <2>1. IsSum(l, 0, [n \in 0..0 |-> 0])
        BY DEF IsSum
    <2>2. QED
        BY <2>1
<1>2. ASSUME NEW k \in Nat, k \notin T
      PROVE  k + 1 \notin T
    <2>1. PICK g : IsSum(l, k, g)
        BY <1>2
    <2> DEFINE f == [n \in 0..k+1 |-> IF n = k + 1 THEN g[k] + l[k+1].time ELSE g[n]]
    <2>2. \A n \in 0..k : g[n] = IF n = 0 THEN 0 ELSE g[n-1] + l[n].time
        BY <2>1 DEF IsSum
    <2>3. ASSUME NEW n \in 0..k+1
          PROVE  f[n] = IF n = 0 THEN 0 ELSE f[n-1] + l[n].time
        <3>1. CASE n = k + 1
            BY <3>1
        <3>2. CASE n # k + 1
            BY <3>2, <2>2
        <3>3. QED
            BY <3>1, <3>2
    <2>4. IsSum(l, k + 1, f)
        <3> DEFINE h == [n \in 0..k+1 |-> IF n = 0 THEN 0 ELSE f[n-1] + l[n].time]
        <3>1. \A n \in 0..k+1 : f[n] = h[n]
            BY <2>3
        <3>2. f = h
            BY <3>1
        <3>3. QED
            BY <3>2 DEF IsSum
    <2>5. QED
        BY <2>4
<1>3. T = {}
    <2> SUFFICES ASSUME T # {}
                 PROVE  FALSE
        OBVIOUS
    <2>1. PICK x \in T : \A y \in T : x <= y
        BY LeastNumber
    <2> HIDE DEF T
    <2>2. x \in Nat /\ x # 0
        BY <1>1 DEF T
    <2>3. x - 1 \in Nat /\ x - 1 \notin T /\ (x - 1) + 1 = x
        BY <2>1, <2>2
    <2>4. QED
        BY <1>2, <2>3
<1>4. QED
    BY <1>3

LEMMA SumUnique ==
    ASSUME NEW l, NEW k \in Nat, NEW j \in Nat, k <= j, NEW g, NEW f,
           IsSum(l, k, g), IsSum(l, j, f)
    PROVE  \A n \in 0..k : g[n] = f[n]
<1> DEFINE T == {n \in 0..k : g[n] # f[n]}
<1>1. \A n \in 0..k : /\ g[n] = IF n = 0 THEN 0 ELSE g[n-1] + l[n].time
                      /\ f[n] = IF n = 0 THEN 0 ELSE f[n-1] + l[n].time
    BY DEF IsSum
<1> SUFFICES ASSUME T # {}
             PROVE  FALSE
    OBVIOUS
<1>2. PICK x \in T : \A y \in T : x <= y
    <2>1. T \subseteq Nat
        OBVIOUS
    <2> HIDE DEF T
    <2>2. QED
        BY <2>1, LeastNumber
<1>3. x \in 0..k /\ g[x] # f[x]
    OBVIOUS
<1>4. x # 0
    BY <1>1, <1>3
<1>5. x - 1 \in 0..k /\ g[x-1] = f[x-1]
    BY <1>2, <1>3, <1>4
<1>6. QED
    BY <1>1, <1>3, <1>4, <1>5

(* What Left computes: the sum up to k, step by step. *)
LEMMA LeftIsSum ==
    ASSUME NEW l, NEW k \in Nat
    PROVE  \E g : IsSum(l, k, g) /\ Left(l, k) = g[k]
<1>1. \E g : g = [n \in 0..k |-> IF n = 0 THEN 0 ELSE g[n-1] + l[n].time]
    BY SumExists DEF IsSum
<1>2. QED
    BY <1>1, Zenon DEF Left, IsSum

LEMMA LeftStep ==
    ASSUME NEW l
    PROVE  /\ Left(l, 0) = 0
           /\ \A k \in Nat : Left(l, k + 1) = Left(l, k) + l[k+1].time
<1>1. Left(l, 0) = 0
    <2>1. PICK g : IsSum(l, 0, g) /\ Left(l, 0) = g[0]
        BY LeftIsSum
    <2>2. QED
        BY <2>1 DEF IsSum
<1>2. ASSUME NEW k \in Nat
      PROVE  Left(l, k + 1) = Left(l, k) + l[k+1].time
    <2>1. PICK g : IsSum(l, k, g) /\ Left(l, k) = g[k]
        BY LeftIsSum
    <2>2. PICK f : IsSum(l, k + 1, f) /\ Left(l, k + 1) = f[k+1]
        BY LeftIsSum
    <2>3. g[k] = f[k]
        BY <2>1, <2>2, SumUnique
    <2>4. f[k+1] = f[k] + l[k+1].time
        BY <2>2 DEF IsSum
    <2>5. QED
        BY <2>1, <2>2, <2>3, <2>4
<1>3. QED
    BY <1>1, <1>2

(* A function that adds up the same differences is Left. *)
AddsUp(l, m, f) ==
    /\ m \in Nat /\ f[0] = 0
    /\ \A k \in 1..m : f[k] = f[k-1] + l[k].time

LEMMA LeftIs ==
    ASSUME NEW l, NEW m, NEW f, AddsUp(l, m, f)
    PROVE  \A k \in 0..m : Left(l, k) = f[k]
<1>1. /\ m \in Nat /\ f[0] = 0
      /\ \A k \in 1..m : f[k] = f[k-1] + l[k].time
    BY DEF AddsUp
<1> DEFINE T == {k \in 0..m : Left(l, k) # f[k]}
<1> SUFFICES ASSUME T # {}
             PROVE  FALSE
    OBVIOUS
<1>2. PICK x \in T : \A y \in T : x <= y
    <2>1. T \subseteq Nat
        BY <1>1
    <2> HIDE DEF T
    <2>2. QED
        BY <2>1, LeastNumber
<1>3. x \in 0..m /\ Left(l, x) # f[x]
    OBVIOUS
<1>4. x # 0
    BY <1>1, <1>3, LeftStep
<1>5. x - 1 \in 0..m /\ Left(l, x - 1) = f[x-1] /\ x - 1 \in Nat /\ (x - 1) + 1 = x
    BY <1>1, <1>2, <1>3, <1>4
<1>6. Left(l, x) = Left(l, x - 1) + l[x].time
    BY <1>5, LeftStep
<1>7. QED
    BY <1>1, <1>3, <1>4, <1>5, <1>6

-------------------------------------------------------------------------------
(* Lists of timers *)
Timers == Seq([time: Nat, h: Handler])

(* No timer is due later than its interval after it was set. *)
Due(l) == \A k \in 1..Len(l) : Left(l, k) <= Interval[l[k].h]

LEMMA IntervalTyped ==
    /\ Handler = {"tcp", "ip", "arp"}
    /\ \A h \in Handler : Interval[h] \in Nat \ {0}
BY ThreadAssumption DEF Handler

LEMMA TimersTyped ==
    ASSUME NEW l \in Timers
    PROVE  /\ Len(l) \in Nat
           /\ \A k \in 1..Len(l) : l[k] \in [time: Nat, h: Handler]
                                   /\ l[k].time \in Nat /\ l[k].h \in Handler
<1>1. l \in Seq([time: Nat, h: Handler])
    BY DEF Timers
<1>2. Len(l) \in Nat
    BY <1>1, LenProperties
<1>3. \A k \in 1..Len(l) : l[k] \in [time: Nat, h: Handler]
    BY <1>1, ElementOfSeq
<1>4. QED
    BY <1>2, <1>3

LEMMA LeftTyped ==
    ASSUME NEW l \in Timers
    PROVE  /\ \A k \in 0..Len(l) : Left(l, k) \in Nat
           /\ \A k \in 1..Len(l) : Left(l, k) = Left(l, k-1) + l[k].time
<1> DEFINE T == {k \in 0..Len(l) : Left(l, k) \notin Nat}
<1>1. \A k \in 1..Len(l) : Left(l, k) = Left(l, k-1) + l[k].time
    <2>1. ASSUME NEW k \in 1..Len(l)
          PROVE  Left(l, k) = Left(l, k-1) + l[k].time
        <3>1. k - 1 \in Nat /\ (k - 1) + 1 = k
            BY TimersTyped
        <3>2. QED
            BY <3>1, LeftStep
    <2>2. QED
        BY <2>1
<1>2. ASSUME T # {}
      PROVE  FALSE
    <2>1. PICK x \in T : \A y \in T : x <= y
        <3>1. T \subseteq Nat
            BY TimersTyped
        <3> HIDE DEF T
        <3>2. QED
            BY <1>2, <3>1, LeastNumber
    <2>2. x \in 0..Len(l) /\ Left(l, x) \notin Nat /\ Len(l) \in Nat
        BY TimersTyped
    <2>3. x # 0
        BY <2>2, LeftStep
    <2>4. x \in 1..Len(l) /\ Left(l, x-1) \in Nat
        BY <2>1, <2>2, <2>3
    <2>5. QED
        BY <1>1, <2>2, <2>4, TimersTyped
<1>3. QED
    BY <1>1, <1>2

(* The timers that end no later than a new one, and the last of them. *)
Before(l, h) == {k \in 1..Len(l) : Left(l, k) <= Interval[h]}
Last(l, h) ==
    IF Before(l, h) = {} THEN 0
    ELSE CHOOSE k \in Before(l, h) : \A j \in Before(l, h) : j <= k

LEMMA LastTyped ==
    ASSUME NEW l \in Timers, NEW h \in Handler
    PROVE  /\ Last(l, h) \in 0..Len(l)
           /\ Left(l, Last(l, h)) <= Interval[h]
           /\ Last(l, h) < Len(l) => Interval[h] < Left(l, Last(l, h) + 1)
<1> DEFINE B == Before(l, h)
<1>1. Len(l) \in Nat /\ B \subseteq 1..Len(l) /\ Interval[h] \in Nat
    BY TimersTyped, IntervalTyped DEF Before
<1>2. CASE B = {}
    <2>1. Last(l, h) = 0 /\ Left(l, 0) = 0
        BY <1>2, LeftStep DEF Last
    <2>2. Len(l) > 0 => Left(l, 1) \in Nat /\ ~(Left(l, 1) <= Interval[h])
        BY <1>1, <1>2, LeftTyped DEF Before
    <2>3. QED
        BY <1>1, <2>1, <2>2
<1>3. CASE B # {}
    <2> DEFINE T == {Len(l) - k : k \in B}
    <2>1. T \subseteq Nat /\ T # {}
        BY <1>1, <1>3
    <2>2. PICK x \in T : \A y \in T : x <= y
        <3> HIDE DEF T
        <3>1. QED
            BY <2>1, LeastNumber
    <2>3. PICK k \in B : x = Len(l) - k
        BY <2>2
    <2>4. ASSUME NEW j \in B
          PROVE  j <= k
        <3>1. Len(l) - j \in T
            OBVIOUS
        <3>2. x <= Len(l) - j
            BY <2>2, <3>1
        <3>3. j \in Nat /\ k \in Nat
            BY <1>1, <2>3
        <3> HIDE DEF T, B
        <3>4. QED
            BY <1>1, <2>3, <3>2, <3>3
    <2>5. Last(l, h) \in B /\ \A j \in B : j <= Last(l, h)
        BY <1>3, <2>4 DEF Last
    <2>6. /\ Last(l, h) \in 1..Len(l) /\ Left(l, Last(l, h)) <= Interval[h]
        BY <2>5 DEF Before
    <2>7. ASSUME Last(l, h) < Len(l)
          PROVE  Interval[h] < Left(l, Last(l, h) + 1)
        <3>1. Last(l, h) + 1 \in 1..Len(l) /\ Last(l, h) + 1 \notin B
            BY <1>1, <2>5, <2>6, <2>7
        <3>2. Left(l, Last(l, h) + 1) \in Nat
            BY <1>1, <3>1, LeftTyped
        <3>3. QED
            BY <1>1, <3>1, <3>2 DEF Before
    <2>8. QED
        BY <1>1, <2>6, <2>7
<1>4. QED
    BY <1>2, <1>3

(* sys_timeout puts the new timer behind that one, *)
LEMMA TimeoutInserts ==
    ASSUME NEW l \in Timers, NEW h \in Handler
    PROVE  LET r == sys_timeout(l, h)
               n == Last(l, h)
               time == Interval[h] - Left(l, n)
           IN  /\ r \in Timers /\ Len(r) = Len(l) + 1
               /\ n \in 0..Len(l) /\ time \in Nat
               /\ \A k \in 1..n : r[k] = l[k]
               /\ r[n+1] = [time |-> time, h |-> h]
               /\ n < Len(l) => r[n+2] = [l[n+1] EXCEPT !.time = @ - time]
               /\ \A k \in n+2..Len(l) : r[k+1] = l[k]
<1> DEFINE n == Last(l, h)
           time == Interval[h] - Left(l, n)
           Rec == [time: Nat, h: Handler]
           head == SubSeq(l, 1, n)
           new == <<[time |-> time, h |-> h]>>
           rest == SubSeq(l, n + 1, Len(l))
           tail == IF rest = <<>> THEN <<>> ELSE <<After(Head(rest), time)>> \o Tail(rest)
           r == sys_timeout(l, h)
<1>1. r = (head \o new) \o tail
    BY DEF sys_timeout, Last, Before
<1>2. /\ n \in 0..Len(l) /\ Len(l) \in Nat /\ time \in Nat
      /\ n < Len(l) => Interval[h] < Left(l, n+1) /\ Left(l, n+1) = Left(l, n) + l[n+1].time
                       /\ Left(l, n) \in Nat /\ Interval[h] \in Nat
    <2>1. n \in 0..Len(l) /\ Left(l, n) <= Interval[h]
          /\ (n < Len(l) => Interval[h] < Left(l, n+1))
        BY LastTyped
    <2>2. Len(l) \in Nat /\ Interval[h] \in Nat /\ Left(l, n) \in Nat
        BY <2>1, LeftTyped, TimersTyped, IntervalTyped
    <2> HIDE DEF n
    <2>3. n < Len(l) => Left(l, n+1) = Left(l, n) + l[n+1].time
        <3>1. n \in Nat
            BY <2>1, <2>2
        <3>2. QED
            BY <3>1, LeftStep
    <2>4. time \in Nat
        BY <2>1, <2>2
    <2>5. QED
        BY <2>1, <2>2, <2>3, <2>4
<1> HIDE DEF n, time
<1>3. head \in Seq(Rec) /\ Len(head) = n /\ \A k \in 1..n : head[k] = l[k]
    BY <1>2, SubSeqProperties, TimersTyped
<1>4. /\ rest \in Seq(Rec) /\ Len(rest) = Len(l) - n
      /\ \A k \in 1..Len(l)-n : rest[k] = l[n+k]
    <2>1. \A k \in n+1..Len(l) : l[k] \in Rec
        BY <1>2, TimersTyped
    <2>2. /\ rest \in Seq(Rec)
          /\ Len(rest) = IF n + 1 <= Len(l) THEN Len(l) - (n + 1) + 1 ELSE 0
          /\ \A k \in 1..Len(l)-(n+1)+1 : rest[k] = l[(n+1)+k-1]
        BY <1>2, <2>1, SubSeqProperties
    <2> HIDE DEF rest
    <2>3. Len(rest) = Len(l) - n
        BY <1>2, <2>2
    <2>4. ASSUME NEW k \in 1..Len(l)-n
          PROVE  rest[k] = l[n+k]
        <3>1. k \in 1..Len(l)-(n+1)+1 /\ (n+1)+k-1 = n+k
            BY <1>2
        <3>2. QED
            BY <2>2, <3>1
    <2>5. QED
        BY <2>2, <2>3, <2>4
<1>5. new \in Seq(Rec) /\ Len(new) = 1 /\ new[1] = [time |-> time, h |-> h]
    BY <1>2
<1> HIDE DEF head, rest, new
<1>6. /\ tail \in Seq(Rec) /\ Len(tail) = Len(rest)
      /\ n < Len(l) => tail[1] = [l[n+1] EXCEPT !.time = @ - time]
      /\ \A k \in 2..Len(rest) : tail[k] = rest[k]
    <2>1. CASE rest = <<>>
        BY <1>2, <1>4, <2>1, EmptySeq
    <2>2. CASE rest # <<>>
        <3>1. /\ Head(rest) = rest[1] /\ Tail(rest) \in Seq(Rec)
              /\ Len(Tail(rest)) = Len(rest) - 1
              /\ \A k \in 1..Len(rest)-1 : Tail(rest)[k] = rest[k+1]
            BY <1>4, <2>2, HeadTailProperties
        <3>2. n < Len(l) /\ rest[1] = l[n+1] /\ Len(rest) \in Nat \ {0}
            BY <1>2, <1>4, <2>2, EmptySeq, LenProperties
        <3> DEFINE a == After(Head(rest), time)
        <3>3. a = [l[n+1] EXCEPT !.time = @ - time] /\ a \in Rec
            <4>1. l[n+1] \in Rec /\ l[n+1].time \in Nat
                BY <1>2, <3>2, TimersTyped
            <4>2. l[n+1].time - time \in Nat
                BY <1>2, <3>2, <4>1 DEF time
            <4>3. QED
                BY <3>1, <3>2, <4>1, <4>2 DEF After
        <3> HIDE DEF a
        <3>4. <<a>> \in Seq(Rec) /\ Len(<<a>>) = 1 /\ <<a>>[1] = a
            BY <3>3
        <3>5. tail = <<a>> \o Tail(rest)
            BY <2>2 DEF a
        <3>6. /\ tail \in Seq(Rec) /\ Len(tail) = 1 + (Len(rest) - 1) /\ tail[1] = a
              /\ \A k \in 1..Len(rest)-1 : tail[k+1] = Tail(rest)[k]
            BY <3>1, <3>2, <3>4, <3>5, ConcatProperties
        <3> HIDE DEF tail
        <3>7. ASSUME NEW k \in 2..Len(rest)
              PROVE  tail[k] = rest[k]
            <4>1. k - 1 \in 1..Len(rest)-1 /\ (k - 1) + 1 = k
                BY <3>2
            <4>2. QED
                BY <3>1, <3>6, <4>1
        <3>8. QED
            BY <3>2, <3>3, <3>6, <3>7
    <2>3. QED
        BY <2>1, <2>2
<1> HIDE DEF tail
<1> DEFINE front == head \o new
<1>7. /\ front \in Seq(Rec) /\ Len(front) = n + 1
      /\ \A k \in 1..n : front[k] = l[k]
      /\ front[n+1] = [time |-> time, h |-> h]
    <2>1. /\ front \in Seq(Rec) /\ Len(front) = Len(head) + Len(new)
          /\ \A k \in 1..Len(head)+Len(new) :
                 front[k] = IF k <= Len(head) THEN head[k] ELSE new[k-Len(head)]
        BY <1>3, <1>5, ConcatProperties
    <2> HIDE DEF front
    <2>2. \A k \in 1..n+1 : front[k] = IF k <= n THEN head[k] ELSE new[k-n]
        BY <1>2, <1>3, <1>5, <2>1
    <2>3. \A k \in 1..n : k \in 1..n+1 /\ k <= n
        BY <1>2
    <2>4. \A k \in 1..n : front[k] = l[k]
        BY <1>3, <2>2, <2>3
    <2>5. front[n+1] = new[1]
        <3>1. n + 1 \in 1..n+1 /\ ~(n + 1 <= n) /\ (n + 1) - n = 1
            BY <1>2
        <3>2. QED
            BY <2>2, <3>1
    <2>6. QED
        BY <1>3, <1>5, <2>1, <2>4, <2>5
<1>8. r = front \o tail
    BY <1>1
<1> HIDE DEF front, r
<1>9. /\ r \in Seq(Rec) /\ Len(r) = (n + 1) + (Len(l) - n)
      /\ \A k \in 1..n+1 : r[k] = front[k]
      /\ \A k \in 1..Len(l)-n : r[n+1+k] = tail[k]
    <2> DEFINE whole == front \o tail
    <2>0. /\ whole \in Seq(Rec) /\ Len(whole) = Len(front) + Len(tail)
          /\ \A k \in 1..Len(front)+Len(tail) :
                 whole[k] = IF k <= Len(front) THEN front[k] ELSE tail[k-Len(front)]
        <3>1. front \in Seq(Rec) /\ tail \in Seq(Rec)
            BY <1>6, <1>7
        <3> HIDE DEF Rec
        <3>2. QED
            BY <3>1, ConcatProperties, Zenon
    <2>1. /\ r \in Seq(Rec) /\ Len(r) = Len(front) + Len(tail)
          /\ \A k \in 1..Len(front)+Len(tail) :
                 r[k] = IF k <= Len(front) THEN front[k] ELSE tail[k-Len(front)]
        BY <1>8, <2>0
    <2>2. Len(front) = n + 1 /\ Len(tail) = Len(l) - n
        BY <1>4, <1>6, <1>7
    <2>3. \A k \in 1..(n+1)+(Len(l)-n) : r[k] = IF k <= n + 1 THEN front[k] ELSE tail[k-(n+1)]
        BY <2>1, <2>2
    <2>4. \A k \in 1..n+1 : k \in 1..(n+1)+(Len(l)-n) /\ k <= n + 1
        BY <1>2
    <2>5. \A k \in 1..Len(l)-n : /\ n+1+k \in 1..(n+1)+(Len(l)-n)
                                /\ ~(n+1+k <= n+1) /\ (n+1+k)-(n+1) = k
        BY <1>2
    <2>6. \A k \in 1..n+1 : r[k] = front[k]
        BY <2>3, <2>4
    <2>7. \A k \in 1..Len(l)-n : r[n+1+k] = tail[k]
        BY <2>3, <2>5
    <2>8. QED
        BY <2>1, <2>2, <2>6, <2>7
<1>10. \A k \in 1..n : r[k] = l[k]
    <2>1. \A k \in 1..n : k \in 1..n+1
        BY <1>2
    <2>2. QED
        BY <1>7, <1>9, <2>1
<1>11. r[n+1] = [time |-> time, h |-> h]
    <2>1. n + 1 \in 1..n+1
        BY <1>2
    <2>2. QED
        BY <1>7, <1>9, <2>1
<1>12. ASSUME n < Len(l)
       PROVE  r[n+2] = [l[n+1] EXCEPT !.time = @ - time]
    <2>1. 1 \in 1..Len(l)-n /\ n+1+1 = n+2
        BY <1>2, <1>12
    <2>2. r[n+2] = tail[1]
        BY <1>9, <2>1
    <2>3. QED
        BY <1>6, <1>12, <2>2
<1>13. ASSUME NEW k \in n+2..Len(l)
       PROVE  r[k+1] = l[k]
    <2>1. /\ k - n \in 2..Len(l)-n /\ k - n \in 1..Len(l)-n /\ (n + 1) + (k - n) = k + 1
          /\ n + (k - n) = k
        BY <1>2
    <2>2. r[k+1] = tail[k-n]
        BY <1>9, <2>1
    <2>3. tail[k-n] = rest[k-n] /\ rest[k-n] = l[k]
        BY <1>4, <1>6, <2>1
    <2>4. QED
        BY <2>2, <2>3
<1>14. Len(r) = Len(l) + 1
    BY <1>2, <1>9
<1>15. QED
    BY <1>2, <1>9, <1>10, <1>11, <1>12, <1>13, <1>14 DEF Timers, r, n, time

(* so that it is due after its interval, and the others when they were. *)
LEMMA TimeoutWhere ==
    ASSUME NEW l \in Timers, NEW h \in Handler
    PROVE  LET r == sys_timeout(l, h)
               n == Last(l, h)
           IN  /\ r \in Timers /\ Len(r) = Len(l) + 1 /\ n \in 0..Len(l)
               /\ \A k \in 1..Len(l)+1 :
                     r[k].h = IF k <= n THEN l[k].h ELSE IF k = n + 1 THEN h ELSE l[k-1].h
               /\ \A k \in 1..Len(l)+1 :
                     Left(r, k) = IF k <= n THEN Left(l, k)
                                  ELSE IF k = n + 1 THEN Interval[h] ELSE Left(l, k-1)
<1> DEFINE r == sys_timeout(l, h)
           n == Last(l, h)
           time == Interval[h] - Left(l, n)
           f == [k \in 0..Len(l)+1 |-> IF k <= n THEN Left(l, k)
                                       ELSE IF k = n + 1 THEN Interval[h] ELSE Left(l, k-1)]
<1>1. /\ r \in Timers /\ Len(r) = Len(l) + 1
      /\ n \in 0..Len(l) /\ time \in Nat
      /\ \A k \in 1..n : r[k] = l[k]
      /\ r[n+1] = [time |-> time, h |-> h]
      /\ n < Len(l) => r[n+2] = [l[n+1] EXCEPT !.time = @ - time]
      /\ \A k \in n+2..Len(l) : r[k+1] = l[k]
    BY TimeoutInserts
<1>2. /\ Len(l) \in Nat /\ Interval[h] \in Nat
      /\ \A k \in 0..Len(l) : Left(l, k) \in Nat
      /\ \A k \in 1..Len(l) : Left(l, k) = Left(l, k-1) + l[k].time
      /\ \A k \in 1..Len(l) : l[k] \in [time: Nat, h: Handler] /\ l[k].time \in Nat
    BY TimersTyped, LeftTyped, IntervalTyped
<1>3. Left(l, 0) = 0 /\ time = Interval[h] - Left(l, n)
    BY LeftStep
<1> HIDE DEF r, n, time
<1>4. /\ \A k \in 1..n : r[k].time = l[k].time /\ r[k].h = l[k].h
      /\ r[n+1].time = time /\ r[n+1].h = h
      /\ n < Len(l) => r[n+2].time = l[n+1].time - time /\ r[n+2].h = l[n+1].h
      /\ \A k \in n+2..Len(l) : r[k+1].time = l[k].time /\ r[k+1].h = l[k].h
    <2>1. ASSUME n < Len(l)
          PROVE  r[n+2].time = l[n+1].time - time /\ r[n+2].h = l[n+1].h
        <3>1. n + 1 \in 1..Len(l)
            BY <1>1, <1>2, <2>1
        <3>2. l[n+1] \in [time: Nat, h: Handler]
            BY <1>2, <3>1
        <3>3. r[n+2] = [l[n+1] EXCEPT !.time = @ - time]
            BY <1>1, <2>1
        <3>4. QED
            BY <3>2, <3>3
    <2>2. QED
        BY <1>1, <2>1, SMTT(20)
<1>5. ASSUME NEW k \in 1..Len(l)+1
      PROVE  /\ r[k].h = IF k <= n THEN l[k].h ELSE IF k = n + 1 THEN h ELSE l[k-1].h
             /\ f[k] = f[k-1] + r[k].time
    <2>0. n \in Nat /\ n <= Len(l) /\ Len(l) \in Nat /\ k \in Nat \ {0} /\ k <= Len(l) + 1
        BY <1>1, <1>2
    <2>1. CASE k <= n
        <3>1. /\ k \in 1..n /\ k \in 1..Len(l) /\ k \in 0..Len(l)+1 /\ k - 1 \in 0..Len(l)+1
              /\ k - 1 <= n
            BY <1>1, <1>2, <2>1
        <3>2. f[k] = Left(l, k) /\ f[k-1] = Left(l, k-1)
            BY <2>1, <3>1
        <3>3. QED
            BY <1>2, <1>4, <2>1, <3>1, <3>2
    <2>2. CASE k = n + 1
        <3>1. /\ k \in 0..Len(l)+1 /\ k - 1 \in 0..Len(l)+1 /\ k - 1 = n /\ ~(k <= n)
              /\ n \in 0..Len(l)
            BY <1>1, <1>2, <2>2
        <3>2. f[k] = Interval[h] /\ f[k-1] = Left(l, n) /\ Left(l, n) \in Nat
            BY <1>2, <2>2, <3>1
        <3>3. r[k].time = time /\ r[k].h = h
            BY <1>4, <2>2
        <3>4. f[k] = f[k-1] + r[k].time
            BY <1>2, <1>3, <3>2, <3>3
        <3>5. QED
            BY <2>2, <3>1, <3>3, <3>4
    <2>3. CASE k = n + 2
        <3>1. /\ n < Len(l) /\ n + 1 \in 1..Len(l) /\ n \in 0..Len(l)
              /\ k \in 0..Len(l)+1 /\ k - 1 \in 0..Len(l)+1
              /\ k - 1 = n + 1 /\ ~(k <= n) /\ k # n + 1 /\ ~(k - 1 <= n) /\ n + 1 - 1 = n
            BY <2>0, <2>3
        <3>2. f[k] = Left(l, n+1) /\ f[k-1] = Interval[h]
            BY <3>1
        <3>3. /\ Left(l, n+1) = Left(l, n) + l[n+1].time
              /\ Left(l, n) \in Nat /\ l[n+1].time \in Nat
            BY <1>2, <3>1
        <3>4. r[k].time = l[n+1].time - time /\ r[k].h = l[n+1].h
            BY <1>4, <2>3, <3>1
        <3>5. f[k] = f[k-1] + r[k].time
            <4>1. Interval[h] \in Nat
                BY <1>2
            <4> HIDE DEF f
            <4>2. QED
                BY <1>3, <3>2, <3>3, <3>4, <4>1
        <3>6. QED
            BY <3>1, <3>4, <3>5
    <2>4. CASE k > n + 2
        <3>1. /\ k - 1 \in n+2..Len(l) /\ k - 1 \in 1..Len(l) /\ (k - 1) + 1 = k
              /\ k \in 0..Len(l)+1 /\ k - 1 \in 0..Len(l)+1
              /\ ~(k <= n) /\ k # n + 1 /\ ~(k - 1 <= n) /\ k - 1 # n + 1
            BY <2>0, <2>4
        <3>2. f[k] = Left(l, k-1) /\ f[k-1] = Left(l, (k-1)-1)
            BY <3>1
        <3>3. r[k].time = l[k-1].time /\ r[k].h = l[k-1].h
            BY <1>4, <3>1
        <3>4. QED
            BY <1>2, <3>1, <3>2, <3>3
    <2>5. QED
        BY <1>1, <1>2, <2>1, <2>2, <2>3, <2>4
<1>6. f[0] = 0 /\ Len(l) + 1 \in Nat
    BY <1>1, <1>2, <1>3
<1>7. \A k \in 1..Len(l)+1 : f[k] = IF k <= n THEN Left(l, k)
                                   ELSE IF k = n + 1 THEN Interval[h] ELSE Left(l, k-1)
    BY <1>2
<1> HIDE DEF f
<1>8. \A k \in 0..Len(l)+1 : Left(r, k) = f[k]
    <2>1. \A k \in 1..Len(l)+1 : f[k] = f[k-1] + r[k].time
        BY <1>5
    <2>2. AddsUp(r, Len(l)+1, f)
        BY <1>6, <2>1 DEF AddsUp
    <2>3. QED
        BY <2>2, LeftIs
<1>9. \A k \in 1..Len(l)+1 : Left(r, k) = f[k]
    BY <1>2, <1>8
<1>10. /\ r \in Timers /\ Len(r) = Len(l) + 1 /\ n \in 0..Len(l)
       /\ \A k \in 1..Len(l)+1 :
             r[k].h = IF k <= n THEN l[k].h ELSE IF k = n + 1 THEN h ELSE l[k-1].h
       /\ \A k \in 1..Len(l)+1 :
             Left(r, k) = IF k <= n THEN Left(l, k)
                          ELSE IF k = n + 1 THEN Interval[h] ELSE Left(l, k-1)
    BY <1>1, <1>5, <1>7, <1>9
<1>11. QED
    BY <1>10 DEF r, n

(* No two timers run the same handler; some timer runs h. *)
Once(l) == \A j, k \in 1..Len(l) : l[j].h = l[k].h => j = k
Has(l, h) == \E k \in 1..Len(l) : l[k].h = h

Sound(l) == l \in Timers /\ Due(l) /\ Once(l)

LEMMA TimeoutKeepsSound ==
    ASSUME NEW l, Sound(l), NEW h \in Handler, ~Has(l, h)
    PROVE  /\ Sound(sys_timeout(l, h))
           /\ \A g \in Handler : Has(sys_timeout(l, h), g) <=> Has(l, g) \/ g = h
<1> DEFINE r == sys_timeout(l, h)
           n == Last(l, h)
<1>1. l \in Timers /\ Due(l) /\ Once(l)
    BY DEF Sound
<1>2. /\ r \in Timers /\ Len(r) = Len(l) + 1 /\ n \in 0..Len(l)
      /\ \A k \in 1..Len(l)+1 :
            r[k].h = IF k <= n THEN l[k].h ELSE IF k = n + 1 THEN h ELSE l[k-1].h
      /\ \A k \in 1..Len(l)+1 :
            Left(r, k) = IF k <= n THEN Left(l, k)
                         ELSE IF k = n + 1 THEN Interval[h] ELSE Left(l, k-1)
    BY <1>1, TimeoutWhere
<1>3. Len(l) \in Nat /\ Interval[h] \in Nat
    BY <1>1, TimersTyped, IntervalTyped
<1> HIDE DEF r, n
<1>4. ASSUME NEW k \in 1..Len(l)+1
      PROVE  \/ k = n + 1 /\ r[k].h = h /\ Left(r, k) = Interval[h]
             \/ \E i \in 1..Len(l) :
                   /\ r[k].h = l[i].h /\ Left(r, k) = Left(l, i)
                   /\ i = IF k <= n THEN k ELSE k - 1
    <2>1. CASE k <= n
        <3>1. k \in 1..Len(l)
            BY <1>2, <1>3, <2>1
        <3>2. QED
            BY <1>2, <2>1, <3>1
    <2>2. CASE k = n + 1
        BY <1>2, <1>3, <2>2
    <2>3. CASE ~(k <= n) /\ k # n + 1
        <3>1. k - 1 \in 1..Len(l)
            BY <1>2, <1>3, <2>3
        <3>2. QED
            BY <1>2, <2>3, <3>1
    <2>4. QED
        BY <2>1, <2>2, <2>3
<1>5. Due(r)
    <2>1. ASSUME NEW k \in 1..Len(l)+1
          PROVE  Left(r, k) <= Interval[r[k].h]
        BY <1>1, <1>3, <1>4 DEF Due
    <2>2. QED
        BY <1>2, <2>1 DEF Due
<1>6. Once(r)
    <2>1. ASSUME NEW j \in 1..Len(l)+1, NEW k \in 1..Len(l)+1, r[j].h = r[k].h
          PROVE  j = k
        <3>1. CASE j = n + 1 /\ r[j].h = h
            BY <1>2, <1>4, <2>1, <3>1 DEF Has
        <3>2. CASE k = n + 1 /\ r[k].h = h
            BY <1>2, <1>4, <2>1, <3>2 DEF Has
        <3>3. CASE ~(j = n + 1 /\ r[j].h = h) /\ ~(k = n + 1 /\ r[k].h = h)
            <4>1. PICK a \in 1..Len(l) : r[j].h = l[a].h /\ a = IF j <= n THEN j ELSE j - 1
                BY <1>4, <3>3
            <4>2. PICK b \in 1..Len(l) : r[k].h = l[b].h /\ b = IF k <= n THEN k ELSE k - 1
                BY <1>4, <3>3
            <4>3. a = b
                BY <1>1, <2>1, <4>1, <4>2 DEF Once
            <4>4. j # n + 1 /\ k # n + 1
                BY <1>2, <3>3
            <4>5. QED
                BY <1>2, <1>3, <4>1, <4>2, <4>3, <4>4
        <3>4. QED
            BY <3>1, <3>2, <3>3
    <2>2. QED
        BY <1>2, <2>1 DEF Once
<1>7. ASSUME NEW g \in Handler
      PROVE  Has(r, g) <=> Has(l, g) \/ g = h
    <2>1. Has(r, g) => Has(l, g) \/ g = h
        BY <1>2, <1>4 DEF Has
    <2>2. Has(r, h)
        <3>1. n + 1 \in 1..Len(r) /\ r[n+1].h = h
            BY <1>2, <1>3
        <3>2. QED
            BY <3>1 DEF Has
    <2>3. ASSUME NEW i \in 1..Len(l), l[i].h = g
          PROVE  Has(r, g)
        <3>1. CASE i <= n
            <4>1. i \in 1..Len(r) /\ r[i].h = g
                BY <1>2, <1>3, <2>3, <3>1
            <4>2. QED
                BY <4>1 DEF Has
        <3>2. CASE ~(i <= n)
            <4>1. i + 1 \in 1..Len(l)+1 /\ ~(i + 1 <= n) /\ i + 1 # n + 1 /\ (i + 1) - 1 = i
                BY <1>2, <1>3, <3>2
            <4>2. i + 1 \in 1..Len(r) /\ r[i+1].h = g
                BY <1>2, <2>3, <4>1
            <4>3. QED
                BY <4>2 DEF Has
        <3>3. QED
            BY <3>1, <3>2
    <2>4. QED
        BY <2>1, <2>2, <2>3 DEF Has
<1>8. QED
    BY <1>2, <1>5, <1>6, <1>7 DEF Sound, r

(* Without its first timer, *)
LEMMA TailKeepsSound ==
    ASSUME NEW l, Sound(l), l # <<>>
    PROVE  /\ Sound(Tail(l)) /\ l[1].h \in Handler
           /\ \A g \in Handler : Has(Tail(l), g) <=> Has(l, g) /\ g # l[1].h
<1> DEFINE t == Tail(l)
<1>1. l \in Timers /\ Due(l) /\ Once(l)
    BY DEF Sound
<1>2. /\ t \in Timers /\ Len(t) = Len(l) - 1 /\ Len(l) \in Nat \ {0}
      /\ \A k \in 1..Len(t) : t[k] = l[k+1]
    <2>1. /\ t \in Timers /\ Len(t) = Len(l) - 1
          /\ \A k \in 1..Len(l)-1 : t[k] = l[k+1]
        BY <1>1, HeadTailProperties DEF Timers
    <2>2. Len(l) \in Nat \ {0}
        BY <1>1, EmptySeq, LenProperties DEF Timers
    <2>3. QED
        BY <2>1, <2>2
<1>3. /\ \A k \in 0..Len(l) : Left(l, k) \in Nat
      /\ \A k \in 1..Len(l) : Left(l, k) = Left(l, k-1) + l[k].time
      /\ \A k \in 1..Len(l) : l[k].time \in Nat /\ l[k].h \in Handler /\ Interval[l[k].h] \in Nat
    BY <1>1, LeftTyped, TimersTyped, IntervalTyped
<1> DEFINE f == [k \in 0..Len(t) |-> Left(l, k+1) - Left(l, 1)]
<1> HIDE DEF t
<1>4. \A k \in 0..Len(t) : Left(t, k) = f[k]
    <2>1. f[0] = 0
        BY <1>2, <1>3
    <2>2. ASSUME NEW k \in 1..Len(t)
          PROVE  f[k] = f[k-1] + t[k].time
        <3>1. /\ k \in 0..Len(t) /\ k - 1 \in 0..Len(t) /\ k + 1 \in 1..Len(l)
              /\ (k - 1) + 1 = k /\ (k + 1) - 1 = k /\ k \in 0..Len(l) /\ 1 \in 0..Len(l)
            BY <1>2
        <3>2. Left(l, k+1) = Left(l, k) + l[k+1].time /\ t[k].time = l[k+1].time
            BY <1>2, <1>3, <3>1
        <3>3. Left(l, 1) \in Nat /\ Left(l, k) \in Nat /\ l[k+1].time \in Nat
            BY <1>3, <3>1
        <3>4. f[k] = Left(l, k+1) - Left(l, 1) /\ f[k-1] = Left(l, k) - Left(l, 1)
            BY <3>1
        <3>5. QED
            BY <3>2, <3>3, <3>4
    <2>3. Len(t) \in Nat
        BY <1>2
    <2> HIDE DEF f
    <2>4. AddsUp(t, Len(t), f)
        BY <2>1, <2>2, <2>3 DEF AddsUp
    <2>5. QED
        BY <2>4, LeftIs
<1>5. Due(t)
    <2>1. ASSUME NEW k \in 1..Len(t)
          PROVE  Left(t, k) <= Interval[t[k].h]
        <3>1. k \in 0..Len(t) /\ k + 1 \in 1..Len(l) /\ k + 1 \in 0..Len(l) /\ 1 \in 0..Len(l)
            BY <1>2
        <3>2. Left(t, k) = Left(l, k+1) - Left(l, 1) /\ t[k].h = l[k+1].h
            BY <1>2, <1>4, <3>1
        <3>3. Left(l, k+1) <= Interval[l[k+1].h]
            BY <1>1, <3>1 DEF Due
        <3>4. Left(l, 1) \in Nat /\ Left(l, k+1) \in Nat /\ Interval[l[k+1].h] \in Nat
            BY <1>3, <3>1
        <3>5. QED
            BY <3>2, <3>3, <3>4
    <2>2. QED
        BY <2>1 DEF Due
<1>6. Once(t)
    <2>1. ASSUME NEW j \in 1..Len(t), NEW k \in 1..Len(t), t[j].h = t[k].h
          PROVE  j = k
        <3>1. j + 1 \in 1..Len(l) /\ k + 1 \in 1..Len(l)
            BY <1>2
        <3>2. l[j+1].h = l[k+1].h
            BY <1>2, <2>1
        <3>3. j + 1 = k + 1
            BY <1>1, <3>1, <3>2 DEF Once
        <3>4. QED
            BY <1>2, <3>3
    <2>2. QED
        BY <2>1 DEF Once
<1>7. ASSUME NEW g \in Handler
      PROVE  Has(t, g) <=> Has(l, g) /\ g # l[1].h
    <2>1. ASSUME NEW k \in 1..Len(t), t[k].h = g
          PROVE  Has(l, g) /\ g # l[1].h
        <3>1. k + 1 \in 1..Len(l) /\ 1 \in 1..Len(l) /\ k + 1 # 1
            BY <1>2
        <3>2. l[k+1].h = g
            BY <1>2, <2>1
        <3>3. g # l[1].h
            BY <1>1, <3>1, <3>2 DEF Once
        <3>4. QED
            BY <3>1, <3>2, <3>3 DEF Has
    <2>2. ASSUME NEW k \in 1..Len(l), l[k].h = g, g # l[1].h
          PROVE  Has(t, g)
        <3>1. k # 1
            BY <2>2
        <3>2. k - 1 \in 1..Len(t) /\ (k - 1) + 1 = k
            BY <1>2, <3>1
        <3>3. t[k-1].h = g
            BY <1>2, <2>2, <3>2
        <3>4. QED
            BY <3>2, <3>3 DEF Has
    <2>3. QED
        BY <2>1, <2>2 DEF Has
<1>8. l[1].h \in Handler
    BY <1>2, <1>3
<1>9. QED
    BY <1>2, <1>5, <1>6, <1>7, <1>8 DEF Sound, t

(* and with its first timer nearer. *)
LEMMA NearerKeepsSound ==
    ASSUME NEW l, Sound(l), l # <<>>, NEW x \in Nat, x <= l[1].time
    PROVE  LET s == [l EXCEPT ![1].time = x]
           IN  Sound(s) /\ \A g \in Handler : Has(s, g) <=> Has(l, g)
<1> DEFINE s == [l EXCEPT ![1].time = x]
           Rec == [time: Nat, h: Handler]
<1>1. l \in Timers /\ Due(l) /\ Once(l)
    BY DEF Sound
<1>2. Len(l) \in Nat \ {0} /\ l \in [1..Len(l) -> Rec]
    <2>1. l \in Seq(Rec)
        BY <1>1 DEF Timers
    <2> HIDE DEF Rec
    <2>2. QED
        BY <2>1, EmptySeq, LenProperties
<1>3. /\ \A k \in 0..Len(l) : Left(l, k) \in Nat
      /\ \A k \in 1..Len(l) : Left(l, k) = Left(l, k-1) + l[k].time
      /\ \A k \in 1..Len(l) : l[k].time \in Nat /\ l[k].h \in Handler /\ Interval[l[k].h] \in Nat
    BY <1>1, LeftTyped, TimersTyped, IntervalTyped
<1>4. /\ s \in [1..Len(l) -> Rec]
      /\ s[1].time = x /\ \A k \in 2..Len(l) : s[k].time = l[k].time
      /\ \A k \in 1..Len(l) : s[k].h = l[k].h
    <2>1. l[1] \in Rec /\ 1 \in 1..Len(l)
        BY <1>2
    <2>2. [l[1] EXCEPT !.time = x] \in Rec
        BY <2>1
    <2>3. \A k \in 1..Len(l) : s[k] = IF k = 1 THEN [l[1] EXCEPT !.time = x] ELSE l[k]
        BY <1>2
    <2>4. s \in [1..Len(l) -> Rec]
        BY <1>2, <2>2, Zenon
    <2>5. QED
        BY <2>1, <2>2, <2>3, <2>4
<1>5. s \in Timers /\ Len(s) = Len(l)
    <2>1. s \in Seq(Rec)
        <3> HIDE DEF s, Rec
        <3>1. QED
            BY <1>2, <1>4, IsASeq
    <2>2. QED
        BY <1>2, <1>4, <2>1, LenProperties DEF Timers
<1> DEFINE f == [k \in 0..Len(l) |-> IF k = 0 THEN 0 ELSE Left(l, k) - (l[1].time - x)]
<1> HIDE DEF s
<1>6. \A k \in 0..Len(l) : Left(s, k) = f[k]
    <2>1. f[0] = 0
        BY <1>2
    <2>2. ASSUME NEW k \in 1..Len(l)
          PROVE  f[k] = f[k-1] + s[k].time
        <3>1. CASE k = 1
            <4>1. Left(l, 1) = l[1].time /\ l[1].time \in Nat
                BY <1>3, <3>1, LeftStep
            <4>2. f[1] = Left(l, 1) - (l[1].time - x) /\ f[0] = 0
                BY <2>1, <3>1
            <4>3. QED
                BY <1>4, <3>1, <4>1, <4>2
        <3>2. CASE k # 1
            <4>1. /\ k \in 2..Len(l) /\ k \in 0..Len(l) /\ k - 1 \in 0..Len(l)
                  /\ k # 0 /\ k - 1 # 0 /\ 1 \in 1..Len(l)
                BY <1>2, <3>2
            <4>2. /\ f[k] = Left(l, k) - (l[1].time - x)
                  /\ f[k-1] = Left(l, k-1) - (l[1].time - x)
                BY <4>1
            <4>3. /\ Left(l, k) = Left(l, k-1) + l[k].time /\ s[k].time = l[k].time
                  /\ Left(l, k-1) \in Nat /\ l[k].time \in Nat /\ l[1].time \in Nat
                BY <1>3, <1>4, <4>1
            <4>4. QED
                BY <4>2, <4>3
        <3>3. QED
            BY <3>1, <3>2
    <2>3. Len(l) \in Nat
        BY <1>2
    <2> HIDE DEF f
    <2>4. AddsUp(s, Len(l), f)
        BY <2>1, <2>2, <2>3 DEF AddsUp
    <2>5. QED
        BY <2>4, LeftIs
<1>7. Due(s)
    <2>1. ASSUME NEW k \in 1..Len(l)
          PROVE  Left(s, k) <= Interval[s[k].h]
        <3>1. k \in 0..Len(l) /\ k # 0 /\ 1 \in 1..Len(l)
            BY <1>2
        <3>2. Left(s, k) = Left(l, k) - (l[1].time - x) /\ s[k].h = l[k].h
            BY <1>4, <1>6, <3>1
        <3>3. Left(l, k) <= Interval[l[k].h]
            BY <1>1 DEF Due
        <3>4. Left(l, k) \in Nat /\ Interval[l[k].h] \in Nat /\ l[1].time \in Nat
            BY <1>3, <3>1
        <3>5. QED
            BY <3>2, <3>3, <3>4
    <2>2. QED
        BY <1>5, <2>1 DEF Due
<1>8. Once(s)
    BY <1>1, <1>4, <1>5 DEF Once
<1>9. \A g \in Handler : Has(s, g) <=> Has(l, g)
    BY <1>4, <1>5 DEF Has
<1>10. QED
    BY <1>5, <1>7, <1>8, <1>9 DEF Sound, s

-------------------------------------------------------------------------------
(* tcpip_thread: the list is sound and holds the timers it should. *)
TInv ==
    /\ QInv
    /\ Sound(list) /\ began \in 0..U32-1
    /\ pcbs \in BOOLEAN /\ tcpip_tcp_timer_active \in BOOLEAN
    /\ Has(list, "ip") /\ Has(list, "arp")
    /\ tcpip_tcp_timer_active <=> Has(list, "tcp")
    /\ pcbs => tcpip_tcp_timer_active

(* The wait the code computes from milliseconds, and the one it reads back, are   *)
(* numbers.                                                                      *)
LEMMA QuotientTyped ==
    ASSUME NEW a \in Nat, NEW b \in Nat \ {0}
    PROVE  a \div b \in Nat
OBVIOUS

LEMMA TicksTyped ==
    ASSUME NEW ms \in Nat
    PROVE  Ticks(ms) \in Nat
<1>1. ms * OS_TICKS_PER_SEC \in Nat
    BY ThreadAssumption
<1>2. (ms * OS_TICKS_PER_SEC) \div SECOND \in Nat
    BY <1>1, QuotientTyped, ThreadAssumption
<1>3. QED
    BY <1>2 DEF Ticks

LEMMA MeasuredTyped ==
    ASSUME TInv
    PROVE  Measured \in Nat
<1> DEFINE ticks == IF OSTime > began THEN OSTime - began
                    ELSE ((U32 - 1) - began + OSTime) % U32
<1>1. OSTime \in 0..U32-1 /\ began \in 0..U32-1 /\ U32 \in Nat \ {0}
    BY QueueAssumption DEF TInv, QInv, QTypeOK
<1>2. ticks \in Nat
    <2>1. (U32 - 1) - began + OSTime \in Nat
        BY <1>1
    <2>2. \A a \in Nat : a % U32 \in Nat
        BY <1>1
    <2>3. QED
        BY <1>1, <2>1, <2>2
<1> HIDE DEF ticks
<1>3. ticks * SECOND \in Nat
    BY <1>2, ThreadAssumption
<1>4. (ticks * SECOND) % U32 \in Nat
    BY <1>1, <1>3
<1>5. ((ticks * SECOND) % U32) \div OS_TICKS_PER_SEC \in Nat
    BY <1>4, QuotientTyped, ThreadAssumption
<1>6. QED
    BY <1>5 DEF Measured, ticks

LEMMA FirstTyped ==
    ASSUME TInv, list # <<>>
    PROVE  1 \in 1..Len(list) /\ list[1].time \in Nat
<1>1. list \in Timers /\ Len(list) # 0
    BY EmptySeq DEF TInv, Sound, Timers
<1>2. 1 \in 1..Len(list)
    BY <1>1, TimersTyped
<1>3. QED
    BY <1>1, <1>2, TimersTyped

LEMMA EmptyIsSound == Sound(<<>>) /\ \A h \in Handler : ~Has(<<>>, h)
<1>1. <<>> \in Timers /\ Len(<<>>) = 0 /\ 1..0 = {}
    BY EmptySeq DEF Timers
<1>2. QED
    BY <1>1 DEF Sound, Due, Once, Has

(* The time a message took leaves the list sound, with the same timers. *)
LEMMA ShortenedIsSound ==
    ASSUME TInv
    PROVE  Sound(Shortened) /\ \A h \in Handler : Has(Shortened, h) <=> Has(list, h)
<1>1. Sound(list) /\ Measured \in Nat
    BY MeasuredTyped DEF TInv
<1>2. CASE list = <<>>
    BY <1>1, <1>2 DEF Shortened
<1>3. CASE list # <<>>
    <2> DEFINE x == IF Measured < list[1].time THEN list[1].time - Measured ELSE 0
    <2>1. list[1].time \in Nat
        BY <1>3, FirstTyped
    <2>2. x \in Nat /\ x <= list[1].time
        BY <1>1, <2>1
    <2>3. Shortened = [list EXCEPT ![1].time = x]
        BY <1>3 DEF Shortened
    <2> HIDE DEF x
    <2>4. QED
        BY <1>1, <1>3, <2>2, <2>3, NearerKeepsSound
<1>4. QED
    BY <1>2, <1>3

LEMMA TInvInit == Init => TInv
<1> SUFFICES ASSUME Init
             PROVE  TInv
    OBVIOUS
<1> DEFINE one == sys_timeout(<<>>, "ip")
<1>1. "ip" \in Handler /\ "arp" \in Handler /\ "tcp" \in Handler
    BY IntervalTyped
<1>2. Sound(one) /\ \A g \in Handler : Has(one, g) <=> g = "ip"
    BY <1>1, EmptyIsSound, TimeoutKeepsSound
<1> HIDE DEF one
<1>3. /\ Sound(sys_timeout(one, "arp"))
      /\ \A g \in Handler : Has(sys_timeout(one, "arp"), g) <=> g = "ip" \/ g = "arp"
    BY <1>1, <1>2, TimeoutKeepsSound
<1>4. list = sys_timeout(one, "arp")
    BY DEF Init, one
<1>5. /\ Sound(list) /\ Has(list, "ip") /\ Has(list, "arp") /\ ~Has(list, "tcp")
    BY <1>1, <1>3, <1>4
<1>6. QInv
    BY QInvInit DEF Init
<1>7. began \in 0..U32-1 /\ pcbs = FALSE /\ tcpip_tcp_timer_active = FALSE
    BY QueueAssumption DEF Init
<1>8. QED
    BY <1>5, <1>6, <1>7 DEF TInv

(* A fetch is a wait of OSQPend, without a timeout or with one of some ticks. *)
LEMMA FetchPends ==
    ASSUME TInv, Fetch
    PROVE  \E t \in Nat : OSQPend(t)
<1>1. CASE list = <<>>
    BY <1>1 DEF Fetch
<1>2. CASE list # <<>>
    <2>1. Ticks(list[1].time) \in Nat /\ OSQPend(Ticks(list[1].time))
        BY <1>2, FirstTyped, TicksTyped DEF Fetch
    <2>2. QED
        BY <2>1
<1>3. QED
    BY <1>1, <1>2

LEMMA FetchKeepsTInv ==
    ASSUME TInv, Fetch
    PROVE  TInv'
<1>1. QInv'
    BY FetchPends, PendKeepsQInv DEF TInv
<1>2. began' \in 0..U32-1
    <2>1. began' = OSTime /\ OSTime \in 0..U32-1
        BY DEF Fetch, TInv, QInv, QTypeOK
    <2>2. U32' = U32
        OBVIOUS
    <2>3. QED
        BY <2>1, <2>2
<1>3. UNCHANGED <<list, pcbs, tcpip_tcp_timer_active>>
    BY DEF Fetch
<1>4. QED
    BY <1>1, <1>2, <1>3 DEF TInv

(* Steps of the queue alone. *)
LEMMA QueueKeepsTInv ==
    ASSUME TInv, QInv', UNCHANGED threadVars
    PROVE  TInv'
BY DEF TInv, threadVars

LEMMA HandleKeepsTInv ==
    ASSUME TInv, Handle
    PROVE  TInv'
<1>1. QInv'
    BY StepKeepsQInv DEF Handle, TInv, QNext
<1>2. began' \in 0..U32-1
    BY DEF Handle, TInv
<1>3. "ip" \in Handler /\ "arp" \in Handler /\ "tcp" \in Handler
    BY IntervalTyped
<1>4. Sound(Shortened) /\ \A h \in Handler : Has(Shortened, h) <=> Has(list, h)
    BY ShortenedIsSound
<1>5. /\ pcbs \in BOOLEAN /\ tcpip_tcp_timer_active \in BOOLEAN
      /\ Has(list, "ip") /\ Has(list, "arp")
      /\ tcpip_tcp_timer_active <=> Has(list, "tcp")
      /\ pcbs => tcpip_tcp_timer_active
    BY DEF TInv
<1>6. CASE TimerNeeded(Shortened) /\ tcpip_tcp_timer_active
    BY <1>1, <1>2, <1>3, <1>4, <1>5, <1>6 DEF TimerNeeded, TInv
<1>7. CASE TimerNeeded(Shortened) /\ ~tcpip_tcp_timer_active
    <2>1. /\ Sound(sys_timeout(Shortened, "tcp"))
          /\ \A g \in Handler : Has(sys_timeout(Shortened, "tcp"), g)
                                   <=> Has(Shortened, g) \/ g = "tcp"
        BY <1>3, <1>4, <1>5, <1>7, TimeoutKeepsSound
    <2>2. list' = sys_timeout(Shortened, "tcp") /\ pcbs' = TRUE /\ tcpip_tcp_timer_active' = TRUE
        BY <1>7 DEF TimerNeeded
    <2>3. Sound(list') /\ Has(list', "ip") /\ Has(list', "arp") /\ Has(list', "tcp")
        BY <1>3, <1>4, <1>5, <2>1, <2>2
    <2>4. QED
        BY <1>1, <1>2, <2>2, <2>3 DEF TInv
<1>8. CASE /\ list' = Shortened /\ UNCHANGED tcpip_tcp_timer_active
           /\ pcbs' = FALSE \/ pcbs' = pcbs
    <2>1. pcbs' \in BOOLEAN /\ (pcbs' => tcpip_tcp_timer_active)
        <3>1. CASE pcbs' = FALSE
            BY <3>1
        <3>2. CASE pcbs' = pcbs
            BY <1>5, <3>2
        <3>3. QED
            BY <1>8, <3>1, <3>2
    <2>2. /\ Sound(list') /\ Has(list', "ip") /\ Has(list', "arp")
          /\ tcpip_tcp_timer_active <=> Has(list', "tcp")
        BY <1>3, <1>4, <1>5, <1>8
    <2>3. QED
        BY <1>1, <1>2, <1>5, <1>8, <2>1, <2>2 DEF TInv
<1>9. QED
    BY <1>6, <1>7, <1>8 DEF Handle

LEMMA FireKeepsTInv ==
    ASSUME TInv, Fire
    PROVE  TInv'
<1>1. QInv'
    BY StepKeepsQInv DEF Fire, TInv, QNext
<1>2. began' \in 0..U32-1
    BY DEF Fire, TInv
<1>3. "ip" \in Handler /\ "arp" \in Handler /\ "tcp" \in Handler
      /\ \A h \in Handler : h = "ip" \/ h = "arp" \/ h = "tcp"
    BY IntervalTyped
<1> DEFINE h == list[1].h
<1>4. /\ Sound(Tail(list)) /\ h \in Handler
      /\ \A g \in Handler : Has(Tail(list), g) <=> Has(list, g) /\ g # h
    BY TailKeepsSound DEF Fire, TInv
<1>5. /\ Sound(sys_timeout(Tail(list), h))
      /\ \A g \in Handler : Has(sys_timeout(Tail(list), h), g) <=> Has(Tail(list), g) \/ g = h
    BY <1>4, TimeoutKeepsSound
<1>6. /\ pcbs \in BOOLEAN /\ tcpip_tcp_timer_active \in BOOLEAN
      /\ Has(list, "ip") /\ Has(list, "arp")
      /\ tcpip_tcp_timer_active <=> Has(list, "tcp")
      /\ pcbs => tcpip_tcp_timer_active
    BY DEF TInv
<1> HIDE DEF h
<1>7. /\ Has(list, h)
    <2>1. 1 \in 1..Len(list)
        BY FirstTyped DEF Fire
    <2>2. QED
        BY <2>1 DEF Has, h
<1>8. CASE list' = sys_timeout(Tail(list), h) /\ UNCHANGED <<pcbs, tcpip_tcp_timer_active>>
    <2>1. \A g \in Handler : Has(list', g) <=> Has(list, g)
        BY <1>4, <1>5, <1>7, <1>8
    <2>2. Sound(list')
        BY <1>5, <1>8
    <2>3. QED
        BY <1>1, <1>2, <1>3, <1>6, <1>8, <2>1, <2>2 DEF TInv
<1>9. CASE h = "tcp" /\ pcbs' = FALSE /\ StopTcpTimer(Tail(list))
    <2>1. list' = Tail(list) /\ tcpip_tcp_timer_active' = FALSE
        BY <1>9 DEF StopTcpTimer
    <2>2. /\ Sound(list') /\ Has(list', "ip") /\ Has(list', "arp") /\ ~Has(list', "tcp")
        BY <1>3, <1>4, <1>6, <1>9, <2>1
    <2>3. QED
        BY <1>1, <1>2, <1>9, <2>1, <2>2 DEF TInv
<1>10. CASE h = "tcp"
    <2>1. CASE pcbs'
        <3>1. pcbs' = pcbs
            BY <1>6, <1>10, <2>1 DEF Fire, h
        <3>2. list' = sys_timeout(Tail(list), h) /\ UNCHANGED tcpip_tcp_timer_active
            BY <1>10, <2>1 DEF Fire, h
        <3>3. QED
            BY <1>8, <3>1, <3>2
    <2>2. CASE ~pcbs'
        <3>1. pcbs' = FALSE
            BY <1>6, <1>10, <2>2 DEF Fire, h
        <3>2. StopTcpTimer(Tail(list))
            BY <1>10, <2>2 DEF Fire, h
        <3>3. QED
            BY <1>9, <1>10, <3>1, <3>2
    <2>3. QED
        BY <2>1, <2>2
<1>11. CASE h # "tcp"
    BY <1>8, <1>11 DEF Fire, h
<1>12. QED
    BY <1>10, <1>11

LEMMA StepKeepsTInv == TInv /\ [Next]_vars => TInv'
<1> SUFFICES ASSUME TInv, [Next]_vars
             PROVE  TInv'
    OBVIOUS
<1>1. QInv
    BY DEF TInv
<1>2. CASE Fetch
    BY <1>2, FetchKeepsTInv
<1>3. CASE Handle
    BY <1>3, HandleKeepsTInv
<1>4. CASE Fire
    BY <1>4, FireKeepsTInv
<1>5. CASE \E m \in Msg : Post(m)
    BY <1>1, <1>5, StepKeepsQInv, QueueKeepsTInv DEF Post, QNext
<1>6. CASE Expire
    BY <1>1, <1>6, StepKeepsQInv, QueueKeepsTInv DEF Expire, QNext
<1>7. CASE Tick
    BY <1>1, <1>7, StepKeepsQInv, QueueKeepsTInv DEF Tick, QNext
<1>8. CASE UNCHANGED vars
    BY <1>1, <1>8, StepKeepsQInv, QueueKeepsTInv DEF vars
<1>9. QED
    BY <1>2, <1>3, <1>4, <1>5, <1>6, <1>7, <1>8 DEF Next

LEMMA TInvHolds == Spec => []TInv
BY TInvInit, StepKeepsTInv, PTL DEF Spec

(* Whatever messages and timeouts come, in whatever order, and whatever the       *)
(* intervals and the width of the counter: the timers of IP and ARP are in the    *)
(* list once, that of TCP just while it counts as active, and always while there  *)
(* are connections (sys_timeouts_mbox_fetch, tcp_timer_needed).                   *)
THEOREM TimersAlwaysScheduled == Spec => []TimersScheduled
<1>1. TInv => TimersScheduled
    <2> SUFFICES ASSUME TInv
                 PROVE  TimersScheduled
        OBVIOUS
    <2>1. Once(list) /\ Has(list, "ip") /\ Has(list, "arp")
        BY DEF TInv, Sound
    <2>2. ASSUME NEW h \in {"ip", "arp"}
          PROVE  \E k \in 1..Len(list) : Scheduled(h) = {k}
        <3>1. PICK k \in 1..Len(list) : list[k].h = h
            BY <2>1 DEF Has
        <3>2. Scheduled(h) = {k}
            BY <2>1, <3>1 DEF Once, Scheduled
        <3>3. QED
            BY <3>2
    <2>3. \A j, k \in Scheduled("tcp") : j = k
        BY <2>1 DEF Once, Scheduled
    <2>4. Has(list, "tcp") <=> Scheduled("tcp") # {}
        BY DEF Has, Scheduled
    <2>5. (tcpip_tcp_timer_active <=> Has(list, "tcp")) /\ (pcbs => tcpip_tcp_timer_active)
        BY DEF TInv
    <2>6. tcpip_tcp_timer_active <=> Scheduled("tcp") # {}
        BY <2>4, <2>5, Zenon
    <2>7. QED
        BY <2>2, <2>3, <2>5, <2>6 DEF TimersScheduled
<1>2. QED
    BY <1>1, TInvHolds, PTL

(* The list of differences never puts a timer off: each is due within its         *)
(* interval, however many others are put before it or behind it (sys_timeout).    *)
THEOREM TimersDueWithinInterval == Spec => []DueWithinInterval
<1>1. TInv => DueWithinInterval
    BY DEF TInv, Sound, Due, DueWithinInterval
<1>2. QED
    BY <1>1, TInvHolds, PTL

(* The thread waits on its mailbox with timeouts of any length, and still gets    *)
(* every message accepted, once and in order (sys_arch_mbox_fetch).               *)
THEOREM ThreadQueueIsMailbox == Spec => IsMailbox
<1>1. Init => Mailbox!Init
    BY DEF Init, QInit, Mailbox!Init
<1>2. TInv /\ [Next]_vars
          => [Mailbox!Next]_<<OSQEntries, [k \in 1..OSQEntries |-> Nth(k)], hand>>
    <2> SUFFICES ASSUME TInv, [Next]_vars
                 PROVE  QInv /\ QueueStep
        BY StepIsFifo
    <2>1. CASE Fetch
        BY <2>1, FetchPends DEF TInv, OSQPend, QueueStep
    <2>2. CASE ~Fetch
        BY <2>2 DEF TInv, Next, Handle, Fire, Post, Expire, Tick, vars, QueueStep
    <2>3. QED
        BY <2>1, <2>2
<1>3. QED
    BY <1>1, <1>2, TInvHolds, PTL DEF Spec, IsMailbox, Mailbox!Spec
=============================================================================
