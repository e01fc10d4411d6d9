------------------------------- MODULE OsQueue -------------------------------
(* A message queue of uC/OS-II (UCOSII/CORE/os_q.c) with the wait for it, as the *)
(* lwIP port makes its mailboxes of it (LWIP/arch/sys_arch.c). Each mailbox of   *)
(* this program has one reader at a time; posts come from tasks and interrupts.  *)
EXTENDS Naturals

CONSTANTS
    Msg,        \* messages
    NONE,       \* no message
    SIZE,       \* OSQSize (MAX_QUEUE_ENTRIES, 20)
    Timeout,    \* timeouts of a wait, in ticks; 0 waits for ever
    U32         \* OSTime wraps here (2^32)

ASSUME QueueAssumption ==
    /\ SIZE \in Nat \ {0} /\ NONE \notin Msg
    /\ Timeout \subseteq Nat /\ U32 \in Nat \ {0}

VARIABLES
    slots,      \* the array of the queue; what was read stays in it
    OSQIn, OSQOut,  \* indices of the next message to come and to go
    OSQEntries,
    pend,       \* the reader: "run" outside OSQPend, "wait" in the wait list,
                \* "expired" still in it though its time is up, back from
                \* OSQPend with a "msg" or with "timeout"
    hand,       \* what OSQPend returned, or OSTCBMsg
    OSTCBDly,   \* ticks until the wait expires, 0 for none
    OSTime

queueVars == <<slots, OSQIn, OSQOut, OSQEntries>>
waitVars == <<pend, hand, OSTCBDly>>

Index == 0..SIZE-1

QTypeOK ==
    /\ slots \in [Index -> Msg \cup {NONE}]
    /\ OSQIn \in Index /\ OSQOut \in Index /\ OSQEntries \in 0..SIZE
    /\ pend \in {"run", "wait", "expired", "msg", "timeout"}
    /\ hand \in Msg \cup {NONE}
    /\ OSTCBDly \in Nat
    /\ OSTime \in 0..U32-1

(* OSQCreate of zeroed memory, and a reader that runs *)
QInit ==
    /\ slots = [i \in Index |-> NONE]
    /\ OSQIn = 0 /\ OSQOut = 0 /\ OSQEntries = 0
    /\ pend = "run" /\ hand = NONE /\ OSTCBDly = 0
    /\ OSTime = 0

-------------------------------------------------------------------------------
Wrapped(i) == IF i = SIZE THEN 0 ELSE i

InWaitList == pend \in {"wait", "expired"}

Full == OSQEntries >= SIZE

(* OS_EventTaskRdy: the reader in the wait list is handed the message itself. If *)
(* its time was up but it has not run since, it wakes with the message after all. *)
PostToWaiter(m) ==
    /\ InWaitList
    /\ pend' = "msg" /\ hand' = m /\ OSTCBDly' = 0
    /\ UNCHANGED <<queueVars, OSTime>>

(* fault: the index is wrapped one too late *)
PostToSlotFault(m) ==
    /\ ~InWaitList /\ ~Full
    /\ slots' = [slots EXCEPT ![OSQIn] = m]
    /\ OSQEntries' = OSQEntries + 1
    /\ OSQIn' = IF OSQIn + 1 = SIZE THEN OSQIn ELSE OSQIn + 1
    /\ UNCHANGED <<waitVars, OSQOut, OSTime>>

PostToSlot(m) ==
    /\ ~InWaitList /\ ~Full
    /\ slots' = [slots EXCEPT ![OSQIn] = m]
    /\ OSQEntries' = OSQEntries + 1
    /\ OSQIn' = Wrapped(OSQIn + 1)
    /\ UNCHANGED <<waitVars, OSQOut, OSTime>>

(* A post to a full queue returns OS_ERR_Q_FULL and changes nothing. *)
OSQPost(m) == PostToWaiter(m) \/ PostToSlot(m)

PendTakes ==
    /\ pend = "run" /\ OSQEntries > 0
    /\ hand' = slots[OSQOut]
    /\ OSQOut' = Wrapped(OSQOut + 1)
    /\ OSQEntries' = OSQEntries - 1
    /\ pend' = "msg"
    /\ UNCHANGED <<slots, OSQIn, OSTCBDly, OSTime>>

PendWaits(timeout) ==
    /\ pend = "run" /\ OSQEntries = 0
    /\ pend' = "wait" /\ OSTCBDly' = timeout
    /\ UNCHANGED <<queueVars, hand, OSTime>>

OSQPend(timeout) == PendTakes \/ PendWaits(timeout)

(* The reader runs again after its time was up and leaves the wait list. *)
PendExpires ==
    /\ pend = "expired"
    /\ pend' = "timeout"
    /\ UNCHANGED <<queueVars, hand, OSTCBDly, OSTime>>

(* The caller of OSQPend is done with what it returned. *)
Return ==
    /\ pend \in {"msg", "timeout"}
    /\ pend' = "run" /\ hand' = NONE
    /\ UNCHANGED <<queueVars, OSTCBDly, OSTime>>

OSTimeTick ==
    /\ OSTime' = (OSTime + 1) % U32
    /\ OSTCBDly' = IF OSTCBDly = 0 THEN 0 ELSE OSTCBDly - 1
    /\ pend' = IF pend = "wait" /\ OSTCBDly = 1 THEN "expired" ELSE pend
    /\ UNCHANGED <<queueVars, hand>>

QNext ==
    \/ \E m \in Msg : OSQPost(m)
    \/ \E t \in Timeout : OSQPend(t)
    \/ PendExpires \/ Return \/ OSTimeTick

QSpec == QInit /\ [][QNext]_<<queueVars, waitVars, OSTime>>

-------------------------------------------------------------------------------
(* sys_arch.c 156-166: a mailbox is called valid only while it has room. *)
sys_mbox_valid == OSQEntries < SIZE

(* The messages kept, oldest first. *)
Nth(k) == slots[IF OSQOut + k - 1 < SIZE THEN OSQOut + k - 1 ELSE OSQOut + k - 1 - SIZE]

Mailbox == INSTANCE Fifo WITH
    count <- OSQEntries, queue <- [k \in 1..OSQEntries |-> Nth(k)]

(* Posts and waits implement the mailbox: whatever interrupts the wait, and also  *)
(* when a timeout races a post, each message accepted reaches the reader, once    *)
(* and in order (OSQPost and OSQPend).                                            *)
IsMailbox == Mailbox!Spec
=============================================================================
