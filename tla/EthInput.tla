------------------------------- MODULE EthInput -------------------------------
(* A frame's way in: the descriptors the Ethernet DMA fills, the interrupt that   *)
(* copies a frame into packet buffers and posts it (stm32f4x7_eth_bsp.c,          *)
(* ethernetif.c, tcpip_input), and tcpip_thread, which also serves the calls of   *)
(* the server thread. The interrupt runs above all tasks; only the DMA goes on.   *)
EXTENDS Integers, Sequences, SequencesExt, FiniteSets

CONSTANTS
    Frame,      \* kinds of frames
    Size,       \* packet buffers a frame takes (1 to 3 of PBUF_POOL_BUFSIZE, 512)
    ETH_RXBUFNB, \* descriptors (5)
    POOL,       \* packet buffers (PBUF_POOL_SIZE, 20)
    INPKT,      \* input messages (MEMP_NUM_TCPIP_MSG_INPKT, 8)
    MBOX,       \* messages the mailbox of tcpip_thread holds (MAX_QUEUE_ENTRIES, 20)
    LATE,       \* frames that can come in while the interrupt ends: it has the
                \* highest priority and leaves in less time than a frame takes (1)
    NULL

ASSUME InputAssumption ==
    /\ Size \in [Frame -> Nat \ {0}]
    /\ ETH_RXBUFNB \in Nat \ {0} /\ POOL \in Nat /\ INPKT \in Nat /\ MBOX \in Nat
    /\ INPKT + 1 < MBOX
    /\ LATE \in 0..ETH_RXBUFNB-1
    /\ NULL \notin Frame \cup {"api", "done"} /\ {"api", "done"} \cap Frame = {}

VARIABLES
    ring,       \* DMARxDscrTab: the frame of a descriptor the CPU owns, else NULL
    dma,        \* the descriptor the DMA fills next
    DMARxDescToGet,
    irq,        \* the interrupt is pending
    isr,        \* where ETH_IRQHandler is
    p,          \* its packet, or NULL
    late,       \* frames since it last looked
    pool, inpkt,    \* free packet buffers and input messages
    mbox,       \* messages for tcpip_thread: frames, and "api" for a call
    api,        \* the server thread waits for the answer to its call
    hand,       \* what tcpip_thread has: a message, "done" with its packet gone
    kept        \* packet buffers that wait in the mailboxes of connections

dmaVars == <<ring, dma, irq, late>>
isrVars == <<DMARxDescToGet, isr, p>>
memVars == <<pool, inpkt, kept>>
threadVars == <<mbox, api, hand>>
vars == <<dmaVars, isrVars, memVars, threadVars>>

Desc == 0..ETH_RXBUFNB-1

(* Buffer2NextDescAddr *)
After(d) == (d + 1) % ETH_RXBUFNB

TypeOK ==
    /\ ring \in [Desc -> Frame \cup {NULL}] /\ dma \in Desc /\ DMARxDescToGet \in Desc
    /\ irq \in BOOLEAN /\ isr \in {"out", "look", "give", "post", "clear"}
    /\ p \in Frame \cup {NULL} /\ late \in 0..LATE
    /\ pool \in 0..POOL /\ inpkt \in 0..INPKT /\ kept \in 0..POOL
    /\ mbox \in Seq(Frame \cup {"api"}) /\ Len(mbox) <= MBOX
    /\ api \in BOOLEAN /\ hand \in Frame \cup {"api", "done", NULL}

(* ETH_DMARxDescChainInit: the DMA owns all descriptors. *)
Init ==
    /\ ring = [d \in Desc |-> NULL] /\ dma = 0 /\ DMARxDescToGet = 0
    /\ irq = FALSE /\ isr = "out" /\ p = NULL /\ late = 0
    /\ pool = POOL /\ inpkt = INPKT /\ kept = 0
    /\ mbox = <<>> /\ api = FALSE /\ hand = NULL

-------------------------------------------------------------------------------
(* DMA: a frame comes in; without a descriptor it is lost, and no interrupt tells. *)
Arrive(f) ==
    /\ ring[dma] = NULL
    /\ isr = "clear" => late < LATE
    /\ ring' = [ring EXCEPT ![dma] = f]
    /\ dma' = After(dma)
    /\ irq' = TRUE
    /\ late' = IF isr = "clear" THEN late + 1 ELSE 0
    /\ UNCHANGED <<isrVars, memVars, threadVars>>

Interrupt ==
    /\ irq /\ isr = "out"
    /\ isr' = "look"
    /\ UNCHANGED <<dmaVars, DMARxDescToGet, p, memVars, threadVars>>

(* ETH_GetRxPktSize, ETH_Rx_Packet and pbuf_alloc: all the buffers of the packet   *)
(* or none.                                                                       *)
Look ==
    /\ isr = "look"
    /\ LET f == ring[DMARxDescToGet] IN
       IF f = NULL
       THEN isr' = "clear" /\ UNCHANGED <<DMARxDescToGet, p, pool>>
       ELSE /\ isr' = "give"
            /\ DMARxDescToGet' = After(DMARxDescToGet)
            /\ IF pool >= Size[f]
               THEN p' = f /\ pool' = pool - Size[f]
               ELSE p' = NULL /\ UNCHANGED pool
    /\ late' = 0
    /\ UNCHANGED <<ring, dma, irq, inpkt, kept, threadVars>>

(* frame.descriptor *)
Taken == (DMARxDescToGet + ETH_RXBUFNB - 1) % ETH_RXBUFNB

(* fault: one frame for each interrupt *)
AgainFault == "clear"

(* the loop of ETH_IRQHandler *)
Again == "look"

(* low_level_input copies the frame and gives the descriptor back to the DMA.      *)
Give ==
    /\ isr = "give"
    /\ ring' = [ring EXCEPT ![Taken] = NULL]
    /\ isr' = IF p = NULL THEN Again ELSE "post"
    /\ UNCHANGED <<dma, irq, late, DMARxDescToGet, p, memVars, threadVars>>

(* fault: the newest first *)
PostedFault(m) == <<m>> \o mbox

(* OSQPost *)
Posted(m) == Append(mbox, m)

(* fault: the packet is not freed when it cannot be posted *)
PostFault ==
    /\ isr = "post"
    /\ IF Len(mbox) < MBOX /\ inpkt > 0
       THEN mbox' = Posted(p) /\ inpkt' = inpkt - 1
       ELSE UNCHANGED <<mbox, inpkt>>
    /\ p' = NULL /\ isr' = Again
    /\ UNCHANGED <<dmaVars, DMARxDescToGet, pool, kept, api, hand>>

(* tcpip_input; without a message for it the packet is freed. *)
Post ==
    /\ isr = "post"
    /\ IF Len(mbox) < MBOX /\ inpkt > 0
       THEN mbox' = Posted(p) /\ inpkt' = inpkt - 1 /\ UNCHANGED pool
       ELSE pool' = pool + Size[p] /\ UNCHANGED <<mbox, inpkt>>
    /\ p' = NULL /\ isr' = Again
    /\ UNCHANGED <<dmaVars, DMARxDescToGet, kept, api, hand>>

(* The pending bits are cleared after the last look: a frame that came in between  *)
(* waits for the interrupt of the next one.                                       *)
Clear ==
    /\ isr = "clear"
    /\ irq' = FALSE /\ isr' = "out"
    /\ UNCHANGED <<ring, dma, late, DMARxDescToGet, p, memVars, threadVars>>

-------------------------------------------------------------------------------
Tasks == isr = "out"

(* fault: it does not wait *)
tcpip_apimsgFault ==
    /\ Tasks /\ Len(mbox) < MBOX
    /\ mbox' = Posted("api") /\ api' = TRUE
    /\ UNCHANGED <<dmaVars, isrVars, memVars, hand>>

(* tcpip_apimsg in the server thread, which then waits for op_completed. A full    *)
(* mailbox looks invalid to it.                                                   *)
tcpip_apimsg ==
    /\ Tasks /\ ~api /\ Len(mbox) < MBOX
    /\ mbox' = Posted("api") /\ api' = TRUE
    /\ UNCHANGED <<dmaVars, isrVars, memVars, hand>>

Fetch ==
    /\ Tasks /\ hand = NULL /\ mbox # <<>>
    /\ hand' = Head(mbox) /\ mbox' = Tail(mbox)
    /\ UNCHANGED <<dmaVars, isrVars, memVars, api>>

(* the function of the call, and TCPIP_APIMSG_ACK *)
Answer ==
    /\ Tasks /\ hand = "api"
    /\ hand' = NULL /\ api' = FALSE
    /\ UNCHANGED <<dmaVars, isrVars, memVars, mbox>>

(* ethernet_input: the packet goes to a connection, or is used up and freed.       *)
ethernet_input ==
    /\ Tasks /\ hand \in Frame
    /\ \/ kept' = kept + Size[hand] /\ UNCHANGED pool
       \/ pool' = pool + Size[hand] /\ UNCHANGED kept
    /\ hand' = "done"
    /\ UNCHANGED <<dmaVars, isrVars, inpkt, mbox, api>>

(* memp_free(MEMP_TCPIP_MSG_INPKT, msg) *)
FreeMsg ==
    /\ Tasks /\ hand = "done"
    /\ inpkt' = inpkt + 1 /\ hand' = NULL
    /\ UNCHANGED <<dmaVars, isrVars, pool, kept, mbox, api>>

(* A task takes a packet from its connection and frees it. *)
Use ==
    /\ Tasks
    /\ \E f \in Frame :
        /\ Size[f] <= kept
        /\ kept' = kept - Size[f] /\ pool' = pool + Size[f]
    /\ UNCHANGED <<dmaVars, isrVars, inpkt, threadVars>>

Handler == Interrupt \/ Look \/ Give \/ Post \/ Clear
Thread == Fetch \/ Answer \/ ethernet_input \/ FreeMsg

Next == (\E f \in Frame : Arrive(f)) \/ Handler \/ tcpip_apimsg \/ Thread \/ Use

(* Frames keep coming: ARP requests and the retransmissions of the clients.        *)
Fairness == WF_vars(\E f \in Frame : Arrive(f)) /\ WF_vars(Handler) /\ WF_vars(Thread)

Spec == Init /\ [][Next]_vars /\ Fairness

-------------------------------------------------------------------------------
(* The packet buffers of a message, and of the first k messages of a mailbox.     *)
Buffers(m) == IF m \in Frame THEN Size[m] ELSE 0

Held(s, k) ==
    LET sum[n \in 0..k] == IF n = 0 THEN 0 ELSE sum[n-1] + Buffers(s[n]) IN sum[k]

(* Packet buffers are conserved through every loss: an empty pool, no message      *)
(* left, interrupts in the middle of the thread's work.                           *)
NothingLeaks ==
    pool + kept + Buffers(p) + Buffers(hand) + Held(mbox, Len(mbox)) = POOL

(* The mailbox of tcpip_thread is never full, whatever the clients send, so        *)
(* sys_mbox_post never spins and the mailbox never looks invalid: the messages run *)
(* out first.                                                                     *)
MailboxHasRoom == Len(mbox) < MBOX

(* The frames in the ring that were not looked at: those from DMARxDescToGet on.  *)
Waiting == Cardinality({d \in Desc : ring[d] # NULL}) - (IF isr = "give" THEN 1 ELSE 0)

InRing == [k \in 1..Waiting |-> ring[(DMARxDescToGet + k - 1) % ETH_RXBUFNB]]

Only(m) == IF m \in Frame THEN <<m>> ELSE <<>>

(* The frames in the mailbox: all of it but the call.                             *)
Frames(s) ==
    LET calls == {k \in DOMAIN s : s[k] = "api"} IN
    IF calls = {} THEN s ELSE RemoveAt(s, CHOOSE k \in calls : TRUE)

(* The frames on their way in, the oldest first.                                  *)
OnTheWay == Only(hand) \o Frames(mbox) \o Only(p) \o InRing

Channel == INSTANCE LossyChannel WITH chan <- OnTheWay

(* From the wire to lwIP frames are neither reordered nor repeated. *)
IsChannel == Channel!Spec

(* As long as frames keep coming, the one at the head of the ring is taken: the    *)
(* ring never fills up with the interrupt's pending bit cleared.                  *)
RingDrains == (ring[DMARxDescToGet] # NULL) ~> (isr = "give")
=============================================================================
