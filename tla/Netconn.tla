------------------------------- MODULE Netconn -------------------------------
(* What the network takes from the pools and gives back: the start-up of main    *)
(* and lwip_comm_init, then netconns with their semaphores, mailboxes and        *)
(* packets (lwIP api_msg.c and api_lib.c, the mailboxes of LWIP/arch/sys_arch.c), *)
(* used by tcpip_thread and by the server thread it preempts.                    *)
EXTENDS MemPool, Sequences, FiniteSets

CONSTANTS
    Sizes,      \* possible block counts of the 8 buffers of the start-up
    TQ,         \* blocks of a mailbox (TQ_DESCR: 3)
    EVENTS,     \* event control blocks left by kernel and lwIP (OS_MAX_EVENTS - 3: 7)
    QS,         \* OS_MAX_QS (5)
    MBOX,       \* messages a mailbox holds (MAX_QUEUE_ENTRIES, 20)
    POOL,       \* packet buffers (PBUF_POOL_SIZE, 20)
    Conn,       \* the netconns (MEMP_NUM_NETCONN, 4)
    Slot,       \* slots of the server (2)
    TRIES       \* bound on the starts that fail

ASSUME NetconnAssumption ==
    /\ Sizes \subseteq [1..8 -> Nat \ {0}]
    /\ TQ \in Nat \ {0} /\ EVENTS \in Nat /\ QS \in Nat
    /\ POOL \in Nat /\ MBOX \in Nat \ {0} /\ POOL <= MBOX
    /\ NULL \notin Conn /\ IsFiniteSet(Conn) /\ TRIES \in Nat

VARIABLES
    sizes,      \* the block counts of this build
    step,       \* start-up: the buffer to allocate (1..4 Ethernet, 5..8 lwIP), 9
                \* for the mailbox of tcpip_thread, 10 when the tasks run
    undo,       \* buffer to free next after a failure, 0 for none
    ptr,        \* the 8 pointers
    tries,      \* starts that failed
    tcpip_mbox,
    events, queues, pool,   \* free event and queue control blocks, free packets
    nc,         \* the netconns
    acceptq,    \* netconns in the acceptmbox of the listener
    slot,       \* newconn of the server
    pc, cur, buf,   \* server thread: where it is, the slot it deletes, packets it has
    left            \* history: mailboxes netconn_drain passed over: area and packets

startVars == <<sizes, step, undo, ptr, tries, tcpip_mbox>>
kernelVars == <<events, queues, pool>>
serverVars == <<slot, pc, cur, buf, left>>
vars == <<poolVars, startVars, kernelVars, serverVars, nc, acceptq>>

NoConn == [st |-> "free", sem |-> FALSE, recvmbox |-> NULL, acceptmbox |-> NULL,
           q |-> <<>>, pcb |-> FALSE, fin |-> FALSE, err |-> FALSE]

TypeOK ==
    /\ PoolTypeOK
    /\ sizes \in Sizes /\ step \in 1..10 /\ undo \in 0..8
    /\ ptr \in [1..8 -> Block \cup {NULL}] /\ tries \in 0..TRIES
    /\ tcpip_mbox \in Block \cup {NULL}
    /\ events \in 0..EVENTS /\ queues \in 0..QS /\ pool \in 0..POOL
    /\ nc \in [Conn -> [st : {"free", "listen", "new"}, sem : BOOLEAN,
                        recvmbox : Block \cup {NULL}, acceptmbox : Block \cup {NULL},
                        q : Seq({"data", "quit", "end"}), pcb : BOOLEAN,
                        fin : BOOLEAN, err : BOOLEAN]]
    /\ \A c \in Conn : Len(nc[c].q) <= MBOX
    /\ acceptq \in Seq(Conn)
    /\ slot \in [Slot -> Conn \cup {NULL}]
    /\ pc \in {"new", "unbox", "listen", "serve", "close", "drain", "free"}
    /\ cur \in Slot \cup {NULL} /\ buf \in 0..1 /\ left \subseteq Block \X (0..POOL)

Init ==
    /\ PoolInit
    /\ sizes \in Sizes /\ step = 1 /\ undo = 0
    /\ ptr = [k \in 1..8 |-> NULL] /\ tries = 0 /\ tcpip_mbox = NULL
    /\ events = EVENTS /\ queues = QS /\ pool = POOL
    /\ nc = [c \in Conn |-> NoConn] /\ acceptq = <<>>
    /\ slot = [i \in Slot |-> NULL] /\ pc = "new" /\ cur = NULL /\ buf = 0
    /\ left = {}

-------------------------------------------------------------------------------
(* Start-up: ETH_Mem_Malloc, then lwip_comm_mem_malloc, four buffers each; only  *)
(* after all four it is seen whether one is missing.                             *)
Part(k) == IF k <= 4 THEN 1..4 ELSE 5..8

(* fault: only the last of the four is looked at *)
MissingFault(part) == ptr'[CHOOSE j \in part : j + 1 \notin part] = NULL

Missing(part) == \E j \in part : ptr'[j] = NULL

StartAlloc ==
    /\ step \in 1..8 /\ undo = 0
    /\ \/ \E p \in Block : mymalloc(sizes[step], p) /\ ptr' = [ptr EXCEPT ![step] = p]
       \/ NoRoom(sizes[step]) /\ ptr' = [ptr EXCEPT ![step] = NULL]
            /\ UNCHANGED poolVars
    /\ IF step \in {4, 8} /\ Missing(Part(step))
       THEN undo' = step - 3 /\ UNCHANGED step
       ELSE step' = step + 1 /\ UNCHANGED undo
    /\ UNCHANGED <<sizes, tries, tcpip_mbox, kernelVars, serverVars, nc, acceptq>>

(* ETH_Mem_Free and lwip_comm_mem_free give back their own four; then main waits *)
(* and calls lwip_comm_init again.                                               *)
StartFree ==
    /\ undo # 0 /\ tries < TRIES
    /\ IF ptr[undo] = NULL THEN UNCHANGED poolVars ELSE myfree(ptr[undo])
    /\ IF undo = step
       THEN undo' = 0 /\ step' = 1 /\ tries' = tries + 1
       ELSE undo' = undo + 1 /\ UNCHANGED <<step, tries>>
    /\ UNCHANGED <<sizes, ptr, tcpip_mbox, kernelVars, serverVars, nc, acceptq>>

(* sys_mbox_new takes a pool area, an event and a queue; if the kernel has none   *)
(* left it frees the area again.                                                 *)
MboxFits == events >= 1 /\ queues >= 1 /\ \E p \in Block : Fits(TQ, p)

(* tcpip_init; a failure is only asserted *)
TcpipInit ==
    /\ step = 9
    /\ step' = 10
    /\ IF MboxFits
       THEN /\ \E p \in Block : mymalloc(TQ, p) /\ tcpip_mbox' = p
            /\ events' = events - 1 /\ queues' = queues - 1
       ELSE UNCHANGED <<poolVars, events, queues, tcpip_mbox>>
    /\ UNCHANGED <<sizes, undo, ptr, tries, pool, serverVars, nc, acceptq>>

-------------------------------------------------------------------------------
Unused == {c \in Conn : nc[c].st = "free"}

(* netconn_alloc: a netconn, a semaphore and a recvmbox, or nothing at all *)
CanAlloc ==
    Unused # {} /\ events >= 2 /\ queues >= 1 /\ \E p \in Block : Fits(TQ, p)

netconn_alloc(c, st) ==
    /\ c = CHOOSE u \in Unused : TRUE
    /\ \E p \in Block :
        /\ mymalloc(TQ, p)
        /\ nc' = [nc EXCEPT ![c] = [NoConn EXCEPT !.st = st, !.sem = TRUE,
                                                   !.recvmbox = p, !.pcb = TRUE]]
    /\ events' = events - 2 /\ queues' = queues - 1

(* sys_mbox_valid finds the queue in use and not full. *)
Valid(c) == nc[c].recvmbox # NULL /\ Len(nc[c].q) < MBOX

Posted(c, m) == IF Valid(c) THEN Append(nc[c].q, m) ELSE nc[c].q

(* The server thread makes the listener: netconn_new, then do_listen, which       *)
(* swaps the recvmbox for an acceptmbox.                                         *)
NetconnNew ==
    /\ step = 10 /\ pc = "new" /\ CanAlloc
    /\ \E c \in Conn : netconn_alloc(c, "new")
    /\ pc' = "unbox"
    /\ UNCHANGED <<startVars, pool, slot, cur, buf, left, acceptq>>

Listener == CHOOSE c \in Conn : nc[c].st # "free"

(* fault: the recvmbox is forgotten instead of freed *)
ListenFreesFault ==
    /\ pc = "unbox" /\ Valid(Listener)
    /\ nc' = [nc EXCEPT ![Listener].recvmbox = NULL]
    /\ pc' = "listen"
    /\ UNCHANGED <<poolVars, startVars, kernelVars, slot, cur, buf, left, acceptq>>

ListenFrees ==
    /\ pc = "unbox" /\ Valid(Listener)
    /\ myfree(nc[Listener].recvmbox)
    /\ nc' = [nc EXCEPT ![Listener].recvmbox = NULL]
    /\ events' = events + 1 /\ queues' = queues + 1
    /\ pc' = "listen"
    /\ UNCHANGED <<startVars, pool, slot, cur, buf, left, acceptq>>

do_listen ==
    /\ pc = "listen" /\ MboxFits
    /\ \E p \in Block :
        /\ mymalloc(TQ, p)
        /\ nc' = [nc EXCEPT ![Listener] = [@ EXCEPT !.st = "listen", !.acceptmbox = p]]
    /\ events' = events - 1 /\ queues' = queues - 1
    /\ pc' = "serve"
    /\ UNCHANGED <<startVars, pool, slot, cur, buf, left, acceptq>>

-------------------------------------------------------------------------------
Serving == \E c \in Conn : nc[c].st = "listen"

(* tcpip_thread: a client connects; without room for it lwIP refuses it. Every    *)
(* frame is in a packet buffer while it is looked at.                            *)
accept_function ==
    /\ Serving /\ pool > 0 /\ CanAlloc /\ Len(acceptq) < MBOX
    /\ \E c \in Conn : netconn_alloc(c, "new") /\ acceptq' = Append(acceptq, c)
    /\ UNCHANGED <<startVars, pool, serverVars>>

Established(c) == nc[c].st = "new" /\ nc[c].pcb /\ Serving

(* recv_tcp: data goes into the recvmbox if that is called valid, else it is      *)
(* acknowledged and freed. A packet that finds no buffer is lost before this.     *)
RecvData(c, m) ==
    /\ Established(c) /\ ~nc[c].fin /\ pool > 0
    /\ nc' = [nc EXCEPT ![c].q = Posted(c, m)]
    /\ pool' = IF Valid(c) THEN pool - 1 ELSE pool
    /\ UNCHANGED <<poolVars, startVars, events, queues, serverVars, acceptq>>

(* ... and so is the end of the client's data, a NULL message without a buffer.  *)
RecvFin(c) ==
    /\ Established(c) /\ ~nc[c].fin /\ pool > 0
    /\ nc' = [nc EXCEPT ![c] = [@ EXCEPT !.fin = TRUE, !.q = Posted(c, "end")]]
    /\ UNCHANGED <<poolVars, startVars, kernelVars, serverVars, acceptq>>

(* The connection is reset by the client, or given up after its retransmissions. *)
err_tcp(c) ==
    /\ Established(c)
    /\ nc' = [nc EXCEPT ![c] = [@ EXCEPT !.pcb = FALSE, !.err = TRUE,
                                          !.q = Posted(c, "end")]]
    /\ UNCHANGED <<poolVars, startVars, kernelVars, serverVars, acceptq>>

-------------------------------------------------------------------------------
(* server thread: netconn_accept for an empty slot *)
Accept(i) ==
    /\ pc = "serve" /\ slot[i] = NULL /\ acceptq # <<>>
    /\ slot' = [slot EXCEPT ![i] = Head(acceptq)]
    /\ acceptq' = Tail(acceptq)
    /\ UNCHANGED <<poolVars, startVars, kernelVars, nc, pc, cur, buf, left>>

Receives(i) == pc = "serve" /\ slot[i] # NULL /\ Valid(slot[i])

Taken(i) == nc' = [nc EXCEPT ![slot[i]].q = Tail(@)]

(* netconn_recv returns data, which is used and freed, *)
RecvUses(i) ==
    /\ Receives(i) /\ ~nc[slot[i]].err
    /\ nc[slot[i]].q # <<>> /\ Head(nc[slot[i]].q) = "data"
    /\ Taken(i) /\ pool' = pool + 1
    /\ UNCHANGED <<poolVars, startVars, events, queues, serverVars, acceptq>>

(* or the client's wish to quit, which is freed after the connection, *)
RecvQuit(i) ==
    /\ Receives(i) /\ ~nc[slot[i]].err
    /\ nc[slot[i]].q # <<>> /\ Head(nc[slot[i]].q) = "quit"
    /\ Taken(i) /\ buf' = 1
    /\ pc' = "close" /\ cur' = i
    /\ UNCHANGED <<poolVars, startVars, kernelVars, slot, left, acceptq>>

(* or the end, ERR_CLSD, or a reset, ERR_RST, before any data that is left.       *)
RecvEnd(i) ==
    /\ Receives(i)
    /\ \/ nc[slot[i]].err /\ UNCHANGED nc
       \/ /\ ~nc[slot[i]].err /\ nc[slot[i]].q # <<>>
          /\ Head(nc[slot[i]].q) = "end" /\ Taken(i)
    /\ pc' = "close" /\ cur' = i
    /\ UNCHANGED <<poolVars, startVars, kernelVars, slot, buf, left, acceptq>>

(* netconn_close: nothing is received from here on *)
Close ==
    /\ pc = "close"
    /\ nc' = [nc EXCEPT ![slot[cur]].pcb = FALSE]
    /\ pc' = "drain"
    /\ UNCHANGED <<poolVars, startVars, kernelVars, slot, cur, buf, left, acceptq>>

Packets(q) == Cardinality({k \in 1..Len(q) : q[k] # "end"})

(* fault: the mailbox is deleted but what it holds is not *)
DrainedFault(c) == pool

(* netconn_drain frees the packets of the mailbox *)
Drained(c) == pool + Packets(nc[c].q)

(* netconn_delete, in tcpip_thread: a mailbox that is called valid is drained     *)
(* and freed with its queue and event.                                           *)
Drain ==
    /\ pc = "drain"
    /\ LET c == slot[cur] IN
       IF Valid(c)
       THEN /\ myfree(nc[c].recvmbox)
            /\ pool' = Drained(c)
            /\ nc' = [nc EXCEPT ![c] = [@ EXCEPT !.recvmbox = NULL, !.q = <<>>]]
            /\ events' = events + 1 /\ queues' = queues + 1
       ELSE UNCHANGED <<poolVars, kernelVars, nc>>
    /\ pc' = "free"
    /\ UNCHANGED <<startVars, slot, cur, buf, left, acceptq>>

(* ... and in the server thread: the semaphore, the netconn, its slot, and the    *)
(* packet with the wish to quit.                                                 *)
Free ==
    /\ pc = "free"
    /\ nc' = [nc EXCEPT ![slot[cur]] = NoConn]
    /\ left' = left \cup {<<b, Packets(nc[slot[cur]].q)>> : b \in {nc[slot[cur]].recvmbox} \ {NULL}}
    /\ events' = events + 1
    /\ pool' = pool + buf /\ buf' = 0
    /\ slot' = [slot EXCEPT ![cur] = NULL] /\ cur' = NULL
    /\ pc' = "serve"
    /\ UNCHANGED <<poolVars, startVars, queues, acceptq>>

Next ==
    \/ StartAlloc \/ StartFree \/ TcpipInit \/ NetconnNew \/ ListenFrees \/ do_listen
    \/ accept_function
    \/ \E c \in Conn : (\E m \in {"data", "quit"} : RecvData(c, m)) \/ RecvFin(c) \/ err_tcp(c)
    \/ \E i \in Slot : Accept(i) \/ RecvUses(i) \/ RecvQuit(i) \/ RecvEnd(i)
    \/ Close \/ Drain \/ Free

Spec == Init /\ [][Next]_vars

-------------------------------------------------------------------------------
(* main.c:91 tries again for ever, but what a failed start leaves allocated never *)
(* lets a later one succeed: a device that starts at all starts at once.          *)
FailedStartIsFinal == tries > 0 => step < 10

Mailboxes ==
    ({nc[c].recvmbox : c \in Conn} \cup {nc[c].acceptmbox : c \in Conn} \cup {tcpip_mbox})
        \ {NULL}

Semaphores == {c \in Conn : nc[c].sem}

Packet == UNION {{<<c, k>> : k \in {j \in 1..Len(nc[c].q) : nc[c].q[j] # "end"}} : c \in Conn}

PacketLeft == UNION {{<<l[1], k>> : k \in 1..l[2]} : l \in left}

Areas == Mailboxes \cup {l[1] : l \in left}

(* Every area, queue, event and packet is free or belongs to a netconn that is    *)
(* still there or to a mailbox passed over by netconn_drain: nothing else leaks,  *)
(* however connections end, are refused or meet a full mailbox.                  *)
NothingElseLeaks ==
    step = 10 /\ tries = 0 =>
        /\ live = {ptr[k] : k \in 1..8} \cup Areas
        /\ queues = QS - Cardinality(Areas)
        /\ events = EVENTS - Cardinality(Areas) - Cardinality(Semaphores)
        /\ pool + buf + Cardinality(Packet) + Cardinality(PacketLeft) = POOL

(* While fewer connections than slots exist, and no mailbox was left behind, there *)
(* is room for another: the events and queues fixed in os_cfg.h are enough.       *)
RoomForSlots ==
    Serving /\ Cardinality({c \in Conn : nc[c].st = "new"}) < Cardinality(Slot) /\ left = {} => CanAlloc

-------------------------------------------------------------------------------
(* sys_arch.c:153 says sys_mbox_valid returns 1 for a mailbox that is valid. TLC   *)
(* refutes it: one that is full is called invalid (l.161-162), so netconn_recv     *)
(* answers ERR_CONN from then on and netconn_drain leaves the mailbox behind.      *)
ValidUnlessDeleted ==
    \A c \in Conn : Established(c) /\ nc[c].recvmbox # NULL => Valid(c)
=============================================================================
