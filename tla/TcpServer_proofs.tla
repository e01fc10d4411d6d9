---------------------------- MODULE TcpServer_proofs ----------------------------
(* For any number of clients, whatever they send and however their connections    *)
(* end: types, and that slots, subscriptions and connections belong together. The *)
(* argument is about who holds a connection: the backlog before it is accepted,    *)
(* one slot until netconn_delete.                                                  *)
EXTENDS TcpServer, SequenceTheorems, FiniteSetTheorems, TLAPS

Linked == {"open", "fin", "rst", "abrt"}    \* accepted, and not yet deleted

(* The server is past netconn_accept just when its slot is taken. *)
AtSlot == pc = "accept" <=> newconn_status[i] = 0

(* Connections wait once, and before they are accepted. *)
Queued ==
    /\ \A k \in 1..Len(backlog) : link[backlog[k]] = "pending"
    /\ \A j, k \in 1..Len(backlog) : backlog[j] = backlog[k] => j = k

(* A slot that is taken holds an accepted connection, no other slot the same, and *)
(* every accepted connection has a slot.                                          *)
Holds(s, c) == newconn_status[s] = 2 /\ newconn[s] = c

OwnSlots ==
    /\ \A s \in Slot : newconn_status[s] = 2 =>
            newconn[s] \in Client /\ link[newconn[s]] \in Linked
    /\ \A s, t \in Slot : newconn_status[s] = 2 /\ newconn_status[t] = 2
                             /\ newconn[s] = newconn[t] => s = t
    /\ \A c \in Client : link[c] \in Linked => \E s \in Slot : Holds(s, c)

(* The task has a command in hand from its first assignment to the wiping. *)
InHand == cpc \in {"silence", "fill", "mark", "wipe"} => job # NULL

SInv == TypeOK /\ AtSlot /\ Queued /\ OwnSlots /\ SubscriptionIsOwn /\ InHand

-------------------------------------------------------------------------------
USE ServerAssumption
USE DEF AllKinds, Command, Slot, NoSlot, Linked, net, server, shared, task, seen

LEMMA InitSInv == Init => SInv
<1> SUFFICES ASSUME Init
             PROVE  SInv
    OBVIOUS
<1>1. TypeOK
    <2>1. tcp_server_flag \in BOOLEAN
        BY DEF Init
    <2>2. inbox \in [Client -> Seq(AllKinds)] /\ backlog \in Seq(Client)
        BY EmptySeq DEF Init
    <2>3. QED
        BY <2>1, <2>2 DEF Init, TypeOK, Content
<1>2. AtSlot /\ Queued /\ OwnSlots /\ SubscriptionIsOwn /\ InHand
    BY DEF Init, AtSlot, Queued, OwnSlots, SubscriptionIsOwn, InHand
<1>3. QED
    BY <1>1, <1>2 DEF SInv

(* What a slot holds is not disturbed by a step that leaves the slots alone and    *)
(* keeps each accepted connection accepted.                                        *)
LEMMA SlotsKept ==
    ASSUME SInv, UNCHANGED <<newconn_status, send_flag>>,
           \A s \in Slot : newconn_status[s] = 2 => newconn'[s] = newconn[s],
           heard' = heard,
           \A c \in Client : link[c] \in Linked <=> link'[c] \in Linked
    PROVE  OwnSlots' /\ SubscriptionIsOwn'
BY DEF SInv, OwnSlots, Holds, SubscriptionIsOwn

(* The next slot, or slot 0 again, is entered by its status. *)
LEMMA GotoAtSlot ==
    ASSUME NEW s \in Slot, Goto(s), newconn_status' \in [Slot -> {0, 2}]
    PROVE  AtSlot' /\ i' \in Slot /\ pc' \in {"accept", "send"}
BY DEF Goto, AtSlot

(* netconn_delete of the connection in slot i takes back all that belongs to it:   *)
(* its slot, its subscription, what was left in its mailbox.                       *)
LEMMA CloseSlotKeeps ==
    ASSUME SInv, pc = "recv", CloseSlot
    PROVE  /\ newconn' \in [Slot -> Client \cup {NULL, "freed"}]
           /\ newconn_status' \in [Slot -> {0, 2}] /\ send_flag' \in [Slot -> {0, 1}]
           /\ link' \in [Client -> {"idle", "pending"} \cup Linked]
           /\ inbox' \in [Client -> Seq(AllKinds)]
           /\ heard' \subseteq Client
           /\ waiting' \in [Client -> {"light", "reply", NULL}]
           /\ backlog' = backlog
           /\ Queued' /\ OwnSlots' /\ SubscriptionIsOwn'
<1> DEFINE c == newconn[i]
<1>1. i \in Slot /\ newconn_status[i] = 2 /\ c \in Client /\ link[c] \in Linked
    BY DEF SInv, TypeOK, AtSlot, OwnSlots
<1>2. /\ newconn' \in [Slot -> Client \cup {NULL, "freed"}]
      /\ newconn_status' \in [Slot -> {0, 2}] /\ send_flag' \in [Slot -> {0, 1}]
      /\ link' \in [Client -> {"idle", "pending"} \cup Linked]
      /\ heard' \subseteq Client
      /\ waiting' \in [Client -> {"light", "reply", NULL}]
      /\ backlog' = backlog
    BY <1>1 DEF SInv, TypeOK, CloseSlot
<1>3. inbox' \in [Client -> Seq(AllKinds)]
    BY <1>1 DEF SInv, TypeOK, CloseSlot
<1>4. \A k \in 1..Len(backlog) : backlog[k] # c
    BY <1>1 DEF SInv, Queued
<1>5. Queued'
    BY <1>1, <1>2, <1>4 DEF SInv, TypeOK, Queued, CloseSlot
<1>6. /\ newconn_status' = [newconn_status EXCEPT ![i] = 0]
      /\ newconn' = [newconn EXCEPT ![i] = "freed"]
      /\ send_flag' = [send_flag EXCEPT ![i] = 0]
      /\ link' = [link EXCEPT ![c] = "idle"]
      /\ heard' = heard \ {c}
    BY DEF CloseSlot
<1>7. \A s \in Slot : newconn_status[s] = 2 /\ s # i => newconn[s] # c
    BY <1>1 DEF SInv, OwnSlots
<1>8. OwnSlots'
    BY <1>1, <1>6, <1>7 DEF SInv, TypeOK, OwnSlots, Holds
<1>9. SubscriptionIsOwn'
    BY <1>1, <1>6, <1>7 DEF SInv, TypeOK, SubscriptionIsOwn
<1>10. QED
    BY <1>2, <1>3, <1>5, <1>8, <1>9

-------------------------------------------------------------------------------
(* A client connects: it joins the backlog, in which it was not. *)
LEMMA ConnectKeeps ==
    ASSUME SInv, NEW c \in Client, Connect(c)
    PROVE  SInv'
<1>1. /\ link[c] = "idle" /\ link' = [link EXCEPT ![c] = "pending"]
      /\ UNCHANGED <<inbox, server, shared, task, seen>>
    BY DEF Connect
<1>2. /\ backlog' \in Seq(Client) /\ Len(backlog') = Len(backlog) + 1
      /\ \A k \in 1..Len(backlog) : backlog'[k] = backlog[k]
      /\ backlog'[Len(backlog) + 1] = c /\ Len(backlog) \in Nat
      /\ \A k \in 1..Len(backlog) : backlog[k] \in Client
    BY AppendProperties, LenProperties, ElementOfSeq DEF SInv, TypeOK, Connect
<1>3. TypeOK'
    BY <1>1, <1>2 DEF SInv, TypeOK
<1>4. Queued'
    <2>1. \A k \in 1..Len(backlog) : link[backlog[k]] = "pending" /\ backlog[k] # c
        BY <1>1 DEF SInv, Queued
    <2>2. \A k \in 1..Len(backlog') : k = Len(backlog) + 1 \/ k \in 1..Len(backlog)
        <3>1. Len(backlog') = Len(backlog) + 1 /\ Len(backlog) \in Nat
            BY <1>2
        <3>2. QED
            BY <3>1
    <2>3. \A k \in 1..Len(backlog') : link'[backlog'[k]] = "pending"
        <3>1. link \in [Client -> {"idle", "pending"} \cup Linked]
            BY DEF SInv, TypeOK
        <3>2. ASSUME NEW k \in 1..Len(backlog)
              PROVE  link'[backlog'[k]] = "pending"
            BY <1>1, <1>2, <2>1, <3>1
        <3>3. link'[backlog'[Len(backlog) + 1]] = "pending"
            BY <1>1, <1>2, <3>1
        <3>4. QED
            BY <2>2, <3>2, <3>3
    <2>4. \A j, k \in 1..Len(backlog') : backlog'[j] = backlog'[k] => j = k
        BY <1>2, <2>1, <2>2 DEF SInv, Queued
    <2>5. QED
        BY <2>3, <2>4 DEF Queued
<1>5. OwnSlots' /\ SubscriptionIsOwn'
    BY <1>1, SlotsKept DEF SInv, TypeOK
<1>6. QED
    BY <1>1, <1>3, <1>4, <1>5 DEF SInv, AtSlot, InHand

(* A client sends a message. *)
LEMMA ClientSendKeeps ==
    ASSUME SInv, NEW c \in Client, NEW k \in Kind, ClientSend(c, k)
    PROVE  SInv'
<1>1. UNCHANGED <<link, backlog, server, shared, task, heard>>
    BY DEF ClientSend
<1>2. inbox' \in [Client -> Seq(AllKinds)]
    BY DEF SInv, TypeOK, ClientSend
<1>3. waiting' \in [Client -> {"light", "reply", NULL}]
    BY DEF SInv, TypeOK, ClientSend, Asks
<1>4. TypeOK'
    BY <1>1, <1>2, <1>3 DEF SInv, TypeOK
<1>5. QED
    BY <1>1, <1>4, SlotsKept DEF SInv, AtSlot, Queued, InHand

(* A connection ends from the network's side: it stays in its slot. *)
LEMMA FailKeeps ==
    ASSUME SInv, NEW c \in Client, NEW how \in Failure, Fail(c, how)
    PROVE  SInv'
<1>1. /\ UNCHANGED <<backlog, server, shared, task, heard>>
      /\ link[c] = "open" /\ link' = [link EXCEPT ![c] = IF BlockedOn(c) THEN "fin" ELSE how]
    BY DEF Fail
<1>2. \A d \in Client : /\ link[d] \in Linked <=> link'[d] \in Linked
                        /\ link[d] = "pending" <=> link'[d] = "pending"
    BY <1>1 DEF SInv, TypeOK
<1>3. inbox' \in [Client -> Seq(AllKinds)]
    BY DEF SInv, TypeOK, Fail
<1>4. TypeOK'
    BY <1>1, <1>3 DEF SInv, TypeOK, Fail
<1>5. Queued'
    BY <1>1, <1>2, ElementOfSeq DEF SInv, TypeOK, Queued
<1>6. QED
    BY <1>1, <1>2, <1>4, <1>5, SlotsKept DEF SInv, AtSlot, InHand

-------------------------------------------------------------------------------
(* The oldest of the backlog moves into the slot that was free. *)
LEMMA AcceptKeeps ==
    ASSUME SInv, Accept
    PROVE  SInv'
<1> DEFINE c == Head(backlog)
<1>1. /\ pc = "accept" /\ pc' = "send" /\ newconn_status[i] = 0 /\ i \in Slot
      /\ newconn' = [newconn EXCEPT ![i] = c]
      /\ newconn_status' = [newconn_status EXCEPT ![i] = 2]
      /\ link' = [link EXCEPT ![c] = "open"]
      /\ UNCHANGED <<inbox, i, send_flag, comm_send, shared, task, seen>>
    BY DEF SInv, TypeOK, AtSlot, Accept
<1>2. /\ backlog \in Seq(Client) /\ backlog # <<>> /\ backlog' = Tail(backlog)
      /\ Len(backlog) \in Nat \ {0} /\ c = backlog[1]
    BY EmptySeq, LenProperties DEF SInv, TypeOK, Accept
<1>3. /\ c \in Client /\ backlog' \in Seq(Client) /\ Len(backlog') = Len(backlog) - 1
      /\ \A k \in 1..Len(backlog') : backlog'[k] = backlog[k + 1]
    BY <1>2, HeadTailProperties
<1>4. link[c] = "pending"
    BY <1>2 DEF SInv, Queued
<1>5. TypeOK'
    BY <1>1, <1>3 DEF SInv, TypeOK
<1>6. Queued'
    <2>1. \A k \in 1..Len(backlog') : backlog'[k] # c /\ backlog'[k] \in Client
        BY <1>2, <1>3, ElementOfSeq DEF SInv, Queued
    <2>2. QED
        BY <1>1, <1>2, <1>3, <2>1 DEF SInv, TypeOK, Queued
<1>7. OwnSlots'
    <2>1. \A s \in Slot : newconn_status[s] = 2 => s # i /\ newconn[s] # c
        BY <1>1, <1>4 DEF SInv, OwnSlots
    <2>2. QED
        BY <1>1, <1>3, <1>4, <2>1 DEF SInv, TypeOK, OwnSlots, Holds
<1>8. SubscriptionIsOwn'
    BY <1>1 DEF SInv, TypeOK, SubscriptionIsOwn
<1>9. QED
    BY <1>1, <1>5, <1>6, <1>7, <1>8 DEF SInv, AtSlot, TypeOK, InHand

(* netconn_accept runs out of time: newconn of a free slot is NULL again. *)
LEMMA AcceptTimeoutKeeps ==
    ASSUME SInv, AcceptTimeout
    PROVE  SInv'
<1>1. /\ newconn_status[i] = 0 /\ newconn' = [newconn EXCEPT ![i] = NULL]
      /\ UNCHANGED <<newconn_status, net, send_flag, comm_send, shared, task, seen>>
      /\ Goto(1 - i) /\ 1 - i \in Slot
    BY DEF SInv, TypeOK, AtSlot, AcceptTimeout, NextSlot
<1>2. AtSlot' /\ i' \in Slot /\ pc' \in {"accept", "send"}
    BY <1>1, GotoAtSlot DEF SInv, TypeOK
<1>3. TypeOK'
    BY <1>1, <1>2 DEF SInv, TypeOK
<1>4. OwnSlots' /\ SubscriptionIsOwn'
    BY <1>1, SlotsKept DEF SInv, TypeOK
<1>5. QED
    BY <1>1, <1>2, <1>3, <1>4 DEF SInv, Queued, InHand

(* A write wakes clients and changes no connection. *)
LEMMA WriteTyped ==
    ASSUME TypeOK, NEW s, NEW data, WriteTo(s, data)
    PROVE  waiting' \in [Client -> {"light", "reply", NULL}] /\ heard' = heard
BY DEF TypeOK, WriteTo

LEMMA SendKeeps ==
    ASSUME SInv, NothingToSend \/ SendLight \/ SendReply \/ Written
    PROVE  SInv'
<1>1. /\ UNCHANGED <<net, i, newconn, newconn_status, send_flag, comm_send,
                    g_send_light_info, g_online_num, recvbuf, task, heard>>
      /\ pc # "accept" /\ pc' \in {"sending", "recv"}
    BY DEF NothingToSend, SendLight, SendReply, Written, WriteTo
<1>2. waiting' \in [Client -> {"light", "reply", NULL}]
    BY WriteTyped DEF SInv, TypeOK, NothingToSend, SendLight, SendReply, Written
<1>3. sendbuf' \in Content
    BY DEF SInv, TypeOK, Content, LightReport, NothingToSend, SendLight, SendReply, Written
<1>4. tcp_server_flag' \in BOOLEAN
    <2>1. CASE NothingToSend \/ SendReply
        BY <2>1 DEF SInv, TypeOK, NothingToSend, SendReply
    <2>2. CASE SendLight \/ Written
        BY <2>2 DEF SInv, TypeOK, SendLight, Written
    <2>3. QED
        BY <2>1, <2>2
<1>5. TypeOK'
    BY <1>1, <1>2, <1>3, <1>4 DEF SInv, TypeOK
<1>6. OwnSlots' /\ SubscriptionIsOwn'
    BY <1>1, SlotsKept
<1>7. QED
    BY <1>1, <1>5, <1>6 DEF SInv, AtSlot, Queued, InHand

-------------------------------------------------------------------------------
(* What netconn_recv returned is taken from the mailbox of the connection. *)
LEMMA ReceivedTyped ==
    ASSUME SInv, NEW k \in AllKinds, Recv(k)
    PROVE  /\ newconn_status[i] = 2 /\ i \in Slot /\ 1 - i \in Slot
           /\ newconn[i] \in Client /\ link[newconn[i]] \in Linked
           /\ inbox[newconn[i]] \in Seq(AllKinds) /\ inbox[newconn[i]] # <<>>
           /\ Tail(inbox[newconn[i]]) \in Seq(AllKinds)
           /\ recvbuf' \in Message \cup {NULL}
           /\ UNCHANGED <<g_send_light_info, g_online_num, sendbuf, task>>
<1>1. /\ newconn_status[i] = 2 /\ i \in Slot /\ 1 - i \in Slot
      /\ newconn[i] \in Client /\ link[newconn[i]] \in Linked
    BY DEF SInv, TypeOK, AtSlot, OwnSlots, Recv
<1>2. inbox[newconn[i]] \in Seq(AllKinds) /\ inbox[newconn[i]] # <<>>
    BY <1>1 DEF SInv, TypeOK, Recv
<1>3. Tail(inbox[newconn[i]]) \in Seq(AllKinds)
    BY <1>2, HeadTailProperties
<1>4. recvbuf' \in Message \cup {NULL}
    BY <1>1 DEF Recv, Message
<1>5. QED
    BY <1>1, <1>2, <1>3, <1>4 DEF Recv

LEMMA RecvHeartbeatKeeps ==
    ASSUME SInv, RecvHeartbeat
    PROVE  SInv'
<1> DEFINE c == newconn[i]
<1>1. /\ Recv("HEARTBEAT") /\ Goto(1 - i)
      /\ inbox' = [inbox EXCEPT ![c] = Tail(@)]
      /\ send_flag' = [send_flag EXCEPT ![i] = 1] /\ heard' = heard \cup {c}
      /\ tcp_server_flag' \in BOOLEAN
      /\ UNCHANGED <<link, backlog, newconn, newconn_status, comm_send, waiting>>
    BY DEF RecvHeartbeat, NextSlot
<1>2. /\ newconn_status[i] = 2 /\ i \in Slot /\ 1 - i \in Slot /\ c \in Client
      /\ Tail(inbox[c]) \in Seq(AllKinds) /\ recvbuf' \in Message \cup {NULL}
      /\ UNCHANGED <<g_send_light_info, g_online_num, sendbuf, task>>
    BY <1>1, ReceivedTyped
<1>3. AtSlot' /\ i' \in Slot /\ pc' \in {"accept", "send"}
    BY <1>1, <1>2, GotoAtSlot DEF SInv, TypeOK
<1>4. inbox' \in [Client -> Seq(AllKinds)]
    BY <1>1, <1>2 DEF SInv, TypeOK
<1>5. TypeOK'
    BY <1>1, <1>2, <1>3, <1>4 DEF SInv, TypeOK
<1>6. SubscriptionIsOwn'
    BY <1>1, <1>2 DEF SInv, TypeOK, SubscriptionIsOwn
<1>7. QED
    BY <1>1, <1>2, <1>3, <1>5, <1>6 DEF SInv, Queued, OwnSlots, Holds, InHand

LEMMA RecvCommandKeeps ==
    ASSUME SInv, RecvCommand
    PROVE  SInv'
<1> DEFINE c == newconn[i]
<1>1. PICK k \in Command : Recv(k)
    BY DEF RecvCommand
<1>2. /\ inbox' = [inbox EXCEPT ![c] = Tail(@)] /\ comm_send' = i /\ Goto(1 - i)
      /\ UNCHANGED <<link, backlog, newconn, newconn_status, send_flag,
                     tcp_server_flag, seen>>
    BY DEF RecvCommand, NextSlot
<1>3. /\ i \in Slot /\ 1 - i \in Slot /\ c \in Client
      /\ Tail(inbox[c]) \in Seq(AllKinds) /\ recvbuf' \in Message \cup {NULL}
      /\ UNCHANGED <<g_send_light_info, g_online_num, sendbuf, task>>
    BY <1>1, ReceivedTyped
<1>4. AtSlot' /\ i' \in Slot /\ pc' \in {"accept", "send"}
    BY <1>2, <1>3, GotoAtSlot DEF SInv, TypeOK
<1>5. inbox' \in [Client -> Seq(AllKinds)]
    BY <1>2, <1>3 DEF SInv, TypeOK
<1>6. TypeOK'
    BY <1>2, <1>3, <1>4, <1>5 DEF SInv, TypeOK
<1>7. OwnSlots' /\ SubscriptionIsOwn'
    BY <1>2, SlotsKept
<1>8. QED
    BY <1>2, <1>3, <1>4, <1>6, <1>7 DEF SInv, Queued, InHand

(* A QUIT, or the end of the connection, gives the slot and the connection back. *)
LEMMA ClosesKeeps ==
    ASSUME SInv, RecvQuit \/ RecvClosed
    PROVE  SInv'
<1>1. /\ pc = "recv" /\ CloseSlot /\ recvbuf' \in Message \cup {NULL}
      /\ UNCHANGED <<comm_send, tcp_server_flag, g_send_light_info, g_online_num,
                     sendbuf, task>>
    BY ReceivedTyped DEF SInv, TypeOK, RecvQuit, RecvClosed, Recv
<1>2. \E s \in Slot : Goto(s)
    BY DEF SInv, TypeOK, RecvQuit, RecvClosed, NextSlot
<1>3. /\ newconn' \in [Slot -> Client \cup {NULL, "freed"}]
      /\ newconn_status' \in [Slot -> {0, 2}] /\ send_flag' \in [Slot -> {0, 1}]
      /\ link' \in [Client -> {"idle", "pending"} \cup Linked]
      /\ inbox' \in [Client -> Seq(AllKinds)]
      /\ heard' \subseteq Client
      /\ waiting' \in [Client -> {"light", "reply", NULL}]
      /\ backlog' = backlog
      /\ Queued' /\ OwnSlots' /\ SubscriptionIsOwn'
    BY <1>1, CloseSlotKeeps
<1>4. AtSlot' /\ i' \in Slot /\ pc' \in {"accept", "send"}
    BY <1>2, <1>3, GotoAtSlot
<1>5. TypeOK'
    BY <1>1, <1>3, <1>4 DEF SInv, TypeOK
<1>6. QED
    BY <1>1, <1>3, <1>4, <1>5 DEF SInv, InHand

(* Nothing came, or an error the server does not look at: on to the next slot. *)
LEMMA PassesKeeps ==
    ASSUME SInv, RecvTimeout \/ RecvAborted
    PROVE  SInv'
<1>1. /\ UNCHANGED <<net, newconn, newconn_status, send_flag, comm_send, shared, task, seen>>
      /\ Goto(1 - i) /\ 1 - i \in Slot
    BY DEF SInv, TypeOK, RecvTimeout, RecvAborted, NextSlot
<1>2. AtSlot' /\ i' \in Slot /\ pc' \in {"accept", "send"}
    BY <1>1, GotoAtSlot DEF SInv, TypeOK
<1>3. TypeOK'
    BY <1>1, <1>2 DEF SInv, TypeOK
<1>4. OwnSlots' /\ SubscriptionIsOwn'
    BY <1>1, SlotsKept
<1>5. QED
    BY <1>1, <1>2, <1>3, <1>4 DEF SInv, Queued, InHand

-------------------------------------------------------------------------------
(* The command task touches neither slots nor connections. *)
LEMMA CommTaskKeeps ==
    ASSUME SInv, CommTask
    PROVE  SInv'
<1>1. UNCHANGED <<net, server, seen>>
    BY DEF CommTask, Wake, ParseTcp, ParseRs485, Silence, Fill, Mark, Wipe
<1>2. /\ cpc' \in {"sleep", "tcp", "silence", "fill", "mark", "wipe", "rs485"}
      /\ job' \in Message \cup {NULL} /\ InHand'
    <2>1. CASE Wake \/ Silence \/ Fill \/ Mark \/ Wipe
        BY <2>1 DEF SInv, TypeOK, InHand, Wake, Silence, Fill, Mark, Wipe
    <2>2. CASE ParseTcp
        BY <2>2 DEF SInv, TypeOK, InHand, ParseTcp
    <2>3. CASE ParseRs485
        <3>1. CASE cpc' = "sleep" /\ job' = NULL
            BY <3>1 DEF InHand
        <3>2. CASE cpc' = "silence" /\
                   \E k \in Kind \cap Command : job' = [from |-> "rs485", kind |-> k]
            BY <3>2, NullAssumption DEF InHand, Message
        <3>3. QED
            BY <2>3, <3>1, <3>2 DEF ParseRs485
    <2>4. QED
        BY <2>1, <2>2, <2>3 DEF CommTask
<1>3. /\ g_send_light_info' \in {0, 1} /\ g_online_num' \in {LIGHTS, 1, 3}
      /\ recvbuf' \in Message \cup {NULL}
    BY DEF SInv, TypeOK, CommTask, Wake, ParseTcp, ParseRs485, Silence, Fill, Mark, Wipe
<1>4. sendbuf' \in Content
    <2>1. CASE Fill
        BY <2>1 DEF SInv, TypeOK, InHand, Fill, Content, Message
    <2>2. CASE ~Fill
        BY <2>2 DEF SInv, TypeOK, CommTask, Wake, ParseTcp, ParseRs485, Silence, Mark, Wipe
    <2>3. QED
        BY <2>1, <2>2
<1>5. tcp_server_flag' \in BOOLEAN
    <2>1. CASE Mark
        BY <2>1 DEF Mark
    <2>2. CASE ~Mark
        BY <2>2 DEF SInv, TypeOK, CommTask, Wake, ParseTcp, ParseRs485, Silence, Fill, Wipe
    <2>3. QED
        BY <2>1, <2>2
<1>6. TypeOK'
    BY <1>1, <1>2, <1>3, <1>4, <1>5 DEF SInv, TypeOK
<1>7. OwnSlots' /\ SubscriptionIsOwn'
    BY <1>1, SlotsKept
<1>8. QED
    BY <1>1, <1>2, <1>6, <1>7 DEF SInv, AtSlot, Queued

-------------------------------------------------------------------------------
LEMMA StepSInv == SInv /\ [Next]_vars => SInv'
<1> SUFFICES ASSUME SInv, [Next]_vars
             PROVE  SInv'
    OBVIOUS
<1>1. CASE Network
    BY <1>1, ConnectKeeps, ClientSendKeeps, FailKeeps DEF Network
<1>2. CASE ServerThread
    BY <1>2, AcceptKeeps, AcceptTimeoutKeeps, SendKeeps, RecvHeartbeatKeeps,
       RecvCommandKeeps, ClosesKeeps, PassesKeeps DEF ServerThread
<1>3. CASE CommTask
    BY <1>3, CommTaskKeeps
<1>4. CASE UNCHANGED vars
    <2>1. TypeOK'
        BY <1>4 DEF SInv, TypeOK, vars
    <2>2. QED
        BY <1>4, <2>1, SlotsKept DEF SInv, vars, AtSlot, Queued, InHand
<1>5. QED
    BY <1>1, <1>2, <1>3, <1>4 DEF Next

LEMMA Invariance == Spec => []SInv
BY InitSInv, StepSInv, PTL DEF Spec

(* Types of the server's, the task's and lwIP's state, for any clients.            *)
THEOREM ServerTypeCorrect == Spec => []TypeOK
<1>1. SInv => TypeOK
    BY DEF SInv
<1>2. QED
    BY <1>1, Invariance, PTL

(* A subscription to light reports never outlives its connection: a new client in  *)
(* the slot does not inherit it (tcp_server.c 117-141).                            *)
THEOREM SubscriptionIsAlwaysOwn == Spec => []SubscriptionIsOwn
<1>1. SInv => SubscriptionIsOwn
    BY DEF SInv
<1>2. QED
    BY <1>1, Invariance, PTL

(* Each accepted connection has exactly one slot, however connections end, in what *)
(* order slots are served and freed: lwIP's netconns are not lost by the server.   *)
THEOREM EachServedOnce == Spec => []ServedOnce
<1>1. ASSUME SInv
      PROVE  ServedOnce
    <2> SUFFICES ASSUME NEW c \in Client
                 PROVE  Cardinality({s \in Slot : newconn_status[s] = 2 /\ newconn[s] = c})
                            = IF link[c] \in {"idle", "pending"} THEN 0 ELSE 1
        BY DEF ServedOnce
    <2>1. CASE link[c] \in {"idle", "pending"}
        <3>1. {s \in Slot : newconn_status[s] = 2 /\ newconn[s] = c} = {}
            BY <1>1, <2>1 DEF SInv, OwnSlots
        <3>2. QED
            BY <2>1, <3>1, FS_EmptySet
    <2>2. CASE link[c] \in Linked
        <3>1. PICK s \in Slot : Holds(s, c)
            BY <1>1, <2>2 DEF SInv, OwnSlots
        <3>2. {t \in Slot : newconn_status[t] = 2 /\ newconn[t] = c} = {s}
            BY <1>1, <3>1 DEF SInv, OwnSlots, Holds
        <3>3. QED
            BY <2>2, <3>2, FS_Singleton
    <2>3. QED
        BY <1>1, <2>1, <2>2 DEF SInv, TypeOK
<1>2. QED
    BY <1>1, Invariance, PTL
=============================================================================
