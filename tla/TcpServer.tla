------------------------------- MODULE TcpServer -------------------------------
(* The TCP server and the command task: tcp_server_thread1 (tcp_server.c, task  *)
(* priority 6) serves two connections in turn; communication_task (main.c,      *)
(* priority 10) parses what the server left in tcp_server_recvbuf (rsu_parse.c).*)
(* They share, without a lock, the two buffers, tcp_server_flag,                *)
(* g_send_light_info and g_online_num. The server blocks in netconn_accept,      *)
(* netconn_recv and netconn_write; only then does the command task run, and the  *)
(* server preempts it between any two of its assignments.                        *)
EXTENDS Integers, Sequences, FiniteSets

CONSTANTS
    Client,     \* the TCP clients
    Kind,       \* what they send, a subset of AllKinds
    Failure,    \* how a connection may end from the network's side
    RS485,      \* whether commands also come over the RS485 line
    LIGHTS,     \* the lights online when init was over
    NULL        \* the null pointer, and "nothing"

AllKinds == {"HEARTBEAT", "QUIT", "SETIP", "GETINFO"}
Command == {"SETIP", "GETINFO"}

ASSUME ServerAssumption ==
    /\ Kind \subseteq AllKinds
    /\ Failure \subseteq {"fin", "rst", "abrt"}
    /\ RS485 \in BOOLEAN
    /\ LIGHTS \in Nat
    /\ NULL \notin Client

Slot == {0, 1}
NoSlot == 255               \* (char)-1: comm_send before the first command

VARIABLES
    (* lwIP's side of a connection *)
    link,       \* link[c]: "idle", "pending", "open", or how it ended
    inbox,      \* inbox[c]: messages that have arrived and not been received
    backlog,    \* connections waiting to be accepted
    (* tcp_server_thread1 *)
    pc,         \* "accept", "send", "sending", "recv"
    i,          \* the slot being served
    newconn,    \* newconn[s]: its client, NULL, or "freed" after netconn_delete
    newconn_status,
    send_flag,
    comm_send,
    (* shared with communication_task *)
    tcp_server_flag,
    g_send_light_info,
    g_online_num,
    recvbuf,    \* the command in tcp_server_recvbuf; NULL: no frame is in it
    sendbuf,    \* what tcp_server_sendbuf holds, and for whom
    (* communication_task *)
    cpc,        \* "sleep", "tcp", "silence", "fill", "mark", "wipe", "rs485"
    job,        \* the command being handled: its kind and who sent it
    (* the clients' side, for the properties *)
    heard,      \* clients whose connection has sent a heartbeat
    waiting     \* waiting[c]: "light", "reply" or NULL: what it last asked for

net == <<link, inbox, backlog>>
server == <<pc, i, newconn, newconn_status, send_flag, comm_send>>
shared == <<tcp_server_flag, g_send_light_info, g_online_num, recvbuf, sendbuf>>
task == <<cpc, job>>
seen == <<heard, waiting>>
vars == <<net, server, shared, task, seen>>

Message == [from: Client \cup {"rs485"}, kind: Command]
Content == [what: {"text", "light", "reply"}, for: Client \cup {"rs485", NULL}]

ASSUME NullAssumption == NULL \notin Message

TypeOK ==
    /\ link \in [Client -> {"idle", "pending", "open", "fin", "rst", "abrt"}]
    /\ inbox \in [Client -> Seq(AllKinds)]
    /\ backlog \in Seq(Client)
    /\ pc \in {"accept", "send", "sending", "recv"}
    /\ i \in Slot
    /\ newconn \in [Slot -> Client \cup {NULL, "freed"}]
    /\ newconn_status \in [Slot -> {0, 2}]
    /\ send_flag \in [Slot -> {0, 1}]
    /\ comm_send \in Slot \cup {NoSlot}
    /\ tcp_server_flag \in BOOLEAN
    /\ g_send_light_info \in {0, 1}
    /\ g_online_num \in {LIGHTS, 1, 3}
    /\ recvbuf \in Message \cup {NULL}
    /\ sendbuf \in Content
    /\ cpc \in {"sleep", "tcp", "silence", "fill", "mark", "wipe", "rs485"}
    /\ job \in Message \cup {NULL}
    /\ heard \subseteq Client
    /\ waiting \in [Client -> {"light", "reply", NULL}]

Init ==
    /\ link = [c \in Client |-> "idle"]
    /\ inbox = [c \in Client |-> <<>>]
    /\ backlog = <<>>
    /\ pc = "accept" /\ i = 0
    /\ newconn = [s \in Slot |-> NULL]
    /\ newconn_status = [s \in Slot |-> 0]
    /\ send_flag = [s \in Slot |-> 0]
    /\ comm_send = NoSlot
    /\ tcp_server_flag = FALSE
    /\ g_send_light_info = 1
    /\ g_online_num = LIGHTS
    /\ recvbuf = NULL
    /\ sendbuf = [what |-> "text", for |-> NULL]
    /\ cpc = "sleep" /\ job = NULL
    /\ heard = {}
    /\ waiting = [c \in Client |-> NULL]

-------------------------------------------------------------------------------
(* The clients and lwIP *)

Connect(c) ==
    /\ link[c] = "idle"
    /\ link' = [link EXCEPT ![c] = "pending"]
    /\ backlog' = Append(backlog, c)
    /\ UNCHANGED <<inbox, server, shared, task, seen>>

(* A client sends one message at a time and waits for what it asked for; a       *)
(* heartbeat it may repeat.                                                      *)
Asks(k) == CASE k = "HEARTBEAT" -> "light" [] k \in Command -> "reply"
             [] OTHER -> NULL

ClientSend(c, k) ==
    /\ link[c] \in {"pending", "open"}
    /\ inbox[c] = <<>>
    /\ waiting[c] = NULL \/ (waiting[c] = "light" /\ k = "HEARTBEAT")
    /\ inbox' = [inbox EXCEPT ![c] = Append(@, k)]
    /\ waiting' = [waiting EXCEPT ![c] = Asks(k)]
    /\ UNCHANGED <<link, backlog, server, shared, task, heard>>

(* The server sleeps in netconn_recv on this very connection. *)
BlockedOn(c) == pc = "recv" /\ newconn[i] = c /\ link[c] = "open" /\ inbox[c] = <<>>

(* The peer closes (fin), resets (rst) or vanishes, and lwIP gives up on the     *)
(* connection (abrt). A fatal error drops what was not received. The error wakes *)
(* a blocked netconn_recv with a null message, for which it returns ERR_CLSD.    *)
Fail(c, how) ==
    /\ link[c] = "open"
    /\ link' = [link EXCEPT ![c] = IF BlockedOn(c) THEN "fin" ELSE how]
    /\ inbox' = [inbox EXCEPT ![c] = IF how = "fin" THEN @ ELSE <<>>]
    /\ waiting' = [waiting EXCEPT ![c] = NULL]
    /\ UNCHANGED <<backlog, server, shared, task, heard>>

-------------------------------------------------------------------------------
(* tcp_server_thread1. A free slot accepts, an occupied one goes on to send. *)
Goto(s) ==
    /\ i' = s
    /\ pc' = IF newconn_status'[s] = 0 THEN "accept" ELSE "send"

NextSlot == Goto(1 - i)

Accept ==
    /\ pc = "accept"
    /\ backlog # <<>>
    /\ newconn' = [newconn EXCEPT ![i] = Head(backlog)]
    /\ newconn_status' = [newconn_status EXCEPT ![i] = 2]
    /\ backlog' = Tail(backlog)
    /\ link' = [link EXCEPT ![Head(backlog)] = "open"]
    /\ pc' = "send"
    /\ UNCHANGED <<inbox, i, send_flag, comm_send, shared, task, seen>>

AcceptTimeout ==
    /\ pc = "accept"
    /\ backlog = <<>>
    /\ newconn' = [newconn EXCEPT ![i] = NULL]
    /\ UNCHANGED newconn_status
    /\ NextSlot
    /\ UNCHANGED <<net, send_flag, comm_send, shared, task, seen>>

(* netconn_write on the connection kept in slot s; NULL, freed and newconn[255]  *)
(* reach no client.                                                              *)
Reaches(s, c) == s \in Slot /\ newconn[s] = c /\ link[c] = "open"

Wanted(c, data) ==
    \/ waiting[c] = "light" /\ data.what = "light"
    \/ waiting[c] = "reply" /\ data.what = "reply" /\ data.for = c

WriteTo(s, data) ==
    /\ waiting' = [c \in Client |->
                      IF Reaches(s, c) /\ Wanted(c, data) THEN NULL ELSE waiting[c]]
    /\ UNCHANGED heard

NothingToSend ==
    /\ pc = "send"
    /\ ~tcp_server_flag
    /\ pc' = "recv"
    /\ UNCHANGED <<net, i, newconn, newconn_status, send_flag, comm_send,
                   shared, task, seen>>

LightReport == [what |-> "light", for |-> NULL]

(* l.78-84: the report is made for whichever slot comes first, and written only  *)
(* if that slot has sent a heartbeat; the flag is cleared in any case.           *)
SendLight ==
    /\ pc = "send"
    /\ tcp_server_flag /\ g_send_light_info = 1
    /\ sendbuf' = LightReport
    /\ IF send_flag[i] = 1
       THEN /\ WriteTo(i, LightReport)
            /\ pc' = "sending"
            /\ UNCHANGED tcp_server_flag
       ELSE /\ tcp_server_flag' = FALSE
            /\ pc' = "recv"
            /\ UNCHANGED seen
    /\ UNCHANGED <<net, i, newconn, newconn_status, send_flag, comm_send,
                   g_send_light_info, g_online_num, recvbuf, task>>

(* l.85-88: a reply goes to the slot the last command came from. *)
SendReply ==
    /\ pc = "send"
    /\ tcp_server_flag /\ g_send_light_info = 0
    /\ WriteTo(comm_send, sendbuf)
    /\ pc' = "sending"
    /\ UNCHANGED <<net, i, newconn, newconn_status, send_flag, comm_send,
                   shared, task>>

(* netconn_write returns, perhaps after waiting for room; l.95 clears the flag.  *)
Written ==
    /\ pc = "sending"
    /\ tcp_server_flag' = FALSE
    /\ pc' = "recv"
    /\ UNCHANGED <<net, i, newconn, newconn_status, send_flag, comm_send,
                   g_send_light_info, g_online_num, recvbuf, sendbuf, task, seen>>

(* fault: the subscription is not taken back *)
CloseSlotFault ==
    /\ newconn' = [newconn EXCEPT ![i] = "freed"]
    /\ newconn_status' = [newconn_status EXCEPT ![i] = 0]
    /\ link' = [link EXCEPT ![newconn[i]] = "idle"]
    /\ inbox' = [inbox EXCEPT ![newconn[i]] = <<>>]
    /\ heard' = heard \ {newconn[i]}
    /\ waiting' = [waiting EXCEPT ![newconn[i]] = NULL]
    /\ UNCHANGED <<backlog, send_flag>>

(* fault: the slot is freed without netconn_delete *)
CloseSlotLeaks ==
    /\ newconn_status' = [newconn_status EXCEPT ![i] = 0]
    /\ send_flag' = [send_flag EXCEPT ![i] = 0]
    /\ heard' = heard \ {newconn[i]}
    /\ waiting' = [waiting EXCEPT ![newconn[i]] = NULL]
    /\ UNCHANGED <<backlog, newconn, link, inbox>>

(* netconn_close and netconn_delete of slot i, at l.124-127 and l.137-141 *)
CloseSlot ==
    /\ newconn' = [newconn EXCEPT ![i] = "freed"]
    /\ newconn_status' = [newconn_status EXCEPT ![i] = 0]
    /\ send_flag' = [send_flag EXCEPT ![i] = 0]
    /\ link' = [link EXCEPT ![newconn[i]] = "idle"]
    /\ inbox' = [inbox EXCEPT ![newconn[i]] = <<>>]
    /\ heard' = heard \ {newconn[i]}
    /\ waiting' = [waiting EXCEPT ![newconn[i]] = NULL]
    /\ UNCHANGED backlog

Alive == link[newconn[i]] \in {"open", "fin"}

(* Data for slot i: l.98-133, the copy into tcp_server_recvbuf included. *)
Recv(k) ==
    /\ pc = "recv"
    /\ Alive /\ inbox[newconn[i]] # <<>>
    /\ k = Head(inbox[newconn[i]])
    /\ recvbuf' = IF k \in Command THEN [from |-> newconn[i], kind |-> k] ELSE NULL
    /\ UNCHANGED <<g_send_light_info, g_online_num, sendbuf, task>>

(* fault: a heartbeat does not mark data to be sent *)
RecvHeartbeatFault ==
    /\ Recv("HEARTBEAT")
    /\ inbox' = [inbox EXCEPT ![newconn[i]] = Tail(@)]
    /\ send_flag' = [send_flag EXCEPT ![i] = 1]
    /\ heard' = heard \cup {newconn[i]}
    /\ UNCHANGED <<link, backlog, newconn, newconn_status, comm_send, waiting,
                   tcp_server_flag>>
    /\ NextSlot

RecvHeartbeat ==
    /\ Recv("HEARTBEAT")
    /\ inbox' = [inbox EXCEPT ![newconn[i]] = Tail(@)]
    /\ send_flag' = [send_flag EXCEPT ![i] = 1]
    /\ tcp_server_flag' = (tcp_server_flag \/ g_send_light_info = 1)
    /\ heard' = heard \cup {newconn[i]}
    /\ UNCHANGED <<link, backlog, newconn, newconn_status, comm_send, waiting>>
    /\ NextSlot

RecvQuit ==
    /\ Recv("QUIT")
    /\ CloseSlot
    /\ UNCHANGED <<comm_send, tcp_server_flag>>
    /\ NextSlot

RecvCommand ==
    /\ \E k \in Command : Recv(k)
    /\ inbox' = [inbox EXCEPT ![newconn[i]] = Tail(@)]
    /\ comm_send' = i
    /\ UNCHANGED <<link, backlog, newconn, newconn_status, send_flag,
                   tcp_server_flag, seen>>
    /\ NextSlot

RecvTimeout ==
    /\ pc = "recv"
    /\ link[newconn[i]] = "open" /\ inbox[newconn[i]] = <<>>
    /\ UNCHANGED <<net, newconn, newconn_status, send_flag, comm_send, shared,
                   task, seen>>
    /\ NextSlot

(* fault: only an orderly close is handled *)
RecvClosedFault ==
    /\ pc = "recv"
    /\ \/ /\ link[newconn[i]] = "fin" /\ inbox[newconn[i]] = <<>>
          /\ CloseSlot /\ Goto(0)
       \/ /\ link[newconn[i]] = "rst"
          /\ UNCHANGED <<net, newconn, newconn_status, send_flag, seen>>
          /\ NextSlot
    /\ UNCHANGED <<comm_send, shared, task>>

(* ERR_CLSD or ERR_RST: l.133-144; the break starts again with slot 0. *)
RecvClosed ==
    /\ pc = "recv"
    /\ \/ link[newconn[i]] = "rst"
       \/ link[newconn[i]] = "fin" /\ inbox[newconn[i]] = <<>>
    /\ CloseSlot
    /\ Goto(0)
    /\ UNCHANGED <<comm_send, shared, task>>

(* Any other fatal error, ERR_ABRT, is returned at once and not looked at. *)
RecvAborted ==
    /\ pc = "recv"
    /\ link[newconn[i]] = "abrt"
    /\ UNCHANGED <<net, newconn, newconn_status, send_flag, comm_send, shared,
                   task, seen>>
    /\ NextSlot

-------------------------------------------------------------------------------
(* communication_task, which runs while the server is blocked *)
Blocked ==
    \/ pc = "accept" /\ backlog = <<>>
    \/ pc = "sending"
    \/ pc = "recv" /\ link[newconn[i]] = "open" /\ inbox[newconn[i]] = <<>>

Wake ==
    /\ Blocked /\ cpc = "sleep"
    /\ cpc' = "tcp"
    /\ UNCHANGED <<net, server, shared, job, seen>>

(* rsuParse(tcp_server_recvbuf): a buffer with no frame in it is left alone. *)
ParseTcp ==
    /\ Blocked /\ cpc = "tcp"
    /\ IF recvbuf # NULL THEN job' = recvbuf /\ cpc' = "silence"
       ELSE job' = NULL /\ cpc' = "rs485"
    /\ UNCHANGED <<net, server, shared, seen>>

(* rsuParse(buf) on what came over the RS485 line *)
ParseRs485 ==
    /\ Blocked /\ cpc = "rs485"
    /\ \/ cpc' = "sleep" /\ job' = NULL
       \/ /\ RS485
          /\ \E k \in Kind \cap Command : job' = [from |-> "rs485", kind |-> k]
          /\ cpc' = "silence"
    /\ UNCHANGED <<net, server, shared, seen>>

(* g_send_light_info = 0, for every command *)
Silence ==
    /\ Blocked /\ cpc = "silence"
    /\ g_send_light_info' = 0
    /\ cpc' = "fill"
    /\ UNCHANGED <<net, server, tcp_server_flag, g_online_num, recvbuf, sendbuf,
                   job, seen>>

(* The handler builds its reply in tcp_server_sendbuf ... *)
Fill ==
    /\ Blocked /\ cpc = "fill"
    /\ sendbuf' = [what |-> "reply", for |-> job.from]
    /\ cpc' = "mark"
    /\ UNCHANGED <<net, server, tcp_server_flag, g_send_light_info, g_online_num,
                   recvbuf, job, seen>>

(* fault: the length is added to what is to be sent *)
MarkFault ==
    /\ Blocked /\ cpc = "mark"
    /\ g_online_num' = g_online_num + IF job.kind = "GETINFO" THEN 3 ELSE 1
    /\ tcp_server_flag' = TRUE
    /\ cpc' = "wipe"
    /\ UNCHANGED <<net, server, g_send_light_info, recvbuf, sendbuf, job, seen>>

(* ... and hands it over, its length in units of a light report. *)
Mark ==
    /\ Blocked /\ cpc = "mark"
    /\ g_online_num' = IF job.kind = "GETINFO" THEN 3 ELSE 1
    /\ tcp_server_flag' = TRUE
    /\ cpc' = "wipe"
    /\ UNCHANGED <<net, server, g_send_light_info, recvbuf, sendbuf, job, seen>>

(* memset(p, 0, len): of the whole receive buffer, whatever it holds by now. *)
Wipe ==
    /\ Blocked /\ cpc = "wipe"
    /\ recvbuf' = IF job.from = "rs485" THEN recvbuf ELSE NULL
    /\ cpc' = IF job.from = "rs485" THEN "sleep" ELSE "rs485"
    /\ job' = NULL
    /\ UNCHANGED <<net, server, tcp_server_flag, g_send_light_info, g_online_num,
                   sendbuf, seen>>

-------------------------------------------------------------------------------
Network ==
    \E c \in Client :
        \/ Connect(c)
        \/ \E k \in Kind : ClientSend(c, k)
        \/ \E how \in Failure : Fail(c, how)

ServerThread ==
    \/ Accept \/ AcceptTimeout
    \/ NothingToSend \/ SendLight \/ SendReply \/ Written
    \/ RecvHeartbeat \/ RecvQuit \/ RecvCommand
    \/ RecvTimeout \/ RecvClosed \/ RecvAborted

CommTask == Wake \/ ParseTcp \/ ParseRs485 \/ Silence \/ Fill \/ Mark \/ Wipe

Next == Network \/ ServerThread \/ CommTask

Spec == Init /\ [][Next]_vars

(* The server thread is ready after at most 10 ms wherever it waits. The command *)
(* task runs when the server blocks: its work is far shorter than 10 ms, so it   *)
(* is not passed over for ever although it must wait again and again. Of the      *)
(* clients it is assumed only that who has begun to send heartbeats goes on, as    *)
(* long as its connection lasts: without them the device restarts (main.c:147).    *)
Beats(c) == c \in heard /\ ClientSend(c, "HEARTBEAT")

Fairness ==
    /\ WF_vars(ServerThread) /\ SF_vars(CommTask)
    /\ \A c \in Client : WF_vars(Beats(c))

FairSpec == Spec /\ Fairness

-------------------------------------------------------------------------------
(* A subscription never outlives the connection that asked for it: a slot is     *)
(* subscribed only while it serves a client that has sent a heartbeat itself.    *)
SubscriptionIsOwn ==
    \A s \in Slot : send_flag[s] = 1 =>
        /\ newconn_status[s] = 2
        /\ newconn[s] \in heard

(* A client is served by one slot, and every accepted connection by some slot    *)
(* until netconn_delete: none is forgotten while lwIP keeps it.                  *)
ServedOnce ==
    \A c \in Client :
        Cardinality({s \in Slot : newconn_status[s] = 2 /\ newconn[s] = c})
            = IF link[c] \in {"idle", "pending"} THEN 0 ELSE 1

(* The connection of d is served and takes reports from others: it has sent no     *)
(* heartbeat, or has failed.                                                      *)
Starves(d) ==
    link[d] \notin {"idle", "pending"} /\ ~(link[d] = "open" /\ d \in heard)

(* The heartbeats of one slot bring the report of the other. A client that has     *)
(* sent one gets its report, or its connection ends, or a command has ended the     *)
(* reports, or again and again the other slot serves a connection that takes the    *)
(* report and has not asked for it: the flag is cleared for both (l.95). Without    *)
(* the last clause, no guarantee: HeartbeatAlwaysAnswered.                        *)
HeartbeatAnswered ==
    \A c \in Client :
        waiting[c] = "light" ~>
            \/ waiting[c] # "light" \/ g_send_light_info = 0
            \/ \E d \in Client \ {c} : Starves(d)

(* A connection that was closed or reset by its peer is closed and deleted,        *)
(* whatever the other slot serves, be it a connection that has been given up (abrt) *)
(* and is itself never closed; unless connections of the other slot fail again and  *)
(* again: the break after a close goes back to slot 0, which may find the next one  *)
(* waiting. Without that clause, and for abrt, no guarantee: FailedAlwaysClosed.    *)
FailedIsClosed ==
    \A c \in Client :
        link[c] \in {"fin", "rst"} ~>
            link[c] = "idle" \/ \E d \in Client \ {c} : link[d] \in {"fin", "rst"}

-------------------------------------------------------------------------------
(* tcp_server.c:13 calls the flag the mark that data is to be sent: each client    *)
(* that sent a heartbeat gets a report while its connection lasts. Refuted by a     *)
(* connection without a subscription in the other slot.                           *)
HeartbeatAlwaysAnswered ==
    \A c \in Client :
        waiting[c] = "light" ~> (waiting[c] # "light" \/ g_send_light_info = 0)

(* rsu_parse.c:47 marks the reply of a command as data to be sent: each client   *)
(* that sent a command and keeps its connection gets its reply.                  *)
CommandAnswered == \A c \in Client : waiting[c] = "reply" ~> waiting[c] # "reply"

(* tcp_server.c:133 says the connection is closed when it has failed. Refuted by a   *)
(* connection that was given up, which keeps its slot, and by connections that come *)
(* and fail in slot 0 while one that failed waits in slot 1.                        *)
FailedAlwaysClosed ==
    \A c \in Client : link[c] \in {"fin", "rst", "abrt"} ~> link[c] = "idle"

(* trafficlight.c:5 says g_online_num is the number of lights online. *)
OnlineNumIsLights == g_online_num = LIGHTS
=============================================================================
