-------------------------------- MODULE Rs485 --------------------------------
(* The RS485 receiver of SYSTEM/usart/usart.c: an interrupt that stores each byte *)
(* and communication_task (main.c 164-177), which takes every 40 ms what is there *)
(* and parses it. Nothing keeps the interrupt out while the task takes the bytes. *)
EXTENDS Integers, Sequences

CONSTANTS
    Byte,       \* bytes on the line
    ZERO,       \* a byte of the task's buffer that was never written, or wiped
    LENGTH      \* USART_REC_LEN, also the length of the task's buffer (100)

ASSUME Rs485Assumption == LENGTH \in Nat \ {0} /\ ZERO \notin Byte

VARIABLES
    USART_RX_BUF, USART_RX_CNT,
    buf, len,   \* the task's own; buf keeps what a call leaves in it
    rxlen, i,   \* of RS485_Receive_Data
    pc,         \* the task: "delay", "check", "copy", "len", "clear", "parse"
    due,        \* history: the bytes stored since the count was last cleared
    given       \* history: those that were due when the last call cleared it

line == <<USART_RX_BUF, USART_RX_CNT, due>>
local == <<buf, len, rxlen, i, given>>
vars == <<line, local, pc>>

Index == 0..LENGTH-1

TypeOK ==
    /\ USART_RX_BUF \in [Index -> Byte \cup {ZERO}] /\ USART_RX_CNT \in 0..LENGTH
    /\ buf \in [Index -> Byte \cup {ZERO}] /\ len \in 0..LENGTH
    /\ rxlen \in 0..LENGTH /\ i \in 0..LENGTH
    /\ pc \in {"delay", "check", "copy", "len", "clear", "parse"}
    /\ due \in Seq(Byte) /\ given \in Seq(Byte)

Init ==
    /\ USART_RX_BUF = [k \in Index |-> ZERO] /\ USART_RX_CNT = 0
    /\ buf = [k \in Index |-> ZERO] /\ len = 0 /\ rxlen = 0 /\ i = 0
    /\ pc = "delay" /\ due = <<>> /\ given = <<>>

-------------------------------------------------------------------------------
(* USART2_IRQHandler, at any moment: a byte that finds the buffer full is dropped. *)
Receive(b) ==
    /\ IF USART_RX_CNT < LENGTH
       THEN /\ USART_RX_BUF' = [USART_RX_BUF EXCEPT ![USART_RX_CNT] = b]
            /\ USART_RX_CNT' = USART_RX_CNT + 1
            /\ due' = Append(due, b)
       ELSE UNCHANGED line
    /\ UNCHANGED <<local, pc>>

(* RS485_Receive_Data reads the count, *)
Call ==
    /\ pc = "delay"
    /\ rxlen' = USART_RX_CNT /\ len' = 0 /\ i' = 0
    /\ pc' = "check"
    /\ UNCHANGED <<line, buf, given>>

(* fault: a full buffer is taken for an overrun *)
CompleteFault == rxlen = USART_RX_CNT /\ rxlen \in 1..LENGTH-1

Complete == rxlen = USART_RX_CNT /\ rxlen # 0

(* and compares it with the count: the count is not volatile, so the build may     *)
(* read it once and take any bytes there were.                                    *)
Check ==
    /\ pc = "check"
    /\ \/ rxlen # 0 /\ pc' = "copy"
       \/ ~Complete /\ pc' = "parse"
    /\ UNCHANGED <<line, local>>

Copy ==
    /\ pc = "copy"
    /\ IF i < rxlen
       THEN buf' = [buf EXCEPT ![i] = USART_RX_BUF[i]] /\ i' = i + 1 /\ UNCHANGED pc
       ELSE pc' = "len" /\ UNCHANGED <<buf, i>>
    /\ UNCHANGED <<line, len, rxlen, given>>

(* l.170 reads the count again: bytes that came since the check are counted, not   *)
(* copied.                                                                        *)
SetLen ==
    /\ pc = "len"
    /\ len' = USART_RX_CNT
    /\ pc' = "clear"
    /\ UNCHANGED <<line, buf, rxlen, i, given>>

(* fault: only the bytes that were copied are taken off the count *)
ClearedFault == USART_RX_CNT - rxlen

Cleared == 0

Clear ==
    /\ pc = "clear"
    /\ USART_RX_CNT' = Cleared
    /\ given' = due /\ due' = <<>>
    /\ pc' = "parse"
    /\ UNCHANGED <<USART_RX_BUF, buf, len, rxlen, i>>

(* rsuParse wipes the bytes it was given if it finds the start of a command among  *)
(* them, whatever the command, and leaves them otherwise.                          *)
Parse ==
    /\ pc = "parse"
    /\ \/ len > 0 /\ buf' = [k \in Index |-> IF k < len THEN ZERO ELSE buf[k]]
       \/ UNCHANGED buf
    /\ pc' = "delay"
    /\ UNCHANGED <<line, len, rxlen, i, given>>

Task == Call \/ Check \/ Copy \/ SetLen \/ Clear \/ Parse

Next == (\E b \in Byte : Receive(b)) \/ Task

(* communication_task has the lowest priority, but the tasks above it block. *)
Spec == Init /\ [][Next]_vars /\ WF_vars(Task)

-------------------------------------------------------------------------------
(* Whatever the interrupt does meanwhile, the bytes RS485_Receive_Data copies, the  *)
(* first rxlen of the len it hands over, are those that came first since the last   *)
(* call took some, in their order, none twice and none left out; and as many as it   *)
(* counts beyond them did come. What it hands over in their place: OnlyReceivedHanded. *)
HandedAsReceived ==
    pc = "parse" /\ len > 0 =>
        /\ rxlen <= len /\ len <= Len(given)
        /\ \A k \in 1..rxlen : buf[k-1] = given[k]

(* Bytes that are stored while the task waits are handed over, all of them by the   *)
(* same call, also when the line is never quiet: the full buffer puts an end to the  *)
(* counting (l.142 and l.164). Of bytes that come during a call this is not so:       *)
(* StoredIsHanded.                                                                *)
HandsOver(n) == pc = "parse" /\ len > 0 /\ rxlen >= n

EventuallyHanded ==
    \A n \in 1..LENGTH : (pc = "delay" /\ USART_RX_CNT >= n) ~> HandsOver(n)

(* What the comment of usart.c:157 promises, that all the bytes handed over are     *)
(* those read, is so when none came in between the copy and the clearing.          *)
QuietIsExact ==
    pc = "parse" /\ len > 0 /\ Len(given) = rxlen =>
        len = rxlen /\ \A k \in 1..len : buf[k-1] = given[k]

-------------------------------------------------------------------------------
(* usart.c:157 says len is the length of the data read: all the bytes handed over  *)
(* were received for this call. Refuted: l.170 counts bytes that were not copied,   *)
(* and in their place the buffer ends in what an earlier call left.                *)
OnlyReceivedHanded ==
    pc = "parse" => \A k \in 1..len : buf[k-1] = given[k]

(* Every byte stored is handed over in the end. Refuted: l.171 drops those that     *)
(* came after the copy.                                                           *)
StoredIsHanded == \A n \in 1..LENGTH : (USART_RX_CNT >= n) ~> HandsOver(n)
=============================================================================
