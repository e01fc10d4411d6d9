----------------------------- MODULE Rs485_proofs -----------------------------
(* The RS485 receiver, for any bytes, any length of its buffer and an interrupt    *)
(* between any two steps of RS485_Receive_Data. What is stored is what is due, in   *)
(* its place; the copy runs behind the interrupt, over bytes that stay; and the    *)
(* count read last is not less than the one read first.                           *)
EXTENDS Rs485, SequenceTheorems, TLAPS

(* The buffer holds the bytes that are due. *)
Stored ==
    /\ Len(due) = USART_RX_CNT
    /\ \A k \in 1..Len(due) : USART_RX_BUF[k-1] = due[k]

(* The first n bytes due have been copied. *)
Copied(n) == \A k \in 1..n : buf[k-1] = due[k]

(* The call, from the first reading of the count to the clearing. *)
Calling ==
    /\ pc \in {"check", "copy", "len", "clear"} => rxlen <= USART_RX_CNT
    /\ pc \in {"check", "copy", "len"} => len = 0
    /\ pc = "check" => i = 0
    /\ pc = "copy" => i <= rxlen /\ Copied(i)
    /\ pc \in {"len", "clear"} => Copied(rxlen)
    /\ pc = "clear" => rxlen <= len /\ len <= USART_RX_CNT

RInv == TypeOK /\ Stored /\ Calling /\ HandedAsReceived

-------------------------------------------------------------------------------
USE Rs485Assumption
USE DEF Index, line, local

LEMMA InitRInv == Init => RInv
<1> SUFFICES ASSUME Init
             PROVE  RInv
    OBVIOUS
<1>1. TypeOK
    BY EmptySeq DEF Init, TypeOK
<1>2. Stored
    BY EmptySeq DEF Init, Stored
<1>3. Calling /\ HandedAsReceived
    BY DEF Init, Calling, HandedAsReceived
<1>4. QED
    BY <1>1, <1>2, <1>3 DEF RInv

(* The interrupt stores behind what is due: what is copied stays as it was. *)
LEMMA ReceiveKeeps ==
    ASSUME RInv, NEW b \in Byte, Receive(b)
    PROVE  RInv'
<1>1. CASE UNCHANGED line
    BY <1>1 DEF Receive, RInv, TypeOK, Stored, Calling, Copied, HandedAsReceived
<1>2. CASE /\ USART_RX_CNT < LENGTH
           /\ USART_RX_BUF' = [USART_RX_BUF EXCEPT ![USART_RX_CNT] = b]
           /\ USART_RX_CNT' = USART_RX_CNT + 1
           /\ due' = Append(due, b)
    <2>1. /\ due' \in Seq(Byte) /\ Len(due') = Len(due) + 1 /\ due'[Len(due) + 1] = b
          /\ \A k \in 1..Len(due) : due'[k] = due[k]
        BY <1>2, AppendProperties DEF RInv, TypeOK
    <2>2. /\ USART_RX_CNT \in 0..LENGTH /\ Len(due) = USART_RX_CNT
          /\ UNCHANGED <<buf, len, rxlen, i, given, pc>>
        BY DEF RInv, TypeOK, Stored, Receive
    <2>3. TypeOK'
        BY <1>2, <2>1, <2>2 DEF RInv, TypeOK
    <2>4. Stored'
        <3>1. /\ USART_RX_BUF'[USART_RX_CNT] = b
              /\ \A k \in 0..USART_RX_CNT-1 : USART_RX_BUF'[k] = USART_RX_BUF[k]
            BY <1>2, <2>2 DEF RInv, TypeOK
        <3>2. ASSUME NEW k \in 1..Len(due')
              PROVE  USART_RX_BUF'[k-1] = due'[k]
            <4>1. CASE k = Len(due) + 1
                BY <2>1, <2>2, <3>1, <4>1
            <4>2. CASE k # Len(due) + 1
                <5>1. k \in 1..Len(due) /\ k-1 \in 0..USART_RX_CNT-1
                    BY <2>1, <2>2, <4>2
                <5>2. QED
                    BY <2>1, <3>1, <5>1 DEF RInv, Stored
            <4>3. QED
                BY <4>1, <4>2
        <3>3. QED
            BY <1>2, <2>1, <2>2, <3>2 DEF Stored
    <2>5. Calling'
        <3>1. \A n \in 0..USART_RX_CNT : Copied(n) => Copied(n)'
            BY <2>1, <2>2 DEF Copied
        <3>2. i \in Nat /\ rxlen \in Nat /\ len \in Nat
            BY DEF RInv, TypeOK
        <3>3. /\ pc = "copy" => i \in 0..USART_RX_CNT
              /\ pc \in {"len", "clear"} => rxlen \in 0..USART_RX_CNT
            BY <2>2, <3>2 DEF RInv, Calling
        <3>4. /\ pc' = "copy" => Copied(i)'
              /\ pc' \in {"len", "clear"} => Copied(rxlen)'
            BY <2>2, <3>1, <3>3 DEF RInv, Calling, Copied
        <3>5. QED
            BY <1>2, <2>2, <3>2, <3>4 DEF RInv, Calling
    <2>6. HandedAsReceived'
        BY <2>2 DEF RInv, HandedAsReceived
    <2>7. QED
        BY <2>3, <2>4, <2>5, <2>6 DEF RInv
<1>3. QED
    BY <1>1, <1>2 DEF Receive

(* Steps of the task that leave the receiver's buffer and count alone. *)
LEMMA CopyKeeps ==
    ASSUME RInv, Call \/ Check \/ Copy \/ SetLen
    PROVE  RInv'
<1>1. /\ UNCHANGED <<USART_RX_BUF, USART_RX_CNT, due, given>>
      /\ USART_RX_CNT \in 0..LENGTH /\ Len(due) = USART_RX_CNT
      /\ rxlen \in 0..LENGTH /\ i \in 0..LENGTH /\ len \in 0..LENGTH
      /\ buf \in [Index -> Byte \cup {ZERO}]
    BY DEF RInv, TypeOK, Stored, Call, Check, Copy, SetLen
<1>2. Stored'
    BY <1>1 DEF RInv, Stored
<1>3. CASE Call
    <2>1. TypeOK'
        BY <1>1, <1>3 DEF RInv, TypeOK, Call
    <2>2. QED
        BY <1>1, <1>2, <1>3, <2>1 DEF RInv, Calling, HandedAsReceived, Call
<1>4. CASE Check
    <2>1. TypeOK'
        BY <1>1, <1>4 DEF RInv, TypeOK, Check
    <2>2. QED
        BY <1>1, <1>2, <1>4, <2>1 DEF RInv, Calling, Copied, HandedAsReceived, Check
<1>5. CASE Copy /\ i < rxlen
    <2>1. /\ pc = "copy" /\ pc' = pc /\ i' = i + 1 /\ UNCHANGED <<len, rxlen>>
          /\ buf' = [buf EXCEPT ![i] = USART_RX_BUF[i]]
          /\ rxlen <= USART_RX_CNT /\ len = 0 /\ Copied(i)
        BY <1>5 DEF RInv, Calling, Copy
    <2>2. i \in Index /\ USART_RX_BUF[i] \in Byte \cup {ZERO}
        BY <1>1, <1>5, <2>1 DEF RInv, TypeOK
    <2>3. TypeOK'
        BY <1>1, <1>5, <2>1, <2>2 DEF RInv, TypeOK
    <2>4. buf'[i] = due[i+1]
        <3>1. i + 1 \in 1..Len(due) /\ (i + 1) - 1 = i
            BY <1>1, <1>5, <2>1
        <3>2. USART_RX_BUF[i] = due[i+1]
            BY <3>1 DEF RInv, Stored
        <3>3. QED
            BY <1>1, <2>1, <2>2, <3>2
    <2>5. ASSUME NEW k \in 1..i+1
          PROVE  buf'[k-1] = due[k]
        <3>1. CASE k = i + 1
            BY <1>1, <2>4, <3>1
        <3>2. CASE k # i + 1
            <4>1. k \in 1..i /\ k-1 \in Index /\ k-1 # i
                BY <1>1, <2>2, <3>2
            <4>2. QED
                BY <1>1, <2>1, <4>1 DEF Copied
        <3>3. QED
            BY <3>1, <3>2
    <2>6. Calling'
        BY <1>1, <1>5, <2>1, <2>5 DEF Calling, Copied
    <2>7. QED
        BY <1>2, <2>1, <2>3, <2>6 DEF RInv, HandedAsReceived
<1>6. CASE Copy /\ ~(i < rxlen)
    <2>1. /\ pc = "copy" /\ pc' = "len" /\ UNCHANGED <<len, rxlen, buf, i>>
          /\ rxlen <= USART_RX_CNT /\ len = 0 /\ Copied(rxlen)
        BY <1>1, <1>6 DEF RInv, Calling, Copied, Copy
    <2>2. TypeOK'
        BY <1>1, <2>1 DEF RInv, TypeOK
    <2>3. QED
        BY <1>1, <1>2, <2>1, <2>2 DEF RInv, Calling, Copied, HandedAsReceived
<1>7. CASE SetLen
    <2>1. TypeOK'
        BY <1>1, <1>7 DEF RInv, TypeOK, SetLen
    <2>2. QED
        BY <1>1, <1>2, <1>7, <2>1 DEF RInv, Calling, Copied, HandedAsReceived, SetLen
<1>8. QED
    BY <1>3, <1>4, <1>5, <1>6, <1>7

(* The clearing hands over what was due, *)
LEMMA ClearKeeps ==
    ASSUME RInv, Clear
    PROVE  RInv'
<1>1. /\ pc = "clear" /\ pc' = "parse" /\ USART_RX_CNT' = 0 /\ given' = due /\ due' = <<>>
      /\ UNCHANGED <<USART_RX_BUF, buf, len, rxlen, i>>
    BY DEF Clear, Cleared
<1>2. TypeOK'
    BY <1>1, EmptySeq DEF RInv, TypeOK
<1>3. Stored'
    BY <1>1, EmptySeq DEF Stored
<1>4. Calling' /\ HandedAsReceived'
    BY <1>1 DEF RInv, Stored, Calling, Copied, HandedAsReceived
<1>5. QED
    BY <1>2, <1>3, <1>4 DEF RInv

(* and the parser wipes its own copy only. *)
LEMMA ParseKeeps ==
    ASSUME RInv, Parse
    PROVE  RInv'
<1>1. /\ pc' = "delay" /\ UNCHANGED <<USART_RX_BUF, USART_RX_CNT, due, len, rxlen, i, given>>
      /\ buf' = buf \/ buf' = [k \in Index |-> IF k < len THEN ZERO ELSE buf[k]]
    BY DEF Parse
<1>2. buf' \in [Index -> Byte \cup {ZERO}]
    BY <1>1 DEF RInv, TypeOK
<1>3. QED
    BY <1>1, <1>2 DEF RInv, TypeOK, Stored, Calling, HandedAsReceived

LEMMA Invariance == Spec => []RInv
<1>1. ASSUME RInv, [Next]_vars
      PROVE  RInv'
    <2>1. CASE UNCHANGED vars
        BY <1>1, <2>1 DEF vars, RInv, TypeOK, Stored, Calling, Copied, HandedAsReceived
    <2>2. QED
        BY <1>1, <2>1, ReceiveKeeps, CopyKeeps, ClearKeeps, ParseKeeps DEF Next, Task
<1>2. QED
    BY <1>1, InitRInv, PTL DEF Spec

(* Counts and places stay in both buffers, whatever the line sends. *)
THEOREM ReceiverTypeCorrect == Spec => []TypeOK
<1>1. RInv => TypeOK
    BY DEF RInv
<1>2. QED
    BY <1>1, Invariance, PTL

(* The bytes RS485_Receive_Data copies, the first rxlen of the len it hands over,    *)
(* are the first that came, in their order, and it counts no byte that did not come  *)
(* (usart.c 158-172). Of the bytes from rxlen on nothing is claimed.               *)
THEOREM HandsAsReceived == Spec => []HandedAsReceived
<1>1. RInv => HandedAsReceived
    BY DEF RInv
<1>2. QED
    BY <1>1, Invariance, PTL

(* A call during which no byte comes hands over exactly the bytes received: there   *)
(* are no others among the len.                                                   *)
THEOREM QuietCallIsExact == Spec => []QuietIsExact
<1>1. RInv => QuietIsExact
    BY DEF RInv, TypeOK, HandedAsReceived, QuietIsExact
<1>2. QED
    BY <1>1, Invariance, PTL
===============================================================================
