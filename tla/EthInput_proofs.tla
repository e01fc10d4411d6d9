---------------------------- MODULE EthInput_proofs ----------------------------
(* A frame's way in, for any frames, descriptors, packet buffers and messages. The *)
(* mailbox of tcpip_thread has room, as long as it is larger by two than the input *)
(* messages: a place in it is taken by an input message or by the one call in      *)
(* progress. No packet buffer is lost, wherever its packet is. And the frames on   *)
(* their way in are a channel that may lose some, but keeps their order.           *)
EXTENDS EthInput, SequenceTheorems, FiniteSetTheorems, WellFoundedInduction, TLAPS

Message == Frame \cup {"api"}

(* What the argument needs of the types. *)
Typed ==
    /\ ring \in [Desc -> Frame \cup {NULL}] /\ DMARxDescToGet \in Desc
    /\ p \in Frame \cup {NULL} /\ (isr = "post" => p # NULL)
    /\ mbox \in Seq(Message) /\ hand \in Frame \cup {"api", "done", NULL}
    /\ inpkt \in Nat /\ api \in BOOLEAN

(* A call in progress is one message, in the mailbox or in the hands of the thread; *)
(* without one there is none.                                                      *)
OneCall ==
    /\ hand = "api" => api
    /\ \A k \in 1..Len(mbox) : mbox[k] = "api" => api /\ hand # "api"
    /\ \A j, k \in 1..Len(mbox) : mbox[j] = "api" /\ mbox[k] = "api" => j = k

InHand == IF hand = NULL THEN 0 ELSE 1
Calls == IF api THEN 1 ELSE 0

(* Each input message is free, in the mailbox or in hand. *)
Accounted == Len(mbox) + InHand + inpkt = INPKT + Calls

RInv == Typed /\ OneCall /\ Accounted

-------------------------------------------------------------------------------
LEMMA After_Desc == \A d \in Desc : After(d) \in Desc
BY InputAssumption DEF After, Desc

LEMMA RInvInit == Init => RInv
BY InputAssumption DEF Init, RInv, Typed, OneCall, Accounted, InHand, Calls, Desc, Message

(* Steps that leave the messages alone. *)
LEMMA ElsewhereKeeps ==
    ASSUME RInv, UNCHANGED <<mbox, api, hand, inpkt>>,
           (/\ ring \in [Desc -> Frame \cup {NULL}] /\ DMARxDescToGet \in Desc
            /\ p \in Frame \cup {NULL} /\ (isr = "post" => p # NULL))'
    PROVE  RInv'
BY DEF RInv, Typed, OneCall, Accounted, InHand, Calls

LEMMA HandlerKeeps ==
    ASSUME RInv, (\E f \in Frame : Arrive(f)) \/ Interrupt \/ Look \/ Give \/ Clear \/ Use
    PROVE  RInv'
<1> USE DEF RInv, Typed, dmaVars, isrVars, memVars, threadVars
<1>1. UNCHANGED <<mbox, api, hand, inpkt>>
    BY DEF Arrive, Interrupt, Look, Give, Clear, Use
<1>2. CASE \E f \in Frame : Arrive(f)
    BY <1>1, <1>2, ElsewhereKeeps DEF Arrive
<1>3. CASE Interrupt \/ Clear \/ Use
    BY <1>1, <1>3, ElsewhereKeeps DEF Interrupt, Clear, Use
<1>4. CASE Look
    <2>1. ring[DMARxDescToGet] \in Frame \cup {NULL}
        OBVIOUS
    <2>2. (/\ DMARxDescToGet \in Desc /\ p \in Frame \cup {NULL} /\ isr # "post")'
        BY <1>4, <2>1, After_Desc DEF Look
    <2>3. QED
        BY <1>1, <1>4, <2>2, ElsewhereKeeps DEF Look
<1>5. CASE Give
    BY <1>1, <1>5, ElsewhereKeeps DEF Give, Again
<1>6. QED
    BY <1>2, <1>3, <1>4, <1>5

(* A message at the end of the mailbox. *)
LEMMA Appended ==
    ASSUME mbox \in Seq(Message), NEW m \in Message, mbox' = Append(mbox, m)
    PROVE  /\ mbox' \in Seq(Message) /\ Len(mbox') = Len(mbox) + 1
           /\ \A k \in 1..Len(mbox) : mbox'[k] = mbox[k]
           /\ mbox'[Len(mbox) + 1] = m
BY AppendProperties

LEMMA PostKeeps ==
    ASSUME RInv, Post
    PROVE  RInv'
<1>1. /\ UNCHANGED <<ring, DMARxDescToGet, api, hand>> /\ p' = NULL /\ isr' # "post"
      /\ p \in Frame
    BY DEF Post, Again, RInv, Typed, dmaVars
<1>2. CASE Len(mbox) < MBOX /\ inpkt > 0
    <2>1. mbox' = Append(mbox, p) /\ inpkt' = inpkt - 1
        BY <1>2 DEF Post, Posted
    <2>2. /\ mbox' \in Seq(Message) /\ Len(mbox') = Len(mbox) + 1
          /\ \A k \in 1..Len(mbox) : mbox'[k] = mbox[k]
          /\ mbox'[Len(mbox) + 1] = p
        BY <1>1, <2>1, Appended DEF RInv, Typed, Message
    <2>3. Len(mbox) \in Nat
        BY LenProperties DEF RInv, Typed
    <2>4. Typed'
        BY <1>1, <1>2, <2>1, <2>2 DEF RInv, Typed
    <2>5. OneCall'
        BY <1>1, <2>2, <2>3, InputAssumption DEF RInv, OneCall
    <2>6. Accounted'
        <3>1. inpkt \in Nat /\ Len(mbox) + InHand + inpkt = INPKT + Calls
            BY DEF RInv, Typed, Accounted
        <3>2. InHand' = InHand /\ Calls' = Calls /\ InHand \in Nat /\ Calls \in Nat
            BY <1>1 DEF InHand, Calls
        <3>3. QED
            BY <2>1, <2>2, <2>3, <3>1, <3>2, InputAssumption, SMTT(20) DEF Accounted
    <2>7. QED
        BY <2>4, <2>5, <2>6 DEF RInv
<1>3. CASE ~(Len(mbox) < MBOX /\ inpkt > 0)
    BY <1>1, <1>3, ElsewhereKeeps DEF Post, RInv, Typed
<1>4. QED
    BY <1>2, <1>3

LEMMA CallKeeps ==
    ASSUME RInv, tcpip_apimsg
    PROVE  RInv'
<1>1. /\ UNCHANGED <<ring, DMARxDescToGet, p, isr, hand, inpkt>> /\ ~api /\ api' = TRUE
      /\ mbox' = Append(mbox, "api")
    BY DEF tcpip_apimsg, Posted, dmaVars, isrVars, memVars
<1>2. /\ mbox' \in Seq(Message) /\ Len(mbox') = Len(mbox) + 1
      /\ \A k \in 1..Len(mbox) : mbox'[k] = mbox[k]
      /\ mbox'[Len(mbox) + 1] = "api"
    BY <1>1, Appended DEF RInv, Typed, Message
<1>3. Len(mbox) \in Nat
    BY LenProperties DEF RInv, Typed
<1>4. Typed'
    BY <1>1, <1>2 DEF RInv, Typed
<1>5. OneCall'
    BY <1>1, <1>2, <1>3 DEF RInv, OneCall
<1>6. Accounted'
    <2>1. inpkt \in Nat /\ Len(mbox) + InHand + inpkt = INPKT + Calls
        BY DEF RInv, Typed, Accounted
    <2>2. InHand' = InHand /\ InHand \in Nat /\ Calls' = 1 /\ Calls = 0
        BY <1>1 DEF InHand, Calls
    <2>3. QED
        BY <1>1, <1>2, <1>3, <2>1, <2>2, InputAssumption DEF Accounted
<1>7. QED
    BY <1>4, <1>5, <1>6 DEF RInv

LEMMA FetchKeeps ==
    ASSUME RInv, Fetch
    PROVE  RInv'
<1>1. /\ UNCHANGED <<ring, DMARxDescToGet, p, isr, api, inpkt>> /\ hand = NULL
      /\ mbox # <<>> /\ hand' = Head(mbox) /\ mbox' = Tail(mbox)
    BY DEF Fetch, dmaVars, isrVars, memVars
<1>2. /\ mbox \in Seq(Message) /\ Len(mbox) \in Nat /\ Len(mbox) > 0
      /\ hand' = mbox[1] /\ hand' \in Message
      /\ mbox' \in Seq(Message) /\ Len(mbox') = Len(mbox) - 1
      /\ \A k \in 1..Len(mbox)-1 : mbox'[k] = mbox[k + 1]
    BY <1>1, HeadTailProperties, EmptySeq, LenProperties DEF RInv, Typed
<1>3. Typed'
    BY <1>1, <1>2 DEF RInv, Typed, Message
<1>4. OneCall'
    BY <1>1, <1>2 DEF RInv, OneCall
<1>5. Accounted'
    BY <1>1, <1>2, InputAssumption DEF RInv, Typed, Accounted, InHand, Calls, Message
<1>6. QED
    BY <1>3, <1>4, <1>5 DEF RInv

LEMMA ThreadKeeps ==
    ASSUME RInv, Answer \/ ethernet_input \/ FreeMsg
    PROVE  RInv'
<1>1. UNCHANGED <<ring, DMARxDescToGet, p, isr, mbox>> /\ Len(mbox) \in Nat
    BY LenProperties DEF Answer, ethernet_input, FreeMsg, dmaVars, isrVars, RInv, Typed
<1>2. Typed'
    <2>1. inpkt' \in Nat
        BY DEF RInv, Typed, Answer, ethernet_input, FreeMsg, memVars
    <2>2. hand' \in Frame \cup {"api", "done", NULL} /\ api' \in BOOLEAN
        BY DEF RInv, Typed, Answer, ethernet_input, FreeMsg
    <2>3. QED
        BY <1>1, <2>1, <2>2 DEF RInv, Typed
<1>3. OneCall'
    BY <1>1, InputAssumption DEF RInv, OneCall, Answer, ethernet_input, FreeMsg
<1>4. Accounted'
    BY <1>1, InputAssumption
       DEF RInv, Typed, OneCall, Accounted, InHand, Calls, Answer, ethernet_input, FreeMsg,
           memVars
<1>5. QED
    BY <1>2, <1>3, <1>4 DEF RInv

LEMMA RInvHolds == Spec => []RInv
<1>1. RInv /\ UNCHANGED vars => RInv'
    BY DEF RInv, Typed, OneCall, Accounted, InHand, Calls, vars, dmaVars, isrVars, memVars,
           threadVars
<1>2. RInv /\ [Next]_vars => RInv'
    BY <1>1, HandlerKeeps, PostKeeps, CallKeeps, FetchKeeps, ThreadKeeps
       DEF Next, Handler, Thread
<1>3. QED
    BY <1>2, RInvInit, PTL DEF Spec

(* Whatever comes in, the mailbox of tcpip_thread never fills up: the input        *)
(* messages run out first (tcpip.c, sys_arch.c). So sys_mbox_post never spins.     *)
THEOREM MailboxAlwaysHasRoom == Spec => []MailboxHasRoom
<1>1. ASSUME RInv
      PROVE  MailboxHasRoom
    <2>1. Len(mbox) \in Nat /\ inpkt \in Nat
        BY <1>1, LenProperties DEF RInv, Typed
    <2>2. QED
        BY <1>1, <2>1, InputAssumption DEF RInv, Accounted, InHand, Calls, MailboxHasRoom
<1>2. QED
    BY <1>1, RInvHolds, PTL

-------------------------------------------------------------------------------
(* Sums over a mailbox. The induction is over its length, by the least length at  *)
(* which a statement would fail.                                                  *)
LEMMA LeastNumber ==
    ASSUME NEW T, T \subseteq Nat, T # {}
    PROVE  \E x \in T : \A y \in T : x <= y
<1>1. PICK x \in T : \A y \in T : ~(<<y, x>> \in OpToRel(<, Nat))
    BY NatLessThanWellFounded, WFMin
<1>2. \A y \in T : <<y, x>> \in OpToRel(<, Nat) <=> y < x
    BY DEF OpToRel
<1>3. \A y \in T : ~(y < x)
    BY <1>1, <1>2, Zenon
<1>4. x \in T
    OBVIOUS
<1> HIDE <1>1, <1>2
<1>5. QED
    BY <1>3, <1>4, SMT

LEMMA BuffersTyped == \A m : Buffers(m) \in Nat
BY InputAssumption DEF Buffers

(* g is the function that Held sums up with, as far as k. *)
IsSum(s, k, g) == g = [n \in 0..k |-> IF n = 0 THEN 0 ELSE g[n-1] + Buffers(s[n])]

LEMMA SumExists ==
    ASSUME NEW s
    PROVE  \A k \in Nat : \E g : IsSum(s, k, g)
<1> DEFINE T == {k \in Nat : ~ \E g : IsSum(s, k, g)}
<1>1. 0 \notin T
    <2>1. IsSum(s, 0, [n \in 0..0 |-> 0])
        BY DEF IsSum
    <2>2. QED
        BY <2>1
<1>2. ASSUME NEW k \in Nat, k \notin T
      PROVE  k + 1 \notin T
    <2>1. PICK g : IsSum(s, k, g)
        BY <1>2
    <2> DEFINE f == [n \in 0..k+1 |-> IF n = k + 1 THEN g[k] + Buffers(s[k+1]) ELSE g[n]]
               h == [n \in 0..k+1 |-> IF n = 0 THEN 0 ELSE f[n-1] + Buffers(s[n])]
    <2>2. \A n \in 0..k : g[n] = IF n = 0 THEN 0 ELSE g[n-1] + Buffers(s[n])
        BY <2>1 DEF IsSum
    <2>3. ASSUME NEW n \in 0..k+1
          PROVE  f[n] = h[n]
        <3>1. CASE n = k + 1
            BY <3>1
        <3>2. CASE n # k + 1
            BY <3>2, <2>2
        <3>3. QED
            BY <3>1, <3>2
    <2>4. f = h
        BY <2>3
    <2>5. QED
        BY <2>4 DEF IsSum
<1>3. ASSUME T # {}
      PROVE  FALSE
    <2>1. PICK x \in T : \A y \in T : x <= y
        BY <1>3, LeastNumber
    <2> HIDE DEF T
    <2>2. x \in Nat /\ x # 0
        BY <1>1 DEF T
    <2>3. x - 1 \in Nat /\ x - 1 \notin T /\ (x - 1) + 1 = x
        BY <2>1, <2>2
    <2>4. QED
        BY <1>2, <2>3
<1>4. QED
    BY <1>3

LEMMA SumTyped ==
    ASSUME NEW s, NEW m \in Nat, NEW g, IsSum(s, m, g)
    PROVE  \A n \in 0..m : g[n] \in Nat
<1> DEFINE T == {n \in 0..m : g[n] \notin Nat}
<1>1. \A n \in 0..m : g[n] = IF n = 0 THEN 0 ELSE g[n-1] + Buffers(s[n])
    BY DEF IsSum
<1>2. ASSUME T # {}
      PROVE  FALSE
    <2>1. PICK x \in T : \A y \in T : x <= y
        <3>1. T \subseteq Nat
            OBVIOUS
        <3> HIDE DEF T
        <3>2. QED
            BY <1>2, <3>1, LeastNumber
    <2>2. x \in 0..m /\ g[x] \notin Nat /\ x # 0
        BY <1>1
    <2>3. x - 1 \in 0..m /\ g[x-1] \in Nat
        BY <2>1, <2>2
    <2>4. QED
        BY <1>1, <2>2, <2>3, BuffersTyped
<1>3. QED
    BY <1>2

(* A function that adds up the same buffers, message by message. *)
AddsUp(s, m, f) ==
    /\ m \in Nat /\ f[0] = 0
    /\ \A k \in 0..m : f[k] \in Nat
    /\ \A k \in 1..m : f[k] = f[k-1] + Buffers(s[k])

LEMMA SumsAgree ==
    ASSUME NEW s, NEW m, NEW f, NEW g, AddsUp(s, m, f), AddsUp(s, m, g)
    PROVE  \A k \in 0..m : f[k] = g[k]
<1> DEFINE T == {k \in 0..m : f[k] # g[k]}
<1>1. /\ m \in Nat /\ f[0] = 0 /\ g[0] = 0
      /\ \A k \in 1..m : /\ f[k] = f[k-1] + Buffers(s[k])
                         /\ g[k] = g[k-1] + Buffers(s[k])
    BY DEF AddsUp
<1>2. ASSUME T # {}
      PROVE  FALSE
    <2>1. PICK x \in T : \A y \in T : x <= y
        <3>1. T \subseteq Nat
            BY <1>1
        <3> HIDE DEF T
        <3>2. QED
            BY <1>2, <3>1, LeastNumber
    <2>2. x \in 0..m /\ f[x] # g[x]
        OBVIOUS
    <2>3. x # 0
        BY <1>1, <2>2
    <2>4. x - 1 \in 0..m /\ x \in 1..m /\ f[x-1] = g[x-1]
        BY <1>1, <2>1, <2>2, <2>3
    <2>5. QED
        BY <1>1, <2>2, <2>4
<1>3. QED
    BY <1>2

(* What Held computes: the sum up to k, step by step. *)
LEMMA HeldIsSum ==
    ASSUME NEW s, NEW m \in Nat
    PROVE  \E f : AddsUp(s, m, f) /\ Held(s, m) = f[m]
<1>1. \E g : g = [n \in 0..m |-> IF n = 0 THEN 0 ELSE g[n-1] + Buffers(s[n])]
    BY SumExists DEF IsSum
<1>2. \E g : IsSum(s, m, g) /\ Held(s, m) = g[m]
    BY <1>1, Zenon DEF Held, IsSum
<1>3. PICK g : IsSum(s, m, g) /\ Held(s, m) = g[m]
    BY <1>2
<1>4. \A n \in 0..m : g[n] = IF n = 0 THEN 0 ELSE g[n-1] + Buffers(s[n])
    BY <1>3 DEF IsSum
<1>5. AddsUp(s, m, g)
    BY <1>3, <1>4, SumTyped DEF AddsUp
<1>6. QED
    BY <1>3, <1>5

LEMMA HeldIs ==
    ASSUME NEW s, NEW m, NEW f, AddsUp(s, m, f)
    PROVE  Held(s, m) = f[m]
<1>1. m \in Nat
    BY DEF AddsUp
<1>2. PICK g : AddsUp(s, m, g) /\ Held(s, m) = g[m]
    BY <1>1, HeldIsSum
<1>3. QED
    BY <1>1, <1>2, SumsAgree

(* A message behind the others adds its buffers. *)
LEMMA HeldAppended ==
    ASSUME NEW s, NEW t, NEW n \in Nat, NEW m,
           \A k \in 1..n : t[k] = s[k], t[n+1] = m
    PROVE  Held(t, n + 1) = Held(s, n) + Buffers(m)
<1>1. PICK f : AddsUp(s, n, f) /\ Held(s, n) = f[n]
    BY HeldIsSum
<1>2. PICK g : AddsUp(t, n + 1, g) /\ Held(t, n + 1) = g[n+1]
    BY HeldIsSum
<1>3. AddsUp(s, n, g)
    BY <1>2 DEF AddsUp
<1>4. g[n] = f[n]
    BY <1>1, <1>3, SumsAgree
<1>5. g[n+1] = g[n] + Buffers(m)
    BY <1>2 DEF AddsUp
<1>6. QED
    BY <1>1, <1>2, <1>4, <1>5

(* A message taken from the front takes its buffers along. *)
LEMMA HeldTail ==
    ASSUME NEW s, NEW t, NEW n \in Nat, \A k \in 1..n : t[k] = s[k+1]
    PROVE  Held(s, n + 1) = Buffers(s[1]) + Held(t, n)
<1>1. PICK g : AddsUp(t, n, g) /\ Held(t, n) = g[n]
    BY HeldIsSum
<1> DEFINE f == [k \in 0..n+1 |-> IF k = 0 THEN 0 ELSE Buffers(s[1]) + g[k-1]]
<1>2. f[0] = 0 /\ f[n+1] = Buffers(s[1]) + g[n]
    OBVIOUS
<1>3. ASSUME NEW k \in 1..n+1
      PROVE  f[k] = f[k-1] + Buffers(s[k])
    <2>1. f[k] = Buffers(s[1]) + g[k-1]
        OBVIOUS
    <2>2. CASE k = 1
        BY <1>1, <2>1, <2>2, BuffersTyped DEF AddsUp
    <2>3. CASE k # 1
        <3>1. k - 1 \in 1..n /\ f[k-1] = Buffers(s[1]) + g[k-2]
            BY <2>3
        <3>2. g[k-1] = g[k-2] + Buffers(t[k-1]) /\ t[k-1] = s[k]
            BY <1>1, <3>1 DEF AddsUp
        <3>3. g[k-2] \in Nat
            BY <1>1, <3>1 DEF AddsUp
        <3>4. QED
            BY <2>1, <3>1, <3>2, <3>3, BuffersTyped
    <2>4. QED
        BY <2>2, <2>3
<1>4. AddsUp(s, n + 1, f)
    <2>1. \A k \in 0..n+1 : f[k] \in Nat
        BY <1>1, BuffersTyped DEF AddsUp
    <2> HIDE DEF f
    <2>2. QED
        BY <1>2, <1>3, <2>1 DEF AddsUp
<1>5. QED
    BY <1>1, <1>2, <1>4, HeldIs

-------------------------------------------------------------------------------
(* Packet buffers are counted where they are, however many a mailbox holds. *)
BInv == /\ pool \in Nat /\ kept \in Nat
        /\ isr \notin {"give", "post"} => p = NULL
        /\ NothingLeaks

LEMMA MailboxLen == ASSUME RInv PROVE Len(mbox) \in Nat /\ mbox \in Seq(Message)
BY LenProperties DEF RInv, Typed

LEMMA NoBuffers == Buffers(NULL) = 0 /\ Buffers("api") = 0 /\ Buffers("done") = 0
BY InputAssumption DEF Buffers

LEMMA FrameBuffers == \A f \in Frame : Buffers(f) = Size[f] /\ Size[f] \in Nat
BY InputAssumption DEF Buffers

LEMMA HeldTyped == ASSUME NEW s, NEW n \in Nat PROVE Held(s, n) \in Nat
BY HeldIsSum DEF AddsUp

LEMMA BInvInit == Init => BInv
<1> SUFFICES ASSUME Init
             PROVE  BInv
    OBVIOUS
<1>1. /\ pool = POOL /\ kept = 0 /\ p = NULL /\ hand = NULL /\ mbox = <<>>
      /\ Len(mbox) = 0 /\ POOL \in Nat
    BY InputAssumption DEF Init
<1>2. Held(mbox, 0) = 0
    <2>1. AddsUp(mbox, 0, [k \in 0..0 |-> 0])
        BY DEF AddsUp
    <2>2. QED
        BY <2>1, HeldIs
<1>3. QED
    BY <1>1, <1>2, NoBuffers DEF BInv, NothingLeaks

LEMMA BInvStep == RInv /\ BInv /\ [Next]_vars => BInv'
<1> SUFFICES ASSUME RInv, BInv, [Next]_vars
             PROVE  BInv'
    OBVIOUS
<1> DEFINE held == Held(mbox, Len(mbox))
<1>1. /\ pool \in Nat /\ kept \in Nat /\ held \in Nat
      /\ Buffers(p) \in Nat /\ Buffers(hand) \in Nat
      /\ pool + kept + Buffers(p) + Buffers(hand) + held = POOL
    BY MailboxLen, HeldTyped, BuffersTyped DEF BInv, NothingLeaks
<1>2. mbox' = mbox => held' = held
    OBVIOUS
<1>3. ASSUME pool' \in Nat, kept' \in Nat, isr' \notin {"give", "post"} => p' = NULL,
             pool' + kept' + Buffers(p') + Buffers(hand') + held' = POOL
      PROVE  BInv'
    <2>1. Buffers(p)' = Buffers(p') /\ Buffers(hand)' = Buffers(hand')
        BY DEF Buffers
    <2>2. QED
        BY <1>3, <2>1 DEF BInv, NothingLeaks
<1> HIDE DEF held
<1>4. isr \notin {"give", "post"} => p = NULL
    BY DEF BInv
<1>5. CASE UNCHANGED <<pool, kept, p, hand, mbox>> /\ isr' \in {isr, "post"}
    BY <1>1, <1>2, <1>3, <1>4, <1>5
<1>6. CASE Interrupt \/ Clear
    <2>1. UNCHANGED <<pool, kept, p, hand, mbox>> /\ p = NULL
        BY <1>4, <1>6 DEF Interrupt, Clear, memVars, threadVars
    <2>2. QED
        BY <1>1, <1>2, <1>3, <2>1
<1>7. CASE Look
    <2>1. UNCHANGED <<kept, hand, mbox>> /\ p = NULL
        BY <1>4, <1>7 DEF Look, threadVars
    <2>2. CASE UNCHANGED <<p, pool>>
        BY <1>1, <1>2, <1>3, <2>1, <2>2
    <2>3. CASE ~UNCHANGED <<p, pool>>
        <3> DEFINE f == ring[DMARxDescToGet]
        <3>1. f \in Frame \cup {NULL} /\ p' \in {f, NULL}
            BY <1>7, <2>3 DEF Look, RInv, Typed
        <3>2. /\ isr' = "give"
              /\ \/ pool >= Size[f] /\ p' = f /\ f # NULL /\ pool' = pool - Size[f]
                 \/ p' = NULL /\ pool' = pool
            BY <1>7, <2>3 DEF Look
        <3> HIDE DEF f
        <3>3. CASE p' = NULL /\ pool' = pool
            BY <2>1, <2>3, <3>3
        <3>4. CASE pool >= Size[f] /\ p' = f /\ f # NULL /\ pool' = pool - Size[f]
            <4>1. Buffers(p') = Size[f] /\ Size[f] \in Nat
                BY <3>1, <3>4, FrameBuffers
            <4>2. QED
                BY <1>1, <1>2, <1>3, <2>1, <3>2, <3>4, <4>1, NoBuffers
        <3>5. QED
            BY <3>2, <3>3, <3>4
    <2>4. QED
        BY <2>2, <2>3
<1>8. CASE Give
    <2>1. UNCHANGED <<pool, kept, p, hand, mbox>> /\ (p = NULL \/ isr' = "post")
        BY <1>8 DEF Give, memVars, threadVars
    <2>2. QED
        BY <1>1, <1>2, <1>3, <2>1
<1>9. CASE Post
    <2>1. /\ UNCHANGED <<kept, hand>> /\ p' = NULL /\ p \in Frame
          /\ Buffers(p') = 0 /\ Buffers(p) = Size[p] /\ Size[p] \in Nat
        BY <1>9, NoBuffers, FrameBuffers DEF Post, RInv, Typed
    <2>2. CASE mbox' = Append(mbox, p) /\ pool' = pool
        <3>1. held' = held + Buffers(p)
            <4>1. /\ Len(mbox) \in Nat /\ Len(mbox') = Len(mbox) + 1
                  /\ \A k \in 1..Len(mbox) : mbox'[k] = mbox[k]
                  /\ mbox'[Len(mbox) + 1] = p
                BY <2>1, <2>2, MailboxLen, Appended DEF Message
            <4>2. Held(mbox', Len(mbox) + 1) = Held(mbox, Len(mbox)) + Buffers(p)
                BY <4>1, HeldAppended
            <4>3. QED
                BY <4>1, <4>2 DEF held
        <3>2. QED
            BY <1>1, <1>3, <2>1, <2>2, <3>1
    <2>3. CASE pool' = pool + Size[p] /\ mbox' = mbox
        BY <1>1, <1>2, <1>3, <2>1, <2>3
    <2>4. QED
        BY <1>9, <2>2, <2>3 DEF Post, Posted
<1>10. CASE tcpip_apimsg
    <2>1. UNCHANGED <<pool, kept, p, isr, hand>> /\ mbox' = Append(mbox, "api")
        BY <1>10 DEF tcpip_apimsg, Posted, isrVars, memVars
    <2>2. /\ Len(mbox) \in Nat /\ Len(mbox') = Len(mbox) + 1
          /\ \A k \in 1..Len(mbox) : mbox'[k] = mbox[k]
          /\ mbox'[Len(mbox) + 1] = "api"
        BY <2>1, MailboxLen, Appended DEF Message
    <2>3. Held(mbox', Len(mbox) + 1) = Held(mbox, Len(mbox)) + Buffers("api")
        BY <2>2, HeldAppended
    <2>4. held' = held
        BY <1>1, <2>2, <2>3, NoBuffers DEF held
    <2>5. QED
        BY <1>1, <1>3, <1>4, <2>1, <2>4
<1>11. CASE Fetch
    <2>1. /\ UNCHANGED <<pool, kept, p, isr>> /\ hand = NULL
          /\ mbox # <<>> /\ hand' = Head(mbox) /\ mbox' = Tail(mbox)
        BY <1>11 DEF Fetch, isrVars, memVars
    <2>2. /\ Len(mbox) - 1 \in Nat /\ (Len(mbox) - 1) + 1 = Len(mbox)
          /\ hand' = mbox[1] /\ Len(mbox') = Len(mbox) - 1
          /\ \A k \in 1..Len(mbox)-1 : mbox'[k] = mbox[k + 1]
        BY <2>1, MailboxLen, HeadTailProperties, EmptySeq
    <2>3. Held(mbox, (Len(mbox) - 1) + 1) = Buffers(mbox[1]) + Held(mbox', Len(mbox) - 1)
        BY <2>2, HeldTail
    <2>4. held = Buffers(hand') + held' /\ Buffers(hand') \in Nat /\ Buffers(hand) = 0
        BY <2>1, <2>2, <2>3, NoBuffers, BuffersTyped DEF held
    <2>5. held' \in Nat
        BY <2>2, HeldTyped DEF held
    <2>6. QED
        BY <1>1, <1>3, <1>4, <2>1, <2>4, <2>5
<1>12. CASE Answer \/ FreeMsg
    <2>1. UNCHANGED <<pool, kept, p, isr, mbox>> /\ hand \in {"api", "done"} /\ hand' = NULL
        BY <1>12 DEF Answer, FreeMsg, isrVars, memVars
    <2>2. QED
        BY <1>1, <1>2, <1>3, <1>4, <2>1, NoBuffers
<1>13. CASE ethernet_input
    <2>1. /\ UNCHANGED <<p, isr, mbox>> /\ hand' = "done"
          /\ Buffers(hand) = Size[hand] /\ Size[hand] \in Nat /\ Buffers(hand') = 0
        BY <1>13, NoBuffers, FrameBuffers DEF ethernet_input, isrVars
    <2>2. CASE kept' = kept + Size[hand] /\ pool' = pool
        BY <1>1, <1>2, <1>3, <1>4, <2>1, <2>2
    <2>3. CASE pool' = pool + Size[hand] /\ kept' = kept
        BY <1>1, <1>2, <1>3, <1>4, <2>1, <2>3
    <2>4. QED
        BY <1>13, <2>2, <2>3 DEF ethernet_input
<1>14. CASE Use
    <2>1. UNCHANGED <<p, isr, hand, mbox>>
        BY <1>14 DEF Use, isrVars, threadVars
    <2>2. PICK f \in Frame : /\ Size[f] <= kept
                             /\ kept' = kept - Size[f] /\ pool' = pool + Size[f]
        BY <1>14 DEF Use
    <2>3. Size[f] \in Nat
        BY FrameBuffers
    <2>4. QED
        BY <1>1, <1>2, <1>3, <1>4, <2>1, <2>2, <2>3
<1>15. CASE \E f \in Frame : Arrive(f)
    <2>1. UNCHANGED <<pool, kept, p, isr, hand, mbox>>
        BY <1>15 DEF Arrive, isrVars, memVars, threadVars
    <2>2. QED
        BY <1>5, <2>1
<1>16. CASE UNCHANGED vars
    BY <1>5, <1>16 DEF vars, isrVars, memVars, threadVars
<1>17. QED
    BY <1>6, <1>7, <1>8, <1>9, <1>10, <1>11, <1>12, <1>13, <1>14, <1>15, <1>16
       DEF Next, Handler, Thread

(* For any frames, sizes of frames, packet buffers, messages and descriptors: no   *)
(* packet buffer is lost or counted twice, whatever runs out and whenever the      *)
(* interrupt comes (ethernetif.c, tcpip.c l.176-195).                              *)
THEOREM NothingEverLeaks == Spec => []NothingLeaks
<1>1. BInv => NothingLeaks
    BY DEF BInv
<1>2. QED
    BY <1>1, RInvHolds, BInvInit, BInvStep, PTL DEF Spec

-------------------------------------------------------------------------------
(* A sequence after the channel's head is gone, after one from its middle is, and  *)
(* with one more at its end.                                                      *)
LEMMA SingleSeq == ASSUME NEW S, NEW x \in S PROVE <<x>> \in Seq(S) /\ Len(<<x>>) = 1 /\ <<x>>[1] = x
OBVIOUS

LEMMA TailOfConcat ==
    ASSUME NEW S, NEW x \in S, NEW s \in Seq(S)
    PROVE  /\ <<x>> \o s # <<>> /\ Head(<<x>> \o s) = x /\ Tail(<<x>> \o s) = s
<1> DEFINE t == <<x>> \o s
<1>1. <<x>> \in Seq(S) /\ Len(<<x>>) = 1 /\ <<x>>[1] = x
    BY SingleSeq
<1>2. Len(s) \in Nat
    BY LenProperties
<1>3. /\ t \in Seq(S) /\ Len(t) = 1 + Len(s)
      /\ \A i \in 1..1 + Len(s) : t[i] = IF i <= 1 THEN <<x>>[i] ELSE s[i - 1]
    BY <1>1, ConcatProperties
<1>4. t # <<>> /\ Head(t) = t[1]
    BY <1>2, <1>3, EmptySeq
<1>5. /\ Tail(t) \in Seq(S) /\ Len(Tail(t)) = Len(t) - 1
      /\ \A i \in 1..Len(Tail(t)) : Tail(t)[i] = t[i + 1]
    BY <1>3, <1>4, HeadTailProperties
<1>6. Len(Tail(t)) = Len(s) /\ \A i \in 1..Len(Tail(t)) : Tail(t)[i] = s[i]
    BY <1>2, <1>3, <1>5
<1>7. Tail(t) = s
    BY <1>5, <1>6, SeqEqual
<1>8. QED
    BY <1>1, <1>2, <1>3, <1>4, <1>7

LEMMA ConsOfTail ==
    ASSUME NEW S, NEW s \in Seq(S), s # <<>>
    PROVE  Head(s) \in S /\ Tail(s) \in Seq(S) /\ s = <<Head(s)>> \o Tail(s)
<1>1. /\ Head(s) \in S /\ Tail(s) \in Seq(S) /\ Len(Tail(s)) = Len(s) - 1
      /\ \A i \in 1..Len(Tail(s)) : Tail(s)[i] = s[i + 1]
    BY HeadTailProperties
<1>2. Len(s) \in Nat \ {0} /\ Head(s) = s[1]
    BY EmptySeq
<1>3. <<Head(s)>> \in Seq(S) /\ Len(<<Head(s)>>) = 1 /\ <<Head(s)>>[1] = Head(s)
    BY <1>1, SingleSeq
<1> DEFINE t == <<Head(s)>> \o Tail(s)
<1>4. /\ t \in Seq(S) /\ Len(t) = Len(<<Head(s)>>) + Len(Tail(s))
      /\ \A i \in 1..Len(<<Head(s)>>) + Len(Tail(s)) : 
            t[i] = IF i <= Len(<<Head(s)>>) THEN <<Head(s)>>[i] ELSE Tail(s)[i - Len(<<Head(s)>>)]
    BY <1>1, <1>3, ConcatProperties
<1>5. Len(t) = Len(s) /\ \A i \in 1..Len(s) : s[i] = t[i]
    BY <1>1, <1>2, <1>3, <1>4
<1>6. s = t
    BY <1>4, <1>5, SeqEqual
<1>7. QED
    BY <1>1, <1>6

LEMMA FramesAssociative == \A s, t, u \in Seq(Frame) : (s \o t) \o u = s \o (t \o u)
BY ConcatAssociative

LEMMA MessagesAssociative == \A s, t, u \in Seq(Message) : (s \o t) \o u = s \o (t \o u)
BY ConcatAssociative

LEMMA RemoveMiddle ==
    ASSUME NEW x \in Message, NEW s \in Seq(Message), NEW t \in Seq(Message)
    PROVE  /\ RemoveAt((s \o <<x>>) \o t, Len(s) + 1) = s \o t
           /\ Len(s) + 1 \in 1..Len((s \o <<x>>) \o t)
<1> DEFINE u == s \o <<x>>
           w == u \o t
           n == Len(s)
<1>1. <<x>> \in Seq(Message) /\ Len(<<x>>) = 1 /\ n \in Nat /\ Len(t) \in Nat
    BY SingleSeq, LenProperties
<1>2. u \in Seq(Message) /\ Len(u) = n + 1
    BY <1>1, ConcatProperties
<1>3. w \in Seq(Message) /\ Len(w) = n + 1 + Len(t)
    BY <1>1, <1>2, ConcatProperties
<1>4. SubSeq(w, 1, n) = s
    <2>1. CASE n = 0
        BY <1>3, <2>1, SubSeqEmpty, EmptySeq
    <2>2. CASE n # 0
        <3>1. SubSeq(w, 1, n) = SubSeq(u, 1, n)
            BY <1>1, <1>2, <2>2, SubSeqOfConcat1
        <3>2. SubSeq(u, 1, n) = SubSeq(s, 1, n)
            BY <1>1, <2>2, SubSeqOfConcat1
        <3>3. QED
            BY <3>1, <3>2, SubSeqFull
    <2>3. QED
        BY <2>1, <2>2
<1>5. SubSeq(w, n + 2, Len(w)) = t
    <2>1. CASE Len(t) = 0
        BY <1>1, <1>3, <2>1, SubSeqEmpty, EmptySeq
    <2>2. CASE Len(t) # 0
        <3>1. SubSeq(w, n + 2, Len(w)) = SubSeq(t, n + 2 - Len(u), Len(w) - Len(u))
            BY <1>1, <1>2, <1>3, <2>2, SubSeqOfConcat2
        <3>2. n + 2 - Len(u) = 1 /\ Len(w) - Len(u) = Len(t)
            BY <1>1, <1>2, <1>3
        <3>3. QED
            BY <3>1, <3>2, SubSeqFull
    <2>3. QED
        BY <2>1, <2>2
<1>6. (n + 1) - 1 = n /\ (n + 1) + 1 = n + 2 /\ n + 1 \in 1..Len(w)
    BY <1>1, <1>3
<1>7. QED
    BY <1>4, <1>5, <1>6 DEF RemoveAt

LEMMA AppendToConcat ==
    ASSUME NEW S, NEW x \in S, NEW s \in Seq(S), NEW t \in Seq(S)
    PROVE  Append(s \o t, x) = s \o Append(t, x)
<1>1. <<x>> \in Seq(S) /\ s \o t \in Seq(S)
    BY SingleSeq, ConcatProperties
<1>2. Append(s \o t, x) = (s \o t) \o <<x>> /\ Append(t, x) = t \o <<x>>
    BY <1>1, AppendIsConcat
<1>3. QED
    BY <1>1, <1>2, ConcatAssociative

-------------------------------------------------------------------------------
(* The frames of a mailbox without a call, and of one with a call.                *)
LEMMA FrameMessage == Frame \subseteq Message /\ Seq(Frame) \subseteq Seq(Message) /\ "api" \notin Frame
<1>1. Frame \subseteq Message /\ "api" \notin Frame
    BY InputAssumption DEF Message
<1>2. QED
    BY <1>1, SeqMonotonic

LEMMA FramesWithout ==
    ASSUME NEW s \in Seq(Frame)
    PROVE  Frames(s) = s
<1>1. \A k \in DOMAIN s : s[k] # "api"
    BY LenProperties, FrameMessage
<1>2. QED
    BY <1>1 DEF Frames

LEMMA FramesWith ==
    ASSUME NEW u \in Seq(Frame), NEW v \in Seq(Frame)
    PROVE  Frames((u \o <<"api">>) \o v) = u \o v
<1> DEFINE s == (u \o <<"api">>) \o v
           calls == {k \in DOMAIN s : s[k] = "api"}
           n == Len(u)
<1>0. u \in Seq(Message) /\ v \in Seq(Message) /\ "api" \in Message
    BY FrameMessage DEF Message
<1>1. n \in Nat /\ Len(v) \in Nat /\ DOMAIN u = 1..n /\ DOMAIN v = 1..Len(v)
      /\ (\A k \in 1..n : u[k] # "api") /\ (\A k \in 1..Len(v) : v[k] # "api")
    BY LenProperties, FrameMessage
<1>2. <<"api">> \in Seq(Message) /\ Len(<<"api">>) = 1 /\ <<"api">>[1] = "api"
    BY <1>0, SingleSeq
<1> DEFINE ua == u \o <<"api">>
<1>3. /\ ua \in Seq(Message) /\ Len(ua) = n + Len(<<"api">>)
      /\ \A k \in 1..n + Len(<<"api">>) : ua[k] = IF k <= n THEN u[k] ELSE <<"api">>[k - n]
    BY <1>0, <1>2, ConcatProperties
<1>4. Len(ua) = n + 1 /\ \A k \in 1..n+1 : ua[k] = IF k <= n THEN u[k] ELSE "api"
    BY <1>1, <1>2, <1>3
<1>5. /\ s \in Seq(Message) /\ Len(s) = Len(ua) + Len(v)
      /\ \A k \in 1..Len(ua) + Len(v) : s[k] = IF k <= Len(ua) THEN ua[k] ELSE v[k - Len(ua)]
    BY <1>0, <1>3, ConcatProperties
<1>6. DOMAIN s = 1..Len(s)
    BY <1>5, LenProperties
<1>7. \A k \in 1..Len(s) : s[k] = "api" <=> k = n + 1
    BY <1>1, <1>4, <1>5
<1>8. n + 1 \in 1..Len(s)
    BY <1>1, <1>4, <1>5
<1>9. calls = {n + 1}
    BY <1>6, <1>7, <1>8
<1> HIDE DEF s, calls, n
<1>10. Frames(s) = RemoveAt(s, n + 1)
    <2>1. calls # {} /\ (CHOOSE k \in calls : TRUE) = n + 1
        BY <1>9
    <2>2. QED
        BY <2>1 DEF Frames, calls
<1>11. RemoveAt(s, n + 1) = u \o v
    BY <1>0, RemoveMiddle, Zenon DEF s, n
<1>12. QED
    BY <1>10, <1>11 DEF s

(* There is at most one call, so a mailbox is one or the other.                   *)
LEMMA MailboxSplit ==
    ASSUME RInv
    PROVE  \/ mbox \in Seq(Frame)
           \/ api /\ \E u, v \in Seq(Frame) : mbox = (u \o <<"api">>) \o v
<1>1. /\ mbox \in Seq(Message) /\ Len(mbox) \in Nat /\ DOMAIN mbox = 1..Len(mbox)
      /\ \A k \in 1..Len(mbox) : mbox[k] \in Message
    BY MailboxLen, LenProperties, ElementOfSeq
<1>2. CASE \A k \in 1..Len(mbox) : mbox[k] # "api"
    <2>1. \A k \in 1..Len(mbox) : mbox[k] \in Frame
        BY <1>1, <1>2 DEF Message
    <2>2. SubSeq(mbox, 1, Len(mbox)) \in Seq(Frame)
        BY <1>1, <2>1, SubSeqProperties
    <2>3. QED
        BY <1>1, <2>2, SubSeqFull
<1>3. CASE \E k \in 1..Len(mbox) : mbox[k] = "api"
    <2>1. PICK k \in 1..Len(mbox) : mbox[k] = "api"
        BY <1>3
    <2>2. api /\ \A j \in 1..Len(mbox) : j # k => mbox[j] \in Frame
        BY <1>1, <2>1 DEF RInv, OneCall, Message
    <2> DEFINE n == Len(mbox)
               u == SubSeq(mbox, 1, k - 1)
               v == SubSeq(mbox, k + 1, n)
    <2>3. u \in Seq(Frame)
        <3>1. \A j \in 1..k-1 : mbox[j] \in Frame
            BY <1>1, <2>2
        <3>2. QED
            BY <1>1, <3>1, SubSeqProperties
    <2>4. v \in Seq(Frame)
        <3>1. \A j \in k+1..n : mbox[j] \in Frame
            BY <1>1, <2>2
        <3>2. QED
            BY <1>1, <3>1, SubSeqProperties
    <2>5. u \o <<"api">> = SubSeq(mbox, 1, k)
        <3>1. SubSeq(mbox, 1, k) = SubSeq(mbox, 1, k - 1) \o <<mbox[k]>>
            BY <1>1, SubSeqRecursiveSecond
        <3>2. QED
            BY <2>1, <3>1
    <2>6. SubSeq(mbox, 1, k) \o v = SubSeq(mbox, 1, n)
        <3>1. 1 \in 1..n+1 /\ k \in 1-1..n /\ n \in k..n
            BY <1>1
        <3>2. QED
            BY <1>1, <3>1, ConcatAdjacentSubSeq
    <2>7. mbox = (u \o <<"api">>) \o v
        BY <1>1, <2>5, <2>6, SubSeqFull
    <2>8. QED
        BY <2>2, <2>3, <2>4, <2>7
<1>4. QED
    BY <1>2, <1>3

LEMMA FramesTyped ==
    ASSUME RInv
    PROVE  Frames(mbox) \in Seq(Frame)
<1>1. CASE mbox \in Seq(Frame)
    BY <1>1, FramesWithout
<1>2. CASE \E u, v \in Seq(Frame) : mbox = (u \o <<"api">>) \o v
    <2>1. PICK u, v \in Seq(Frame) : mbox = (u \o <<"api">>) \o v
        BY <1>2
    <2>2. QED
        BY <2>1, FramesWith, ConcatProperties
<1>3. QED
    BY <1>1, <1>2, MailboxSplit

LEMMA FramesPosted ==
    ASSUME RInv, NEW f \in Frame
    PROVE  Frames(Append(mbox, f)) = Append(Frames(mbox), f)
<1>1. CASE mbox \in Seq(Frame)
    <2>1. Append(mbox, f) \in Seq(Frame)
        BY <1>1, AppendProperties
    <2>2. QED
        BY <1>1, <2>1, FramesWithout
<1>2. CASE \E u, v \in Seq(Frame) : mbox = (u \o <<"api">>) \o v
    <2>1. PICK u, v \in Seq(Frame) : mbox = (u \o <<"api">>) \o v
        BY <1>2
    <2>2. /\ u \in Seq(Message) /\ v \in Seq(Message) /\ f \in Message
          /\ u \o <<"api">> \in Seq(Message)
        <3>1. u \in Seq(Message) /\ v \in Seq(Message) /\ f \in Message /\ "api" \in Message
            BY FrameMessage DEF Message
        <3>2. <<"api">> \in Seq(Message)
            BY <3>1, SingleSeq
        <3>3. QED
            BY <3>1, <3>2, ConcatProperties
    <2>3. Append(mbox, f) = (u \o <<"api">>) \o Append(v, f)
        BY <2>1, <2>2, AppendToConcat
    <2>4. Append(v, f) \in Seq(Frame)
        BY AppendProperties
    <2>5. Frames(Append(mbox, f)) = u \o Append(v, f)
        BY <2>3, <2>4, FramesWith
    <2>6. u \o Append(v, f) = Append(u \o v, f)
        BY AppendToConcat
    <2>7. QED
        BY <2>1, <2>5, <2>6, FramesWith
<1>3. QED
    BY <1>1, <1>2, MailboxSplit

LEMMA FramesCalled ==
    ASSUME RInv, ~api
    PROVE  Frames(Append(mbox, "api")) = Frames(mbox)
<1>1. mbox \in Seq(Frame)
    BY MailboxSplit
<1>2. mbox \in Seq(Message) /\ "api" \in Message
    BY MailboxLen DEF Message
<1>3. mbox \o <<"api">> \in Seq(Message)
    BY <1>2, SingleSeq, ConcatProperties
<1>4. <<>> \in Seq(Frame)
    BY EmptySeq
<1>5. Append(mbox, "api") = (mbox \o <<"api">>) \o <<>>
    BY <1>2, <1>3, AppendIsConcat, ConcatEmptySeq
<1>6. Frames(Append(mbox, "api")) = mbox \o <<>>
    BY <1>1, <1>4, <1>5, FramesWith
<1>7. QED
    BY <1>1, <1>6, FramesWithout, ConcatEmptySeq

LEMMA FramesFetched ==
    ASSUME RInv, mbox # <<>>
    PROVE  Only(Head(mbox)) \o Frames(Tail(mbox)) = Frames(mbox)
<1>1. CASE mbox \in Seq(Frame)
    <2>1. Head(mbox) \in Frame /\ Tail(mbox) \in Seq(Frame) /\ mbox = <<Head(mbox)>> \o Tail(mbox)
        BY <1>1, ConsOfTail
    <2>2. Frames(mbox) = mbox /\ Frames(Tail(mbox)) = Tail(mbox)
        BY <1>1, <2>1, FramesWithout
    <2>3. QED
        BY <2>1, <2>2 DEF Only
<1>2. CASE \E u, v \in Seq(Frame) : mbox = (u \o <<"api">>) \o v
    <2>1. PICK u, v \in Seq(Frame) : mbox = (u \o <<"api">>) \o v
        BY <1>2
    <2>2. u \in Seq(Message) /\ v \in Seq(Message) /\ "api" \in Message /\ "api" \notin Frame
        BY FrameMessage DEF Message
    <2>3. <<"api">> \in Seq(Message)
        BY <2>2, SingleSeq
    <2>4. Frames(mbox) = u \o v
        BY <2>1, FramesWith
    <2>5. CASE u = <<>>
        <3>1. mbox = <<"api">> \o v /\ u \o v = v
            BY <2>1, <2>2, <2>3, <2>5, ConcatEmptySeq
        <3>2. Head(mbox) = "api" /\ Tail(mbox) = v
            BY <2>2, <3>1, TailOfConcat
        <3>3. QED
            BY <2>2, <2>4, <3>1, <3>2, FramesWithout, ConcatEmptySeq DEF Only
    <2>6. CASE u # <<>>
        <3>1. /\ Head(u) \in Frame /\ Tail(u) \in Seq(Frame) /\ u = <<Head(u)>> \o Tail(u)
              /\ <<Head(u)>> \in Seq(Frame)
            BY <2>6, ConsOfTail, SingleSeq
        <3> DEFINE x == Head(u)
                   t == Tail(u)
        <3>2. x \in Message /\ t \in Seq(Message) /\ <<x>> \in Seq(Message)
            BY <3>1, FrameMessage
        <3>3. u \o <<"api">> = <<x>> \o (t \o <<"api">>) /\ t \o <<"api">> \in Seq(Message)
            BY <2>3, <3>1, <3>2, MessagesAssociative, ConcatProperties
        <3>4. mbox = <<x>> \o ((t \o <<"api">>) \o v) /\ (t \o <<"api">>) \o v \in Seq(Message)
            <4>1. PICK r, a \in Seq(Message) : r = t \o <<"api">> /\ a = <<x>>
                BY <3>2, <3>3
            <4>2. (a \o r) \o v = a \o (r \o v)
                BY <2>2, MessagesAssociative, Zenon
            <4>3. r \o v \in Seq(Message)
                BY <2>2, ConcatProperties
            <4>4. QED
                BY <2>1, <3>3, <4>1, <4>2, <4>3
        <3>5. Head(mbox) = x /\ Tail(mbox) = (t \o <<"api">>) \o v
            BY <3>2, <3>4, TailOfConcat
        <3>6. Frames(Tail(mbox)) = t \o v
            BY <3>1, <3>5, FramesWith
        <3>7. <<x>> \o (t \o v) = u \o v
            BY <3>1, FramesAssociative
        <3>8. QED
            BY <2>4, <3>1, <3>5, <3>6, <3>7 DEF Only
    <2>7. QED
        BY <2>5, <2>6
<1>3. QED
    BY <1>1, <1>2, MailboxSplit

(* The descriptors from DMARxDescToGet on: first those that wait to be looked at,  *)
(* then those of the DMA, and last, while it is copied, the one in the hands of     *)
(* the interrupt.                                                                 *)
Place(j) == (DMARxDescToGet + j) % ETH_RXBUFNB

Occupied == {d \in Desc : ring[d] # NULL}

CInv ==
    /\ Waiting \in 0..ETH_RXBUFNB /\ (isr = "give" => Waiting < ETH_RXBUFNB)
    /\ \A j \in 0..ETH_RXBUFNB-1 :
        ring[Place(j)] # NULL <=> j < Waiting \/ (isr = "give" /\ j = ETH_RXBUFNB - 1)
    /\ dma \in Desc /\ dma = Place(Waiting)
    /\ p # NULL => isr \in {"give", "post"}

-------------------------------------------------------------------------------
LEMMA Modulo ==
    \A x \in 0..2 * ETH_RXBUFNB - 1 :
        x % ETH_RXBUFNB = IF x < ETH_RXBUFNB THEN x ELSE x - ETH_RXBUFNB
BY InputAssumption

LEMMA PlaceIs ==
    ASSUME DMARxDescToGet \in Desc, NEW j \in 0..ETH_RXBUFNB
    PROVE  /\ Place(j) = IF DMARxDescToGet + j < ETH_RXBUFNB
                         THEN DMARxDescToGet + j ELSE DMARxDescToGet + j - ETH_RXBUFNB
           /\ Place(j) \in Desc
<1>1. DMARxDescToGet + j \in 0..2 * ETH_RXBUFNB - 1
    BY InputAssumption DEF Desc
<1>2. QED
    BY <1>1, Modulo, InputAssumption DEF Place, Desc

LEMMA AfterIs ==
    ASSUME NEW d \in Desc
    PROVE  After(d) = IF d + 1 < ETH_RXBUFNB THEN d + 1 ELSE 0
<1>1. d + 1 \in 0..2 * ETH_RXBUFNB - 1
    BY InputAssumption DEF Desc
<1>2. QED
    BY <1>1, Modulo, InputAssumption DEF After, Desc

LEMMA PlacesDiffer ==
    ASSUME DMARxDescToGet \in Desc
    PROVE  /\ \A j, k \in 0..ETH_RXBUFNB-1 : Place(j) = Place(k) => j = k
           /\ \A j \in 0..ETH_RXBUFNB-1 : After(Place(j)) = Place(j + 1)
           /\ Place(0) = DMARxDescToGet /\ Place(ETH_RXBUFNB) = DMARxDescToGet
<1>1. ASSUME NEW j \in 0..ETH_RXBUFNB-1, NEW k \in 0..ETH_RXBUFNB-1, Place(j) = Place(k)
      PROVE  j = k
    <2>1. j \in 0..ETH_RXBUFNB /\ k \in 0..ETH_RXBUFNB
        BY InputAssumption
    <2>2. QED
        BY <1>1, <2>1, PlaceIs, InputAssumption DEF Desc
<1>2. ASSUME NEW j \in 0..ETH_RXBUFNB-1
      PROVE  After(Place(j)) = Place(j + 1)
    <2>1. j \in 0..ETH_RXBUFNB /\ j + 1 \in 0..ETH_RXBUFNB
        BY InputAssumption
    <2>2. PICK d \in Desc : d = Place(j)
        BY <2>1, PlaceIs
    <2>3. After(d) = IF d + 1 < ETH_RXBUFNB THEN d + 1 ELSE 0
        BY AfterIs
    <2>4. QED
        BY <2>1, <2>2, <2>3, PlaceIs, InputAssumption DEF Desc
<1>3. Place(0) = DMARxDescToGet /\ Place(ETH_RXBUFNB) = DMARxDescToGet
    <2>1. 0 \in 0..ETH_RXBUFNB /\ ETH_RXBUFNB \in 0..ETH_RXBUFNB
        BY InputAssumption
    <2>2. QED
        BY <2>1, PlaceIs, InputAssumption DEF Desc
<1>4. QED
    BY <1>1, <1>2, <1>3

LEMMA TakenIs ==
    ASSUME DMARxDescToGet \in Desc
    PROVE  Taken = Place(ETH_RXBUFNB - 1) /\ Taken \in Desc
<1>1. DMARxDescToGet + ETH_RXBUFNB - 1 = DMARxDescToGet + (ETH_RXBUFNB - 1)
    BY InputAssumption DEF Desc
<1>2. ETH_RXBUFNB - 1 \in 0..ETH_RXBUFNB
    BY InputAssumption
<1>3. QED
    BY <1>1, <1>2, PlaceIs DEF Taken, Place

LEMMA DescFinite == IsFiniteSet(Desc) /\ Cardinality(Desc) = ETH_RXBUFNB
<1>1. 0 \in Int /\ ETH_RXBUFNB - 1 \in Int /\ 0 <= ETH_RXBUFNB - 1
    BY InputAssumption
<1>2. IsFiniteSet(0..ETH_RXBUFNB-1) /\ Cardinality(0..ETH_RXBUFNB-1) = ETH_RXBUFNB - 1 - 0 + 1
    BY <1>1, FS_Interval
<1>3. QED
    BY <1>2, InputAssumption DEF Desc

LEMMA OccupiedFinite ==
    /\ IsFiniteSet(Occupied) /\ Cardinality(Occupied) \in 0..ETH_RXBUFNB
    /\ Waiting = Cardinality(Occupied) - (IF isr = "give" THEN 1 ELSE 0)
<1>1. IsFiniteSet(Occupied) /\ Cardinality(Occupied) <= Cardinality(Desc)
    BY DescFinite, FS_Subset DEF Occupied
<1>2. Cardinality(Occupied) \in Nat
    BY <1>1, FS_CardinalityType
<1>3. QED
    BY <1>1, <1>2, DescFinite, InputAssumption DEF Waiting, Occupied

LEMMA OccupiedFiniteAfter ==
    /\ IsFiniteSet(Occupied') /\ Cardinality(Occupied') \in 0..ETH_RXBUFNB
    /\ Waiting' = Cardinality(Occupied') - (IF isr' = "give" THEN 1 ELSE 0)
<1>1. IsFiniteSet(Occupied') /\ Cardinality(Occupied') <= Cardinality(Desc)
    BY DescFinite, FS_Subset DEF Occupied
<1>2. Cardinality(Occupied') \in Nat
    BY <1>1, FS_CardinalityType
<1>3. QED
    BY <1>1, <1>2, DescFinite, InputAssumption DEF Waiting, Occupied

(* The frames in the ring as a sequence. *)
LEMMA InRingIs ==
    ASSUME Typed, CInv
    PROVE  /\ InRing \in Seq(Frame) /\ Len(InRing) = Waiting
           /\ \A k \in 1..Waiting : InRing[k] = ring[Place(k - 1)]
<1>1. ASSUME NEW k \in 1..Waiting
      PROVE  /\ ring[(DMARxDescToGet + k - 1) % ETH_RXBUFNB] = ring[Place(k - 1)]
             /\ ring[(DMARxDescToGet + k - 1) % ETH_RXBUFNB] \in Frame
    <2>1. k - 1 \in 0..ETH_RXBUFNB-1 /\ k - 1 < Waiting /\ k - 1 \in 0..ETH_RXBUFNB
        BY InputAssumption DEF CInv
    <2>2. DMARxDescToGet + k - 1 = DMARxDescToGet + (k - 1)
        BY <2>1 DEF Typed, Desc
    <2>3. ring[Place(k - 1)] # NULL /\ Place(k - 1) \in Desc
        BY <2>1, PlaceIs DEF CInv, Typed
    <2>4. ring[Place(k - 1)] \in Frame
        BY <2>3 DEF Typed
    <2>5. QED
        BY <2>2, <2>4 DEF Place
<1>2. Waiting \in Nat
    BY InputAssumption DEF CInv
<1>3. InRing \in [1..Waiting -> Frame] /\ DOMAIN InRing = 1..Waiting
    BY <1>1 DEF InRing
<1>4. InRing \in Seq(Frame) /\ Len(InRing) = Waiting
    BY <1>2, <1>3
<1>5. QED
    BY <1>1, <1>4 DEF InRing

InRingRight ==
    /\ InRing \in Seq(Frame) /\ Len(InRing) = Waiting
    /\ \A k \in 1..Waiting : InRing[k] = ring[Place(k - 1)]

LEMMA InRingRead == Typed /\ CInv => InRingRight
BY InRingIs DEF InRingRight

LEMMA InRingReadAfter == Typed' /\ CInv' => InRingRight'
BY InRingRead, PTL

LEMMA CInvInit == Init => CInv
<1> SUFFICES ASSUME Init PROVE CInv
    OBVIOUS
<1>1. Occupied = {} /\ isr # "give" /\ p = NULL /\ DMARxDescToGet \in Desc /\ dma = DMARxDescToGet
    BY InputAssumption DEF Init, Occupied, Desc
<1>2. Waiting = 0
    BY <1>1, OccupiedFinite, FS_EmptySet
<1>3. \A j \in 0..ETH_RXBUFNB-1 : j \in 0..ETH_RXBUFNB
    BY InputAssumption
<1>4. \A j \in 0..ETH_RXBUFNB-1 : ring[Place(j)] = NULL
    BY <1>1, <1>3, PlaceIs DEF Init
<1>5. QED
    BY <1>1, <1>2, <1>4, PlacesDiffer, InputAssumption DEF CInv

LEMMA RingUnchanged ==
    ASSUME CInv, UNCHANGED <<ring, dma, DMARxDescToGet>>,
           isr' = "give" <=> isr = "give", p' # NULL => isr' \in {"give", "post"}
    PROVE  CInv' /\ InRing' = InRing
<1>1. Waiting' = Waiting
    BY DEF Waiting
<1>2. InRing' = InRing
    BY <1>1 DEF InRing
<1>3. \A j : Place(j)' = Place(j)
    BY DEF Place
<1>4. QED
    BY <1>1, <1>2, <1>3 DEF CInv, Place

LEMMA ArriveRing ==
    ASSUME Typed, CInv, NEW f \in Frame, Arrive(f)
    PROVE  CInv' /\ InRing' = Append(InRing, f)
<1> DEFINE n == ETH_RXBUFNB
<1>0. PICK w : w = Waiting
    OBVIOUS
<1>1. /\ ring[dma] = NULL /\ ring' = [ring EXCEPT ![dma] = f] /\ dma' = After(dma)
      /\ UNCHANGED <<isr, p, DMARxDescToGet>>
    BY DEF Arrive, isrVars
<1>2. n \in Nat \ {0} /\ w \in 0..n /\ DMARxDescToGet \in Desc /\ dma \in Desc /\ f # NULL
    BY <1>0, InputAssumption DEF CInv, Typed
<1>3. w < n /\ w # n /\ (isr = "give" => w < n - 1)
    <2>1. w # n
        <3>1. SUFFICES ASSUME w = n PROVE FALSE
            OBVIOUS
        <3>2. dma = Place(0) /\ 0 \in 0..n-1 /\ 0 < w
            BY <1>0, <1>2, <3>1, PlacesDiffer DEF CInv
        <3>3. QED
            BY <1>0, <1>1, <3>2 DEF CInv
    <2>2. isr = "give" => w # n - 1
        <3>1. n - 1 \in 0..n-1
            BY <1>2
        <3>2. QED
            BY <1>0, <1>1, <3>1 DEF CInv
    <2>3. QED
        BY <1>2, <2>1, <2>2
<1>4. /\ Occupied' = Occupied \cup {dma} /\ dma \notin Occupied
      /\ ring'[dma] = f /\ \A d \in Desc \ {dma} : ring'[d] = ring[d]
      /\ Typed'
    <2>1. ring'[dma] = f /\ \A d \in Desc \ {dma} : ring'[d] = ring[d]
        BY <1>1, <1>2 DEF Typed
    <2>2. Occupied' = Occupied \cup {dma} /\ dma \notin Occupied
        BY <1>1, <1>2, <2>1 DEF Occupied
    <2>3. Typed'
        BY <1>1, <1>2 DEF Arrive, Typed, isrVars, memVars, threadVars
    <2>4. QED
        BY <2>1, <2>2, <2>3
<1>5. Waiting' = w + 1
    <2>1. Cardinality(Occupied') = Cardinality(Occupied) + 1
        BY <1>4, OccupiedFinite, FS_AddElement
    <2>2. QED
        BY <1>0, <1>1, <2>1, OccupiedFinite, OccupiedFiniteAfter
<1>6. \A j \in 0..n : Place(j)' = Place(j) /\ Place(j) \in Desc
    <2>1. \A j : Place(j)' = Place(j)
        BY <1>1 DEF Place
    <2>2. QED
        BY <1>2, <2>1, PlaceIs
<1>7. w \in 0..n-1 /\ \A j \in 0..n-1 : Place(j) = dma <=> j = w
    BY <1>0, <1>2, <1>3, PlacesDiffer DEF CInv
<1>8. ASSUME NEW j \in 0..n-1
      PROVE  /\ Place(j)' = Place(j)
             /\ ring'[Place(j)] # NULL <=> j < w + 1 \/ (isr' = "give" /\ j = n - 1)
    <2>1. Place(j)' = Place(j) /\ Place(j) \in Desc
        BY <1>2, <1>6
    <2>2. ring[Place(j)] # NULL <=> j < w \/ (isr = "give" /\ j = n - 1)
        BY <1>0 DEF CInv
    <2>3. CASE j = w
        BY <1>2, <1>4, <1>7, <2>1, <2>3
    <2>4. CASE j # w
        BY <1>1, <1>2, <1>4, <1>7, <2>1, <2>2, <2>4
    <2>5. QED
        BY <2>1, <2>3, <2>4
<1>9. dma' = Place(w + 1) /\ dma' = Place(w + 1)' /\ dma' \in Desc
    <2>1. w + 1 \in 0..n
        BY <1>7, <1>2
    <2>2. dma' = Place(w + 1)
        BY <1>1, <1>2, <1>7, PlacesDiffer
    <2>3. QED
        BY <1>6, <2>1, <2>2
<1>10. CInv'
    <2>1. Waiting' \in 0..n /\ (isr' = "give" => Waiting' < n)
        BY <1>1, <1>2, <1>3, <1>5
    <2>2. \A j \in 0..n-1 : ring'[Place(j)'] # NULL <=> j < Waiting' \/ (isr' = "give" /\ j = n - 1)
        BY <1>5, <1>8
    <2>3. dma' \in Desc /\ dma' = Place(Waiting)'
        BY <1>1, <1>5, <1>9 DEF Place
    <2>4. p' # NULL => isr' \in {"give", "post"}
        BY <1>1 DEF CInv
    <2>5. QED
        BY <2>1, <2>2, <2>3, <2>4 DEF CInv, Place
<1>11. /\ InRing \in Seq(Frame) /\ Len(InRing) = w
       /\ \A k \in 1..w : InRing[k] = ring[Place(k - 1)]
    BY <1>0, InRingIs
<1>12. /\ InRing' \in Seq(Frame) /\ Len(InRing') = w + 1
       /\ \A k \in 1..w+1 : InRing'[k] = ring'[Place(k - 1)']
    <2>1. /\ InRing' \in Seq(Frame) /\ Len(InRing') = Waiting'
          /\ \A k \in 1..Waiting' : InRing'[k] = ring'[Place(k - 1)']
        BY <1>4, <1>10, InRingReadAfter DEF InRingRight
    <2>2. QED
        BY <1>5, <2>1
<1> DEFINE a == Append(InRing, f)
<1>13. /\ a \in Seq(Frame) /\ Len(a) = w + 1
       /\ \A k \in 1..w : a[k] = InRing[k]
       /\ a[w + 1] = f
    BY <1>11, AppendProperties
<1>14. ASSUME NEW k \in 1..w+1
       PROVE  InRing'[k] = a[k]
    <2>1. k - 1 \in 0..n-1 /\ k - 1 \in 0..n
        BY <1>2, <1>7
    <2>2. Place(k - 1)' = Place(k - 1) /\ Place(k - 1) \in Desc
        BY <1>6, <2>1
    <2>3. CASE k = w + 1
        BY <1>4, <1>7, <1>12, <1>13, <2>1, <2>2, <2>3
    <2>4. CASE k # w + 1
        <3>1. k \in 1..w /\ k - 1 # w
            BY <1>7, <2>4
        <3>2. Place(k - 1) \in Desc \ {dma}
            BY <1>7, <2>1, <2>2, <3>1
        <3>3. QED
            BY <1>4, <1>11, <1>12, <1>13, <2>2, <3>1, <3>2
    <2>5. QED
        BY <2>3, <2>4
<1> HIDE DEF a
<1>15. InRing' = a
    BY <1>12, <1>13, <1>14, SeqEqual
<1>16. QED
    BY <1>10, <1>15 DEF a

(* The interrupt takes the frame of the first descriptor ...                      *)
LEMMA LookRing ==
    ASSUME Typed, CInv, Look, ring[DMARxDescToGet] # NULL
    PROVE  /\ CInv' /\ InRing' \in Seq(Frame)
           /\ InRing = <<ring[DMARxDescToGet]>> \o InRing'
<1> DEFINE n == ETH_RXBUFNB
<1>0. PICK w : w = Waiting
    OBVIOUS
<1>1. /\ isr = "look" /\ isr' = "give" /\ DMARxDescToGet' = After(DMARxDescToGet)
      /\ ring' = ring /\ dma' = dma /\ p' \in Frame \cup {NULL}
    <2>1. ring[DMARxDescToGet] \in Frame
        BY DEF Typed
    <2>2. QED
        BY <2>1 DEF Look
<1>2. n \in Nat \ {0} /\ w \in 0..n /\ DMARxDescToGet \in Desc /\ dma \in Desc
    BY <1>0, InputAssumption DEF CInv, Typed
<1>3. w \in 1..n
    <2>1. ring[Place(0)] # NULL /\ 0 \in 0..n-1
        BY <1>2, PlacesDiffer
    <2>2. QED
        BY <1>0, <1>1, <1>2, <2>1 DEF CInv
<1>4. Waiting' = w - 1
    <2>1. Occupied' = Occupied
        BY <1>1 DEF Occupied
    <2>2. QED
        BY <1>0, <1>1, <1>2, <2>1, OccupiedFinite, OccupiedFiniteAfter
<1>5. DMARxDescToGet' \in Desc /\ Typed'
    <2>1. DMARxDescToGet' \in Desc
        BY <1>1, <1>2, After_Desc
    <2>2. QED
        BY <1>1, <2>1 DEF Typed, Look, threadVars
<1>6. ASSUME NEW j \in 0..n-1
      PROVE  Place(j)' = Place(j + 1)
    <2>1. j \in 0..n /\ j + 1 \in 0..n /\ 0 \in 0..n-1
        BY <1>2
    <2>2. PICK g \in 0..n-1 : g = DMARxDescToGet'
        BY <1>5 DEF Desc
    <2>3. PICK x : x = DMARxDescToGet' + j
        OBVIOUS
    <2>4. x = g + j /\ Place(j)' = IF x < n THEN x ELSE x - n
        <3>1. x = g + j
            BY <2>2, <2>3
        <3>2. x \in 0..2 * n - 1
            BY <1>2, <2>1, <3>1
        <3>3. x % n = IF x < n THEN x ELSE x - n
            BY <3>2, Modulo
        <3>4. Place(j)' = x % n
            BY <2>3 DEF Place
        <3>5. QED
            BY <3>1, <3>3, <3>4
    <2>5. Place(j + 1) = IF DMARxDescToGet + (j + 1) < n THEN DMARxDescToGet + (j + 1)
                         ELSE DMARxDescToGet + (j + 1) - n
        BY <1>2, <2>1, PlaceIs
    <2>6. g = IF DMARxDescToGet + 1 < n THEN DMARxDescToGet + 1 ELSE 0
        BY <1>1, <1>2, <2>2, AfterIs
    <2>7. QED
        BY <1>2, <2>1, <2>4, <2>5, <2>6 DEF Desc
<1>7. ASSUME NEW j \in 0..n-1
      PROVE  ring'[Place(j)'] # NULL <=> j < w - 1 \/ (isr' = "give" /\ j = n - 1)
    <2>1. Place(j)' = Place(j + 1) /\ ring' = ring
        BY <1>1, <1>6
    <2>2. CASE j = n - 1
        <3>1. Place(j + 1) = DMARxDescToGet
            BY <1>2, <2>2, PlacesDiffer
        <3>2. QED
            BY <1>1, <2>1, <2>2, <3>1
    <2>3. CASE j # n - 1
        <3>1. j + 1 \in 0..n-1
            BY <1>2, <2>3
        <3>2. ring[Place(j + 1)] # NULL <=> j + 1 < w
            BY <1>0, <1>1, <3>1 DEF CInv
        <3>3. QED
            BY <1>1, <1>2, <2>1, <2>3, <3>2
    <2>4. QED
        BY <2>2, <2>3
<1>8. CInv'
    <2>1. Waiting' \in 0..n /\ (isr' = "give" => Waiting' < n)
        BY <1>2, <1>3, <1>4
    <2>2. \A j \in 0..n-1 : ring'[Place(j)'] # NULL <=> j < Waiting' \/ (isr' = "give" /\ j = n - 1)
        BY <1>4, <1>7
    <2>3. dma' = Place(Waiting)'
        <3>1. PICK k : k = w - 1
            OBVIOUS
        <3>2. k \in 0..n-1 /\ k + 1 = w
            BY <1>2, <1>3, <3>1
        <3>3. Place(k)' = Place(w)
            BY <1>6, <3>2
        <3>4. dma' = Place(k)'
            BY <1>0, <1>1, <3>3 DEF CInv
        <3>5. Waiting' = k
            BY <1>4, <3>1
        <3>6. QED
            BY <3>4, <3>5 DEF Place
    <2>4. dma' \in Desc /\ (p' # NULL => isr' \in {"give", "post"})
        BY <1>1, <1>2
    <2>5. QED
        BY <2>1, <2>2, <2>3, <2>4 DEF CInv, Place
<1>9. /\ InRing \in Seq(Frame) /\ Len(InRing) = w
      /\ \A k \in 1..w : InRing[k] = ring[Place(k - 1)]
    BY <1>0, InRingIs
<1>10. /\ InRing' \in Seq(Frame) /\ Len(InRing') = w - 1
       /\ \A k \in 1..w-1 : InRing'[k] = ring'[Place(k - 1)']
    <2>1. /\ InRing' \in Seq(Frame) /\ Len(InRing') = Waiting'
          /\ \A k \in 1..Waiting' : InRing'[k] = ring'[Place(k - 1)']
        BY <1>5, <1>8, InRingReadAfter DEF InRingRight
    <2>2. QED
        BY <1>4, <2>1
<1>11. InRing # <<>>
    BY <1>3, <1>9, EmptySeq
<1>12. /\ Tail(InRing) \in Seq(Frame) /\ Len(Tail(InRing)) = w - 1
       /\ \A k \in 1..w-1 : Tail(InRing)[k] = InRing[k + 1]
    BY <1>9, <1>11, HeadTailProperties
<1>13. ASSUME NEW k \in 1..w-1
       PROVE  InRing'[k] = Tail(InRing)[k]
    <2>1. PICK j \in 0..n-1 : j = k - 1 /\ j + 1 = (k + 1) - 1
        BY <1>2
    <2>2. Place(k - 1)' = Place((k + 1) - 1)
        BY <1>6, <2>1
    <2>3. k + 1 \in 1..w
        BY <1>2
    <2>4. QED
        BY <1>1, <1>9, <1>10, <1>12, <2>2, <2>3
<1>14. InRing' = Tail(InRing)
    BY <1>10, <1>12, <1>13, SeqEqual
<1>15. Head(InRing) = ring[DMARxDescToGet]
    <2>1. Head(InRing) = InRing[1] /\ 1 \in 1..w /\ 1 - 1 = 0
        BY <1>3, <1>9, <1>11
    <2>2. QED
        BY <1>2, <1>9, <2>1, PlacesDiffer
<1>16. QED
    BY <1>8, <1>9, <1>10, <1>11, <1>14, <1>15, ConsOfTail

(* ... and gives the descriptor back.                                             *)
LEMMA GiveRing ==
    ASSUME Typed, CInv, Give
    PROVE  CInv' /\ InRing' = InRing
<1> DEFINE n == ETH_RXBUFNB
<1>0. PICK w : w = Waiting
    OBVIOUS
<1>1. /\ isr = "give" /\ isr' = (IF p = NULL THEN "look" ELSE "post")
      /\ ring' = [ring EXCEPT ![Taken] = NULL]
      /\ UNCHANGED <<dma, p, DMARxDescToGet>>
    BY DEF Give, Again
<1>2. /\ n \in Nat \ {0} /\ w \in 0..n-1 /\ DMARxDescToGet \in Desc
      /\ Taken \in Desc /\ Taken = Place(n - 1)
    BY <1>0, <1>1, InputAssumption, TakenIs DEF CInv, Typed
<1>3. ring'[Taken] = NULL /\ \A d \in Desc \ {Taken} : ring'[d] = ring[d]
    BY <1>1, <1>2 DEF Typed
<1>4. Waiting' = w
    <2>1. Taken \in Occupied
        <3>1. n - 1 \in 0..n-1
            BY <1>2
        <3>2. QED
            BY <1>1, <1>2, <3>1 DEF CInv, Occupied
    <2>2. Occupied' = Occupied \ {Taken}
        BY <1>3, <2>1 DEF Occupied
    <2>3. Cardinality(Occupied') = Cardinality(Occupied) - 1
        BY <2>1, <2>2, OccupiedFinite, FS_RemoveElement
    <2>4. QED
        BY <1>0, <1>1, <2>3, OccupiedFinite, OccupiedFiniteAfter
<1>5. \A j : Place(j)' = Place(j)
    BY <1>1 DEF Place
<1>6. ASSUME NEW j \in 0..n-1
      PROVE  /\ Place(j) = Taken <=> j = n - 1
             /\ Place(j) \in Desc
    <2>1. n - 1 \in 0..n-1 /\ j \in 0..n
        BY <1>2
    <2>2. QED
        BY <1>2, <2>1, PlacesDiffer, PlaceIs
<1>7. ASSUME NEW j \in 0..n-1
      PROVE  ring'[Place(j)'] # NULL <=> j < w \/ (isr' = "give" /\ j = n - 1)
    <2>1. CASE j = n - 1
        BY <1>1, <1>2, <1>3, <1>5, <1>6, <2>1
    <2>2. CASE j # n - 1
        <3>1. ring'[Place(j)'] = ring[Place(j)]
            BY <1>3, <1>5, <1>6, <2>2
        <3>2. QED
            BY <1>0, <1>1, <2>2, <3>1 DEF CInv
    <2>3. QED
        BY <2>1, <2>2
<1>8. CInv'
    <2>1. Waiting' \in 0..n /\ (isr' = "give" => Waiting' < n)
        BY <1>2, <1>4
    <2>2. \A j \in 0..n-1 : ring'[Place(j)'] # NULL <=> j < Waiting' \/ (isr' = "give" /\ j = n - 1)
        BY <1>4, <1>7
    <2>3. dma' \in Desc /\ dma' = Place(Waiting)'
        BY <1>0, <1>1, <1>4 DEF CInv, Place
    <2>4. p' # NULL => isr' \in {"give", "post"}
        BY <1>1
    <2>5. QED
        BY <2>1, <2>2, <2>3, <2>4 DEF CInv, Place
<1>9. InRing' = InRing
    <2>1. ASSUME NEW k \in 1..w
          PROVE  ring'[(DMARxDescToGet + k - 1) % n] = ring[(DMARxDescToGet + k - 1) % n]
        <3>1. k - 1 \in 0..n-1 /\ k - 1 # n - 1
            BY <1>2
        <3>2. DMARxDescToGet + k - 1 = DMARxDescToGet + (k - 1)
            BY <1>2, <3>1 DEF Desc
        <3>3. ring'[Place(k - 1)] = ring[Place(k - 1)]
            BY <1>3, <1>6, <3>1
        <3>4. QED
            BY <3>2, <3>3 DEF Place
    <2>2. QED
        BY <1>0, <1>1, <1>4, <2>1 DEF InRing
<1>10. QED
    BY <1>8, <1>9

LEMMA OnlyTyped == \A m : Only(m) \in Seq(Frame)
BY SingleSeq, EmptySeq DEF Only

LEMMA OnlyOf ==
    /\ \A f \in Frame : Only(f) = <<f>>
    /\ Only(NULL) = <<>> /\ Only("api") = <<>> /\ Only("done") = <<>>
BY InputAssumption DEF Only

(* The four parts of the channel. *)
LEMMA PartsTyped ==
    ASSUME RInv, CInv
    PROVE  /\ Only(hand) \in Seq(Frame) /\ Frames(mbox) \in Seq(Frame)
           /\ Only(p) \in Seq(Frame) /\ InRing \in Seq(Frame)
           /\ Only(hand) \o Frames(mbox) \in Seq(Frame)
           /\ Only(hand) \o Frames(mbox) \o Only(p) \in Seq(Frame)
           /\ OnTheWay \in Seq(Frame)
<1>1. /\ Only(hand) \in Seq(Frame) /\ Frames(mbox) \in Seq(Frame)
      /\ Only(p) \in Seq(Frame) /\ InRing \in Seq(Frame)
    BY OnlyTyped, FramesTyped, InRingIs DEF RInv
<1>2. Only(hand) \o Frames(mbox) \in Seq(Frame)
    BY <1>1, ConcatProperties
<1>3. Only(hand) \o Frames(mbox) \o Only(p) \in Seq(Frame)
    BY <1>1, <1>2, ConcatProperties
<1>4. QED
    BY <1>1, <1>2, <1>3, ConcatProperties DEF OnTheWay

ChannelSteps == Channel!Arrive \/ Channel!Lose \/ Channel!Deliver

LEMMA ArriveStep ==
    ASSUME RInv, CInv, NEW f \in Frame, Arrive(f)
    PROVE  CInv' /\ Channel!Arrive
<1>1. CInv' /\ InRing' = Append(InRing, f)
    BY ArriveRing DEF RInv
<1> DEFINE x == Only(hand) \o Frames(mbox) \o Only(p)
<1>2. x \in Seq(Frame) /\ InRing \in Seq(Frame)
    BY PartsTyped
<1>3. UNCHANGED <<hand, mbox, p>>
    BY DEF Arrive, isrVars, threadVars
<1>4. OnTheWay = x \o InRing /\ OnTheWay' = x \o Append(InRing, f)
    BY <1>1, <1>3 DEF OnTheWay
<1> HIDE DEF x
<1>5. Append(x \o InRing, f) = x \o Append(InRing, f)
    BY <1>2, AppendToConcat
<1>6. QED
    BY <1>1, <1>4, <1>5 DEF Channel!Arrive

LEMMA LostFrame ==
    ASSUME NEW y \in Seq(Frame), NEW f \in Frame, NEW t \in Seq(Frame),
           OnTheWay = (y \o <<f>>) \o t, OnTheWay' = y \o t
    PROVE  Channel!Lose
<1>1. PICK c, k : c = (y \o <<f>>) \o t /\ k = Len(y) + 1
    OBVIOUS
<1>2. k \in 1..Len(c) /\ RemoveAt(c, k) = y \o t
    <2>1. y \in Seq(Message) /\ f \in Message /\ t \in Seq(Message)
        BY FrameMessage
    <2>2. /\ Len(y) + 1 \in 1..Len((y \o <<f>>) \o t)
          /\ RemoveAt((y \o <<f>>) \o t, Len(y) + 1) = y \o t
        BY <2>1, RemoveMiddle, Zenon
    <2>3. QED
        BY <1>1, <2>2
<1>3. k \in 1..Len(c) /\ SubSeq(c, 1, k - 1) \o SubSeq(c, k + 1, Len(c)) = y \o t
    BY <1>2 DEF RemoveAt
<1>4. QED
    BY <1>1, <1>3 DEF Channel!Lose, Channel!RemoveAt

(* Without packet buffers the frame is lost. *)
LEMMA LookStep ==
    ASSUME RInv, CInv, Look
    PROVE  CInv' /\ (Channel!Lose \/ OnTheWay' = OnTheWay)
<1> DEFINE y == Only(hand) \o Frames(mbox)
           f == ring[DMARxDescToGet]
<1>1. y \in Seq(Frame) /\ p = NULL /\ UNCHANGED <<hand, mbox>> /\ Only(p) = <<>>
    BY PartsTyped, OnlyOf DEF CInv, Look, threadVars
<1>2. CASE f = NULL
    <2>1. UNCHANGED <<ring, dma, DMARxDescToGet, p>> /\ isr = "look" /\ isr' = "clear"
        BY <1>2 DEF Look
    <2>2. CInv' /\ InRing' = InRing
        BY <1>1, <2>1, RingUnchanged
    <2>3. QED
        BY <1>1, <2>1, <2>2 DEF OnTheWay
<1>3. CASE f # NULL
    <2>1. f \in Frame
        BY <1>3 DEF RInv, Typed
    <2>2. CInv' /\ InRing' \in Seq(Frame) /\ InRing = <<f>> \o InRing'
        BY <1>3, LookRing DEF RInv
    <2>3. <<f>> \in Seq(Frame) /\ <<>> \in Seq(Frame)
        BY <2>1, SingleSeq, EmptySeq
    <2>4. OnTheWay = (y \o <<f>>) \o InRing'
        <3>1. OnTheWay = (y \o <<>>) \o InRing
            BY <1>1 DEF OnTheWay
        <3>2. y \o <<>> = y
            BY <1>1, ConcatEmptySeq
        <3> HIDE DEF y, f
        <3>3. y \o (<<f>> \o InRing') = (y \o <<f>>) \o InRing'
            BY <1>1, <2>2, <2>3, FramesAssociative, Zenon
        <3>4. QED
            BY <2>2, <3>1, <3>2, <3>3
    <2>5. CASE p' = f
        <3>1. Only(p') = <<f>>
            BY <2>1, <2>5, OnlyOf
        <3>2. OnTheWay' = OnTheWay
            BY <1>1, <2>4, <3>1 DEF OnTheWay
        <3>3. QED
            BY <2>2, <3>2
    <2>6. CASE p' = NULL
        <3>1. OnTheWay' = (y \o <<>>) \o InRing'
            BY <1>1, <2>6, OnlyOf DEF OnTheWay
        <3>2. y \o <<>> = y
            BY <1>1, ConcatEmptySeq
        <3>3. PICK t \in Seq(Frame), g \in Frame, x \in Seq(Frame) : t = InRing' /\ g = f /\ x = y
            BY <1>1, <2>1, <2>2
        <3> HIDE DEF y, f
        <3>4. OnTheWay = (x \o <<g>>) \o t /\ OnTheWay' = x \o t
            BY <2>4, <3>1, <3>2, <3>3
        <3>5. Channel!Lose
            BY <3>4, LostFrame
        <3>6. QED
            BY <2>2, <3>5
    <2>7. QED
        BY <1>3, <2>5, <2>6 DEF Look
<1>4. QED
    BY <1>2, <1>3

(* Without a message, or room in the mailbox, it is lost as well. *)
LEMMA PostStep ==
    ASSUME RInv, CInv, Post
    PROVE  CInv' /\ (Channel!Lose \/ OnTheWay' = OnTheWay)
<1> DEFINE y == Only(hand) \o Frames(mbox)
<1>1. /\ isr = "post" /\ isr' = "look" /\ p \in Frame /\ p' = NULL
      /\ UNCHANGED <<ring, dma, DMARxDescToGet, hand>>
    BY DEF Post, Again, RInv, Typed, dmaVars
<1>2. CInv' /\ InRing' = InRing
    BY <1>1, RingUnchanged
<1>3. /\ Only(hand) \in Seq(Frame) /\ Frames(mbox) \in Seq(Frame) /\ y \in Seq(Frame)
      /\ InRing \in Seq(Frame)
    BY PartsTyped
<1>4. Only(p) = <<p>> /\ Only(p') = <<>> /\ <<p>> \in Seq(Frame)
    BY <1>1, OnlyOf, SingleSeq
<1>5. OnTheWay = (y \o <<p>>) \o InRing
    BY <1>4 DEF OnTheWay
<1>6. CASE mbox' = Posted(p)
    <2>1. Frames(mbox') = Append(Frames(mbox), p)
        BY <1>1, <1>6, FramesPosted DEF Posted
    <2>2. Frames(mbox') = Frames(mbox) \o <<p>>
        BY <1>1, <1>3, <2>1, AppendIsConcat
    <2>3. Only(hand) \o (Frames(mbox) \o <<p>>) = y \o <<p>>
        BY <1>3, <1>4, FramesAssociative
    <2>4. OnTheWay' = ((y \o <<p>>) \o <<>>) \o InRing
        BY <1>1, <1>2, <1>4, <2>2, <2>3 DEF OnTheWay
    <2> HIDE DEF y
    <2>5. y \o <<p>> \in Seq(Frame)
        BY <1>3, <1>4, ConcatProperties
    <2>6. (y \o <<p>>) \o <<>> = y \o <<p>>
        BY <2>5, ConcatEmptySeq
    <2>7. QED
        BY <1>2, <1>5, <2>4, <2>6
<1>7. CASE mbox' = mbox
    <2>1. OnTheWay' = (y \o <<>>) \o InRing
        BY <1>1, <1>2, <1>4, <1>7 DEF OnTheWay
    <2>2. y \o <<>> = y
        BY <1>3, ConcatEmptySeq
    <2>3. PICK t \in Seq(Frame), g \in Frame, x \in Seq(Frame) : t = InRing /\ g = p /\ x = y
        BY <1>1, <1>3
    <2> HIDE DEF y
    <2>4. OnTheWay = (x \o <<g>>) \o t /\ OnTheWay' = x \o t
        BY <1>5, <2>1, <2>2, <2>3
    <2>5. Channel!Lose
        BY <2>4, LostFrame
    <2>6. QED
        BY <1>2, <2>5
<1>8. QED
    BY <1>6, <1>7 DEF Post

LEMMA DeliverStep ==
    ASSUME RInv, CInv, ethernet_input
    PROVE  CInv' /\ Channel!Deliver
<1>1. /\ hand \in Frame /\ hand' = "done" /\ UNCHANGED <<mbox, p, isr, ring, dma, DMARxDescToGet>>
    BY DEF ethernet_input, dmaVars, isrVars
<1>2. CInv' /\ InRing' = InRing
    BY <1>1, RingUnchanged DEF CInv
<1> DEFINE b == Frames(mbox)
           c == Only(p)
           d == InRing
<1>3. b \in Seq(Frame) /\ c \in Seq(Frame) /\ d \in Seq(Frame)
    BY PartsTyped
<1>4. Only(hand) = <<hand>> /\ <<hand>> \in Seq(Frame) /\ Only(hand') = <<>>
    BY <1>1, OnlyOf, SingleSeq
<1>5. OnTheWay = ((<<hand>> \o b) \o c) \o d /\ OnTheWay' = ((<<>> \o b) \o c) \o d
    BY <1>1, <1>2, <1>4 DEF OnTheWay
<1> HIDE DEF b, c, d
<1>6. b \o c \in Seq(Frame) /\ (b \o c) \o d \in Seq(Frame) /\ <<>> \o b = b
    BY <1>3, ConcatProperties, ConcatEmptySeq
<1>7. OnTheWay = <<hand>> \o ((b \o c) \o d)
    <2>1. PICK a : a = <<hand>>
        OBVIOUS
    <2>2. a \in Seq(Frame)
        BY <1>4, <2>1
    <2>3. (a \o b) \o c = a \o (b \o c)
        BY <1>3, <2>2, FramesAssociative, Zenon
    <2>4. (a \o (b \o c)) \o d = a \o ((b \o c) \o d)
        BY <1>3, <1>6, <2>2, FramesAssociative, Zenon
    <2>5. QED
        BY <1>5, <2>1, <2>3, <2>4
<1>8. OnTheWay # <<>> /\ Tail(OnTheWay) = (b \o c) \o d
    BY <1>1, <1>6, <1>7, TailOfConcat
<1>9. QED
    BY <1>2, <1>5, <1>6, <1>8 DEF Channel!Deliver

(* The other steps of tcpip_thread, the calls, and the rest of the interrupt move   *)
(* a frame from one part to the next, or none.                                    *)
LEMMA SilentStep ==
    ASSUME RInv, CInv,
           Interrupt \/ Give \/ Clear \/ tcpip_apimsg \/ Fetch \/ Answer \/ FreeMsg \/ Use
           \/ UNCHANGED vars
    PROVE  CInv' /\ OnTheWay' = OnTheWay
<1>1. CASE Interrupt \/ Clear
    <2>1. /\ UNCHANGED <<ring, dma, DMARxDescToGet, p, mbox, hand>>
          /\ isr \in {"out", "clear"} /\ isr' \in {"look", "out"}
        BY <1>1 DEF Interrupt, Clear, dmaVars, threadVars
    <2>2. CInv' /\ InRing' = InRing
        BY <2>1, RingUnchanged DEF CInv
    <2>3. QED
        BY <2>1, <2>2 DEF OnTheWay
<1>2. CASE Give
    <2>1. CInv' /\ InRing' = InRing /\ UNCHANGED <<p, mbox, hand>>
        BY <1>2, GiveRing DEF Give, RInv, threadVars
    <2>2. QED
        BY <2>1 DEF OnTheWay
<1>3. CASE UNCHANGED <<dmaVars, isrVars>>
    <2>1. UNCHANGED <<ring, dma, DMARxDescToGet, p, isr>>
        BY <1>3 DEF dmaVars, isrVars
    <2>2. CInv' /\ InRing' = InRing
        BY <2>1, RingUnchanged DEF CInv
    <2>3. ASSUME Only(hand') \o Frames(mbox') = Only(hand) \o Frames(mbox)
          PROVE  OnTheWay' = OnTheWay
        BY <2>1, <2>2, <2>3 DEF OnTheWay
    <2>4. CASE tcpip_apimsg
        <3>1. Frames(mbox') = Frames(mbox) /\ hand' = hand
            BY <2>4, FramesCalled DEF tcpip_apimsg, Posted
        <3>2. QED
            BY <2>2, <2>3, <3>1
    <2>5. CASE Fetch
        <3>1. Only(hand) = <<>> /\ Only(hand') \o Frames(mbox') = Frames(mbox)
            BY <2>5, FramesFetched, OnlyOf DEF Fetch
        <3>2. <<>> \o Frames(mbox) = Frames(mbox)
            BY PartsTyped, ConcatEmptySeq
        <3>3. QED
            BY <2>2, <2>3, <3>1, <3>2
    <2>6. CASE Answer \/ FreeMsg
        <3>1. Only(hand) = <<>> /\ Only(hand') = <<>> /\ mbox' = mbox
            BY <2>6, OnlyOf DEF Answer, FreeMsg
        <3>2. QED
            BY <2>2, <2>3, <3>1
    <2>7. CASE Use \/ UNCHANGED vars
        <3>1. UNCHANGED <<hand, mbox>>
            BY <2>7 DEF Use, vars, threadVars
        <3>2. QED
            BY <2>2, <2>3, <3>1
    <2>8. CASE Interrupt \/ Give \/ Clear
        BY <1>1, <1>2, <2>8
    <2>9. QED
        BY <2>4, <2>5, <2>6, <2>7, <2>8
<1>4. Interrupt \/ Give \/ Clear \/ UNCHANGED <<dmaVars, isrVars>>
    BY DEF tcpip_apimsg, Fetch, Answer, FreeMsg, Use, vars
<1>5. QED
    BY <1>1, <1>2, <1>3, <1>4

LEMMA ChannelStep ==
    RInv /\ CInv /\ [Next]_vars => CInv' /\ [ChannelSteps]_OnTheWay
<1> SUFFICES ASSUME RInv, CInv, [Next]_vars PROVE CInv' /\ [ChannelSteps]_OnTheWay
    OBVIOUS
<1>1. CASE \E f \in Frame : Arrive(f)
    BY <1>1, ArriveStep DEF ChannelSteps
<1>2. CASE Look \/ Post
    BY <1>2, LookStep, PostStep DEF ChannelSteps
<1>3. CASE ethernet_input
    BY <1>3, DeliverStep DEF ChannelSteps
<1>4. CASE \/ Interrupt \/ Give \/ Clear \/ tcpip_apimsg \/ Fetch \/ Answer \/ FreeMsg \/ Use
           \/ UNCHANGED vars
    BY <1>4, SilentStep
<1>5. QED
    BY <1>1, <1>2, <1>3, <1>4 DEF Next, Handler, Thread

LEMMA ChannelInit == Init => OnTheWay = <<>>
<1> SUFFICES ASSUME Init PROVE OnTheWay = <<>>
    OBVIOUS
<1>1. <<>> \in Seq(Frame)
    BY EmptySeq
<1>2. Only(hand) = <<>> /\ Only(p) = <<>> /\ Frames(mbox) = <<>>
    BY <1>1, OnlyOf, FramesWithout DEF Init
<1>3. InRing \in Seq(Frame) /\ Len(InRing) = 0
    <2>1. Occupied = {} /\ isr # "give"
        BY DEF Init, Occupied
    <2>2. Waiting = 0
        BY <2>1, OccupiedFinite, FS_EmptySet
    <2>3. QED
        BY <2>2, InRingIs, CInvInit, RInvInit DEF RInv
<1>4. InRing = <<>>
    BY <1>3, EmptySeq
<1>5. <<>> \o <<>> = <<>>
    BY <1>1, ConcatEmptySeq
<1>6. QED
    BY <1>2, <1>4, <1>5 DEF OnTheWay

(* For any frames, packet buffers, messages and descriptors: from the wire to lwIP   *)
(* frames are neither reordered nor repeated, whatever runs out on the way and      *)
(* however often the ring goes round (stm32f4x7_eth_bsp.c l.210, ethernetif.c).    *)
THEOREM InputIsChannel == Spec => IsChannel
<1>1. RInv /\ CInv /\ [Next]_vars => CInv' /\ [Channel!Arrive \/ Channel!Lose \/ Channel!Deliver]_OnTheWay
    BY ChannelStep DEF ChannelSteps
<1>2. QED
    BY <1>1, RInvHolds, CInvInit, ChannelInit, PTL DEF Spec, IsChannel, Channel!Spec
===============================================================================
