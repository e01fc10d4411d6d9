---------------------------- MODULE Netconn_proofs ----------------------------
(* For a pool of any size: the table's types, and that the areas of malloc.c are  *)
(* the areas of a heap. The table alone does not tell where an area begins; what  *)
(* makes it sound is that every block of an area holds the area's length and that *)
(* areas lie apart. Then, for any number of netconns, slots, blocks and control    *)
(* blocks, what the network takes from the pools and gives back.                  *)
EXTENDS Netconn, FiniteSetTheorems, FunctionTheorems, TLAPS

Uniform ==
    \A p \in live :
        /\ memmap[p] >= 1 /\ p + memmap[p] <= BLOCKS
        /\ \A i \in p..p+memmap[p]-1 : memmap[i] = memmap[p]

Apart == \A p, q \in live : p < q => p + memmap[p] <= q

PInv == PoolTypeOK /\ Uniform /\ Apart

-------------------------------------------------------------------------------
(* What mymalloc gives out was free, so no live pointer lies in it. *)
LEMMA FreshArea ==
    ASSUME PInv, NEW n \in 1..BLOCKS, NEW p \in Block, Found(n, p)
    PROVE  /\ \A i \in p..p+n-1 : i \in Block /\ memmap[i] = 0
           /\ \A q \in live : q + memmap[q] <= p \/ p + n <= q
<1>1. \A i \in p..p+n-1 : i \in Block /\ memmap[i] = 0
    BY PoolAssumption DEF Found, Fits, Block
<1>2. ASSUME NEW q \in live, q + memmap[q] > p, p + n > q
      PROVE  FALSE
    <2>1. q \in Block /\ memmap[q] \in 1..BLOCKS
        BY PoolAssumption DEF PInv, PoolTypeOK, Uniform, Block
    <2>2. CASE q >= p
        BY <2>1, <2>2, <1>1, <1>2, PoolAssumption DEF Block
    <2>3. CASE q < p
        <3>1. p \in q..q+memmap[q]-1
            BY <2>1, <2>3, <1>2, PoolAssumption DEF Block
        <3>2. memmap[p] = memmap[q]
            BY <3>1 DEF PInv, Uniform
        <3>3. memmap[p] = 0
            BY <1>1, PoolAssumption DEF Block
        <3>4. QED
            BY <2>1, <3>2, <3>3
    <2>4. QED
        BY <2>1, <2>2, <2>3 DEF Block
<1>3. \A q \in live : q \in Block /\ memmap[q] \in Int
    BY PoolAssumption DEF PInv, PoolTypeOK, Block
<1>4. QED
    BY <1>1, <1>2, <1>3, PoolAssumption DEF Block

(* After mymalloc the table holds n in the new area and is as it was elsewhere. *)
LEMMA AfterMalloc ==
    ASSUME PInv, NEW n \in 1..BLOCKS, NEW p \in Block, mymalloc(n, p)
    PROVE  /\ \A i \in p..p+n-1 : memmap'[i] = n
           /\ \A q \in live : \A i \in q..q+memmap[q]-1 : memmap'[i] = memmap[i]
           /\ \A q \in live : memmap'[q] = memmap[q]
           /\ p \notin live
<1>1. Found(n, p)
    BY DEF mymalloc
<1>2. /\ \A i \in p..p+n-1 : i \in Block /\ memmap[i] = 0
      /\ \A q \in live : q + memmap[q] <= p \/ p + n <= q
    BY <1>1, FreshArea
<1>3. \A i \in Block : memmap'[i] = IF i \in p..p+n-1 THEN n ELSE memmap[i]
    BY DEF mymalloc
<1>4. ASSUME NEW q \in live
      PROVE  /\ q \in Block /\ memmap[q] \in 1..BLOCKS /\ q + memmap[q] <= BLOCKS
    BY PoolAssumption DEF PInv, PoolTypeOK, Uniform, Block
<1>5. ASSUME NEW q \in live, NEW i \in q..q+memmap[q]-1
      PROVE  memmap'[i] = memmap[i]
    <2>1. i \in Block /\ i \notin p..p+n-1
        BY <1>2, <1>4, PoolAssumption DEF Block
    <2>2. QED
        BY <1>3, <2>1
<1>6. \A q \in live : q \in q..q+memmap[q]-1
    BY <1>4, PoolAssumption DEF Block
<1>7. p \notin live
    BY <1>2, <1>4, PoolAssumption DEF Block
<1>8. QED
    BY <1>2, <1>3, <1>5, <1>6, <1>7

(* After myfree of a live pointer all other areas are as they were. *)
LEMMA AfterFree ==
    ASSUME PInv, NEW p \in live, myfree(p)
    PROVE  /\ \A q \in live \ {p} : \A i \in q..q+memmap[q]-1 : memmap'[i] = memmap[i]
           /\ \A q \in live \ {p} : memmap'[q] = memmap[q]
<1>1. ASSUME NEW q \in live
      PROVE  /\ q \in Block /\ memmap[q] \in 1..BLOCKS /\ q + memmap[q] <= BLOCKS
    BY PoolAssumption DEF PInv, PoolTypeOK, Uniform, Block
<1>2. \A i \in Block : memmap'[i] = IF i \in p..p+memmap[p]-1 THEN 0 ELSE memmap[i]
    BY DEF myfree, Freed
<1>3. ASSUME NEW q \in live \ {p}, NEW i \in q..q+memmap[q]-1
      PROVE  memmap'[i] = memmap[i]
    <2>1. q + memmap[q] <= p \/ p + memmap[p] <= q
        BY <1>1 DEF PInv, Apart, Block
    <2>2. i \in Block /\ i \notin p..p+memmap[p]-1
        BY <1>1, <2>1, PoolAssumption DEF Block
    <2>3. QED
        BY <1>2, <2>2
<1>4. \A q \in live : q \in q..q+memmap[q]-1
    BY <1>1, PoolAssumption DEF Block
<1>5. QED
    BY <1>3, <1>4

-------------------------------------------------------------------------------
LEMMA PInvInit == PoolInit => PInv
BY PoolAssumption DEF PoolInit, PInv, PoolTypeOK, Uniform, Apart, Block

LEMMA PInvMalloc ==
    ASSUME PInv, NEW n \in 1..BLOCKS, NEW p \in Block, mymalloc(n, p)
    PROVE  PInv'
<1>1. /\ \A i \in p..p+n-1 : memmap'[i] = n
      /\ \A q \in live : \A i \in q..q+memmap[q]-1 : memmap'[i] = memmap[i]
      /\ \A q \in live : memmap'[q] = memmap[q]
      /\ p \notin live
    BY AfterMalloc
<1>2. Found(n, p) /\ live' = live \cup {p}
    BY DEF mymalloc
<1>3. \A q \in live : q + memmap[q] <= p \/ p + n <= q
    BY <1>2, FreshArea
<1>4. n >= 1 /\ p + n <= BLOCKS /\ n \in Int /\ p \in Int /\ memmap'[p] = n
    BY <1>1, <1>2, PoolAssumption DEF Found, Fits, Block
<1>5. PoolTypeOK'
    BY PoolAssumption DEF PInv, PoolTypeOK, mymalloc, Block
<1>6. \A q \in live : q \in Int /\ memmap[q] \in Int
    BY PoolAssumption DEF PInv, PoolTypeOK, Block
<1>7. Uniform'
    BY <1>1, <1>2, <1>4 DEF PInv, Uniform
<1>8. Apart'
    BY <1>1, <1>2, <1>3, <1>4, <1>6 DEF PInv, Apart, Uniform
<1>9. QED
    BY <1>5, <1>7, <1>8 DEF PInv

LEMMA PInvFree ==
    ASSUME PInv, NEW p \in live, myfree(p)
    PROVE  PInv'
<1>1. /\ \A q \in live \ {p} : \A i \in q..q+memmap[q]-1 : memmap'[i] = memmap[i]
      /\ \A q \in live \ {p} : memmap'[q] = memmap[q]
    BY AfterFree
<1>2. live' = live \ {p}
    BY DEF myfree
<1>3. PoolTypeOK'
    BY PoolAssumption DEF PInv, PoolTypeOK, myfree, Block
<1>4. Uniform'
    BY <1>1, <1>2 DEF PInv, Uniform
<1>5. Apart'
    BY <1>1, <1>2 DEF PInv, Apart
<1>6. QED
    BY <1>3, <1>4, <1>5 DEF PInv

LEMMA PInvHolds == PoolSpec => []PInv
<1>1. PInv /\ [PoolNext]_poolVars => PInv'
    <2>1. PInv /\ UNCHANGED poolVars => PInv'
        BY DEF PInv, PoolTypeOK, Uniform, Apart, poolVars
    <2>2. QED
        BY <2>1, PInvMalloc, PInvFree DEF PoolNext
<1>2. QED
    BY <1>1, PInvInit, PTL DEF PoolSpec

(* The table's entries and the pointers given out stay in the pool (malloc.c).   *)
THEOREM PoolTypeCorrect == PoolSpec => []PoolTypeOK
BY PInvHolds, PTL DEF PInv

-------------------------------------------------------------------------------
LEMMA GivesArea ==
    ASSUME PInv, NEW n \in 1..BLOCKS, NEW p \in Block, mymalloc(n, p)
    PROVE  Held!Next
<1> DEFINE a == [first |-> p, length |-> n]
           areas == {[first |-> q, length |-> memmap[q]] : q \in live}
<1>1. /\ memmap'[p] = n
      /\ \A q \in live : memmap'[q] = memmap[q]
      /\ live' = live \cup {p}
    <2>1. p \in p..p+n-1
        BY PoolAssumption DEF Block
    <2>2. QED
        BY <2>1, AfterMalloc DEF mymalloc
<1>2. areas' = areas \cup {a}
    BY <1>1
<1>3. Found(n, p)
    BY DEF mymalloc
<1>4. Held!Within(a) \subseteq 0..BLOCKS-1
    BY <1>3, FreshArea DEF Held!Within, Block
<1>5. ASSUME NEW q \in live
      PROVE  Held!Within(a) \cap Held!Within([first |-> q, length |-> memmap[q]]) = {}
    <2>1. q + memmap[q] <= p \/ p + n <= q
        BY <1>3, FreshArea
    <2>2. q \in Int /\ memmap[q] \in Int /\ p \in Int /\ n \in Int
        BY PoolAssumption DEF PInv, PoolTypeOK, Block
    <2>3. QED
        BY <2>1, <2>2 DEF Held!Within
<1>6. a \in Held!Area
    BY PoolAssumption DEF Held!Area, Block
<1>7. Held!Give(a)
    BY <1>2, <1>4, <1>5 DEF Held!Give
<1>8. QED
    BY <1>6, <1>7 DEF Held!Next

LEMMA TakesBackArea ==
    ASSUME PInv, NEW p \in live, myfree(p)
    PROVE  Held!Next
<1>0. PICK n \in 1..BLOCKS : n = memmap[p]
    BY PoolAssumption DEF PInv, PoolTypeOK, Uniform, Block
<1> DEFINE a == [first |-> p, length |-> n]
           areas == {[first |-> q, length |-> memmap[q]] : q \in live}
<1>1. live' = live \ {p} /\ \A q \in live \ {p} : memmap'[q] = memmap[q]
    BY AfterFree DEF myfree
<1>2. areas' = {[first |-> q, length |-> memmap[q]] : q \in live \ {p}}
    BY <1>1
<1>3. \A q \in live \ {p} : [first |-> q, length |-> memmap[q]] # a
    OBVIOUS
<1>4. areas' = areas \ {a}
    BY <1>0, <1>2, <1>3
<1>5. a \in areas
    BY <1>0
<1>6. Held!TakeBack(a)
    BY <1>4, <1>5 DEF Held!TakeBack
<1>7. a \in Held!Area
    BY PoolAssumption DEF PInv, PoolTypeOK, Held!Area, Block
<1>8. QED
    BY <1>6, <1>7 DEF Held!Next

(* malloc.c implements a heap, whatever the size of the pool and the sequence of  *)
(* calls, as long as only pointers given out are freed, and once (mymem_malloc,   *)
(* mymem_free).                                                                  *)
THEOREM PoolIsHeap == PoolSpec => IsHeap
<1>1. PoolInit => Held!Init
    BY DEF PoolInit, Held!Init
<1>2. PInv /\ [PoolNext]_poolVars
          => [Held!Next]_({[first |-> p, length |-> memmap[p]] : p \in live})
    BY GivesArea, TakesBackArea DEF PoolNext, poolVars
<1>3. QED
    BY <1>1, <1>2, PInvHolds, PTL DEF PoolSpec, IsHeap, Held!Spec

-------------------------------------------------------------------------------
(* The network. Types first; that the counts stay within their limits follows    *)
(* only from what they count.                                                    *)
State ==
    [st : {"free", "listen", "new"}, sem : BOOLEAN,
     recvmbox : Block \cup {NULL}, acceptmbox : Block \cup {NULL},
     q : Seq({"data", "quit", "end"}), pcb : BOOLEAN, fin : BOOLEAN, err : BOOLEAN]

StartTyped ==
    /\ sizes \in Sizes /\ step \in 1..10 /\ undo \in 0..8
    /\ ptr \in [1..8 -> Block \cup {NULL}] /\ tries \in 0..TRIES
    /\ tcpip_mbox \in Block \cup {NULL}

KernelTyped == events \in Nat /\ queues \in Nat /\ pool \in Nat

NetTyped == nc \in [Conn -> State] /\ \A c \in Conn : Len(nc[c].q) <= MBOX

ServerTyped ==
    /\ acceptq \in Seq(Conn)
    /\ slot \in [Slot -> Conn \cup {NULL}]
    /\ pc \in {"new", "unbox", "listen", "serve", "close", "drain", "free"}
    /\ cur \in Slot \cup {NULL} /\ buf \in 0..1 /\ left \subseteq Block \X Nat

Typed == StartTyped /\ KernelTyped /\ NetTyped /\ ServerTyped

(* the session of the server thread *)
Sessions ==
    /\ \A i \in Slot : slot[i] # NULL => nc[slot[i]].st = "new"
    /\ \A i, j \in Slot : i # j /\ slot[i] # NULL => slot[i] # slot[j]
    /\ \A k \in 1..Len(acceptq) :
        nc[acceptq[k]].st = "new" /\ \A i \in Slot : slot[i] # acceptq[k]
    /\ \A k, l \in 1..Len(acceptq) : k # l => acceptq[k] # acceptq[l]
    /\ pc \in {"close", "drain", "free"} => cur \in Slot /\ slot[cur] \in Conn
    /\ pc \notin {"close", "drain", "free"} => buf = 0
    /\ pc \in {"drain", "free"} => ~nc[slot[cur]].pcb
    /\ pc = "free" => ~Valid(slot[cur])

(* what a netconn holds *)
Netconns ==
    \A c \in Conn :
        /\ nc[c].sem <=> nc[c].st # "free"
        /\ nc[c].st = "free" => nc[c].recvmbox = NULL
        /\ nc[c].recvmbox = NULL => nc[c].q = <<>>
        /\ nc[c].acceptmbox # NULL => nc[c].st = "listen"
        /\ nc[c].st = "listen" => nc[c].recvmbox = NULL /\ nc[c].acceptmbox # NULL

(* until the server serves, there is at most the netconn that will listen *)
Setup ==
    /\ pc \in {"new", "unbox", "listen"} =>
        ~Serving /\ acceptq = <<>> /\ slot = [i \in Slot |-> NULL] /\ left = {}
    /\ pc = "new" => \A c \in Conn : nc[c].st = "free"
    /\ pc \in {"unbox", "listen"} =>
        /\ \E c \in Conn : \A d \in Conn : nc[d].st # "free" <=> d = c
        /\ \A c \in Conn : nc[c].q = <<>>
    /\ pc = "listen" => \A c \in Conn : nc[c].recvmbox = NULL
    /\ pc \notin {"new", "unbox", "listen"} => Serving
    /\ \A c, d \in Conn : nc[c].st = "listen" /\ nc[d].st = "listen" => c = d

LEMMA PacketsTyped ==
    ASSUME NEW q \in Seq({"data", "quit", "end"})
    PROVE  Packets(q) \in Nat
<1>1. IsFiniteSet(1..Len(q))
    BY FS_Interval
<1>2. IsFiniteSet({k \in 1..Len(q) : q[k] # "end"})
    BY <1>1, FS_Subset
<1>3. QED
    BY <1>2, FS_CardinalityType DEF Packets

LEMMA PostedTyped ==
    ASSUME NetTyped, MBOX \in Nat, NEW c \in Conn, NEW m \in {"data", "quit", "end"}
    PROVE  Posted(c, m) \in Seq({"data", "quit", "end"}) /\ Len(Posted(c, m)) <= MBOX
BY DEF NetTyped, State, Posted, Valid

LEMMA NoConnTyped == NoConn \in State
BY DEF NoConn, State

LEMMA ListenerTyped ==
    ASSUME \E c \in Conn : nc[c].st # "free"
    PROVE  Listener \in Conn /\ nc[Listener].st # "free"
BY DEF Listener

Net == Typed /\ Sessions /\ Netconns /\ Setup

(* netconn_alloc takes a netconn nobody has. *)
LEMMA AllocNet ==
    ASSUME Net, CanAlloc, NEW c \in Conn, netconn_alloc(c, "new")
    PROVE  /\ events' \in Nat /\ queues' \in Nat
           /\ NetTyped'
           /\ nc[c].st = "free"
           /\ nc'[c].st = "new" /\ nc'[c].sem /\ nc'[c].q = <<>>
           /\ nc'[c].recvmbox \in Block /\ nc'[c].acceptmbox = NULL
           /\ \A d \in Conn \ {c} : nc'[d] = nc[d]
           /\ Netconns'
<1>1. events' \in Nat /\ queues' \in Nat
    BY DEF CanAlloc, netconn_alloc, Net, Typed, KernelTyped
<1>2. PICK p \in Block :
        nc' = [nc EXCEPT ![c] = [NoConn EXCEPT !.st = "new", !.sem = TRUE,
                                                !.recvmbox = p, !.pcb = TRUE]]
    BY DEF netconn_alloc
<1>3. c \in Unused
    BY DEF CanAlloc, netconn_alloc
<1>4. nc'[c] = [NoConn EXCEPT !.st = "new", !.sem = TRUE, !.recvmbox = p, !.pcb = TRUE]
    BY <1>2 DEF Net, Typed, NetTyped
<1>5. /\ nc'[c].st = "new" /\ nc'[c].sem /\ nc'[c].q = <<>>
      /\ nc'[c].recvmbox = p /\ nc'[c].acceptmbox = NULL
      /\ nc'[c] \in State
    <2>1. nc'[c] = [st |-> "new", sem |-> TRUE, recvmbox |-> p, acceptmbox |-> NULL,
                    q |-> <<>>, pcb |-> TRUE, fin |-> FALSE, err |-> FALSE]
        BY <1>4 DEF NoConn
    <2>2. <<>> \in Seq({"data", "quit", "end"})
        OBVIOUS
    <2>3. nc'[c] \in State
        BY <2>1, <2>2 DEF State
    <2>4. QED
        BY <2>1, <2>3
<1>6. \A d \in Conn \ {c} : nc'[d] = nc[d]
    BY <1>2 DEF Net, Typed, NetTyped
<1>7. NetTyped'
    BY <1>2, <1>4, <1>5, <1>6, NetconnAssumption DEF Net, Typed, NetTyped
<1>8. p # NULL
    BY PoolAssumption DEF Block
<1>9. Netconns'
    <2>1. ASSUME NEW d \in Conn
          PROVE  /\ nc'[d].sem <=> nc'[d].st # "free"
                 /\ nc'[d].st = "free" => nc'[d].recvmbox = NULL
                 /\ nc'[d].recvmbox = NULL => nc'[d].q = <<>>
                 /\ nc'[d].acceptmbox # NULL => nc'[d].st = "listen"
                 /\ nc'[d].st = "listen" => nc'[d].recvmbox = NULL /\ nc'[d].acceptmbox # NULL
        <3>1. CASE d = c
            BY <3>1, <1>5, <1>8
        <3>2. CASE d # c
            BY <3>2, <1>6 DEF Net, Netconns
        <3>3. QED
            BY <3>1, <3>2
    <2>2. QED
        BY <2>1 DEF Netconns
<1>10. nc[c].st = "free"
    BY <1>3 DEF Unused
<1>11. nc'[c].recvmbox \in Block
    BY <1>5
<1>12. QED
    BY <1>1, <1>5, <1>6, <1>7, <1>9, <1>10, <1>11

(* lwip_comm_mem_malloc: where the freeing of a failed part stands *)
Undoing == undo # 0 => step \in {4, 8} /\ undo \in step-3..step

LEMMA SameNet ==
    ASSUME Net, UNCHANGED <<nc, acceptq, serverVars>>
    PROVE  NetTyped' /\ ServerTyped' /\ Sessions' /\ Netconns' /\ Setup'
<1>1. NetTyped' /\ ServerTyped'
    BY DEF Net, Typed, NetTyped, ServerTyped, serverVars
<1>2. Sessions'
    BY DEF Net, Sessions, serverVars, Valid
<1>3. Netconns'
    BY DEF Net, Netconns
<1>4. Setup'
    BY DEF Net, Setup, serverVars, Serving
<1>5. QED
    BY <1>1, <1>2, <1>3, <1>4

LEMMA StartAllocKeepsNet == Net /\ StartAlloc => Net'
<1> SUFFICES ASSUME Net, StartAlloc PROVE Net'
    OBVIOUS
<1>1. NetTyped' /\ ServerTyped' /\ Sessions' /\ Netconns' /\ Setup'
    BY SameNet DEF StartAlloc
<1>2. KernelTyped'
    BY DEF StartAlloc, kernelVars, Net, Typed, KernelTyped
<1>3. StartTyped'
    <2>1. ptr' \in [1..8 -> Block \cup {NULL}]
        BY DEF StartAlloc, Net, Typed, StartTyped
    <2>2. step' \in 1..10 /\ undo' \in 0..8
        BY DEF StartAlloc, Net, Typed, StartTyped
    <2>3. QED
        BY <2>1, <2>2 DEF StartAlloc, Net, Typed, StartTyped
<1>4. QED
    BY <1>1, <1>2, <1>3 DEF Net, Typed

LEMMA StartFreeKeepsNet == Net /\ Undoing /\ StartFree => Net'
<1> SUFFICES ASSUME Net, Undoing, StartFree PROVE Net'
    OBVIOUS
<1>1. NetTyped' /\ ServerTyped' /\ Sessions' /\ Netconns' /\ Setup'
    BY SameNet DEF StartFree
<1>2. KernelTyped'
    BY DEF StartFree, kernelVars, Net, Typed, KernelTyped
<1>3. StartTyped'
    BY NetconnAssumption DEF StartFree, Net, Typed, StartTyped, Undoing
<1>4. QED
    BY <1>1, <1>2, <1>3 DEF Net, Typed

LEMMA TcpipInitKeepsNet == Net /\ TcpipInit => Net'
<1> SUFFICES ASSUME Net, TcpipInit PROVE Net'
    OBVIOUS
<1>1. NetTyped' /\ ServerTyped' /\ Sessions' /\ Netconns' /\ Setup'
    BY SameNet DEF TcpipInit
<1>2. KernelTyped'
    BY DEF TcpipInit, MboxFits, Net, Typed, KernelTyped
<1>3. StartTyped'
    BY DEF TcpipInit, Net, Typed, StartTyped
<1>4. QED
    BY <1>1, <1>2, <1>3 DEF Net, Typed

LEMMA SameStart ==
    ASSUME Net, UNCHANGED startVars
    PROVE  StartTyped'
BY DEF Net, Typed, StartTyped, startVars

LEMMA NetconnNewKeepsNet == Net /\ NetconnNew => Net'
<1> SUFFICES ASSUME Net, NetconnNew PROVE Net'
    OBVIOUS
<1>1. PICK c \in Conn : netconn_alloc(c, "new")
    BY DEF NetconnNew
<1>2. /\ events' \in Nat /\ queues' \in Nat
      /\ NetTyped'
      /\ nc[c].st = "free"
      /\ nc'[c].st = "new" /\ nc'[c].sem /\ nc'[c].q = <<>>
      /\ nc'[c].recvmbox \in Block /\ nc'[c].acceptmbox = NULL
      /\ \A d \in Conn \ {c} : nc'[d] = nc[d]
      /\ Netconns'
    BY <1>1, AllocNet DEF NetconnNew
<1>3. pc = "new" /\ pc' = "unbox" /\ UNCHANGED <<pool, slot, cur, buf, left, acceptq, startVars>>
    BY DEF NetconnNew
<1>4. \A d \in Conn : nc[d].st = "free" /\ nc[d].recvmbox = NULL /\ nc[d].q = <<>>
    BY <1>3 DEF Net, Setup, Netconns
<1>5. ~Serving'
    BY <1>2, <1>4 DEF Serving
<1>6. Setup'
    BY <1>2, <1>3, <1>4, <1>5 DEF Net, Setup
<1>7. acceptq = <<>> /\ slot = [i \in Slot |-> NULL] /\ buf = 0
    BY <1>3 DEF Net, Setup, Sessions
<1>8. Sessions'
    BY <1>3, <1>7 DEF Sessions
<1>9. ServerTyped' /\ KernelTyped'
    BY <1>2, <1>3 DEF Net, Typed, ServerTyped, KernelTyped
<1>10. QED
    BY <1>2, <1>3, <1>6, <1>8, <1>9, SameStart DEF Net, Typed

(* While it is made, the listener is the only netconn. *)
LEMMA OnlyListener ==
    ASSUME Net, pc \in {"unbox", "listen"}
    PROVE  /\ Listener \in Conn
           /\ nc[Listener].st = "new" /\ nc[Listener].sem /\ nc[Listener].q = <<>>
           /\ nc[Listener].acceptmbox = NULL
           /\ \A d \in Conn \ {Listener} : nc[d].st = "free" /\ nc[d].recvmbox = NULL /\ nc[d].q = <<>>
<1>1. PICK c \in Conn : \A d \in Conn : nc[d].st # "free" <=> d = c
    BY DEF Net, Setup
<1>2. Listener = c
    <2>1. nc[c].st # "free"
        BY <1>1
    <2>2. QED
        BY <1>1, <2>1 DEF Listener
<1>3. nc[c].st \in {"free", "listen", "new"}
    BY DEF Net, Typed, NetTyped, State
<1>4. nc[c].st = "new"
    BY <1>1, <1>3 DEF Net, Setup, Serving
<1>5. QED
    BY <1>1, <1>2, <1>4 DEF Net, Setup, Netconns

LEMMA ListenFreesKeepsNet == Net /\ ListenFrees => Net'
<1> SUFFICES ASSUME Net, ListenFrees PROVE Net'
    OBVIOUS
<1> DEFINE c == Listener
<1>1. /\ c \in Conn
      /\ nc[c].st = "new" /\ nc[c].sem /\ nc[c].q = <<>> /\ nc[c].acceptmbox = NULL
      /\ \A d \in Conn \ {c} : nc[d].st = "free" /\ nc[d].recvmbox = NULL /\ nc[d].q = <<>>
    BY OnlyListener DEF ListenFrees
<1>2. /\ pc = "unbox" /\ pc' = "listen" /\ UNCHANGED <<pool, slot, cur, buf, left, acceptq, startVars>>
      /\ nc' = [nc EXCEPT ![c].recvmbox = NULL]
      /\ events' = events + 1 /\ queues' = queues + 1
    BY DEF ListenFrees
<1> HIDE DEF c
<1>3. nc'[c] = [nc[c] EXCEPT !.recvmbox = NULL] /\ \A d \in Conn \ {c} : nc'[d] = nc[d]
    BY <1>1, <1>2 DEF Net, Typed, NetTyped
<1>4. nc[c] \in State
    BY <1>1 DEF Net, Typed, NetTyped
<1>5. nc'[c] \in State
    BY <1>3, <1>4 DEF State
<1>6. /\ nc'[c].st = "new" /\ nc'[c].sem /\ nc'[c].q = <<>> /\ nc'[c].recvmbox = NULL
      /\ nc'[c].acceptmbox = NULL
    BY <1>1, <1>3, <1>4 DEF State
<1>7. NetTyped'
    BY <1>1, <1>2, <1>3, <1>5, <1>6, NetconnAssumption DEF Net, Typed, NetTyped
<1>8. Netconns'
    <2>1. ASSUME NEW d \in Conn
          PROVE  /\ nc'[d].sem <=> nc'[d].st # "free"
                 /\ nc'[d].st = "free" => nc'[d].recvmbox = NULL
                 /\ nc'[d].recvmbox = NULL => nc'[d].q = <<>>
                 /\ nc'[d].acceptmbox # NULL => nc'[d].st = "listen"
                 /\ nc'[d].st = "listen" => nc'[d].recvmbox = NULL /\ nc'[d].acceptmbox # NULL
        <3>1. CASE d = c
            BY <3>1, <1>6
        <3>2. CASE d # c
            BY <3>2, <1>3 DEF Net, Netconns
        <3>3. QED
            BY <3>1, <3>2
    <2>2. QED
        BY <2>1 DEF Netconns
<1>9. Setup'
    BY <1>1, <1>2, <1>3, <1>6 DEF Net, Setup, Serving
<1>10. Sessions'
    BY <1>2 DEF Net, Setup, Sessions
<1>11. ServerTyped' /\ KernelTyped'
    BY <1>2 DEF Net, Typed, ServerTyped, KernelTyped
<1>12. QED
    BY <1>2, <1>7, <1>8, <1>9, <1>10, <1>11, SameStart DEF Net, Typed

LEMMA ListenKeepsNet == Net /\ do_listen => Net'
<1> SUFFICES ASSUME Net, do_listen PROVE Net'
    OBVIOUS
<1> DEFINE c == Listener
<1>1. /\ c \in Conn
      /\ nc[c].st = "new" /\ nc[c].sem /\ nc[c].q = <<>> /\ nc[c].acceptmbox = NULL
      /\ \A d \in Conn \ {c} : nc[d].st = "free" /\ nc[d].recvmbox = NULL /\ nc[d].q = <<>>
    BY OnlyListener DEF do_listen
<1>2. PICK p \in Block : nc' = [nc EXCEPT ![c] = [@ EXCEPT !.st = "listen", !.acceptmbox = p]]
    BY DEF do_listen
<1>3. /\ pc = "listen" /\ pc' = "serve" /\ UNCHANGED <<pool, slot, cur, buf, left, acceptq, startVars>>
      /\ events' \in Nat /\ queues' \in Nat
    BY DEF do_listen, MboxFits, Net, Typed, KernelTyped
<1> HIDE DEF c
<1>4. /\ nc'[c] = [nc[c] EXCEPT !.st = "listen", !.acceptmbox = p]
      /\ \A d \in Conn \ {c} : nc'[d] = nc[d]
    BY <1>1, <1>2 DEF Net, Typed, NetTyped
<1>5. nc[c] \in State /\ nc[c].recvmbox = NULL /\ p # NULL
    BY <1>1, <1>3, PoolAssumption DEF Net, Typed, NetTyped, Setup, Block
<1>6. nc'[c] \in State
    BY <1>4, <1>5 DEF State
<1>7. /\ nc'[c].st = "listen" /\ nc'[c].sem /\ nc'[c].q = <<>> /\ nc'[c].recvmbox = NULL
      /\ nc'[c].acceptmbox = p
    BY <1>1, <1>4, <1>5 DEF State
<1>8. NetTyped'
    BY <1>1, <1>2, <1>4, <1>6, <1>7, NetconnAssumption DEF Net, Typed, NetTyped
<1>9. Netconns'
    <2>1. /\ (nc'[c].sem <=> nc'[c].st # "free") /\ nc'[c].st # "free"
          /\ nc'[c].recvmbox = NULL /\ nc'[c].q = <<>> /\ nc'[c].acceptmbox # NULL
        BY <1>5, <1>7
    <2>2. ASSUME NEW d \in Conn \ {c}
          PROVE  /\ nc'[d].sem <=> nc'[d].st # "free"
                 /\ nc'[d].st = "free" => nc'[d].recvmbox = NULL
                 /\ nc'[d].recvmbox = NULL => nc'[d].q = <<>>
                 /\ nc'[d].acceptmbox # NULL => nc'[d].st = "listen"
                 /\ nc'[d].st = "listen" => nc'[d].recvmbox = NULL /\ nc'[d].acceptmbox # NULL
        <3>1. /\ nc[d].sem <=> nc[d].st # "free"
              /\ nc[d].acceptmbox # NULL => nc[d].st = "listen"
            BY DEF Net, Netconns
        <3>2. nc'[d] = nc[d] /\ nc[d].st = "free" /\ nc[d].recvmbox = NULL /\ nc[d].q = <<>>
            BY <1>1, <1>4
        <3>3. QED
            BY <3>1, <3>2
    <2>3. QED
        BY <1>7, <2>1, <2>2 DEF Netconns
<1>10. Setup'
    <2>1. \A d \in Conn : nc'[d].st = "listen" <=> d = c
        BY <1>1, <1>4, <1>7
    <2>2. Serving'
        BY <1>1, <2>1 DEF Serving
    <2>3. QED
        BY <1>3, <2>1, <2>2 DEF Setup
<1>11. Sessions'
    BY <1>3 DEF Net, Setup, Sessions
<1>12. ServerTyped' /\ KernelTyped'
    BY <1>3 DEF Net, Typed, ServerTyped, KernelTyped
<1>13. QED
    BY <1>3, <1>8, <1>9, <1>10, <1>11, <1>12, SameStart DEF Net, Typed

LEMMA AcceptFunctionKeepsNet == Net /\ accept_function => Net'
<1> SUFFICES ASSUME Net, accept_function PROVE Net'
    OBVIOUS
<1>1. PICK c \in Conn : netconn_alloc(c, "new") /\ acceptq' = Append(acceptq, c)
    BY DEF accept_function
<1>2. /\ events' \in Nat /\ queues' \in Nat
      /\ NetTyped'
      /\ nc[c].st = "free"
      /\ nc'[c].st = "new" /\ nc'[c].sem /\ nc'[c].q = <<>>
      /\ nc'[c].recvmbox \in Block /\ nc'[c].acceptmbox = NULL
      /\ \A d \in Conn \ {c} : nc'[d] = nc[d]
      /\ Netconns'
    BY <1>1, AllocNet DEF accept_function
<1>3. UNCHANGED <<startVars, pool, slot, pc, cur, buf, left>> /\ Serving
    BY DEF accept_function, serverVars
<1>4. pc \notin {"new", "unbox", "listen"}
    BY <1>3 DEF Net, Setup
<1>5. acceptq \in Seq(Conn)
    BY DEF Net, Typed, ServerTyped
<1>6. Setup'
    <2>1. Serving'
        BY <1>2, <1>3 DEF Serving
    <2>2. \A d, e \in Conn : nc'[d].st = "listen" /\ nc'[e].st = "listen" => d = e
        BY <1>2 DEF Net, Setup
    <2>3. QED
        BY <1>3, <1>4, <2>1, <2>2 DEF Setup
<1>7. Sessions'
    <2>1. \A i \in Slot : slot[i] # NULL => slot[i] \in Conn /\ slot[i] # c
        BY <1>2 DEF Net, Sessions, Typed, ServerTyped
    <2>2. \A k \in 1..Len(acceptq) : acceptq[k] \in Conn /\ acceptq[k] # c
        BY <1>2, <1>5 DEF Net, Sessions
    <2>3. /\ Len(acceptq') = Len(acceptq) + 1 /\ acceptq'[Len(acceptq) + 1] = c
          /\ \A k \in 1..Len(acceptq) : acceptq'[k] = acceptq[k]
        BY <1>1, <1>5
    <2>4. /\ \A k \in 1..Len(acceptq') :
              nc'[acceptq'[k]].st = "new" /\ \A i \in Slot : slot[i] # acceptq'[k]
          /\ \A k, l \in 1..Len(acceptq') : k # l => acceptq'[k] # acceptq'[l]
        <3>1. \A k \in 1..Len(acceptq') : k \in 1..Len(acceptq) \/ k = Len(acceptq) + 1
            BY <1>5, <2>3
        <3>2. \A i \in Slot : slot[i] # c
            BY <2>1, NetconnAssumption
        <3>3. QED
            BY <1>2, <2>2, <2>3, <3>1, <3>2 DEF Net, Sessions
    <2>5. /\ pc \in {"close", "drain", "free"} => slot[cur] \in Conn /\ slot[cur] # c
        BY <2>1, NetconnAssumption DEF Net, Sessions
    <2>6. \A i \in Slot : slot[i] # NULL => nc'[slot[i]].st = "new"
        BY <1>2, <2>1 DEF Net, Sessions
    <2>7. /\ pc \in {"drain", "free"} => ~nc'[slot[cur]].pcb
          /\ pc = "free" => ~Valid(slot[cur])'
        BY <1>2, <1>3, <2>5 DEF Net, Sessions, Valid
    <2>8. QED
        BY <1>3, <2>4, <2>5, <2>6, <2>7 DEF Net, Sessions
<1>8. ServerTyped' /\ KernelTyped'
    BY <1>1, <1>2, <1>3, <1>5 DEF Net, Typed, ServerTyped, KernelTyped
<1>9. QED
    BY <1>2, <1>3, <1>6, <1>7, <1>8, SameStart DEF Net, Typed

-------------------------------------------------------------------------------
(* A netconn changes otherwise than in what it holds. *)
LEMMA Changed ==
    ASSUME Net, NEW c \in Conn, NEW s \in State, nc' = [nc EXCEPT ![c] = s],
           s.st = nc[c].st, s.sem = nc[c].sem, s.recvmbox = nc[c].recvmbox,
           s.acceptmbox = nc[c].acceptmbox, Len(s.q) <= MBOX,
           s.recvmbox = NULL => s.q = <<>>
    PROVE  /\ NetTyped' /\ Netconns'
           /\ nc'[c] = s /\ \A d \in Conn \ {c} : nc'[d] = nc[d]
           /\ \A d \in Conn : nc'[d].st = nc[d].st
           /\ Serving' <=> Serving
<1>1. nc'[c] = s /\ \A d \in Conn \ {c} : nc'[d] = nc[d]
    BY DEF Net, Typed, NetTyped
<1>2. NetTyped'
    BY <1>1, NetconnAssumption DEF Net, Typed, NetTyped
<1>3. Netconns'
    <2>1. ASSUME NEW d \in Conn
          PROVE  /\ nc'[d].sem <=> nc'[d].st # "free"
                 /\ nc'[d].st = "free" => nc'[d].recvmbox = NULL
                 /\ nc'[d].recvmbox = NULL => nc'[d].q = <<>>
                 /\ nc'[d].acceptmbox # NULL => nc'[d].st = "listen"
                 /\ nc'[d].st = "listen" => nc'[d].recvmbox = NULL /\ nc'[d].acceptmbox # NULL
        <3>1. CASE d = c
            BY <3>1, <1>1 DEF Net, Netconns
        <3>2. CASE d # c
            BY <3>2, <1>1 DEF Net, Netconns
        <3>3. QED
            BY <3>1, <3>2
    <2>2. QED
        BY <2>1 DEF Netconns
<1>4. \A d \in Conn : nc'[d].st = nc[d].st
    BY <1>1
<1>5. Serving' <=> Serving
    BY <1>4 DEF Serving
<1>6. QED
    BY <1>1, <1>2, <1>3, <1>4, <1>5

(* ... and then, with slots and listener as they were, the session goes on. *)
LEMMA ChangedServing ==
    ASSUME Net, Serving, Serving' <=> Serving, \A d \in Conn : nc'[d].st = nc[d].st,
           pc' \notin {"new", "unbox", "listen"}
    PROVE  Setup'
BY DEF Net, Setup

(* the state of a netconn that holds what it held, for each of these changes *)
LEMMA Changes ==
    ASSUME Net, NEW c \in Conn, NEW x \in Seq({"data", "quit", "end"}),
           Len(x) <= MBOX, nc[c].recvmbox = NULL => x = <<>>,
           NEW s,
           \/ s = [nc[c] EXCEPT !.q = x]
           \/ s = [nc[c] EXCEPT !.fin = TRUE, !.q = x]
           \/ s = [nc[c] EXCEPT !.pcb = FALSE, !.err = TRUE, !.q = x]
           \/ s = [nc[c] EXCEPT !.pcb = FALSE]
    PROVE  /\ s \in State
           /\ s.st = nc[c].st /\ s.sem = nc[c].sem /\ s.recvmbox = nc[c].recvmbox
           /\ s.acceptmbox = nc[c].acceptmbox /\ Len(s.q) <= MBOX
           /\ s.recvmbox = NULL => s.q = <<>>
<1>1. nc[c] \in State /\ Len(nc[c].q) <= MBOX
    BY DEF Net, Typed, NetTyped
<1>2. nc[c].recvmbox = NULL => nc[c].q = <<>>
    BY DEF Net, Netconns
<1>3. s \in State
    BY <1>1 DEF State
<1>4. /\ s.st = nc[c].st /\ s.sem = nc[c].sem /\ s.recvmbox = nc[c].recvmbox
      /\ s.acceptmbox = nc[c].acceptmbox /\ s.q \in {x, nc[c].q}
    BY <1>1 DEF State
<1>5. QED
    BY <1>1, <1>2, <1>3, <1>4

(* Something is posted to an established netconn, while the server is anywhere.  *)
LEMMA PostKeepsNet ==
    ASSUME Net, NEW c \in Conn, Established(c), NEW m \in {"data", "quit", "end"},
           NEW s,
           \/ s = [nc[c] EXCEPT !.q = Posted(c, m)]
           \/ s = [nc[c] EXCEPT !.fin = TRUE, !.q = Posted(c, m)]
           \/ s = [nc[c] EXCEPT !.pcb = FALSE, !.err = TRUE, !.q = Posted(c, m)],
           nc' = [nc EXCEPT ![c] = s], UNCHANGED <<startVars, serverVars, acceptq, events, queues>>,
           pool' \in Nat
    PROVE  Net'
<1>1. Posted(c, m) \in Seq({"data", "quit", "end"}) /\ Len(Posted(c, m)) <= MBOX
    BY PostedTyped, NetconnAssumption DEF Net, Typed
<1>2. nc[c].recvmbox = NULL => Posted(c, m) = <<>>
    BY DEF Net, Netconns, Posted, Valid
<1>3. /\ s \in State
      /\ s.st = nc[c].st /\ s.sem = nc[c].sem /\ s.recvmbox = nc[c].recvmbox
      /\ s.acceptmbox = nc[c].acceptmbox /\ Len(s.q) <= MBOX
      /\ s.recvmbox = NULL => s.q = <<>>
    <2>1. PICK x \in Seq({"data", "quit", "end"}) : x = Posted(c, m)
        BY <1>1
    <2>2. \/ s = [nc[c] EXCEPT !.q = x]
          \/ s = [nc[c] EXCEPT !.fin = TRUE, !.q = x]
          \/ s = [nc[c] EXCEPT !.pcb = FALSE, !.err = TRUE, !.q = x]
          \/ s = [nc[c] EXCEPT !.pcb = FALSE]
        BY <2>1
    <2>3. Len(x) <= MBOX /\ (nc[c].recvmbox = NULL => x = <<>>)
        BY <1>1, <1>2, <2>1
    <2>4. QED
        BY <2>2, <2>3, Changes
<1>4. /\ NetTyped' /\ Netconns'
      /\ nc'[c] = s /\ \A d \in Conn \ {c} : nc'[d] = nc[d]
      /\ \A d \in Conn : nc'[d].st = nc[d].st
      /\ Serving' <=> Serving
    BY <1>3, Changed
<1>5. Serving /\ nc[c].pcb
    BY DEF Established
<1>6. pc' \notin {"new", "unbox", "listen"}
    BY <1>5 DEF Net, Setup, serverVars
<1>7. Setup'
    BY <1>4, <1>5, <1>6, ChangedServing
<1>8. Sessions'
    <2>1. \A i \in Slot : slot[i] # NULL => slot[i] \in Conn
        BY DEF Net, Typed, ServerTyped
    <2>2. \A k \in 1..Len(acceptq) : acceptq[k] \in Conn
        BY DEF Net, Typed, ServerTyped
    <2>3. pc \in {"drain", "free"} => slot[cur] \in Conn \ {c}
        BY <1>5 DEF Net, Sessions
    <2>4. pc = "free" => ~Valid(slot[cur])'
        BY <1>4, <2>3 DEF Net, Sessions, Valid, serverVars
    <2>5. pc \in {"drain", "free"} => ~nc'[slot[cur]].pcb
        BY <1>4, <2>3 DEF Net, Sessions
    <2>6. /\ \A i \in Slot : slot[i] # NULL => nc'[slot[i]].st = "new"
          /\ \A k \in 1..Len(acceptq) : nc'[acceptq[k]].st = "new"
        BY <1>4, <2>1, <2>2 DEF Net, Sessions
    <2>7. QED
        BY <2>4, <2>5, <2>6 DEF Net, Sessions, serverVars
<1>9. ServerTyped' /\ KernelTyped'
    BY DEF Net, Typed, ServerTyped, KernelTyped, serverVars
<1>10. QED
    BY <1>4, <1>7, <1>8, <1>9, SameStart DEF Net, Typed

LEMMA RecvDataKeepsNet ==
    ASSUME Net, NEW c \in Conn, NEW m \in {"data", "quit"}, RecvData(c, m)
    PROVE  Net'
<1>1. nc' = [nc EXCEPT ![c] = [nc[c] EXCEPT !.q = Posted(c, m)]]
    BY DEF RecvData, Net, Typed, NetTyped
<1>2. pool' \in Nat
    BY DEF RecvData, Net, Typed, KernelTyped
<1>3. Established(c) /\ UNCHANGED <<startVars, serverVars, acceptq, events, queues>>
    BY DEF RecvData
<1>4. QED
    BY <1>1, <1>2, <1>3, PostKeepsNet

LEMMA RecvFinKeepsNet ==
    ASSUME Net, NEW c \in Conn, RecvFin(c)
    PROVE  Net'
<1>1. nc' = [nc EXCEPT ![c] = [nc[c] EXCEPT !.fin = TRUE, !.q = Posted(c, "end")]]
    BY DEF RecvFin, Net, Typed, NetTyped
<1>2. pool' \in Nat
    BY DEF RecvFin, Net, Typed, KernelTyped, kernelVars
<1>3. Established(c) /\ UNCHANGED <<startVars, serverVars, acceptq, events, queues>>
    BY DEF RecvFin, kernelVars
<1>4. QED
    BY <1>1, <1>2, <1>3, PostKeepsNet

LEMMA ErrKeepsNet ==
    ASSUME Net, NEW c \in Conn, err_tcp(c)
    PROVE  Net'
<1>1. nc' = [nc EXCEPT ![c] = [nc[c] EXCEPT !.pcb = FALSE, !.err = TRUE, !.q = Posted(c, "end")]]
    BY DEF err_tcp, Net, Typed, NetTyped
<1>2. pool' \in Nat
    BY DEF err_tcp, Net, Typed, KernelTyped, kernelVars
<1>3. Established(c) /\ UNCHANGED <<startVars, serverVars, acceptq, events, queues>>
    BY DEF err_tcp, kernelVars
<1>4. QED
    BY <1>1, <1>2, <1>3, PostKeepsNet

-------------------------------------------------------------------------------
LEMMA AcceptKeepsNet ==
    ASSUME Net, NEW i \in Slot, Accept(i)
    PROVE  Net'
<1>1. /\ pc = "serve" /\ slot[i] = NULL /\ acceptq # <<>>
      /\ slot' = [slot EXCEPT ![i] = Head(acceptq)] /\ acceptq' = Tail(acceptq)
      /\ UNCHANGED <<startVars, kernelVars, nc, pc, cur, buf, left>>
    BY DEF Accept
<1>2. acceptq \in Seq(Conn) /\ slot \in [Slot -> Conn \cup {NULL}]
    BY DEF Net, Typed, ServerTyped
<1>3. /\ Len(acceptq) >= 1 /\ Head(acceptq) = acceptq[1] /\ acceptq[1] \in Conn
      /\ Tail(acceptq) \in Seq(Conn) /\ Len(Tail(acceptq)) = Len(acceptq) - 1
      /\ \A k \in 1..Len(acceptq)-1 : Tail(acceptq)[k] = acceptq[k + 1]
    BY <1>1, <1>2
<1>4. NetTyped' /\ KernelTyped' /\ Netconns'
    BY <1>1 DEF Net, Typed, NetTyped, KernelTyped, kernelVars, Netconns
<1>5. ServerTyped'
    BY <1>1, <1>2, <1>3 DEF Net, Typed, ServerTyped
<1>6. Setup'
    BY <1>1 DEF Net, Setup, Serving
<1>7. Sessions'
    <2>1. /\ slot'[i] = acceptq[1] /\ \A j \in Slot \ {i} : slot'[j] = slot[j]
        BY <1>1, <1>2, <1>3
    <2>2. nc[acceptq[1]].st = "new" /\ \A j \in Slot : slot[j] # acceptq[1]
        BY <1>3 DEF Net, Sessions
    <2>3. \A j \in Slot : slot'[j] # NULL => nc[slot'[j]].st = "new"
        BY <2>1, <2>2 DEF Net, Sessions
    <2>4. \A j, k \in Slot : j # k /\ slot'[j] # NULL => slot'[j] # slot'[k]
        BY <2>1, <2>2 DEF Net, Sessions
    <2>5. ASSUME NEW k \in 1..Len(acceptq)-1
          PROVE  /\ nc[acceptq'[k]].st = "new"
                 /\ \A j \in Slot : slot'[j] # acceptq'[k]
                 /\ \A l \in 1..Len(acceptq)-1 : k # l => acceptq'[k] # acceptq'[l]
        <3>1. acceptq'[k] = acceptq[k + 1] /\ k + 1 \in 1..Len(acceptq) /\ k + 1 # 1
            BY <1>1, <1>2, <1>3
        <3>2. nc[acceptq[k + 1]].st = "new" /\ acceptq[k + 1] # acceptq[1]
              /\ \A j \in Slot : slot[j] # acceptq[k + 1]
            BY <3>1, <1>3 DEF Net, Sessions
        <3>3. ASSUME NEW l \in 1..Len(acceptq)-1, k # l
              PROVE  acceptq'[k] # acceptq'[l]
            <4>1. acceptq'[l] = acceptq[l + 1] /\ l + 1 \in 1..Len(acceptq) /\ k + 1 # l + 1
                BY <1>1, <1>2, <1>3, <3>3
            <4>2. QED
                BY <3>1, <4>1 DEF Net, Sessions
        <3>4. QED
            BY <2>1, <3>1, <3>2, <3>3
    <2>6. Len(acceptq') = Len(acceptq) - 1
        BY <1>1, <1>3
    <2>7. QED
        BY <1>1, <2>3, <2>4, <2>5, <2>6 DEF Net, Sessions
<1>8. QED
    BY <1>1, <1>4, <1>5, <1>6, <1>7, SameStart DEF Net, Typed

(* The server changes the netconn of a slot, in the course of receiving from it.  *)
LEMMA ServedKeepsNet ==
    ASSUME Net, NEW i \in Slot, slot[i] \in Conn, pc \in {"serve", "close"},
           NEW x \in Seq({"data", "quit", "end"}),
           Len(x) <= MBOX, nc[slot[i]].recvmbox = NULL => x = <<>>,
           NEW s,
           s = [nc[slot[i]] EXCEPT !.q = x] \/ s = [nc[slot[i]] EXCEPT !.pcb = FALSE],
           nc' = [nc EXCEPT ![slot[i]] = s],
           UNCHANGED <<startVars, acceptq, slot, left, events, queues>>,
           pool' \in Nat, buf' \in 0..1,
           \/ pc' = "serve" /\ buf' = 0 /\ cur' \in Slot \cup {NULL}
           \/ pc' \in {"close", "drain"} /\ cur' = i,
           pc' = "drain" => s = [nc[slot[i]] EXCEPT !.pcb = FALSE]
    PROVE  Net'
<1> DEFINE c == slot[i]
<1>1. c \in Conn
    OBVIOUS
<1>2. /\ s \in State
      /\ s.st = nc[c].st /\ s.sem = nc[c].sem /\ s.recvmbox = nc[c].recvmbox
      /\ s.acceptmbox = nc[c].acceptmbox /\ Len(s.q) <= MBOX
      /\ s.recvmbox = NULL => s.q = <<>>
    BY <1>1, Changes, ZenonT(30)
<1>3. nc[c] \in State
    BY <1>1 DEF Net, Typed, NetTyped
<1>4. s = [nc[c] EXCEPT !.pcb = FALSE] => ~s.pcb
    BY <1>3 DEF State
<1>5. /\ NetTyped' /\ Netconns'
      /\ nc'[c] = s /\ \A d \in Conn \ {c} : nc'[d] = nc[d]
      /\ \A d \in Conn : nc'[d].st = nc[d].st
      /\ Serving' <=> Serving
    BY <1>1, <1>2, Changed
<1>6. pc' \notin {"new", "unbox", "listen"} /\ Serving
    BY DEF Net, Setup
<1>7. Setup'
    BY <1>5, <1>6, ChangedServing
<1>8. Sessions'
    <2>1. \A j \in Slot : slot[j] # NULL => slot[j] \in Conn
        BY DEF Net, Typed, ServerTyped
    <2>2. \A k \in 1..Len(acceptq) : acceptq[k] \in Conn
        BY DEF Net, Typed, ServerTyped
    <2>3. /\ \A j \in Slot : slot[j] # NULL => nc'[slot[j]].st = "new"
          /\ \A k \in 1..Len(acceptq) : nc'[acceptq[k]].st = "new"
        BY <1>5, <2>1, <2>2 DEF Net, Sessions
    <2>4. pc' \in {"drain", "free"} => ~nc'[slot'[cur']].pcb
        BY <1>4, <1>5
    <2>5. QED
        BY <2>3, <2>4 DEF Net, Sessions
<1>9. ServerTyped' /\ KernelTyped'
    BY DEF Net, Typed, ServerTyped, KernelTyped
<1>10. QED
    BY <1>5, <1>7, <1>8, <1>9, SameStart DEF Net, Typed

LEMMA TailTyped ==
    ASSUME Net, NEW c \in Conn, nc[c].q # <<>>
    PROVE  /\ Tail(nc[c].q) \in Seq({"data", "quit", "end"}) /\ Len(Tail(nc[c].q)) <= MBOX
           /\ nc[c].recvmbox # NULL
<1>1. nc[c].q \in Seq({"data", "quit", "end"}) /\ Len(nc[c].q) <= MBOX
    BY DEF Net, Typed, NetTyped, State
<1>2. Len(Tail(nc[c].q)) = Len(nc[c].q) - 1 /\ Tail(nc[c].q) \in Seq({"data", "quit", "end"})
    BY <1>1
<1>3. QED
    BY <1>1, <1>2, NetconnAssumption DEF Net, Netconns

LEMMA SlotTyped ==
    ASSUME Net, NEW i \in Slot, slot[i] # NULL
    PROVE  slot[i] \in Conn /\ nc[slot[i]] \in State
BY DEF Net, Typed, ServerTyped, NetTyped

LEMMA RecvUsesKeepsNet ==
    ASSUME Net, NEW i \in Slot, RecvUses(i)
    PROVE  Net'
<1>1. /\ pc = "serve" /\ slot[i] # NULL /\ nc[slot[i]].q # <<>>
      /\ nc' = [nc EXCEPT ![slot[i]].q = Tail(@)] /\ pool' = pool + 1
      /\ UNCHANGED <<startVars, events, queues, serverVars, acceptq>>
    BY DEF RecvUses, Receives, Taken
<1>2. slot[i] \in Conn
    BY <1>1, SlotTyped
<1>3. PICK x \in Seq({"data", "quit", "end"}) :
        x = Tail(nc[slot[i]].q) /\ Len(x) <= MBOX /\ nc[slot[i]].recvmbox # NULL
    BY <1>1, <1>2, TailTyped
<1>4. nc' = [nc EXCEPT ![slot[i]] = [nc[slot[i]] EXCEPT !.q = x]]
    BY <1>1, <1>2, <1>3 DEF Net, Typed, NetTyped
<1>5. pool' \in Nat /\ buf' = 0 /\ buf' \in 0..1 /\ cur' \in Slot \cup {NULL} /\ pc' = "serve"
    BY <1>1 DEF Net, Typed, KernelTyped, ServerTyped, Sessions, serverVars
<1>6. UNCHANGED <<startVars, acceptq, slot, left, events, queues>> /\ pc' # "drain"
    BY <1>1, <1>5 DEF serverVars
<1>7. QED
    BY <1>1, <1>2, <1>3, <1>4, <1>5, <1>6, ServedKeepsNet

LEMMA RecvQuitKeepsNet ==
    ASSUME Net, NEW i \in Slot, RecvQuit(i)
    PROVE  Net'
<1>1. /\ pc = "serve" /\ slot[i] # NULL /\ nc[slot[i]].q # <<>>
      /\ nc' = [nc EXCEPT ![slot[i]].q = Tail(@)] /\ buf' = 1 /\ pc' = "close" /\ cur' = i
      /\ UNCHANGED <<startVars, kernelVars, slot, left, acceptq>>
    BY DEF RecvQuit, Receives, Taken
<1>2. slot[i] \in Conn
    BY <1>1, SlotTyped
<1>3. PICK x \in Seq({"data", "quit", "end"}) :
        x = Tail(nc[slot[i]].q) /\ Len(x) <= MBOX /\ nc[slot[i]].recvmbox # NULL
    BY <1>1, <1>2, TailTyped
<1>4. nc' = [nc EXCEPT ![slot[i]] = [nc[slot[i]] EXCEPT !.q = x]]
    BY <1>1, <1>2, <1>3 DEF Net, Typed, NetTyped
<1>5. pool' \in Nat /\ UNCHANGED <<startVars, acceptq, slot, left, events, queues>>
    BY <1>1 DEF Net, Typed, KernelTyped, kernelVars
<1>6. buf' \in 0..1 /\ pc \in {"serve", "close"} /\ pc' # "drain"
      /\ pc' \in {"close", "drain"} /\ cur' = i
    BY <1>1
<1>7. Len(x) <= MBOX /\ (nc[slot[i]].recvmbox = NULL => x = <<>>)
    BY <1>3
<1>8. QED
    BY <1>2, <1>4, <1>5, <1>6, <1>7, ServedKeepsNet

LEMMA RecvEndKeepsNet ==
    ASSUME Net, NEW i \in Slot, RecvEnd(i)
    PROVE  Net'
<1>1. /\ pc = "serve" /\ slot[i] # NULL /\ pc' = "close" /\ cur' = i
      /\ UNCHANGED <<startVars, kernelVars, slot, buf, left, acceptq>>
      /\ \/ UNCHANGED nc
         \/ nc[slot[i]].q # <<>> /\ nc' = [nc EXCEPT ![slot[i]].q = Tail(@)]
    BY DEF RecvEnd, Receives, Taken
<1>2. slot[i] \in Conn /\ nc[slot[i]] \in State
    BY <1>1, SlotTyped
<1>3. /\ pool' \in Nat /\ buf' \in 0..1
      /\ UNCHANGED <<startVars, acceptq, slot, left, events, queues>>
    BY <1>1 DEF Net, Typed, KernelTyped, ServerTyped, kernelVars
<1>4. PICK x \in Seq({"data", "quit", "end"}) :
        /\ x \in {nc[slot[i]].q, Tail(nc[slot[i]].q)}
        /\ nc' = [nc EXCEPT ![slot[i]] = [nc[slot[i]] EXCEPT !.q = x]]
        /\ Len(x) <= MBOX /\ (nc[slot[i]].recvmbox = NULL => x = <<>>)
    <2>1. CASE UNCHANGED nc
        <3>1. nc = [nc EXCEPT ![slot[i]] = [nc[slot[i]] EXCEPT !.q = nc[slot[i]].q]]
            <4>1. nc[slot[i]] = [nc[slot[i]] EXCEPT !.q = nc[slot[i]].q]
                BY <1>2 DEF State
            <4>2. QED
                BY <1>2, <4>1 DEF Net, Typed, NetTyped
        <3>2. nc[slot[i]].q \in Seq({"data", "quit", "end"}) /\ Len(nc[slot[i]].q) <= MBOX
            BY <1>2 DEF Net, Typed, NetTyped, State
        <3>3. QED
            BY <1>2, <2>1, <3>1, <3>2 DEF Net, Netconns
    <2>2. CASE nc[slot[i]].q # <<>> /\ nc' = [nc EXCEPT ![slot[i]].q = Tail(@)]
        BY <1>2, <2>2, TailTyped DEF Net, Typed, NetTyped
    <2>3. QED
        BY <1>1, <2>1, <2>2
<1>5. QED
    BY <1>1, <1>2, <1>3, <1>4, ServedKeepsNet

LEMMA CloseKeepsNet == Net /\ Close => Net'
<1> SUFFICES ASSUME Net, Close PROVE Net'
    OBVIOUS
<1>1. PICK i \in Slot : i = cur /\ slot[i] \in Conn
    BY DEF Close, Net, Sessions
<1>2. /\ pc = "close" /\ pc' = "drain" /\ cur' = i
      /\ nc' = [nc EXCEPT ![slot[i]].pcb = FALSE]
      /\ UNCHANGED <<startVars, kernelVars, slot, buf, left, acceptq>>
    BY <1>1 DEF Close
<1>3. /\ pool' \in Nat /\ buf' \in 0..1
      /\ UNCHANGED <<startVars, acceptq, slot, left, events, queues>>
    BY <1>2 DEF Net, Typed, KernelTyped, ServerTyped, kernelVars
<1>4. nc' = [nc EXCEPT ![slot[i]] = [nc[slot[i]] EXCEPT !.pcb = FALSE]]
    BY <1>1, <1>2 DEF Net, Typed, NetTyped
<1>5. PICK x \in Seq({"data", "quit", "end"}) : x = <<>>
    <2>1. <<>> \in Seq({"data", "quit", "end"})
        OBVIOUS
    <2>2. QED
        BY <2>1
<1>6. Len(x) <= MBOX
    BY <1>5, NetconnAssumption
<1>7. QED
    BY <1>1, <1>2, <1>3, <1>4, <1>5, <1>6, ServedKeepsNet

LEMMA DrainKeepsNet == Net /\ Drain => Net'
<1> SUFFICES ASSUME Net, Drain PROVE Net'
    OBVIOUS
<1>1. PICK c \in Conn : c = slot[cur] /\ cur \in Slot
    BY DEF Drain, Net, Sessions
<1>2. /\ pc = "drain" /\ pc' = "free"
      /\ UNCHANGED <<startVars, slot, cur, buf, left, acceptq>>
      /\ \/ /\ Valid(c)
            /\ pool' = Drained(c)
            /\ nc' = [nc EXCEPT ![c] = [@ EXCEPT !.recvmbox = NULL, !.q = <<>>]]
            /\ events' = events + 1 /\ queues' = queues + 1
         \/ ~Valid(c) /\ UNCHANGED <<kernelVars, nc>>
    BY <1>1 DEF Drain
<1>3. ServerTyped'
    BY <1>2 DEF Net, Typed, ServerTyped
<1>4. nc[c] \in State /\ nc[c].st = "new" /\ ~nc[c].pcb
    BY <1>1, <1>2, NetconnAssumption DEF Net, Typed, NetTyped, Sessions
<1>5. CASE ~Valid(c) /\ UNCHANGED <<kernelVars, nc>>
    <2>1. KernelTyped' /\ NetTyped' /\ Netconns'
        BY <1>5 DEF Net, Typed, KernelTyped, NetTyped, Netconns, kernelVars
    <2>2. Setup'
        BY <1>2, <1>5 DEF Net, Setup, Serving
    <2>3. Sessions'
        BY <1>1, <1>2, <1>5 DEF Net, Sessions, Valid
    <2>4. QED
        BY <1>2, <1>3, <2>1, <2>2, <2>3, SameStart DEF Net, Typed
<1>6. CASE /\ pool' = Drained(c)
           /\ nc' = [nc EXCEPT ![c] = [@ EXCEPT !.recvmbox = NULL, !.q = <<>>]]
           /\ events' = events + 1 /\ queues' = queues + 1
    <2>1. nc'[c] = [nc[c] EXCEPT !.recvmbox = NULL, !.q = <<>>]
          /\ \A d \in Conn \ {c} : nc'[d] = nc[d]
        BY <1>6 DEF Net, Typed, NetTyped
    <2>2. nc'[c] \in State
        <3>1. <<>> \in Seq({"data", "quit", "end"})
            OBVIOUS
        <3>2. QED
            BY <1>4, <2>1, <3>1 DEF State
    <2>3. /\ nc'[c].st = nc[c].st /\ nc'[c].sem = nc[c].sem /\ nc'[c].pcb = nc[c].pcb
          /\ nc'[c].acceptmbox = nc[c].acceptmbox
          /\ nc'[c].recvmbox = NULL /\ nc'[c].q = <<>>
        BY <1>4, <2>1 DEF State
    <2>4. NetTyped'
        BY <1>6, <2>1, <2>2, <2>3, NetconnAssumption DEF Net, Typed, NetTyped
    <2>5. Netconns'
        <3>1. ASSUME NEW d \in Conn
              PROVE  /\ nc'[d].sem <=> nc'[d].st # "free"
                     /\ nc'[d].st = "free" => nc'[d].recvmbox = NULL
                     /\ nc'[d].recvmbox = NULL => nc'[d].q = <<>>
                     /\ nc'[d].acceptmbox # NULL => nc'[d].st = "listen"
                     /\ nc'[d].st = "listen" => nc'[d].recvmbox = NULL /\ nc'[d].acceptmbox # NULL
            <4>1. CASE d = c
                BY <4>1, <1>4, <2>3 DEF Net, Netconns
            <4>2. CASE d # c
                BY <4>2, <2>1 DEF Net, Netconns
            <4>3. QED
                BY <4>1, <4>2
        <3>2. QED
            BY <3>1 DEF Netconns
    <2>6. \A d \in Conn : nc'[d].st = nc[d].st
        BY <2>1, <2>3
    <2>7. Serving /\ Serving'
        BY <1>2, <2>6 DEF Net, Setup, Serving
    <2>8. Setup'
        BY <1>2, <2>6, <2>7, ChangedServing
    <2>9. Sessions'
        <3>1. \A j \in Slot : slot[j] # NULL => slot[j] \in Conn
            BY DEF Net, Typed, ServerTyped
        <3>2. \A k \in 1..Len(acceptq) : acceptq[k] \in Conn
            BY DEF Net, Typed, ServerTyped
        <3>3. /\ \A j \in Slot : slot[j] # NULL => nc'[slot[j]].st = "new"
              /\ \A k \in 1..Len(acceptq) : nc'[acceptq[k]].st = "new"
            BY <2>6, <3>1, <3>2 DEF Net, Sessions
        <3>4. ~nc'[slot[cur]].pcb /\ ~Valid(slot[cur])'
            BY <1>1, <1>2, <1>4, <2>3 DEF Valid
        <3>5. QED
            BY <1>1, <1>2, <3>3, <3>4 DEF Net, Sessions
    <2>10. KernelTyped'
        <3>1. Packets(nc[c].q) \in Nat
            BY <1>4, PacketsTyped DEF State
        <3>2. QED
            BY <1>6, <3>1 DEF Net, Typed, KernelTyped, Drained
    <2>11. QED
        BY <1>2, <1>3, <2>4, <2>5, <2>8, <2>9, <2>10, SameStart DEF Net, Typed
<1>7. QED
    BY <1>2, <1>5, <1>6

LEMMA FreeKeepsNet == Net /\ Free => Net'
<1> SUFFICES ASSUME Net, Free PROVE Net'
    OBVIOUS
<1>1. PICK c \in Conn : c = slot[cur] /\ cur \in Slot
    BY DEF Free, Net, Sessions
<1>2. /\ pc = "free" /\ pc' = "serve"
      /\ nc' = [nc EXCEPT ![c] = NoConn]
      /\ left' = left \cup {<<b, Packets(nc[c].q)>> : b \in {nc[c].recvmbox} \ {NULL}}
      /\ events' = events + 1 /\ pool' = pool + buf /\ buf' = 0
      /\ slot' = [slot EXCEPT ![cur] = NULL] /\ cur' = NULL
      /\ UNCHANGED <<startVars, queues, acceptq>>
    BY <1>1 DEF Free
<1>3. /\ nc'[c] = NoConn /\ \A d \in Conn \ {c} : nc'[d] = nc[d]
      /\ slot'[cur] = NULL /\ \A j \in Slot \ {cur} : slot'[j] = slot[j]
    BY <1>1, <1>2 DEF Net, Typed, NetTyped, ServerTyped
<1>4. /\ nc'[c].st = "free" /\ ~nc'[c].sem /\ nc'[c].q = <<>> /\ nc'[c].recvmbox = NULL
      /\ nc'[c].acceptmbox = NULL
    BY <1>3 DEF NoConn
<1>5. nc[c] \in State /\ nc[c].st = "new"
    BY <1>1, NetconnAssumption DEF Net, Typed, NetTyped, Sessions
<1>6. NetTyped'
    BY <1>2, <1>3, <1>4, NoConnTyped, NetconnAssumption DEF Net, Typed, NetTyped
<1>7. Netconns'
    <2>1. ASSUME NEW d \in Conn
          PROVE  /\ nc'[d].sem <=> nc'[d].st # "free"
                 /\ nc'[d].st = "free" => nc'[d].recvmbox = NULL
                 /\ nc'[d].recvmbox = NULL => nc'[d].q = <<>>
                 /\ nc'[d].acceptmbox # NULL => nc'[d].st = "listen"
                 /\ nc'[d].st = "listen" => nc'[d].recvmbox = NULL /\ nc'[d].acceptmbox # NULL
        <3>1. CASE d = c
            BY <3>1, <1>4
        <3>2. CASE d # c
            BY <3>2, <1>3 DEF Net, Netconns
        <3>3. QED
            BY <3>1, <3>2
    <2>2. QED
        BY <2>1 DEF Netconns
<1>8. ServerTyped'
    <2>1. Packets(nc[c].q) \in Nat
        BY <1>5, PacketsTyped DEF State
    <2>2. nc[c].recvmbox \in Block \cup {NULL}
        BY <1>5 DEF State
    <2>3. left' \subseteq Block \X Nat
        BY <1>2, <2>1, <2>2 DEF Net, Typed, ServerTyped
    <2>4. slot' \in [Slot -> Conn \cup {NULL}]
        BY <1>2 DEF Net, Typed, ServerTyped
    <2>5. QED
        BY <1>2, <2>3, <2>4 DEF Net, Typed, ServerTyped
<1>9. KernelTyped'
    BY <1>2 DEF Net, Typed, KernelTyped, ServerTyped
<1>10. Setup'
    <2>1. PICK d \in Conn : nc[d].st = "listen"
        BY <1>2 DEF Net, Setup, Serving
    <2>2. Serving'
        BY <1>3, <1>5, <2>1 DEF Serving
    <2>3. \A d1, d2 \in Conn : nc'[d1].st = "listen" /\ nc'[d2].st = "listen" => d1 = d2
        BY <1>3, <1>4 DEF Net, Setup
    <2>4. QED
        BY <1>2, <2>2, <2>3 DEF Setup
<1>11. Sessions'
    <2>1. \A j \in Slot \ {cur} : slot[j] # NULL => slot[j] \in Conn \ {c}
        BY <1>1, NetconnAssumption DEF Net, Sessions, Typed, ServerTyped
    <2>2. \A k \in 1..Len(acceptq) : acceptq[k] \in Conn \ {c}
        BY <1>1 DEF Net, Sessions, Typed, ServerTyped
    <2>3. \A j \in Slot : slot'[j] # NULL => nc'[slot'[j]].st = "new"
        BY <1>3, <2>1 DEF Net, Sessions
    <2>4. \A j, k \in Slot : j # k /\ slot'[j] # NULL => slot'[j] # slot'[k]
        BY <1>3 DEF Net, Sessions
    <2>5. \A k \in 1..Len(acceptq) :
            nc'[acceptq[k]].st = "new" /\ \A j \in Slot : slot'[j] # acceptq[k]
        BY <1>3, <2>2, NetconnAssumption DEF Net, Sessions
    <2>6. QED
        BY <1>2, <2>3, <2>4, <2>5 DEF Net, Sessions
<1>12. QED
    BY <1>2, <1>6, <1>7, <1>8, <1>9, <1>10, <1>11, SameStart DEF Net, Typed

LEMMA NetInit == Init => Net
<1> SUFFICES ASSUME Init PROVE Net
    OBVIOUS
<1>1. Typed
    <2>1. nc \in [Conn -> State] /\ \A c \in Conn : nc[c] = NoConn
        BY NoConnTyped DEF Init
    <2>2. NetTyped
        BY <2>1, NetconnAssumption DEF NetTyped, NoConn
    <2>3. StartTyped /\ KernelTyped
        BY NetconnAssumption DEF Init, StartTyped, KernelTyped
    <2>4. <<>> \in Seq(Conn)
        OBVIOUS
    <2>5. ServerTyped
        BY <2>4 DEF Init, ServerTyped
    <2>6. QED
        BY <2>2, <2>3, <2>5 DEF Typed
<1>2. \A c \in Conn : /\ nc[c].st = "free" /\ ~nc[c].sem /\ nc[c].recvmbox = NULL
                      /\ nc[c].acceptmbox = NULL /\ nc[c].q = <<>>
    BY DEF Init, NoConn
<1>3. Netconns
    BY <1>2 DEF Netconns
<1>4. Setup
    BY <1>2 DEF Init, Setup, Serving
<1>5. Sessions
    BY DEF Init, Sessions
<1>6. QED
    BY <1>1, <1>3, <1>4, <1>5 DEF Net

-------------------------------------------------------------------------------
(* The start-up. Only while it fails are buffers freed, and then those of the     *)
(* part in hand: the rest of the pool is taken from the top down and never given  *)
(* back, so what is left for the next attempt only shrinks.                       *)

(* the buffers of the part in hand: made so far or, after a failure, not yet freed *)
Mine == IF undo = 0 THEN {k \in Part(step) : k < step} ELSE undo..step

Within(k) == ptr[k]..ptr[k]+sizes[k]-1

(* What lies below m, and nothing else, is free ... *)
Bottom(m) == \A i \in Block : i < m <=> memmap[i] = 0

(* ... or will be when the buffers of the part have been freed. *)
Reserved(m) == \A i \in Block :
    i < m <=> memmap[i] = 0 \/ \E k \in Mine : ptr[k] # NULL /\ i \in Within(k)

Size(k) == IF k \in Mine /\ ptr[k] # NULL THEN sizes[k] ELSE 0
Got == Size(1) + Size(2) + Size(3) + Size(4) + Size(5) + Size(6) + Size(7) + Size(8)

FirstPart == sizes[1] + sizes[2] + sizes[3] + sizes[4]
SecondPart == sizes[5] + sizes[6] + sizes[7] + sizes[8]
Total == FirstPart + SecondPart
Before == IF step > 4 THEN FirstPart ELSE 0

MineLive ==
    step < 10 =>
        /\ \A k \in Mine : ptr[k] # NULL => ptr[k] \in live /\ memmap[ptr[k]] = sizes[k]
        /\ \A j, k \in Mine : j # k /\ ptr[j] # NULL => ptr[j] # ptr[k]

Complete ==
    /\ step > 4 => \A k \in 1..4 : ptr[k] # NULL
    /\ step > 8 => \A k \in 5..8 : ptr[k] # NULL

(* An attempt begins with m blocks; one that fails had too few for all buffers.   *)
StartFits ==
    step < 10 =>
        \E m \in 0..BLOCKS :
            /\ Reserved(m)
            /\ undo # 0 \/ tries > 0 \/ (\E k \in Mine : ptr[k] = NULL) => m + Before < Total
            /\ undo = 0 => \E b \in 0..BLOCKS : Bottom(b) /\ m = b + Got
            /\ undo = 0 /\ tries = 0 => m + Before = BLOCKS

OnlyBuffers ==
    step < 10 /\ tries = 0 /\ undo = 0 => live = {ptr[k] : k \in 1..step-1} \ {NULL}

Idle ==
    step < 10 =>
        /\ nc = [c \in Conn |-> NoConn] /\ acceptq = <<>> /\ slot = [i \in Slot |-> NULL]
        /\ pc = "new" /\ cur = NULL /\ buf = 0 /\ left = {} /\ tcpip_mbox = NULL
        /\ events = EVENTS /\ queues = QS /\ pool = POOL

Started == step = 10 => tries = 0 /\ undo = 0

StartInv ==
    /\ Undoing /\ MineLive /\ Complete /\ StartFits /\ OnlyBuffers /\ Idle /\ Started

NBase == PInv /\ Net /\ StartInv

LEMMA SizesTyped ==
    ASSUME Net
    PROVE  /\ \A k \in 1..8 : sizes[k] \in Nat \ {0} /\ ptr[k] \in Block \cup {NULL}
           /\ FirstPart \in Nat /\ SecondPart \in Nat /\ Total \in Nat /\ Before \in Nat
           /\ \A k \in 1..8 : Size(k) \in Nat /\ Size(k) <= sizes[k]
<1>1. \A k \in 1..8 : sizes[k] \in Nat \ {0} /\ ptr[k] \in Block \cup {NULL}
    BY NetconnAssumption DEF Net, Typed, StartTyped
<1>2. FirstPart \in Nat /\ SecondPart \in Nat
    BY <1>1 DEF FirstPart, SecondPart
<1>3. Total \in Nat /\ Before \in Nat
    BY <1>2 DEF Total, Before
<1>4. QED
    BY <1>1, <1>2, <1>3 DEF Size

LEMMA MineWithin ==
    ASSUME Net, Undoing
    PROVE  Mine \subseteq 1..8
BY DEF Net, Typed, StartTyped, Undoing, Mine, Part

(* The buffers of a part have at most the size of the part. *)
LEMMA GotAtMost ==
    ASSUME Net, undo = 0, step \in 1..8
    PROVE  Got \in Nat /\ Got + sizes[step] + Before <= Total
<1>1. /\ \A k \in 1..8 : sizes[k] \in Nat /\ Size(k) \in Nat /\ Size(k) <= sizes[k]
    BY SizesTyped
<1>2. Got \in Nat
    BY <1>1 DEF Got
<1>3. CASE step <= 4
    <2>1. \A k \in step..8 : Size(k) = 0
        BY <1>3 DEF Size, Mine, Part
    <2>2. /\ Size(4) = 0 /\ Size(5) = 0 /\ Size(6) = 0 /\ Size(7) = 0 /\ Size(8) = 0
          /\ step \in {1, 2, 3, 4}
        BY <1>3, <2>1
    <2>3. /\ Size(1) \in Nat /\ Size(1) <= sizes[1] /\ sizes[1] \in Nat
          /\ Size(2) \in Nat /\ Size(2) <= sizes[2] /\ sizes[2] \in Nat
          /\ Size(3) \in Nat /\ Size(3) <= sizes[3] /\ sizes[3] \in Nat
          /\ sizes[4] \in Nat
        BY <1>1
    <2>4. Got = Size(1) + Size(2) + Size(3)
        BY <2>2, <2>3 DEF Got
    <2>5. \/ sizes[step] = sizes[1] /\ Size(1) = 0 /\ Size(2) = 0 /\ Size(3) = 0
          \/ sizes[step] = sizes[2] /\ Size(2) = 0 /\ Size(3) = 0
          \/ sizes[step] = sizes[3] /\ Size(3) = 0
          \/ sizes[step] = sizes[4]
        BY <2>1, <2>2
    <2>6. Size(1) + Size(2) + Size(3) + sizes[step] <= FirstPart
        BY <2>3, <2>5 DEF FirstPart
    <2>7. Got + sizes[step] <= FirstPart
        BY <2>4, <2>6
    <2>8. Before = 0
        BY <1>3 DEF Before
    <2>9. QED
        BY <1>1, <1>2, <2>7, <2>8, SizesTyped DEF Total
<1>4. CASE step > 4
    <2>1. \A k \in 1..8 : k < 5 \/ k >= step => Size(k) = 0
        BY <1>4 DEF Size, Mine, Part
    <2>2. /\ Size(1) = 0 /\ Size(2) = 0 /\ Size(3) = 0 /\ Size(4) = 0 /\ Size(8) = 0
          /\ step \in {5, 6, 7, 8}
        BY <1>4, <2>1
    <2>3. /\ Size(5) \in Nat /\ Size(5) <= sizes[5] /\ sizes[5] \in Nat
          /\ Size(6) \in Nat /\ Size(6) <= sizes[6] /\ sizes[6] \in Nat
          /\ Size(7) \in Nat /\ Size(7) <= sizes[7] /\ sizes[7] \in Nat
          /\ sizes[8] \in Nat
        BY <1>1
    <2>4. Got = Size(5) + Size(6) + Size(7)
        BY <2>2, <2>3 DEF Got
    <2>5. \/ sizes[step] = sizes[5] /\ Size(5) = 0 /\ Size(6) = 0 /\ Size(7) = 0
          \/ sizes[step] = sizes[6] /\ Size(6) = 0 /\ Size(7) = 0
          \/ sizes[step] = sizes[7] /\ Size(7) = 0
          \/ sizes[step] = sizes[8]
        BY <2>1, <2>2
    <2>6. Size(5) + Size(6) + Size(7) + sizes[step] <= SecondPart
        BY <2>3, <2>5 DEF SecondPart
    <2>7. Got + sizes[step] <= SecondPart
        BY <2>4, <2>6
    <2>8. Before = FirstPart
        BY <1>4 DEF Before
    <2>9. QED
        BY <1>1, <1>2, <2>7, <2>8, SizesTyped DEF Total
<1>5. QED
    BY <1>2, <1>3, <1>4

(* When all of a part was made, it is what was got. *)
LEMMA GotIsPart ==
    ASSUME Net, Complete, undo = 0, step = 9
    PROVE  Got = SecondPart /\ Before = FirstPart
<1>1. Mine = 5..8
    BY DEF Mine, Part
<1>2. \A k \in 5..8 : Size(k) = sizes[k]
    BY <1>1 DEF Size, Complete
<1>3. \A k \in 1..4 : Size(k) = 0
    BY <1>1 DEF Size
<1>4. QED
    BY <1>2, <1>3, SizesTyped DEF Got, SecondPart, Before

-------------------------------------------------------------------------------
(* While the rest is free, an area is taken from its top. *)
LEMMA TakenFromTop ==
    ASSUME PInv, NEW b \in 0..BLOCKS, Bottom(b), NEW n \in Nat \ {0}
    PROVE  /\ NoRoom(n) => b < n
           /\ \A p \in Block : Found(n, p) => p = b - n
<1>1. b >= n => Fits(n, b - n)
    BY PoolAssumption DEF Bottom, Fits, Block
<1>2. \A p \in Block : Fits(n, p) => p + n <= b
    <2>1. SUFFICES ASSUME NEW p \in Block, Fits(n, p) PROVE p + n <= b
        OBVIOUS
    <2>2. p + n - 1 \in Block /\ memmap[p + n - 1] = 0
        BY <2>1, PoolAssumption DEF Fits, Block
    <2>3. p + n - 1 < b
        BY <2>2 DEF Bottom
    <2>4. QED
        BY <2>3, PoolAssumption DEF Block
<1>3. b >= n => b - n \in Block
    BY PoolAssumption DEF Block
<1>4. NoRoom(n) => b < n
    BY <1>1, <1>3 DEF NoRoom
<1>5. ASSUME NEW p \in Block, Found(n, p)
      PROVE  p = b - n
    <2>1. p + n <= b
        BY <1>2, <1>5 DEF Found
    <2>2. b >= n /\ p \in Int
        BY <2>1, PoolAssumption DEF Block
    <2>3. b - n <= p
        BY <1>1, <1>3, <1>5, <2>2 DEF Found
    <2>4. QED
        BY <2>1, <2>2, <2>3
<1>6. QED
    BY <1>4, <1>5

LEMMA MineSmaller ==
    ASSUME Net, undo = 0
    PROVE  step \notin Mine /\ Mine \subseteq 1..8
BY DEF Net, Typed, StartTyped, Mine, Part

(* An area may be asked for only if it has blocks; and what fits is in the pool. *)
LEMMA FoundSize ==
    ASSUME NEW n \in Nat, NEW p \in Block, Found(n, p)
    PROVE  n \in 1..BLOCKS
BY PoolAssumption DEF Found, Fits, Block

LEMMA BufferGiven ==
    ASSUME PInv, Net, StartInv, step \in 1..8, undo = 0,
           NEW p \in Block, mymalloc(sizes[step], p), ptr' = [ptr EXCEPT ![step] = p]
    PROVE  /\ PInv'
           /\ ptr'[step] = p /\ p # NULL /\ p \notin live /\ live' = live \cup {p}
           /\ \A k \in Mine : ptr'[k] = ptr[k]
           /\ \A k \in Mine \cup {step} : ptr'[k] # NULL =>
                ptr'[k] \in live' /\ memmap'[ptr'[k]] = sizes[k]
           /\ \A j, k \in Mine \cup {step} : j # k /\ ptr'[j] # NULL => ptr'[j] # ptr'[k]
<1> DEFINE n == sizes[step]
<1>1. n \in Nat \ {0}
    BY SizesTyped
<1>2. Found(n, p) /\ live' = live \cup {p}
    BY DEF mymalloc
<1>3. n \in 1..BLOCKS
    BY <1>1, <1>2, FoundSize
<1>4. PInv'
    BY <1>3, PInvMalloc
<1>5. /\ \A i \in p..p+n-1 : memmap'[i] = n
      /\ \A q \in live : memmap'[q] = memmap[q]
      /\ p \notin live
    BY <1>3, AfterMalloc
<1>6. p # NULL /\ memmap'[p] = n
    <2>1. p \in p..p+n-1
        BY <1>3, PoolAssumption DEF Block
    <2>2. QED
        BY <2>1, <1>5, PoolAssumption DEF Block
<1>7. ptr'[step] = p /\ \A k \in Mine : ptr'[k] = ptr[k]
    BY MineSmaller DEF Net, Typed, StartTyped
<1>8. /\ \A k \in Mine : ptr[k] # NULL => ptr[k] \in live /\ memmap[ptr[k]] = sizes[k]
      /\ \A j, k \in Mine : j # k /\ ptr[j] # NULL => ptr[j] # ptr[k]
    BY DEF StartInv, MineLive
<1>9. ASSUME NEW k \in Mine \cup {step}, ptr'[k] # NULL
      PROVE  ptr'[k] \in live' /\ memmap'[ptr'[k]] = sizes[k]
    <2>1. CASE k = step
        BY <2>1, <1>2, <1>6, <1>7
    <2>2. CASE k \in Mine
        BY <2>2, <1>2, <1>5, <1>7, <1>8, <1>9
    <2>3. QED
        BY <2>1, <2>2
<1>10. ASSUME NEW j \in Mine \cup {step}, NEW k \in Mine \cup {step}, j # k, ptr'[j] # NULL
       PROVE  ptr'[j] # ptr'[k]
    <2>1. CASE j = step
        BY <2>1, <1>5, <1>6, <1>7, <1>8, <1>10
    <2>2. CASE k = step
        BY <2>2, <1>5, <1>6, <1>7, <1>8, <1>10
    <2>3. CASE j \in Mine /\ k \in Mine
        BY <2>3, <1>7, <1>8, <1>10
    <2>4. QED
        BY <2>1, <2>2, <2>3
<1>11. QED
    BY <1>2, <1>4, <1>5, <1>6, <1>7, <1>9, <1>10

(* What is reserved stays so, and what lies below it shrinks by the buffer. *)
LEMMA BufferTakenFromTop ==
    ASSUME PInv, Net, StartInv, step \in 1..8, undo = 0,
           NEW p \in Block, mymalloc(sizes[step], p), ptr' = [ptr EXCEPT ![step] = p],
           NEW m \in 0..BLOCKS, Reserved(m), NEW b \in 0..BLOCKS, Bottom(b)
    PROVE  /\ \A i \in Block :
                i < m <=> \/ memmap'[i] = 0
                          \/ \E k \in Mine \cup {step} :
                                ptr'[k] # NULL /\ i \in ptr'[k]..ptr'[k]+sizes[k]-1
           /\ b - sizes[step] \in 0..BLOCKS
           /\ \A i \in Block : i < b - sizes[step] <=> memmap'[i] = 0
<1> DEFINE n == sizes[step]
<1>1. n \in Nat \ {0}
    BY SizesTyped
<1>2. Found(n, p)
    BY DEF mymalloc
<1>3. p = b - n /\ p \in Int /\ b \in Int
    BY <1>1, <1>2, TakenFromTop, PoolAssumption DEF Block
<1>4. \A i \in Block : memmap'[i] = IF i \in p..p+n-1 THEN n ELSE memmap[i]
    BY DEF mymalloc
<1>5. \A i \in p..p+n-1 : i \in Block /\ memmap[i] = 0
    <2>1. n \in 1..BLOCKS
        BY <1>1, <1>2, FoundSize
    <2>2. QED
        BY <1>2, <2>1, FreshArea
<1>6. /\ ptr'[step] = p /\ p # NULL /\ \A k \in Mine : ptr'[k] = ptr[k]
    BY BufferGiven
<1> HIDE DEF n
<1>7. ASSUME NEW i \in Block
      PROVE  i < m <=> \/ memmap'[i] = 0
                       \/ \E k \in Mine \cup {step} :
                            ptr'[k] # NULL /\ i \in ptr'[k]..ptr'[k]+sizes[k]-1
    <2>1. CASE i \in p..p+n-1
        <3>1. i < m
            BY <2>1, <1>5 DEF Reserved
        <3>2. ptr'[step] # NULL /\ i \in ptr'[step]..ptr'[step]+sizes[step]-1
            BY <2>1, <1>6 DEF n
        <3>3. QED
            BY <3>1, <3>2
    <2>2. CASE i \notin p..p+n-1
        <3>1. memmap'[i] = memmap[i]
            BY <2>2, <1>4
        <3>2. i \notin ptr'[step]..ptr'[step]+sizes[step]-1
            BY <2>2, <1>6 DEF n
        <3>3. (\E k \in Mine \cup {step} : ptr'[k] # NULL /\ i \in ptr'[k]..ptr'[k]+sizes[k]-1)
                <=> (\E k \in Mine : ptr[k] # NULL /\ i \in ptr[k]..ptr[k]+sizes[k]-1)
            BY <3>2, <1>6
        <3>4. QED
            BY <3>1, <3>3 DEF Reserved, Within
    <2>3. QED
        BY <2>1, <2>2
<1>8. ASSUME NEW i \in Block
      PROVE  i < b - n <=> memmap'[i] = 0
    <2>1. i < b <=> memmap[i] = 0
        BY DEF Bottom
    <2>2. i \in p..p+n-1 <=> i >= b - n /\ i < b
        BY <1>1, <1>3, PoolAssumption DEF Block
    <2>3. i \in Int
        BY PoolAssumption DEF Block
    <2>4. QED
        BY <1>1, <1>3, <1>4, <2>1, <2>2, <2>3
<1>9. b - n \in 0..BLOCKS
    BY <1>3, PoolAssumption DEF Block
<1>10. QED
    BY <1>7, <1>8, <1>9 DEF n

(* Either way, made or not, the buffer joins those of its part: m stays reserved, *)
(* all below b is free, and g is what the part has got.                          *)
Joined(m, b, g) ==
    /\ \A k \in Mine \cup {step} : ptr'[k] # NULL =>
            ptr'[k] \in live' /\ memmap'[ptr'[k]] = sizes[k]
    /\ \A j, k \in Mine \cup {step} : j # k /\ ptr'[j] # NULL => ptr'[j] # ptr'[k]
    /\ \A i \in Block :
            i < m <=> \/ memmap'[i] = 0
                      \/ \E k \in Mine \cup {step} :
                            ptr'[k] # NULL /\ i \in ptr'[k]..ptr'[k]+sizes[k]-1
    /\ \A i \in Block : i < b <=> memmap'[i] = 0
    /\ g = Got + (IF ptr'[step] # NULL THEN sizes[step] ELSE 0)
    /\ m = b + g
    /\ tries > 0 \/ (\E k \in Mine \cup {step} : ptr'[k] = NULL) => m + Before < Total
    /\ tries = 0 => m + Before = BLOCKS
    /\ live' = (live \cup {ptr'[step]}) \ {NULL}

LEMMA BufferJoins ==
    ASSUME PInv, Net, StartInv, StartAlloc
    PROVE  /\ PInv'
           /\ \A k \in Mine : ptr'[k] = ptr[k]
           /\ \E m, b \in 0..BLOCKS, g \in Nat : Joined(m, b, g)
<1> DEFINE n == sizes[step]
<1>1. step \in 1..8 /\ undo = 0 /\ step < 10
    BY DEF StartAlloc
<1>2. PICK m \in 0..BLOCKS :
        /\ Reserved(m)
        /\ tries > 0 \/ (\E k \in Mine : ptr[k] = NULL) => m + Before < Total
        /\ \E b \in 0..BLOCKS : Bottom(b) /\ m = b + Got
        /\ tries = 0 => m + Before = BLOCKS
    BY <1>1 DEF StartInv, StartFits
<1>3. PICK b \in 0..BLOCKS : Bottom(b) /\ m = b + Got
    BY <1>2
<1>4. Got \in Nat /\ Got + n + Before <= Total /\ n \in Nat \ {0} /\ Before \in Nat /\ Total \in Nat
    BY <1>1, GotAtMost, SizesTyped
<1>5. NULL \notin live
    <2>1. \A x \in Block : x # NULL
        BY PoolAssumption DEF Block
    <2>2. live \subseteq Block
        BY DEF PInv, PoolTypeOK
    <2>3. QED
        BY <2>1, <2>2
<1>6. CASE NoRoom(n) /\ ptr' = [ptr EXCEPT ![step] = NULL] /\ UNCHANGED poolVars
    <2>1. PInv'
        BY <1>6 DEF PInv, PoolTypeOK, Uniform, Apart, poolVars
    <2>2. ptr'[step] = NULL /\ \A k \in Mine : ptr'[k] = ptr[k]
        BY <1>1, <1>6, MineSmaller DEF Net, Typed, StartTyped
    <2>3. b < n
        BY <1>3, <1>4, <1>6, TakenFromTop
    <2>4. m + Before < Total
        BY <1>3, <1>4, <2>3
    <2>5. live' = live /\ memmap' = memmap
        BY <1>6 DEF poolVars
    <2>6. /\ \A k \in Mine \cup {step} : ptr'[k] # NULL => k \in Mine /\ ptr'[k] = ptr[k]
        BY <2>2
    <2>7. /\ \A k \in Mine \cup {step} : ptr'[k] # NULL =>
                ptr'[k] \in live' /\ memmap'[ptr'[k]] = sizes[k]
          /\ \A j, k \in Mine \cup {step} : j # k /\ ptr'[j] # NULL => ptr'[j] # ptr'[k]
        BY <1>1, <2>2, <2>5, <2>6 DEF StartInv, MineLive
    <2>8. \A i \in Block :
            i < m <=> \/ memmap'[i] = 0
                      \/ \E k \in Mine \cup {step} :
                            ptr'[k] # NULL /\ i \in ptr'[k]..ptr'[k]+sizes[k]-1
        BY <1>2, <2>2, <2>5, <2>6 DEF Reserved, Within
    <2>9. \A i \in Block : i < b <=> memmap'[i] = 0
        BY <1>3, <2>5 DEF Bottom
    <2>10. Got = Got + (IF ptr'[step] # NULL THEN sizes[step] ELSE 0)
        BY <1>4, <2>2
    <2>11. live' = (live \cup {ptr'[step]}) \ {NULL}
        BY <1>5, <2>2, <2>5
    <2>12. Joined(m, b, Got)
        BY <1>2, <1>3, <2>4, <2>7, <2>8, <2>9, <2>10, <2>11 DEF Joined
    <2>13. QED
        BY <1>4, <2>1, <2>2, <2>12
<1>7. ASSUME NEW p \in Block, mymalloc(n, p), ptr' = [ptr EXCEPT ![step] = p]
      PROVE  /\ PInv' /\ \A k \in Mine : ptr'[k] = ptr[k]
             /\ Joined(m, b - n, Got + n) /\ b - n \in 0..BLOCKS
    <2>1. /\ PInv'
          /\ ptr'[step] = p /\ p # NULL /\ p \notin live /\ live' = live \cup {p}
          /\ \A k \in Mine : ptr'[k] = ptr[k]
          /\ \A k \in Mine \cup {step} : ptr'[k] # NULL =>
                ptr'[k] \in live' /\ memmap'[ptr'[k]] = sizes[k]
          /\ \A j, k \in Mine \cup {step} : j # k /\ ptr'[j] # NULL => ptr'[j] # ptr'[k]
        BY <1>1, <1>7, BufferGiven
    <2>2. /\ \A i \in Block :
                i < m <=> \/ memmap'[i] = 0
                          \/ \E k \in Mine \cup {step} :
                                ptr'[k] # NULL /\ i \in ptr'[k]..ptr'[k]+sizes[k]-1
          /\ b - n \in 0..BLOCKS
          /\ \A i \in Block : i < b - n <=> memmap'[i] = 0
        BY <1>1, <1>2, <1>3, <1>7, BufferTakenFromTop
    <2>3. (\E k \in Mine \cup {step} : ptr'[k] = NULL) => \E k \in Mine : ptr[k] = NULL
        BY <2>1
    <2>4. live' = (live \cup {ptr'[step]}) \ {NULL}
        BY <1>5, <2>1
    <2>5. Got + n = Got + (IF ptr'[step] # NULL THEN sizes[step] ELSE 0)
        BY <2>1
    <2>6. m = (b - n) + (Got + n)
        BY <1>3, <1>4
    <2>7. Joined(m, b - n, Got + n)
        BY <1>2, <2>1, <2>2, <2>3, <2>4, <2>5, <2>6 DEF Joined
    <2>8. QED
        BY <2>1, <2>2, <2>7
<1>8. Got + n \in Nat
    BY <1>4
<1>9. CASE \E p \in Block : mymalloc(n, p) /\ ptr' = [ptr EXCEPT ![step] = p]
    BY <1>7, <1>8, <1>9
<1>10. QED
    BY <1>6, <1>9 DEF StartAlloc

LEMMA SameIdle ==
    ASSUME StartInv, step < 10, UNCHANGED <<tcpip_mbox, kernelVars, serverVars, nc, acceptq>>
    PROVE  Idle'
BY DEF StartInv, Idle, kernelVars, serverVars

(* A part goes on, fails, or leads to the next. *)
LEMMA StartAllocCases ==
    ASSUME Net, StartAlloc
    PROVE  \/ /\ step' = step + 1 /\ undo' = 0 /\ step \notin {4, 8}
              /\ Mine' = Mine \cup {step} /\ Before' = Before
           \/ /\ step' = step /\ step \in {4, 8} /\ undo' = step - 3
              /\ Mine' = Mine \cup {step} /\ Before' = Before
           \/ /\ step = 4 /\ step' = 5 /\ undo' = 0
              /\ Mine \cup {4} = 1..4 /\ Mine' = {} /\ Before = 0 /\ Before' = FirstPart
              /\ \A k \in 1..4 : ptr'[k] # NULL
           \/ /\ step = 8 /\ step' = 9 /\ undo' = 0
              /\ Mine \cup {8} = 5..8 /\ Mine' = 5..8 /\ Before' = Before
              /\ \A k \in 5..8 : ptr'[k] # NULL
<1>1. step \in 1..8 /\ undo = 0 /\ sizes' = sizes
    BY DEF StartAlloc
<1>2. \/ step \in {4, 8} /\ Missing(Part(step)) /\ undo' = step - 3 /\ step' = step
      \/ step \notin {4, 8} /\ step' = step + 1 /\ undo' = undo
      \/ step \in {4, 8} /\ ~Missing(Part(step)) /\ step' = step + 1 /\ undo' = undo
    BY DEF StartAlloc
<1>3. CASE step \in {4, 8} /\ Missing(Part(step)) /\ undo' = step - 3 /\ step' = step
    <2>1. undo' # 0 /\ Mine' = step-3..step
        BY <1>3 DEF Mine
    <2>2. Mine \cup {step} = step-3..step
        BY <1>1, <1>3 DEF Mine, Part
    <2>3. Before' = Before
        BY <1>1, <1>3 DEF Before, FirstPart
    <2>4. QED
        BY <1>3, <2>1, <2>2, <2>3
<1>4. CASE step \notin {4, 8} /\ step' = step + 1 /\ undo' = undo
    <2>1. Mine' = {k \in Part(step)' : k < step + 1}
        BY <1>1, <1>4 DEF Mine
    <2>2. Part(step)' = Part(step) /\ step \in Part(step) /\ Part(step) \subseteq Int
        BY <1>1, <1>4 DEF Part
    <2>3. Mine' = Mine \cup {step}
        BY <1>1, <2>1, <2>2 DEF Mine
    <2>4. Before' = Before
        BY <1>1, <1>4 DEF Before, FirstPart
    <2>5. QED
        BY <1>1, <1>4, <2>3, <2>4
<1>5. CASE step \in {4, 8} /\ ~Missing(Part(step)) /\ step' = step + 1 /\ undo' = undo
    <2>1. \A k \in Part(step) : ptr'[k] # NULL
        BY <1>5 DEF Missing
    <2>2. CASE step = 4
        <3>1. /\ Mine \cup {4} = 1..4 /\ Mine' = {} /\ Part(step) = 1..4
            BY <1>1, <1>5, <2>2 DEF Mine, Part
        <3>2. Before = 0 /\ Before' = FirstPart
            BY <1>1, <1>5, <2>2 DEF Before, FirstPart
        <3>3. QED
            BY <1>1, <1>5, <2>1, <2>2, <3>1, <3>2
    <2>3. CASE step = 8
        <3>1. /\ Mine \cup {8} = 5..8 /\ Mine' = 5..8 /\ Part(step) = 5..8
            BY <1>1, <1>5, <2>3 DEF Mine, Part
        <3>2. Before' = Before
            BY <1>1, <1>5, <2>3 DEF Before, FirstPart
        <3>3. QED
            BY <1>1, <1>5, <2>1, <2>3, <3>1, <3>2
    <2>4. QED
        BY <1>5, <2>2, <2>3
<1>6. QED
    BY <1>2, <1>3, <1>4, <1>5

(* What the part got, with the buffer that joins it. *)
LEMMA GotJoined ==
    ASSUME Net, Net', StartAlloc, Mine' = Mine \cup {step}, \A k \in Mine : ptr'[k] = ptr[k]
    PROVE  Got' = Got + (IF ptr'[step] # NULL THEN sizes[step] ELSE 0)
<1> DEFINE n == IF ptr'[step] # NULL THEN sizes[step] ELSE 0
<1>1. step \in 1..8 /\ undo = 0 /\ sizes' = sizes
    BY DEF StartAlloc
<1>2. step \notin Mine
    BY <1>1, MineSmaller
<1>3. \A k \in 1..8 : Size(k) \in Nat /\ Size(k)' \in Nat
    <2>1. \A k \in 1..8 : Size(k) \in Nat
        BY SizesTyped
    <2>2. \A k \in 1..8 : sizes'[k] \in Nat
        BY NetconnAssumption DEF Net, Typed, StartTyped
    <2>3. \A k \in 1..8 : Size(k)' \in Nat
        BY <2>2 DEF Size
    <2>4. QED
        BY <2>1, <2>3
<1>4. n \in Nat
    BY <1>1, SizesTyped
<1>5. \A k \in 1..8 : Size(k)' = Size(k) + (IF k = step THEN n ELSE 0)
    <2>1. SUFFICES ASSUME NEW k \in 1..8
                   PROVE  Size(k)' = Size(k) + (IF k = step THEN n ELSE 0)
        OBVIOUS
    <2>2. CASE k = step
        <3>1. Size(k) = 0 /\ Size(k)' = n
            BY <1>1, <1>2, <2>2 DEF Size
        <3>2. QED
            BY <1>4, <2>2, <3>1
    <2>3. CASE k # step
        <3>1. Size(k)' = Size(k)
            BY <1>1, <2>3 DEF Size
        <3>2. QED
            BY <1>3, <2>3, <3>1
    <2>4. QED
        BY <2>2, <2>3
<1> HIDE DEF n
<1> DEFINE N(k) == IF k = step THEN n ELSE 0
<1>6. /\ Size(1)' = Size(1) + N(1) /\ Size(2)' = Size(2) + N(2)
      /\ Size(3)' = Size(3) + N(3) /\ Size(4)' = Size(4) + N(4)
      /\ Size(5)' = Size(5) + N(5) /\ Size(6)' = Size(6) + N(6)
      /\ Size(7)' = Size(7) + N(7) /\ Size(8)' = Size(8) + N(8)
    BY <1>5
<1>7. /\ Size(1) \in Nat /\ Size(2) \in Nat /\ Size(3) \in Nat /\ Size(4) \in Nat
      /\ Size(5) \in Nat /\ Size(6) \in Nat /\ Size(7) \in Nat /\ Size(8) \in Nat
    BY <1>3
<1>8. N(1) + N(2) + N(3) + N(4) + N(5) + N(6) + N(7) + N(8) = n
    BY <1>1, <1>4
<1>9. /\ N(1) \in Nat /\ N(2) \in Nat /\ N(3) \in Nat /\ N(4) \in Nat
      /\ N(5) \in Nat /\ N(6) \in Nat /\ N(7) \in Nat /\ N(8) \in Nat
    BY <1>4
<1> HIDE DEF N
<1>10. Got' = Got + n
    BY <1>4, <1>6, <1>7, <1>8, <1>9 DEF Got
<1>11. QED
    BY <1>10 DEF n

(* With all four of the first part, the second begins. *)
LEMMA FirstPartGot ==
    ASSUME Net, StartAlloc, step = 4, Mine \cup {4} = 1..4,
           \A k \in Mine : ptr'[k] = ptr[k], \A k \in 1..4 : ptr'[k] # NULL
    PROVE  Got + (IF ptr'[step] # NULL THEN sizes[step] ELSE 0) = FirstPart
<1>1. undo = 0
    BY DEF StartAlloc
<1>2. Mine = 1..3
    BY <1>1, MineSmaller
<1>3. \A k \in 1..3 : Size(k) = sizes[k]
    BY <1>2 DEF Size
<1>4. \A k \in 4..8 : Size(k) = 0
    BY <1>2 DEF Size
<1>5. /\ Size(1) = sizes[1] /\ Size(2) = sizes[2] /\ Size(3) = sizes[3]
      /\ Size(4) = 0 /\ Size(5) = 0 /\ Size(6) = 0 /\ Size(7) = 0 /\ Size(8) = 0
    BY <1>3, <1>4
<1>6. /\ sizes[1] \in Nat /\ sizes[2] \in Nat /\ sizes[3] \in Nat /\ sizes[4] \in Nat
    BY SizesTyped
<1>7. Got = sizes[1] + sizes[2] + sizes[3]
    BY <1>5, <1>6 DEF Got
<1>8. (IF ptr'[step] # NULL THEN sizes[step] ELSE 0) = sizes[4]
    OBVIOUS
<1>9. QED
    BY <1>6, <1>7, <1>8 DEF FirstPart

LEMMA NothingGot ==
    ASSUME Mine' = {}
    PROVE  Got' = 0
<1>1. /\ Size(1)' = 0 /\ Size(2)' = 0 /\ Size(3)' = 0 /\ Size(4)' = 0
      /\ Size(5)' = 0 /\ Size(6)' = 0 /\ Size(7)' = 0 /\ Size(8)' = 0
    BY DEF Size
<1>2. QED
    BY <1>1 DEF Got

LEMMA StartAllocKeepsStart ==
    ASSUME PInv, Net, StartInv, StartAlloc
    PROVE  PInv' /\ StartInv'
<1>1. /\ PInv'
      /\ \A k \in Mine : ptr'[k] = ptr[k]
      /\ \E m, b \in 0..BLOCKS, g \in Nat : Joined(m, b, g)
    BY BufferJoins
<1>2. PICK m \in 0..BLOCKS, b \in 0..BLOCKS, g \in Nat : Joined(m, b, g)
    BY <1>1
<1>3. Net'
    BY StartAllocKeepsNet
<1>4. /\ step \in 1..8 /\ undo = 0 /\ sizes' = sizes /\ tries' = tries
      /\ step' \in 1..9 /\ step' < 10
      /\ UNCHANGED <<tcpip_mbox, kernelVars, serverVars, nc, acceptq>>
    BY DEF StartAlloc
<1>5. Idle'
    BY <1>4, SameIdle
<1>6. /\ FirstPart' = FirstPart /\ Total' = Total
      /\ Before \in Nat /\ Total \in Nat /\ FirstPart \in Nat /\ SecondPart \in Nat
    BY <1>4, SizesTyped DEF FirstPart, SecondPart, Total
<1>7. \A k \in 1..8 : k # step => ptr'[k] = ptr[k]
    BY DEF StartAlloc, Net, Typed, StartTyped
<1>8. Started'
    BY <1>4 DEF Started
<1>9. OnlyBuffers'
    <2>1. CASE tries = 0 /\ undo' = 0
        <3>1. step' = step + 1
            BY <2>1, <1>4, StartAllocCases
        <3>2. live = {ptr[k] : k \in 1..step-1} \ {NULL}
            BY <2>1, <1>4 DEF StartInv, OnlyBuffers
        <3>3. live' = (live \cup {ptr'[step]}) \ {NULL}
            BY <1>2 DEF Joined
        <3>4. {ptr'[k] : k \in 1..step'-1} = {ptr[k] : k \in 1..step-1} \cup {ptr'[step]}
            <4>1. \A k \in 1..step'-1 : k \in 1..step-1 \/ k = step
                BY <1>4, <3>1
            <4>2. \A k \in 1..step-1 : ptr'[k] = ptr[k] /\ k \in 1..step'-1
                BY <1>4, <1>7, <3>1
            <4>3. step \in 1..step'-1
                BY <1>4, <3>1
            <4>4. QED
                BY <4>1, <4>2, <4>3
        <3>5. QED
            BY <3>2, <3>3, <3>4 DEF OnlyBuffers
    <2>2. QED
        BY <1>4, <2>1 DEF OnlyBuffers
<1>10. ASSUME Mine' = Mine \cup {step}, Before' = Before
       PROVE  MineLive' /\ StartFits'
    <2>1. MineLive'
        BY <1>2, <1>4, <1>10 DEF MineLive, Joined
    <2>2. Reserved(m)'
        BY <1>2, <1>4, <1>10 DEF Reserved, Within, Joined
    <2>3. Bottom(b)' /\ m = b + Got'
        BY <1>1, <1>2, <1>3, <1>10, GotJoined DEF Bottom, Joined
    <2>4. tries' > 0 \/ (\E k \in Mine' : ptr'[k] = NULL) => m + Before' < Total'
        BY <1>2, <1>4, <1>6, <1>10 DEF Joined
    <2>5. tries' = 0 => m + Before' = BLOCKS
        BY <1>2, <1>4, <1>10 DEF Joined
    <2>6. undo' # 0 => m + Before' < Total'
        <3>1. CASE undo' # 0
            <4>1. Missing(Part(step)) /\ step \in {4, 8}
                BY <1>4, <3>1 DEF StartAlloc
            <4>2. Mine \cup {step} = Part(step)
                BY <1>4, <4>1 DEF Mine, Part
            <4>3. \E k \in Mine' : ptr'[k] = NULL
                BY <4>1, <4>2, <1>10 DEF Missing
            <4>4. QED
                BY <4>3, <2>4
        <3>2. QED
            BY <3>1
    <2>7. StartFits'
        BY <2>2, <2>3, <2>4, <2>5, <2>6 DEF StartFits
    <2>8. QED
        BY <2>1, <2>7
<1>11. CASE /\ step' = step + 1 /\ undo' = 0 /\ step \notin {4, 8}
            /\ Mine' = Mine \cup {step} /\ Before' = Before
    <2>1. Undoing' /\ Complete'
        BY <1>4, <1>7, <1>11 DEF Undoing, Complete, StartInv
    <2>2. QED
        BY <1>1, <1>5, <1>8, <1>9, <1>10, <1>11, <2>1 DEF StartInv
<1>12. CASE /\ step' = step /\ step \in {4, 8} /\ undo' = step - 3
            /\ Mine' = Mine \cup {step} /\ Before' = Before
    <2>1. Undoing' /\ Complete'
        BY <1>4, <1>7, <1>12 DEF Undoing, Complete, StartInv
    <2>2. QED
        BY <1>1, <1>5, <1>8, <1>9, <1>10, <1>12, <2>1 DEF StartInv
<1>13. CASE /\ step = 4 /\ step' = 5 /\ undo' = 0
            /\ Mine \cup {4} = 1..4 /\ Mine' = {} /\ Before = 0 /\ Before' = FirstPart
            /\ \A k \in 1..4 : ptr'[k] # NULL
    <2>1. Undoing' /\ Complete'
        BY <1>13 DEF Undoing, Complete
    <2>2. MineLive'
        BY <1>13 DEF MineLive
    <2>3. g = FirstPart
        BY <1>1, <1>2, <1>13, FirstPartGot DEF Joined
    <2>4. Reserved(b)' /\ Bottom(b)'
        BY <1>2, <1>13 DEF Reserved, Bottom, Joined
    <2>5. Got' = 0
        BY <1>13, NothingGot
    <2>6. m = b + FirstPart
        BY <1>2, <2>3 DEF Joined
    <2>7. /\ tries' > 0 => b + Before' < Total'
          /\ tries' = 0 => b + Before' = BLOCKS
        BY <1>2, <1>4, <1>6, <1>13, <2>6 DEF Joined
    <2>8. b = b + Got'
        BY <2>5
    <2>9. StartFits'
        BY <1>13, <2>4, <2>7, <2>8 DEF StartFits
    <2>10. QED
        BY <1>1, <1>5, <1>8, <1>9, <2>1, <2>2, <2>9 DEF StartInv
<1>14. CASE /\ step = 8 /\ step' = 9 /\ undo' = 0
            /\ Mine \cup {8} = 5..8 /\ Mine' = 5..8 /\ Before' = Before
            /\ \A k \in 5..8 : ptr'[k] # NULL
    <2>1. Undoing' /\ Complete'
        BY <1>4, <1>7, <1>14 DEF Undoing, Complete, StartInv
    <2>2. Mine' = Mine \cup {step}
        BY <1>14
    <2>3. QED
        BY <1>1, <1>5, <1>8, <1>9, <1>10, <1>14, <2>1, <2>2 DEF StartInv
<1>15. QED
    BY <1>11, <1>12, <1>13, <1>14, StartAllocCases

-------------------------------------------------------------------------------
(* Of the part that failed one buffer after the other is given back. *)
LEMMA UndoingMine ==
    ASSUME Net, StartInv, StartFree
    PROVE  /\ step \in {4, 8} /\ undo \in step-3..step /\ undo \in Mine /\ step < 10
           /\ Mine' = Mine \ {undo} /\ Mine \subseteq 1..8 /\ sizes' = sizes /\ ptr' = ptr
<1>1. undo # 0 /\ undo \in step-3..step /\ step \in {4, 8} /\ sizes' = sizes /\ ptr' = ptr
    BY DEF StartFree, StartInv, Undoing
<1>2. Mine = undo..step
    BY <1>1 DEF Mine
<1>3. CASE undo = step
    <2>1. undo' = 0 /\ step' = 1
        BY <1>3 DEF StartFree
    <2>2. Mine' = {}
        BY <2>1 DEF Mine, Part
    <2>3. QED
        BY <1>1, <1>2, <1>3, <2>2
<1>4. CASE undo # step
    <2>1. undo' = undo + 1 /\ step' = step
        BY <1>4 DEF StartFree
    <2>2. Mine' = undo+1..step
        BY <1>1, <2>1 DEF Mine
    <2>3. QED
        BY <1>1, <1>2, <1>4, <2>2
<1>5. QED
    BY <1>3, <1>4

LEMMA BufferGone ==
    ASSUME PInv, Net, StartInv, StartFree
    PROVE  /\ PInv'
           /\ \A k \in Mine \ {undo} : ptr[k] # NULL => ptr[k] \in live' /\ memmap'[ptr[k]] = sizes[k]
           /\ \A i \in Block :
                memmap'[i] = IF ptr[undo] # NULL /\ i \in Within(undo) THEN 0 ELSE memmap[i]
<1>1. /\ undo \in Mine
      /\ \A k \in Mine : ptr[k] # NULL => ptr[k] \in live /\ memmap[ptr[k]] = sizes[k]
      /\ \A j, k \in Mine : j # k /\ ptr[j] # NULL => ptr[j] # ptr[k]
    BY UndoingMine DEF StartInv, MineLive
<1>2. CASE ptr[undo] = NULL
    <2>1. memmap' = memmap /\ live' = live
        BY <1>2 DEF StartFree, poolVars
    <2>2. PInv'
        BY <2>1 DEF PInv, PoolTypeOK, Uniform, Apart
    <2>3. QED
        BY <1>1, <1>2, <2>1, <2>2
<1>3. CASE ptr[undo] # NULL
    <2>1. myfree(ptr[undo]) /\ ptr[undo] \in live /\ memmap[ptr[undo]] = sizes[undo]
        BY <1>1, <1>3 DEF StartFree
    <2>2. PInv'
        BY <2>1, PInvFree
    <2>3. \A q \in live \ {ptr[undo]} : memmap'[q] = memmap[q]
        BY <2>1, AfterFree
    <2>4. live' = live \ {ptr[undo]}
        BY <2>1 DEF myfree
    <2>5. \A i \in Block : memmap'[i] = IF i \in Within(undo) THEN 0 ELSE memmap[i]
        BY <2>1 DEF myfree, Freed, Within
    <2>6. QED
        BY <1>1, <1>3, <2>2, <2>3, <2>4, <2>5
<1>4. QED
    BY <1>2, <1>3

LEMMA StartFreeKeepsStart ==
    ASSUME PInv, Net, StartInv, StartFree
    PROVE  PInv' /\ StartInv'
<1>1. /\ step \in {4, 8} /\ undo \in step-3..step /\ undo \in Mine /\ step < 10 /\ undo # 0
      /\ Mine' = Mine \ {undo} /\ Mine \subseteq 1..8 /\ sizes' = sizes /\ ptr' = ptr
    BY UndoingMine DEF StartFree
<1>2. /\ PInv'
      /\ \A k \in Mine \ {undo} : ptr[k] # NULL => ptr[k] \in live' /\ memmap'[ptr[k]] = sizes[k]
      /\ \A i \in Block :
           memmap'[i] = IF ptr[undo] # NULL /\ i \in Within(undo) THEN 0 ELSE memmap[i]
    BY BufferGone
<1>3. \/ undo = step /\ undo' = 0 /\ step' = 1 /\ tries' = tries + 1
      \/ undo # step /\ undo' = undo + 1 /\ step' = step /\ tries' = tries
    BY DEF StartFree
<1>4. step' < 10 /\ Idle'
    BY <1>1, <1>3, SameIdle DEF StartFree
<1>5. MineLive'
    BY <1>1, <1>2 DEF StartInv, MineLive
<1>6. PICK m \in 0..BLOCKS : Reserved(m) /\ m + Before < Total
    BY <1>1 DEF StartInv, StartFits
<1>7. Reserved(m)'
    <2>1. SUFFICES ASSUME NEW i \in Block
                   PROVE  i < m <=> \/ memmap'[i] = 0
                                    \/ \E k \in Mine \ {undo} : ptr[k] # NULL /\ i \in Within(k)
        BY <1>1 DEF Reserved, Within
    <2>2. i < m <=> memmap[i] = 0 \/ \E k \in Mine : ptr[k] # NULL /\ i \in Within(k)
        BY <1>6 DEF Reserved
    <2>3. memmap'[i] = IF ptr[undo] # NULL /\ i \in Within(undo) THEN 0 ELSE memmap[i]
        BY <1>2
    <2>4. QED
        BY <1>1, <2>2, <2>3
<1>8. m + Before' < Total' /\ (tries' # 0 \/ undo' # 0)
    <2>1. /\ FirstPart' = FirstPart /\ Total' = Total
          /\ Before \in Nat /\ Total \in Nat /\ FirstPart \in Nat
        BY <1>1, SizesTyped DEF FirstPart, SecondPart, Total
    <2>2. Before' = Before \/ Before' = 0
        BY <1>1, <1>3, <2>1 DEF Before
    <2>3. m + Before' < Total'
        BY <1>6, <2>1, <2>2
    <2>4. tries' # 0 \/ undo' # 0
        BY <1>1, <1>3 DEF Net, Typed, StartTyped
    <2>5. QED
        BY <2>3, <2>4
<1>9. StartFits'
    <2>1. undo' = 0 => Bottom(m)' /\ m = m + Got'
        <3>1. SUFFICES ASSUME undo' = 0 PROVE Bottom(m)' /\ m = m + Got'
            OBVIOUS
        <3>2. undo = step /\ step' = 1
            BY <1>1, <1>3, <3>1
        <3>3. Mine' = {}
            BY <3>1, <3>2 DEF Mine, Part
        <3>4. Got' = 0
            BY <3>3, NothingGot
        <3>5. Bottom(m)'
            BY <1>7, <3>3 DEF Reserved, Bottom
        <3>6. QED
            BY <3>4, <3>5
    <2>2. undo' = 0 /\ tries' = 0 => m + Before' = BLOCKS
        BY <1>8
    <2>3. undo' = 0 => \E b \in 0..BLOCKS : Bottom(b)' /\ m = b + Got'
        BY <2>1
    <2>4. QED
        BY <1>7, <1>8, <2>2, <2>3 DEF StartFits
<1>10. Undoing' /\ Complete' /\ OnlyBuffers' /\ Started'
    <2>1. tries' = tries \/ tries' > 0
        BY <1>3 DEF Net, Typed, StartTyped
    <2>2. Undoing'
        BY <1>1, <1>3 DEF Undoing
    <2>3. Complete'
        BY <1>1, <1>3 DEF StartInv, Complete
    <2>4. undo' = 0 => tries' # 0
        BY <1>1, <1>3 DEF Net, Typed, StartTyped
    <2>5. OnlyBuffers' /\ Started'
        BY <1>4, <2>4 DEF OnlyBuffers, Started
    <2>6. QED
        BY <2>2, <2>3, <2>5
<1>11. QED
    BY <1>2, <1>4, <1>5, <1>9, <1>10 DEF StartInv

-------------------------------------------------------------------------------
(* Running. Every area is a buffer of the start-up, or somebody's mailbox; and    *)
(* nobody else has the recvmbox of a netconn.                                    *)
Buffers == {ptr[k] : k \in 1..8}

Own ==
    /\ live = Buffers \cup Areas
    /\ \A c \in Conn : nc[c].recvmbox # NULL =>
        /\ nc[c].recvmbox \notin Buffers /\ nc[c].recvmbox # tcpip_mbox
        /\ \A d \in Conn : /\ nc[c].recvmbox # nc[d].acceptmbox
                           /\ d # c => nc[c].recvmbox # nc[d].recvmbox
        /\ \A l \in left : l[1] # nc[c].recvmbox

Boxes == step = 10 => Own

(* what a step does to the mailboxes *)
Takes(p) == mymalloc(TQ, p) /\ Areas' = Areas \cup {p}
GivesBack(x) == x \in Areas /\ myfree(x) /\ Areas' = Areas \ {x}
Keeps == UNCHANGED poolVars /\ Areas' = Areas
Uses == (\E p \in Block : Takes(p)) \/ (\E x \in Block : GivesBack(x)) \/ Keeps

LEMMA IsArea ==
    \A x : x \in Areas <=>
        \/ x # NULL /\ (x = tcpip_mbox \/ \E c \in Conn : x = nc[c].recvmbox \/ x = nc[c].acceptmbox)
        \/ \E l \in left : x = l[1]
BY DEF Areas, Mailboxes

LEMMA IsAreaNext ==
    \A x : x \in Areas' <=>
        \/ x # NULL /\ (x = tcpip_mbox' \/ \E c \in Conn : x = nc'[c].recvmbox \/ x = nc'[c].acceptmbox)
        \/ \E l \in left' : x = l[1]
BY DEF Areas, Mailboxes

LEMMA BoxGiven ==
    ASSUME PInv, NEW p \in Block, mymalloc(TQ, p)
    PROVE  /\ PInv' /\ live' = live \cup {p} /\ p \notin live /\ p # NULL
           /\ TQ \in 1..BLOCKS /\ Found(TQ, p)
           /\ memmap'[p] = TQ /\ \A q \in live : memmap'[q] = memmap[q]
           /\ [PoolNext]_poolVars
<1>1. Found(TQ, p) /\ live' = live \cup {p}
    BY DEF mymalloc
<1>2. TQ \in 1..BLOCKS
    BY <1>1, FoundSize, NetconnAssumption
<1>3. PInv'
    BY <1>2, PInvMalloc
<1>4. /\ \A i \in p..p+TQ-1 : memmap'[i] = TQ
      /\ \A q \in live : memmap'[q] = memmap[q]
      /\ p \notin live
    BY <1>2, AfterMalloc
<1>5. p # NULL /\ p \in p..p+TQ-1
    BY <1>2, PoolAssumption DEF Block
<1>6. PoolNext
    BY <1>2 DEF PoolNext
<1>7. QED
    BY <1>1, <1>2, <1>3, <1>4, <1>5, <1>6

LEMMA BufferNotNull ==
    ASSUME Net, StartInv, step >= 9
    PROVE  Buffers \subseteq Block
BY DEF Net, Typed, StartTyped, StartInv, Complete, Buffers

(* netconn_alloc takes an area that was nobody's *)
LEMMA AllocOwns ==
    ASSUME PInv, Net, Own, CanAlloc, NEW c \in Conn, netconn_alloc(c, "new"),
           UNCHANGED <<ptr, tcpip_mbox, left>>
    PROVE  Own' /\ \E p \in Block : Takes(p)
<1>1. PICK p \in Block :
        /\ mymalloc(TQ, p)
        /\ nc' = [nc EXCEPT ![c] = [NoConn EXCEPT !.st = "new", !.sem = TRUE,
                                                !.recvmbox = p, !.pcb = TRUE]]
    BY DEF netconn_alloc
<1>2. nc'[c] = [NoConn EXCEPT !.st = "new", !.sem = TRUE, !.recvmbox = p, !.pcb = TRUE]
    BY <1>1 DEF Net, Typed, NetTyped
<1>3. nc'[c].recvmbox = p /\ nc'[c].acceptmbox = NULL /\ \A d \in Conn \ {c} : nc'[d] = nc[d]
    <2>1. nc'[c].recvmbox = p
        BY <1>2 DEF NoConn
    <2>2. QED
        BY <2>1, <1>1, AllocNet
<1>4. nc[c].recvmbox = NULL /\ nc[c].acceptmbox = NULL
    BY <1>1, AllocNet DEF Net, Netconns
<1>5. live' = live \cup {p} /\ p \notin live /\ p # NULL
    BY <1>1, BoxGiven
<1>6. Buffers' = Buffers
    BY DEF Buffers
<1>7. \A x : x \in Areas' <=> x \in Areas \/ x = p
    BY <1>3, <1>4, <1>5, IsArea, IsAreaNext
<1>8. Areas' = Areas \cup {p}
    BY <1>7
<1>9. live' = Buffers' \cup Areas'
    BY <1>5, <1>6, <1>8 DEF Own
<1>10. p \notin Buffers /\ p \notin Areas
    BY <1>5 DEF Own
<1>11. /\ p # tcpip_mbox /\ \A d \in Conn : p # nc[d].acceptmbox /\ p # nc[d].recvmbox
       /\ \A l \in left : l[1] # p
    BY <1>5, <1>10, IsArea
<1>12. ASSUME NEW d \in Conn, nc'[d].recvmbox # NULL
       PROVE  /\ nc'[d].recvmbox \notin Buffers' /\ nc'[d].recvmbox # tcpip_mbox'
              /\ \A e \in Conn : /\ nc'[d].recvmbox # nc'[e].acceptmbox
                                 /\ e # d => nc'[d].recvmbox # nc'[e].recvmbox
              /\ \A l \in left' : l[1] # nc'[d].recvmbox
    <2>1. CASE d = c
        BY <2>1, <1>3, <1>5, <1>6, <1>10, <1>11
    <2>2. CASE d # c
        BY <2>2, <1>3, <1>5, <1>6, <1>11, <1>12 DEF Own
    <2>3. QED
        BY <2>1, <2>2
<1>13. QED
    BY <1>1, <1>8, <1>9, <1>12 DEF Own, Takes

LEMMA KeepsOwn ==
    ASSUME Own, \A c \in Conn : /\ nc'[c].recvmbox = nc[c].recvmbox
                                /\ nc'[c].acceptmbox = nc[c].acceptmbox,
           UNCHANGED <<poolVars, ptr, tcpip_mbox, left>>
    PROVE  Own' /\ Keeps
<1>1. \A x : x \in Areas' <=> x \in Areas
    BY IsArea, IsAreaNext
<1>2. Areas' = Areas
    BY <1>1
<1>3. Buffers' = Buffers /\ live' = live
    BY DEF Buffers, poolVars
<1>4. QED
    BY <1>2, <1>3 DEF Own, Keeps

LEMMA RecvmboxGone ==
    ASSUME PInv, Net, Own, NEW c \in Conn, nc[c].recvmbox # NULL, myfree(nc[c].recvmbox),
           nc'[c].recvmbox = NULL, nc'[c].acceptmbox = nc[c].acceptmbox,
           \A d \in Conn \ {c} : nc'[d] = nc[d],
           UNCHANGED <<ptr, tcpip_mbox, left>>
    PROVE  Own' /\ \E x \in Block : x = nc[c].recvmbox /\ GivesBack(x)
<1>1. PICK x \in Block : x = nc[c].recvmbox
    BY DEF Net, Typed, NetTyped, State
<1>2. x \in Areas /\ x # NULL
    BY <1>1, IsArea
<1>3. \A y : y \in Areas' <=> y \in Areas /\ y # x
    BY <1>1, <1>2, IsArea, IsAreaNext DEF Own
<1>4. Areas' = Areas \ {x}
    BY <1>3
<1>5. x \notin Buffers /\ Buffers' = Buffers
    BY <1>1, <1>2 DEF Own, Buffers
<1>6. live' = live \ {x}
    BY <1>1 DEF myfree
<1>7. live' = Buffers' \cup Areas'
    BY <1>4, <1>5, <1>6 DEF Own
<1>8. ASSUME NEW d \in Conn, nc'[d].recvmbox # NULL
      PROVE  /\ nc'[d].recvmbox \notin Buffers' /\ nc'[d].recvmbox # tcpip_mbox'
             /\ \A e \in Conn : /\ nc'[d].recvmbox # nc'[e].acceptmbox
                                /\ e # d => nc'[d].recvmbox # nc'[e].recvmbox
             /\ \A l \in left' : l[1] # nc'[d].recvmbox
    <2>1. d # c
        BY <1>8
    <2>2. nc'[d] = nc[d] /\ nc[d].recvmbox # NULL
        BY <1>8, <2>1
    <2>3. \A e \in Conn : /\ nc[d].recvmbox # nc'[e].acceptmbox
                          /\ e # d => nc[d].recvmbox # nc'[e].recvmbox
        BY <2>2, <1>1 DEF Own
    <2>4. QED
        BY <1>5, <2>2, <2>3 DEF Own
<1>9. GivesBack(x)
    BY <1>1, <1>2, <1>4 DEF GivesBack
<1>10. QED
    BY <1>1, <1>7, <1>8, <1>9 DEF Own

(* The mailbox of tcpip_thread is the first, if there is room for it at all. *)
LEMMA TcpipInitOwns ==
    ASSUME PInv, Net, StartInv, TcpipInit
    PROVE  /\ tries = 0 /\ undo = 0 /\ Own /\ Areas = {} /\ Total <= BLOCKS
           /\ \A i \in Block : i < BLOCKS - Total <=> memmap[i] = 0
           /\ Own' /\ Uses
           /\ MboxFits => \E p \in Block : Takes(p)
           /\ ~MboxFits => Keeps
<1>1. /\ step = 9 /\ step < 10 /\ step' = 10 /\ UNCHANGED <<sizes, undo, ptr, tries, nc, acceptq, left>>
    BY DEF TcpipInit, serverVars
<1>2. undo = 0
    BY <1>1 DEF StartInv, Undoing
<1>3. PICK m \in 0..BLOCKS, b \in 0..BLOCKS :
        /\ tries > 0 => m + Before < Total
        /\ Bottom(b) /\ m = b + Got
        /\ tries = 0 => m + Before = BLOCKS
    BY <1>1, <1>2 DEF StartInv, StartFits
<1>4. Got = SecondPart /\ Before = FirstPart
    BY <1>1, <1>2, GotIsPart DEF StartInv
<1>5. FirstPart \in Nat /\ SecondPart \in Nat /\ Total = FirstPart + SecondPart
    BY SizesTyped DEF Total
<1>6. tries = 0
    BY <1>3, <1>4, <1>5, NetconnAssumption DEF Net, Typed, StartTyped
<1>7. b = BLOCKS - Total /\ Total <= BLOCKS
    BY <1>3, <1>4, <1>5, <1>6, PoolAssumption
<1>8. \A i \in Block : i < BLOCKS - Total <=> memmap[i] = 0
    BY <1>3, <1>7 DEF Bottom
<1>9. /\ \A c \in Conn : nc[c].recvmbox = NULL /\ nc[c].acceptmbox = NULL
      /\ tcpip_mbox = NULL /\ left = {}
    BY <1>1 DEF StartInv, Idle, NoConn
<1>10. Areas = {}
    BY <1>9, IsArea
<1>11. Own
    <2>1. live = {ptr[k] : k \in 1..step-1} \ {NULL}
        BY <1>1, <1>2, <1>6 DEF StartInv, OnlyBuffers
    <2>2. step-1 = 8
        BY <1>1
    <2>3. NULL \notin Buffers
        BY <1>1 DEF StartInv, Complete, Buffers
    <2>4. live = Buffers
        BY <2>1, <2>2, <2>3 DEF Buffers
    <2>5. QED
        BY <1>9, <1>10, <2>4 DEF Own
<1>12. CASE MboxFits
    <2>1. PICK p \in Block : mymalloc(TQ, p) /\ tcpip_mbox' = p
        BY <1>12 DEF TcpipInit
    <2>2. live' = live \cup {p} /\ p \notin live /\ p # NULL
        BY <2>1, BoxGiven
    <2>3. \A x : x \in Areas' <=> x = p
        BY <1>1, <1>9, <2>1, <2>2, IsAreaNext
    <2>4. Areas' = Areas \cup {p}
        BY <1>10, <2>3
    <2>5. live' = Buffers' \cup Areas'
        BY <1>1, <1>11, <2>2, <2>4 DEF Own, Buffers
    <2>6. Own'
        BY <1>1, <1>9, <2>5 DEF Own
    <2>7. Takes(p)
        BY <2>1, <2>4 DEF Takes
    <2>8. QED
        BY <1>2, <1>6, <1>7, <1>8, <1>10, <1>11, <1>12, <2>6, <2>7 DEF Uses
<1>13. CASE ~MboxFits
    <2>1. UNCHANGED <<poolVars, tcpip_mbox>>
        BY <1>13 DEF TcpipInit
    <2>2. Own' /\ Keeps
        BY <1>1, <1>11, <2>1, KeepsOwn
    <2>3. QED
        BY <1>2, <1>6, <1>7, <1>8, <1>10, <1>11, <1>13, <2>2 DEF Uses
<1>14. QED
    BY <1>12, <1>13

LEMMA ListenFreesOwns ==
    ASSUME PInv, Net, Own, ListenFrees
    PROVE  Own' /\ \E x \in Block : GivesBack(x)
<1> DEFINE c == Listener
<1>1. c \in Conn
    BY OnlyListener DEF ListenFrees
<1>2. /\ nc[c].recvmbox # NULL /\ myfree(nc[c].recvmbox)
      /\ nc' = [nc EXCEPT ![c].recvmbox = NULL] /\ UNCHANGED <<startVars, left>>
    BY DEF ListenFrees, Valid
<1> HIDE DEF c
<1>3. nc'[c] = [nc[c] EXCEPT !.recvmbox = NULL] /\ \A d \in Conn \ {c} : nc'[d] = nc[d]
    BY <1>1, <1>2 DEF Net, Typed, NetTyped
<1>4. nc'[c].recvmbox = NULL /\ nc'[c].acceptmbox = nc[c].acceptmbox
    BY <1>1, <1>3 DEF Net, Typed, NetTyped, State
<1>5. UNCHANGED <<ptr, tcpip_mbox, left>>
    BY <1>2 DEF startVars
<1>6. QED
    BY <1>1, <1>2, <1>3, <1>4, <1>5, RecvmboxGone

LEMMA ListenOwns ==
    ASSUME PInv, Net, Own, do_listen
    PROVE  Own' /\ \E p \in Block : Takes(p)
<1> DEFINE c == Listener
<1>1. c \in Conn /\ nc[c].acceptmbox = NULL
    BY OnlyListener DEF do_listen
<1>2. PICK p \in Block :
        mymalloc(TQ, p) /\ nc' = [nc EXCEPT ![c] = [@ EXCEPT !.st = "listen", !.acceptmbox = p]]
    BY DEF do_listen
<1>3. UNCHANGED <<ptr, tcpip_mbox, left>>
    BY DEF do_listen, startVars
<1>4. live' = live \cup {p} /\ p \notin live /\ p # NULL
    BY <1>2, BoxGiven
<1> HIDE DEF c
<1>5. /\ nc'[c] = [nc[c] EXCEPT !.st = "listen", !.acceptmbox = p]
      /\ \A d \in Conn \ {c} : nc'[d] = nc[d]
    BY <1>1, <1>2 DEF Net, Typed, NetTyped
<1>6. nc'[c].recvmbox = nc[c].recvmbox /\ nc'[c].acceptmbox = p
    BY <1>1, <1>5 DEF Net, Typed, NetTyped, State
<1>7. \A d \in Conn : /\ nc'[d].recvmbox = nc[d].recvmbox
                      /\ nc'[d].acceptmbox = IF d = c THEN p ELSE nc[d].acceptmbox
    BY <1>5, <1>6
<1>8. Areas' = Areas \cup {p}
    <2>1. \A x : x # NULL =>
            ((\E d \in Conn : x = nc'[d].recvmbox \/ x = nc'[d].acceptmbox)
             <=> (\E d \in Conn : x = nc[d].recvmbox \/ x = nc[d].acceptmbox) \/ x = p)
        BY <1>1, <1>7
    <2>2. \A x : x \in Areas' <=> x \in Areas \/ x = p
        BY <1>3, <1>4, <2>1, IsArea, IsAreaNext
    <2>3. QED
        BY <2>2
<1>9. live' = Buffers' \cup Areas'
    BY <1>3, <1>4, <1>8 DEF Own, Buffers
<1>10. p \notin Areas
    BY <1>4 DEF Own
<1>11. \A d \in Conn : p # nc[d].recvmbox
    BY <1>4, <1>10, IsArea
<1>12. \A d, e \in Conn : nc[d].recvmbox # NULL => nc[d].recvmbox # nc'[e].acceptmbox
    BY <1>7, <1>11 DEF Own
<1>13. Own'
    BY <1>3, <1>7, <1>9, <1>12 DEF Own, Buffers
<1>14. QED
    BY <1>2, <1>8, <1>13 DEF Takes

LEMMA DrainOwns ==
    ASSUME PInv, Net, Own, Drain
    PROVE  Own' /\ Uses
<1>1. PICK c \in Conn : c = slot[cur]
    BY DEF Drain, Net, Sessions
<1>2. CASE Valid(c)
    <2>1. /\ nc[c].recvmbox # NULL /\ myfree(nc[c].recvmbox)
          /\ nc' = [nc EXCEPT ![c] = [@ EXCEPT !.recvmbox = NULL, !.q = <<>>]]
          /\ UNCHANGED <<startVars, left>>
        BY <1>1, <1>2 DEF Drain, Valid
    <2>2. /\ nc'[c] = [nc[c] EXCEPT !.recvmbox = NULL, !.q = <<>>]
          /\ \A d \in Conn \ {c} : nc'[d] = nc[d]
        BY <2>1 DEF Net, Typed, NetTyped
    <2>3. nc'[c].recvmbox = NULL /\ nc'[c].acceptmbox = nc[c].acceptmbox
        BY <2>2 DEF Net, Typed, NetTyped, State
    <2>4. UNCHANGED <<ptr, tcpip_mbox, left>>
        BY <2>1 DEF startVars
    <2>5. QED
        BY <2>1, <2>2, <2>3, <2>4, RecvmboxGone DEF Uses
<1>3. CASE ~Valid(c)
    <2>1. UNCHANGED <<poolVars, nc, ptr, tcpip_mbox, left>>
        BY <1>1, <1>3 DEF Drain, startVars
    <2>2. QED
        BY <2>1, KeepsOwn DEF Uses
<1>4. QED
    BY <1>2, <1>3

(* A mailbox netconn_drain passed over is nobody's from here on, but not free. *)
LEMMA FreeOwns ==
    ASSUME PInv, Net, Own, Free
    PROVE  Own' /\ Keeps
<1>1. PICK c \in Conn : c = slot[cur]
    BY DEF Free, Net, Sessions
<1>2. /\ nc' = [nc EXCEPT ![c] = NoConn]
      /\ left' = left \cup {<<b, Packets(nc[c].q)>> : b \in {nc[c].recvmbox} \ {NULL}}
      /\ UNCHANGED <<poolVars, ptr, tcpip_mbox>> /\ pc = "free"
    BY <1>1 DEF Free, startVars
<1>3. /\ nc'[c].recvmbox = NULL /\ nc'[c].acceptmbox = NULL
      /\ \A d \in Conn \ {c} : nc'[d] = nc[d]
    BY <1>2 DEF Net, Typed, NetTyped, NoConn
<1>4. nc[c].acceptmbox = NULL
    <2>1. cur \in Slot /\ slot[cur] # NULL
        BY <1>1, NetconnAssumption DEF Free, Net, Sessions
    <2>2. nc[c].st = "new"
        BY <1>1, <2>1 DEF Net, Sessions
    <2>3. QED
        BY <2>2 DEF Net, Netconns
<1>5. \A x : (\E l \in left' : x = l[1])
                <=> (\E l \in left : x = l[1]) \/ (x = nc[c].recvmbox /\ x # NULL)
    <2>1. CASE nc[c].recvmbox = NULL
        <3>1. left' = left
            BY <1>2, <2>1
        <3>2. QED
            BY <2>1, <3>1
    <2>2. CASE nc[c].recvmbox # NULL
        <3>1. PICK l : l = <<nc[c].recvmbox, Packets(nc[c].q)>>
            OBVIOUS
        <3>2. left' = left \cup {l} /\ l[1] = nc[c].recvmbox
            BY <1>2, <2>2, <3>1
        <3>3. QED
            BY <2>2, <3>2
    <2>3. QED
        BY <2>1, <2>2
<1>6. \A x : x \in Areas' <=> x \in Areas
    <2>1. \A x : x # NULL =>
            ((\E d \in Conn : x = nc'[d].recvmbox \/ x = nc'[d].acceptmbox) \/ x = nc[c].recvmbox
             <=> (\E d \in Conn : x = nc[d].recvmbox \/ x = nc[d].acceptmbox))
        BY <1>3, <1>4
    <2>2. QED
        BY <1>2, <1>5, <2>1, IsArea, IsAreaNext
<1>7. Areas' = Areas
    BY <1>6
<1>8. ASSUME NEW d \in Conn, nc'[d].recvmbox # NULL
      PROVE  /\ nc'[d].recvmbox \notin Buffers /\ nc'[d].recvmbox # tcpip_mbox
             /\ \A e \in Conn : /\ nc'[d].recvmbox # nc'[e].acceptmbox
                                /\ e # d => nc'[d].recvmbox # nc'[e].recvmbox
             /\ \A l \in left' : l[1] # nc'[d].recvmbox
    <2>1. d # c
        BY <1>3, <1>8
    <2>2. nc'[d] = nc[d] /\ nc[d].recvmbox # nc[c].recvmbox /\ nc[d].recvmbox # NULL
        BY <1>3, <1>8, <2>1 DEF Own
    <2>3. \A l \in left' : l[1] # nc[d].recvmbox
        BY <1>5, <2>2 DEF Own
    <2>4. \A e \in Conn : /\ nc[d].recvmbox # nc'[e].acceptmbox
                          /\ e # d => nc[d].recvmbox # nc'[e].recvmbox
        BY <1>3, <2>2 DEF Own
    <2>5. QED
        BY <2>2, <2>3, <2>4 DEF Own
<1>9. live' = live /\ Buffers' = Buffers
    BY <1>2 DEF poolVars, Buffers
<1>10. QED
    BY <1>2, <1>7, <1>8, <1>9 DEF Own, Keeps

(* The other steps leave the mailboxes where they are. *)
Quiet ==
    \/ \E c \in Conn : (\E m \in {"data", "quit"} : RecvData(c, m)) \/ RecvFin(c) \/ err_tcp(c)
    \/ \E i \in Slot : Accept(i) \/ RecvUses(i) \/ RecvQuit(i) \/ RecvEnd(i)
    \/ Close

(* ... and change nothing else of what a netconn holds, but packets. *)
Same(c) ==
    /\ nc'[c].st = nc[c].st /\ nc'[c].sem = nc[c].sem
    /\ nc'[c].recvmbox = nc[c].recvmbox /\ nc'[c].acceptmbox = nc[c].acceptmbox

LEMMA QuietSame ==
    ASSUME Net, Quiet
    PROVE  \A c \in Conn : Same(c)
<1>1. \/ UNCHANGED nc
      \/ \E c \in Conn : \E x :
            \/ nc' = [nc EXCEPT ![c].q = x]
            \/ nc' = [nc EXCEPT ![c] = [@ EXCEPT !.fin = TRUE, !.q = x]]
            \/ nc' = [nc EXCEPT ![c] = [@ EXCEPT !.pcb = FALSE, !.err = TRUE, !.q = x]]
            \/ nc' = [nc EXCEPT ![c].pcb = FALSE]
    <2>1. CASE \E c \in Conn : (\E m \in {"data", "quit"} : RecvData(c, m)) \/ RecvFin(c) \/ err_tcp(c)
        BY <2>1 DEF RecvData, RecvFin, err_tcp
    <2>2. CASE \E i \in Slot : Accept(i)
        BY <2>2 DEF Accept
    <2>3. CASE \E i \in Slot : RecvUses(i) \/ RecvQuit(i) \/ RecvEnd(i)
        <3>1. PICK i \in Slot : RecvUses(i) \/ RecvQuit(i) \/ RecvEnd(i)
            BY <2>3
        <3>2. slot[i] # NULL
            BY <3>1 DEF RecvUses, RecvQuit, RecvEnd, Receives
        <3>3. slot[i] \in Conn
            BY <3>2, SlotTyped
        <3>4. UNCHANGED nc \/ nc' = [nc EXCEPT ![slot[i]].q = Tail(@)]
            BY <3>1 DEF RecvUses, RecvQuit, RecvEnd, Taken
        <3>5. QED
            BY <3>3, <3>4
    <2>4. CASE Close
        <3>1. slot[cur] \in Conn
            BY <2>4 DEF Close, Net, Sessions
        <3>2. QED
            BY <2>4, <3>1 DEF Close
    <2>5. QED
        BY <2>1, <2>2, <2>3, <2>4 DEF Quiet
<1>2. CASE UNCHANGED nc
    BY <1>2 DEF Same
<1>3. ASSUME NEW c \in Conn, NEW x,
             \/ nc' = [nc EXCEPT ![c].q = x]
             \/ nc' = [nc EXCEPT ![c] = [@ EXCEPT !.fin = TRUE, !.q = x]]
             \/ nc' = [nc EXCEPT ![c] = [@ EXCEPT !.pcb = FALSE, !.err = TRUE, !.q = x]]
             \/ nc' = [nc EXCEPT ![c].pcb = FALSE]
      PROVE  \A d \in Conn : Same(d)
    <2>1. nc[c] \in State
        BY DEF Net, Typed, NetTyped
    <2>2. \A d \in Conn \ {c} : nc'[d] = nc[d]
        BY <1>3 DEF Net, Typed, NetTyped
    <2>3. \/ nc'[c] = [nc[c] EXCEPT !.q = x]
          \/ nc'[c] = [nc[c] EXCEPT !.fin = TRUE, !.q = x]
          \/ nc'[c] = [nc[c] EXCEPT !.pcb = FALSE, !.err = TRUE, !.q = x]
          \/ nc'[c] = [nc[c] EXCEPT !.pcb = FALSE]
        BY <1>3 DEF Net, Typed, NetTyped
    <2>4. Same(c)
        BY <2>1, <2>3 DEF State, Same
    <2>5. QED
        BY <2>2, <2>4 DEF Same
<1>4. QED
    BY <1>1, <1>2, <1>3

LEMMA QuietOwns ==
    ASSUME Net, Own, Quiet
    PROVE  Own' /\ Keeps
<1>1. UNCHANGED <<poolVars, ptr, tcpip_mbox, left>>
    <2>1. UNCHANGED <<poolVars, startVars, left>>
        BY DEF Quiet, RecvData, RecvFin, err_tcp, Accept, RecvUses, RecvQuit, RecvEnd, Close,
               serverVars
    <2>2. QED
        BY <2>1 DEF startVars
<1>2. \A c \in Conn : Same(c)
    BY QuietSame
<1>3. QED
    BY <1>1, <1>2, KeepsOwn DEF Same

Running ==
    NetconnNew \/ ListenFrees \/ do_listen \/ accept_function \/ Quiet \/ Drain \/ Free

LEMMA RunningWhen ==
    ASSUME Net, StartInv, Running
    PROVE  step = 10 /\ UNCHANGED startVars /\ StartInv'
<1>1. UNCHANGED startVars
    BY DEF Running, NetconnNew, ListenFrees, do_listen, accept_function, Quiet, Drain, Free,
           RecvData, RecvFin, err_tcp, Accept, RecvUses, RecvQuit, RecvEnd, Close
<1>2. step = 10
    <2>1. SUFFICES ASSUME step < 10 PROVE FALSE
        BY DEF Net, Typed, StartTyped
    <2>2. /\ pc = "new" /\ \A i \in Slot : slot[i] = NULL
          /\ \A c \in Conn : nc[c].st = "free"
        BY <2>1 DEF StartInv, Idle, NoConn
    <2>3. ~Serving
        BY <2>2 DEF Serving
    <2>4. ~NetconnNew /\ ~ListenFrees /\ ~do_listen /\ ~Drain /\ ~Free /\ ~Close
        BY <2>1, <2>2 DEF NetconnNew, ListenFrees, do_listen, Drain, Free, Close
    <2>5. ~accept_function /\ \A c \in Conn : ~Established(c)
        BY <2>3 DEF accept_function, Established
    <2>6. \A i \in Slot : ~Accept(i) /\ ~RecvUses(i) /\ ~RecvQuit(i) /\ ~RecvEnd(i)
        BY <2>2 DEF Accept, RecvUses, RecvQuit, RecvEnd, Receives
    <2>7. \A c \in Conn : (\A m \in {"data", "quit"} : ~RecvData(c, m)) /\ ~RecvFin(c) /\ ~err_tcp(c)
        BY <2>5 DEF RecvData, RecvFin, err_tcp
    <2>8. QED
        BY <2>4, <2>5, <2>6, <2>7 DEF Running, Quiet
<1>3. StartInv'
    BY <1>1, <1>2 DEF startVars, StartInv, Undoing, MineLive, Complete, StartFits, OnlyBuffers,
        Idle, Started
<1>4. QED
    BY <1>1, <1>2, <1>3

LEMMA RunningUses ==
    ASSUME PInv, Net, Own, Running
    PROVE  Own' /\ Uses
<1>1. CASE NetconnNew
    <2>1. UNCHANGED <<ptr, tcpip_mbox, left>> /\ CanAlloc /\ \E c \in Conn : netconn_alloc(c, "new")
        BY <1>1 DEF NetconnNew, startVars
    <2>2. QED
        BY <2>1, AllocOwns DEF Uses
<1>2. CASE accept_function
    <2>1. UNCHANGED <<ptr, tcpip_mbox, left>> /\ CanAlloc /\ \E c \in Conn : netconn_alloc(c, "new")
        BY <1>2 DEF accept_function, startVars, serverVars
    <2>2. QED
        BY <2>1, AllocOwns DEF Uses
<1>3. CASE ListenFrees
    BY <1>3, ListenFreesOwns DEF Uses
<1>4. CASE do_listen
    BY <1>4, ListenOwns DEF Uses
<1>5. CASE Quiet
    BY <1>5, QuietOwns DEF Uses
<1>6. CASE Drain
    BY <1>6, DrainOwns
<1>7. CASE Free
    BY <1>7, FreeOwns DEF Uses
<1>8. QED
    BY <1>1, <1>2, <1>3, <1>4, <1>5, <1>6, <1>7 DEF Running

LEMMA QuietKeepsNet == Net /\ Quiet => Net'
BY RecvDataKeepsNet, RecvFinKeepsNet, ErrKeepsNet, AcceptKeepsNet, RecvUsesKeepsNet,
   RecvQuitKeepsNet, RecvEndKeepsNet, CloseKeepsNet DEF Quiet

LEMMA RunningKeepsNet == Net /\ Running => Net'
BY NetconnNewKeepsNet, ListenFreesKeepsNet, ListenKeepsNet, AcceptFunctionKeepsNet,
   QuietKeepsNet, DrainKeepsNet, FreeKeepsNet DEF Running

(* Any use of a mailbox area is a call the pool allows. *)
LEMMA UsesPool ==
    ASSUME PInv, Own, Uses
    PROVE  PInv' /\ [PoolNext]_poolVars
<1>1. ASSUME NEW p \in Block, Takes(p)
      PROVE  PInv' /\ [PoolNext]_poolVars
    BY <1>1, BoxGiven DEF Takes
<1>2. ASSUME NEW x \in Block, GivesBack(x)
      PROVE  PInv' /\ [PoolNext]_poolVars
    <2>1. x \in live /\ myfree(x)
        BY <1>2 DEF GivesBack, Own
    <2>2. QED
        BY <2>1, PInvFree DEF PoolNext
<1>3. CASE Keeps
    BY <1>3 DEF Keeps, PInv, PoolTypeOK, Uniform, Apart, poolVars
<1>4. QED
    BY <1>1, <1>2, <1>3 DEF Uses

NInv == PInv /\ Net /\ StartInv /\ Boxes

(* The disjuncts of Next, by what they have in common. *)
LEMMA NextIs == Next => StartAlloc \/ StartFree \/ TcpipInit \/ Running
BY DEF Next, Running, Quiet

LEMMA StartPools ==
    ASSUME PInv, Net, StartInv, StartAlloc \/ StartFree
    PROVE  PInv' /\ Net' /\ StartInv' /\ step' < 10 /\ [PoolNext]_poolVars
<1>1. CASE StartAlloc
    <2>1. step \in 1..8 /\ sizes[step] \in Nat
        BY <1>1, SizesTyped DEF StartAlloc
    <2>2. [PoolNext]_poolVars
        <3>1. CASE UNCHANGED poolVars
            BY <3>1
        <3>2. ASSUME NEW p \in Block, mymalloc(sizes[step], p)
              PROVE  PoolNext
            <4>1. sizes[step] \in 1..BLOCKS
                BY <2>1, <3>2, FoundSize DEF mymalloc
            <4>2. QED
                BY <3>2, <4>1 DEF PoolNext
        <3>3. QED
            BY <1>1, <3>1, <3>2 DEF StartAlloc
    <2>3. step' < 10
        BY <1>1 DEF StartAlloc
    <2>4. QED
        BY <1>1, <2>2, <2>3, StartAllocKeepsStart, StartAllocKeepsNet
<1>2. CASE StartFree
    <2>1. /\ undo \in Mine /\ step < 10 /\ step \in {4, 8}
        BY <1>2, UndoingMine
    <2>2. [PoolNext]_poolVars
        <3>1. CASE ptr[undo] = NULL
            BY <1>2, <3>1 DEF StartFree
        <3>2. CASE ptr[undo] # NULL
            BY <1>2, <2>1, <3>2 DEF StartFree, PoolNext, StartInv, MineLive
        <3>3. QED
            BY <3>1, <3>2
    <2>3. step' < 10
        BY <1>2, <2>1 DEF StartFree
    <2>4. QED
        BY <1>2, <2>2, <2>3, StartFreeKeepsStart, StartFreeKeepsNet DEF StartInv
<1>3. QED
    BY <1>1, <1>2

LEMMA NInvInit == Init => NInv
<1> SUFFICES ASSUME Init PROVE NInv
    OBVIOUS
<1>1. PInv /\ Net
    BY PInvInit, NetInit DEF Init
<1>2. Mine = {} /\ step = 1 /\ undo = 0 /\ tries = 0
    BY DEF Init, Mine, Part
<1>3. Undoing /\ MineLive /\ Complete /\ Idle /\ Started
    BY <1>2 DEF Init, Undoing, MineLive, Complete, Idle, Started
<1>4. OnlyBuffers
    BY <1>2 DEF Init, PoolInit, OnlyBuffers
<1>5. StartFits
    <2>1. Bottom(BLOCKS) /\ Reserved(BLOCKS)
        BY <1>2, PoolAssumption DEF Init, PoolInit, Bottom, Reserved, Block
    <2>2. Got = 0
        <3>1. /\ Size(1) = 0 /\ Size(2) = 0 /\ Size(3) = 0 /\ Size(4) = 0
              /\ Size(5) = 0 /\ Size(6) = 0 /\ Size(7) = 0 /\ Size(8) = 0
            BY <1>2 DEF Size
        <3>2. QED
            BY <3>1 DEF Got
    <2>3. Before = 0 /\ BLOCKS + Before = BLOCKS /\ BLOCKS = BLOCKS + Got /\ BLOCKS \in 0..BLOCKS
        BY <1>2, <2>2, PoolAssumption DEF Before
    <2>4. QED
        BY <1>2, <2>1, <2>3 DEF StartFits
<1>6. QED
    BY <1>1, <1>2, <1>3, <1>4, <1>5 DEF NInv, StartInv, Boxes

LEMMA NInvStep == NInv /\ [Next]_vars => NInv' /\ [PoolNext]_poolVars
<1> SUFFICES ASSUME NInv, [Next]_vars PROVE NInv' /\ [PoolNext]_poolVars
    OBVIOUS
<1>0. PInv /\ Net /\ StartInv /\ Boxes
    BY DEF NInv
<1>1. CASE StartAlloc \/ StartFree
    <2>1. PInv' /\ Net' /\ StartInv' /\ step' < 10 /\ [PoolNext]_poolVars
        BY <1>0, <1>1, StartPools
    <2>2. QED
        BY <2>1 DEF NInv, Boxes
<1>2. CASE TcpipInit
    <2>1. tries = 0 /\ undo = 0 /\ Own /\ Own' /\ Uses
        BY <1>0, <1>2, TcpipInitOwns
    <2>2. PInv' /\ [PoolNext]_poolVars
        BY <1>0, <2>1, UsesPool
    <2>3. Net'
        BY <1>0, <1>2, TcpipInitKeepsNet
    <2>4. StartInv'
        BY <1>0, <1>2, <2>1 DEF TcpipInit, StartInv, Undoing, MineLive, Complete, StartFits,
            OnlyBuffers, Idle, Started
    <2>5. QED
        BY <2>1, <2>2, <2>3, <2>4 DEF NInv, Boxes
<1>3. CASE Running
    <2>1. step = 10 /\ UNCHANGED startVars /\ StartInv'
        BY <1>0, <1>3, RunningWhen
    <2>2. Own
        BY <1>0, <2>1 DEF Boxes
    <2>3. Own' /\ Uses
        BY <1>0, <1>3, <2>2, RunningUses
    <2>4. PInv' /\ [PoolNext]_poolVars
        BY <1>0, <2>2, <2>3, UsesPool
    <2>5. Net'
        BY <1>0, <1>3, RunningKeepsNet
    <2>6. QED
        BY <2>1, <2>3, <2>4, <2>5 DEF NInv, Boxes
<1>4. CASE UNCHANGED vars
    <2>1. UNCHANGED <<poolVars, startVars, kernelVars, nc, acceptq, serverVars>>
        BY <1>4 DEF vars
    <2>2. PInv'
        BY <1>0, <2>1 DEF PInv, PoolTypeOK, Uniform, Apart, poolVars
    <2>3. Net'
        BY <1>0, <2>1, SameNet, SameStart DEF Net, Typed, KernelTyped, kernelVars
    <2>4. StartInv'
        <3>1. UNCHANGED <<memmap, live, sizes, step, undo, ptr, tries, tcpip_mbox>>
            BY <2>1 DEF poolVars, startVars
        <3>2. Mine' = Mine /\ Before' = Before /\ Total' = Total /\ Got' = Got
            BY <3>1 DEF Mine, Part, Before, Total, FirstPart, SecondPart, Got, Size
        <3>3. StartFits'
            BY <1>0, <3>1, <3>2 DEF StartInv, StartFits, Reserved, Bottom, Within
        <3>4. MineLive'
            BY <1>0, <3>1, <3>2 DEF StartInv, MineLive
        <3>5. Undoing' /\ Complete' /\ OnlyBuffers' /\ Started'
            BY <1>0, <3>1 DEF StartInv, Undoing, Complete, OnlyBuffers, Started
        <3>6. Idle'
            BY <1>0, <2>1, <3>1 DEF StartInv, Idle, kernelVars, serverVars
        <3>7. QED
            BY <3>3, <3>4, <3>5, <3>6 DEF StartInv
    <2>5. Boxes'
        <3>1. UNCHANGED <<poolVars, ptr, tcpip_mbox, left, nc, step>>
            BY <2>1 DEF startVars, serverVars
        <3>2. QED
            BY <1>0, <3>1, KeepsOwn DEF Boxes
    <2>6. QED
        BY <2>1, <2>2, <2>3, <2>4, <2>5 DEF NInv
<1>5. QED
    BY <1>1, <1>2, <1>3, <1>4, NextIs

LEMMA NInvHolds == Spec => []NInv
BY NInvInit, NInvStep, PTL DEF Spec

-------------------------------------------------------------------------------
(* Whatever the sizes of the buffers and of the pool: once a start has failed,    *)
(* none succeeds (main.c:91, ETH_Mem_Malloc, lwip_comm_mem_malloc).               *)
THEOREM FailedStartNeverRecovers == Spec => []FailedStartIsFinal
<1>1. NInv => FailedStartIsFinal
    BY DEF NInv, Net, Typed, StartTyped, StartInv, Started, FailedStartIsFinal
<1>2. QED
    BY <1>1, NInvHolds, PTL

(* The network uses the pool only as malloc.c allows: it frees what it was given, *)
(* once, so that the pool stays a heap however starts and connections end.        *)
THEOREM NetworkUsesHeap == Spec => IsHeap
<1>1. Init => PoolInit
    BY DEF Init
<1>2. Spec => PoolSpec
    BY <1>1, NInvHolds, NInvStep, PTL DEF Spec, PoolSpec
<1>3. QED
    BY <1>2, PoolIsHeap

-------------------------------------------------------------------------------
(* Counting. *)
LEMMA SameCount ==
    ASSUME NEW S, NEW T, IsFiniteSet(S), NEW f \in [S -> T],
           \A a, b \in S : f[a] = f[b] => a = b,
           \A t \in T : \E a \in S : f[a] = t
    PROVE  IsFiniteSet(T) /\ Cardinality(T) = Cardinality(S)
<1>1. f \in Bijection(S, T)
    BY Fun_IsBij
<1>2. ExistsBijection(S, T)
    BY <1>1 DEF ExistsBijection
<1>3. QED
    BY <1>2, FS_Bijection

Message == {"data", "quit", "end"}

(* the places of a mailbox with a packet, of which netconn_drain counts as many *)
Places(q) == {k \in 1..Len(q) : q[k] # "end"}

LEMMA PlacesFinite ==
    ASSUME NEW q \in Seq(Message)
    PROVE  IsFiniteSet(Places(q)) /\ Cardinality(Places(q)) = Packets(q) /\ Packets(q) \in Nat
<1>1. IsFiniteSet(1..Len(q))
    BY FS_Interval
<1>2. IsFiniteSet(Places(q))
    BY <1>1, FS_Subset DEF Places
<1>3. Cardinality(Places(q)) = Packets(q)
    BY DEF Places, Packets
<1>4. QED
    BY <1>2, <1>3, FS_CardinalityType

LEMMA PacketsEmpty == Packets(<<>>) = 0
<1>1. {k \in 1..Len(<<>>) : <<>>[k] # "end"} = {}
    OBVIOUS
<1>2. QED
    BY <1>1, FS_EmptySet DEF Packets

LEMMA PacketsAppended ==
    ASSUME NEW q \in Seq(Message), NEW m \in Message
    PROVE  Packets(Append(q, m)) = Packets(q) + (IF m # "end" THEN 1 ELSE 0)
<1> DEFINE p == Append(q, m)
<1>1. /\ p \in Seq(Message) /\ Len(p) = Len(q) + 1 /\ p[Len(q) + 1] = m
      /\ \A k \in 1..Len(q) : p[k] = q[k]
    OBVIOUS
<1> HIDE DEF p
<1>2. Len(q) \in Nat
    OBVIOUS
<1>3. \A k : k \in Places(p) <=> k \in Places(q) \/ (k = Len(q) + 1 /\ m # "end")
    BY <1>1, <1>2 DEF Places
<1>4. Len(q) + 1 \notin Places(q)
    BY <1>2 DEF Places
<1>5. IsFiniteSet(Places(q)) /\ Cardinality(Places(q)) = Packets(q) /\ Packets(q) \in Nat
    BY PlacesFinite
<1>6. Cardinality(Places(p)) = Packets(p)
    BY <1>1, PlacesFinite
<1>7. CASE m = "end"
    <2>1. Places(p) = Places(q)
        BY <1>3, <1>7
    <2>2. QED
        BY <1>5, <1>6, <1>7, <2>1 DEF p
<1>8. CASE m # "end"
    <2>1. Places(p) = Places(q) \cup {Len(q) + 1}
        BY <1>3, <1>8
    <2>2. Cardinality(Places(p)) = Cardinality(Places(q)) + 1
        BY <1>4, <1>5, <2>1, FS_AddElement
    <2>3. QED
        BY <1>5, <1>6, <1>8, <2>2 DEF p
<1>9. QED
    BY <1>7, <1>8

LEMMA PacketsTaken ==
    ASSUME NEW q \in Seq(Message), q # <<>>
    PROVE  Packets(q) = Packets(Tail(q)) + (IF Head(q) # "end" THEN 1 ELSE 0)
<1> DEFINE t == Tail(q)
<1>1. /\ t \in Seq(Message) /\ Len(q) \in Nat /\ Len(q) >= 1 /\ Len(t) = Len(q) - 1
      /\ Head(q) = q[1] /\ \A k \in 1..Len(t) : t[k] = q[k + 1]
    OBVIOUS
<1> HIDE DEF t
<1> DEFINE Later == {k \in Places(q) : k > 1}
           back == [k \in Places(t) |-> k + 1]
<1>2. IsFiniteSet(Places(t)) /\ Cardinality(Places(t)) = Packets(t) /\ Packets(t) \in Nat
    BY <1>1, PlacesFinite
<1>3. Places(t) \subseteq 1..Len(t) /\ Places(q) \subseteq 1..Len(q)
    BY DEF Places
<1>4. back \in [Places(t) -> Later]
    BY <1>1, <1>3 DEF Places
<1>5. \A a, b \in Places(t) : back[a] = back[b] => a = b
    BY <1>1, <1>3
<1>6. \A k \in Later : \E a \in Places(t) : back[a] = k
    <2>1. SUFFICES ASSUME NEW k \in Later PROVE \E a \in Places(t) : back[a] = k
        OBVIOUS
    <2>2. k \in 1..Len(q) /\ k > 1 /\ q[k] # "end"
        BY DEF Places
    <2>3. k - 1 \in 1..Len(t) /\ t[k - 1] = q[k]
        BY <1>1, <2>2
    <2>4. k - 1 \in Places(t)
        BY <2>2, <2>3 DEF Places
    <2>5. back[k - 1] = k
        BY <2>2, <2>4
    <2>6. QED
        BY <2>4, <2>5
<1>7. \A k : k \in Places(q) <=> k \in Later \/ (k = 1 /\ Head(q) # "end")
    BY <1>1 DEF Places
<1>8. 1 \notin Later
    OBVIOUS
<1> HIDE DEF back, Later
<1>9. IsFiniteSet(Later) /\ Cardinality(Later) = Packets(t)
    BY <1>2, <1>4, <1>5, <1>6, SameCount
<1>10. Cardinality(Places(q)) = Packets(q)
    BY PlacesFinite
<1>11. CASE Head(q) = "end"
    <2>1. Places(q) = Later
        BY <1>7, <1>11
    <2>2. QED
        BY <1>2, <1>9, <1>10, <1>11, <2>1 DEF t
<1>12. CASE Head(q) # "end"
    <2>1. Places(q) = Later \cup {1}
        BY <1>7, <1>12
    <2>2. Cardinality(Places(q)) = Cardinality(Later) + 1
        BY <1>8, <1>9, <2>1, FS_AddElement
    <2>3. QED
        BY <1>2, <1>9, <1>10, <1>12, <2>2 DEF t
<1>13. QED
    BY <1>11, <1>12

(* All packets of mailboxes f, by owner and place: those of one are apart from    *)
(* the others', so changing one mailbox changes the sum by its difference.        *)
Of(c, q) == {<<c, k>> : k \in Places(q)}
AllOf(f) == UNION {Of(c, f[c]) : c \in Conn}

LEMMA OfCount ==
    ASSUME NEW c, NEW q \in Seq(Message)
    PROVE  IsFiniteSet(Of(c, q)) /\ Cardinality(Of(c, q)) = Packets(q)
<1> DEFINE f == [k \in Places(q) |-> <<c, k>>]
<1>1. f \in [Places(q) -> Of(c, q)]
    BY DEF Of
<1>2. \A a, b \in Places(q) : f[a] = f[b] => a = b
    OBVIOUS
<1>3. \A t \in Of(c, q) : \E a \in Places(q) : f[a] = t
    BY DEF Of
<1> HIDE DEF f
<1>4. QED
    BY <1>1, <1>2, <1>3, PlacesFinite, SameCount

LEMMA OneChanged ==
    ASSUME NEW f \in [Conn -> Seq(Message)], NEW g \in [Conn -> Seq(Message)], NEW c \in Conn,
           \A d \in Conn \ {c} : g[d] = f[d], IsFiniteSet(AllOf(f))
    PROVE  /\ IsFiniteSet(AllOf(g))
           /\ Cardinality(AllOf(g)) + Packets(f[c]) = Cardinality(AllOf(f)) + Packets(g[c])
<1> DEFINE R == UNION {Of(d, f[d]) : d \in Conn \ {c}}
<1>1. R = UNION {Of(d, g[d]) : d \in Conn \ {c}}
    OBVIOUS
<1>2. AllOf(f) = R \cup Of(c, f[c])
    BY DEF AllOf
<1>3. AllOf(g) = R \cup Of(c, g[c])
    BY <1>1 DEF AllOf
<1>4. \A q : R \cap Of(c, q) = {}
    <2>1. \A x \in R : \E d \in Conn \ {c} : \E k \in Places(f[d]) : x = <<d, k>>
        BY DEF Of
    <2>2. \A q : \A x \in Of(c, q) : \E k \in Places(q) : x = <<c, k>>
        BY DEF Of
    <2>3. QED
        BY <2>1, <2>2
<1>5. IsFiniteSet(R)
    BY <1>2, FS_Subset
<1> HIDE DEF R
<1>6. ASSUME NEW q \in Seq(Message)
      PROVE  /\ IsFiniteSet(R \cup Of(c, q))
             /\ Cardinality(R \cup Of(c, q)) = Cardinality(R) + Packets(q)
    <2>1. IsFiniteSet(Of(c, q)) /\ Cardinality(Of(c, q)) = Packets(q) /\ Packets(q) \in Nat
        BY OfCount, PlacesFinite
    <2>2. Cardinality(R \cap Of(c, q)) = 0
        BY <1>4, FS_EmptySet
    <2>3. Cardinality(R) \in Nat
        BY <1>5, FS_CardinalityType
    <2>4. /\ IsFiniteSet(R \cup Of(c, q))
          /\ Cardinality(R \cup Of(c, q))
                = Cardinality(R) + Cardinality(Of(c, q)) - Cardinality(R \cap Of(c, q))
        BY <1>5, <2>1, FS_Union
    <2>5. QED
        BY <2>1, <2>2, <2>3, <2>4
<1>7. f[c] \in Seq(Message) /\ g[c] \in Seq(Message)
    OBVIOUS
<1>8. Packets(f[c]) \in Nat /\ Packets(g[c]) \in Nat /\ Cardinality(R) \in Nat
    BY <1>5, <1>7, PlacesFinite, FS_CardinalityType
<1>9. /\ Cardinality(AllOf(f)) = Cardinality(R) + Packets(f[c])
      /\ Cardinality(AllOf(g)) = Cardinality(R) + Packets(g[c])
      /\ IsFiniteSet(AllOf(g))
    BY <1>2, <1>3, <1>6, <1>7
<1>10. QED
    BY <1>8, <1>9

-------------------------------------------------------------------------------
(* Every mailbox has one queue and one event, every semaphore an event. *)
EventCounts ==
    /\ IsFiniteSet(Areas) /\ queues = QS - Cardinality(Areas)
    /\ events = EVENTS - Cardinality(Areas) - Cardinality(Semaphores)

LEMMA SemaphoresFinite == IsFiniteSet(Semaphores) /\ Cardinality(Semaphores) \in Nat
BY FS_Subset, FS_CardinalityType, NetconnAssumption DEF Semaphores

LEMMA TakesCounts ==
    ASSUME PInv, Own, IsFiniteSet(Areas), NEW p \in Block, Takes(p)
    PROVE  IsFiniteSet(Areas') /\ Cardinality(Areas') = Cardinality(Areas) + 1
<1>1. p \notin Areas /\ Areas' = Areas \cup {p}
    BY BoxGiven DEF Own, Takes
<1>2. QED
    BY <1>1, FS_AddElement

LEMMA GivesBackCounts ==
    ASSUME IsFiniteSet(Areas), NEW x, GivesBack(x)
    PROVE  IsFiniteSet(Areas') /\ Cardinality(Areas') = Cardinality(Areas) - 1
BY FS_RemoveElement DEF GivesBack

LEMMA AllocCounts ==
    ASSUME PInv, Net, Own, EventCounts, CanAlloc, NEW c \in Conn, netconn_alloc(c, "new"),
           UNCHANGED <<ptr, tcpip_mbox, left>>
    PROVE  EventCounts'
<1>1. PICK p \in Block : Takes(p)
    BY AllocOwns
<1>2. IsFiniteSet(Areas') /\ Cardinality(Areas') = Cardinality(Areas) + 1
    BY <1>1, TakesCounts DEF EventCounts
<1>3. /\ nc[c].st = "free" /\ nc'[c].sem /\ \A d \in Conn \ {c} : nc'[d] = nc[d]
    BY AllocNet
<1>4. ~nc[c].sem
    BY <1>3 DEF Net, Netconns
<1>5. Semaphores' = Semaphores \cup {c} /\ c \notin Semaphores
    BY <1>3, <1>4 DEF Semaphores
<1>6. Cardinality(Semaphores') = Cardinality(Semaphores) + 1
    BY <1>5, SemaphoresFinite, FS_AddElement
<1>7. events' = events - 2 /\ queues' = queues - 1
    BY DEF netconn_alloc
<1>8. Cardinality(Areas) \in Nat /\ Cardinality(Semaphores) \in Nat
    BY SemaphoresFinite, FS_CardinalityType DEF EventCounts
<1>9. QED
    BY <1>2, <1>6, <1>7, <1>8, NetconnAssumption DEF EventCounts

LEMMA ListenFreesCounts ==
    ASSUME PInv, Net, Own, EventCounts, ListenFrees
    PROVE  EventCounts'
<1>1. PICK x \in Block : GivesBack(x)
    BY ListenFreesOwns
<1>2. IsFiniteSet(Areas') /\ Cardinality(Areas') = Cardinality(Areas) - 1
    BY <1>1, GivesBackCounts DEF EventCounts
<1>3. nc' = [nc EXCEPT ![Listener].recvmbox = NULL] /\ Listener \in Conn
      /\ events' = events + 1 /\ queues' = queues + 1
    BY OnlyListener DEF ListenFrees
<1>4. \A c \in Conn : nc'[c].sem = nc[c].sem
    BY <1>3 DEF Net, Typed, NetTyped, State
<1>5. Semaphores' = Semaphores
    BY <1>4 DEF Semaphores
<1>6. Cardinality(Areas) \in Nat /\ Cardinality(Semaphores) \in Nat
    BY SemaphoresFinite, FS_CardinalityType DEF EventCounts
<1>7. QED
    BY <1>2, <1>3, <1>5, <1>6, NetconnAssumption DEF EventCounts

LEMMA ListenCounts ==
    ASSUME PInv, Net, Own, EventCounts, do_listen
    PROVE  EventCounts'
<1>1. PICK p \in Block : Takes(p)
    BY ListenOwns
<1>2. IsFiniteSet(Areas') /\ Cardinality(Areas') = Cardinality(Areas) + 1
    BY <1>1, TakesCounts DEF EventCounts
<1>3. /\ \E b \in Block : nc' = [nc EXCEPT ![Listener] = [@ EXCEPT !.st = "listen", !.acceptmbox = b]]
      /\ Listener \in Conn
      /\ events' = events - 1 /\ queues' = queues - 1
    BY OnlyListener DEF do_listen
<1>4. \A c \in Conn : nc'[c].sem = nc[c].sem
    BY <1>3 DEF Net, Typed, NetTyped, State
<1>5. Semaphores' = Semaphores
    BY <1>4 DEF Semaphores
<1>6. Cardinality(Areas) \in Nat /\ Cardinality(Semaphores) \in Nat
    BY SemaphoresFinite, FS_CardinalityType DEF EventCounts
<1>7. QED
    BY <1>2, <1>3, <1>5, <1>6, NetconnAssumption DEF EventCounts

LEMMA QuietCounts ==
    ASSUME PInv, Net, Own, EventCounts, Quiet
    PROVE  EventCounts'
<1>1. Areas' = Areas
    BY QuietOwns DEF Keeps
<1>2. Semaphores' = Semaphores
    BY QuietSame DEF Same, Semaphores
<1>3. UNCHANGED <<events, queues>>
    BY DEF Quiet, RecvData, RecvFin, err_tcp, Accept, RecvUses, RecvQuit, RecvEnd, Close, kernelVars
<1>4. QED
    BY <1>1, <1>2, <1>3 DEF EventCounts

LEMMA DrainCounts ==
    ASSUME PInv, Net, Own, EventCounts, Drain
    PROVE  EventCounts'
<1>1. PICK c \in Conn : c = slot[cur]
    BY DEF Drain, Net, Sessions
<1>2. CASE Valid(c)
    <2>1. /\ nc[c].recvmbox # NULL /\ myfree(nc[c].recvmbox)
          /\ nc' = [nc EXCEPT ![c] = [@ EXCEPT !.recvmbox = NULL, !.q = <<>>]]
          /\ UNCHANGED <<startVars, left>> /\ events' = events + 1 /\ queues' = queues + 1
        BY <1>1, <1>2 DEF Drain, Valid
    <2>2. /\ nc'[c] = [nc[c] EXCEPT !.recvmbox = NULL, !.q = <<>>]
          /\ \A d \in Conn \ {c} : nc'[d] = nc[d]
        BY <2>1 DEF Net, Typed, NetTyped
    <2>3. nc'[c].recvmbox = NULL /\ nc'[c].acceptmbox = nc[c].acceptmbox /\ nc'[c].sem = nc[c].sem
        BY <2>2 DEF Net, Typed, NetTyped, State
    <2>4. UNCHANGED <<ptr, tcpip_mbox, left>>
        BY <2>1 DEF startVars
    <2>5. PICK x \in Block : GivesBack(x)
        BY <2>1, <2>2, <2>3, <2>4, RecvmboxGone
    <2>6. IsFiniteSet(Areas') /\ Cardinality(Areas') = Cardinality(Areas) - 1
        BY <2>5, GivesBackCounts DEF EventCounts
    <2>7. Semaphores' = Semaphores
        BY <2>2, <2>3 DEF Semaphores
    <2>8. Cardinality(Areas) \in Nat /\ Cardinality(Semaphores) \in Nat
        BY SemaphoresFinite, FS_CardinalityType DEF EventCounts
    <2>9. QED
        BY <2>1, <2>6, <2>7, <2>8, NetconnAssumption DEF EventCounts
<1>3. CASE ~Valid(c)
    <2>1. UNCHANGED <<poolVars, nc, ptr, tcpip_mbox, left, events, queues>>
        BY <1>1, <1>3 DEF Drain, startVars, kernelVars
    <2>2. Areas' = Areas
        BY <2>1, KeepsOwn DEF Keeps
    <2>3. QED
        BY <2>1, <2>2 DEF EventCounts, Semaphores
<1>4. QED
    BY <1>2, <1>3

LEMMA FreeCounts ==
    ASSUME PInv, Net, Own, EventCounts, Free
    PROVE  EventCounts'
<1>1. PICK c \in Conn : c = slot[cur] /\ cur \in Slot
    BY DEF Free, Net, Sessions
<1>2. nc' = [nc EXCEPT ![c] = NoConn] /\ events' = events + 1 /\ UNCHANGED queues
    BY <1>1 DEF Free
<1>3. ~nc'[c].sem /\ \A d \in Conn \ {c} : nc'[d] = nc[d]
    BY <1>2 DEF Net, Typed, NetTyped, NoConn
<1>4. nc[c].st = "new" /\ nc[c].sem
    BY <1>1, NetconnAssumption DEF Net, Sessions, Netconns
<1>5. Semaphores' = Semaphores \ {c} /\ c \in Semaphores
    BY <1>3, <1>4 DEF Semaphores
<1>6. Cardinality(Semaphores') = Cardinality(Semaphores) - 1
    BY <1>5, SemaphoresFinite, FS_RemoveElement
<1>7. Areas' = Areas
    BY FreeOwns DEF Keeps
<1>8. Cardinality(Areas) \in Nat /\ Cardinality(Semaphores) \in Nat
    BY SemaphoresFinite, FS_CardinalityType DEF EventCounts
<1>9. QED
    BY <1>2, <1>6, <1>7, <1>8, NetconnAssumption DEF EventCounts

LEMMA RunningCounts ==
    ASSUME PInv, Net, Own, EventCounts, Running
    PROVE  EventCounts'
<1>1. CASE NetconnNew
    <2>1. UNCHANGED <<ptr, tcpip_mbox, left>> /\ CanAlloc /\ \E c \in Conn : netconn_alloc(c, "new")
        BY <1>1 DEF NetconnNew, startVars
    <2>2. QED
        BY <2>1, AllocCounts
<1>2. CASE accept_function
    <2>1. UNCHANGED <<ptr, tcpip_mbox, left>> /\ CanAlloc /\ \E c \in Conn : netconn_alloc(c, "new")
        BY <1>2 DEF accept_function, startVars, serverVars
    <2>2. QED
        BY <2>1, AllocCounts
<1>3. QED
    BY <1>1, <1>2, ListenFreesCounts, ListenCounts, QuietCounts, DrainCounts, FreeCounts DEF Running

LEMMA TcpipInitCounts ==
    ASSUME PInv, Net, StartInv, TcpipInit
    PROVE  EventCounts'
<1>1. step = 9 /\ step < 10 /\ UNCHANGED nc
    BY DEF TcpipInit
<1>2. Own /\ Areas = {}
    BY TcpipInitOwns
<1>3. IsFiniteSet(Areas) /\ Cardinality(Areas) = 0
    BY <1>2, FS_EmptySet
<1>4. Semaphores = {} /\ Semaphores' = Semaphores
    BY <1>1 DEF StartInv, Idle, Semaphores, NoConn
<1>5. Cardinality(Semaphores) = 0 /\ Cardinality(Semaphores') = 0
    BY <1>4, FS_EmptySet
<1>6. events = EVENTS /\ queues = QS
    BY <1>1 DEF StartInv, Idle
<1>7. CASE MboxFits
    <2>1. PICK p \in Block : Takes(p)
        BY <1>7, TcpipInitOwns
    <2>2. IsFiniteSet(Areas') /\ Cardinality(Areas') = Cardinality(Areas) + 1
        BY <1>2, <1>3, <2>1, TakesCounts
    <2>3. events' = events - 1 /\ queues' = queues - 1
        BY <1>7 DEF TcpipInit
    <2>4. QED
        BY <1>3, <1>5, <1>6, <2>2, <2>3, NetconnAssumption DEF EventCounts
<1>8. CASE ~MboxFits
    <2>1. Keeps
        BY <1>8, TcpipInitOwns
    <2>2. UNCHANGED <<events, queues>>
        BY <1>8 DEF TcpipInit
    <2>3. Cardinality(Areas') = 0 /\ IsFiniteSet(Areas')
        BY <1>3, <2>1 DEF Keeps
    <2>4. QED
        BY <1>5, <1>6, <2>2, <2>3, NetconnAssumption DEF EventCounts
<1>9. QED
    BY <1>7, <1>8

(* Every packet is in the pool, in a mailbox, in the hands of the server thread   *)
(* or in a mailbox left behind.                                                  *)
PacketCounts ==
    /\ IsFiniteSet(Packet) /\ IsFiniteSet(PacketLeft)
    /\ pool + buf + Cardinality(Packet) + Cardinality(PacketLeft) = POOL

LEMMA PacketSum ==
    Packet = AllOf([c \in Conn |-> nc[c].q]) /\ Packet' = AllOf([c \in Conn |-> nc'[c].q])
BY DEF Packet, AllOf, Of, Places

LEMMA CountsTyped ==
    ASSUME Net, PacketCounts
    PROVE  /\ pool \in Nat /\ buf \in 0..1
           /\ Cardinality(Packet) \in Nat /\ Cardinality(PacketLeft) \in Nat
BY FS_CardinalityType DEF Net, Typed, KernelTyped, ServerTyped, PacketCounts

LEMMA QueueTyped ==
    ASSUME Net, NEW c \in Conn
    PROVE  nc[c].q \in Seq(Message) /\ Packets(nc[c].q) \in Nat
BY PlacesFinite DEF Net, Typed, NetTyped, State, Message

LEMMA SameQueues ==
    ASSUME \A c \in Conn : nc'[c].q = nc[c].q
    PROVE  Packet' = Packet
BY DEF Packet

LEMMA OneQueue ==
    ASSUME Net, Net', PacketCounts, NEW c \in Conn, \A d \in Conn \ {c} : nc'[d].q = nc[d].q
    PROVE  /\ IsFiniteSet(Packet') /\ Cardinality(Packet') \in Nat
           /\ Cardinality(Packet') + Packets(nc[c].q) = Cardinality(Packet) + Packets(nc'[c].q)
<1> DEFINE f == [d \in Conn |-> nc[d].q]
           g == [d \in Conn |-> nc'[d].q]
<1>1. f \in [Conn -> Seq(Message)]
    BY QueueTyped
<1>2. g \in [Conn -> Seq(Message)]
    BY DEF Net, Typed, NetTyped, State, Message
<1>3. \A d \in Conn \ {c} : g[d] = f[d]
    OBVIOUS
<1>4. f[c] = nc[c].q /\ g[c] = nc'[c].q
    OBVIOUS
<1>5. Packet = AllOf(f) /\ Packet' = AllOf(g)
    BY PacketSum
<1>6. IsFiniteSet(AllOf(f))
    BY <1>5 DEF PacketCounts
<1> HIDE DEF f, g
<1>7. /\ IsFiniteSet(AllOf(g))
      /\ Cardinality(AllOf(g)) + Packets(f[c]) = Cardinality(AllOf(f)) + Packets(g[c])
    BY <1>1, <1>2, <1>3, <1>6, OneChanged
<1>8. QED
    BY <1>4, <1>5, <1>7, FS_CardinalityType

(* Nothing but the server thread's end of a session leaves a mailbox behind. *)
LEMMA SameLeft ==
    ASSUME UNCHANGED left
    PROVE  PacketLeft' = PacketLeft
BY DEF PacketLeft

(* A step that takes d packets from the pool puts as many into one mailbox. *)
LEMMA QueueGrows ==
    ASSUME Net, Net', PacketCounts, NEW c \in Conn, \A d \in Conn \ {c} : nc'[d].q = nc[d].q,
           UNCHANGED left, pool' + buf' + Packets(nc'[c].q) = pool + buf + Packets(nc[c].q)
    PROVE  PacketCounts'
<1>1. /\ IsFiniteSet(Packet') /\ Cardinality(Packet') \in Nat
      /\ Cardinality(Packet') + Packets(nc[c].q) = Cardinality(Packet) + Packets(nc'[c].q)
    BY OneQueue
<1>2. PacketLeft' = PacketLeft
    BY SameLeft
<1>3. /\ pool \in Nat /\ buf \in 0..1
      /\ Cardinality(Packet) \in Nat /\ Cardinality(PacketLeft) \in Nat
    BY CountsTyped
<1>4. pool' \in Nat /\ buf' \in 0..1
    BY DEF Net, Typed, KernelTyped, ServerTyped
<1>5. Packets(nc[c].q) \in Nat
    BY QueueTyped
<1>6. Packets(nc'[c].q) \in Nat
    BY PlacesFinite DEF Net, Typed, NetTyped, State, Message
<1>7. pool' + buf' + Cardinality(Packet') = pool + buf + Cardinality(Packet)
    BY <1>1, <1>3, <1>4, <1>5, <1>6
<1>8. pool' + buf' + Cardinality(Packet') + Cardinality(PacketLeft) = POOL
    BY <1>1, <1>3, <1>4, <1>7 DEF PacketCounts
<1>9. QED
    BY <1>1, <1>2, <1>8 DEF PacketCounts

LEMMA QueuesKept ==
    ASSUME PacketCounts, \A c \in Conn : nc'[c].q = nc[c].q, UNCHANGED <<left, pool, buf>>
    PROVE  PacketCounts'
BY SameQueues, SameLeft DEF PacketCounts

LEMMA PostedCounts ==
    ASSUME Net, NEW c \in Conn, NEW m \in Message
    PROVE  Packets(Posted(c, m)) = Packets(nc[c].q) + (IF Valid(c) /\ m # "end" THEN 1 ELSE 0)
<1>1. CASE Valid(c)
    <2>1. Posted(c, m) = Append(nc[c].q, m)
        BY <1>1 DEF Posted
    <2>2. QED
        BY <1>1, <2>1, QueueTyped, PacketsAppended
<1>2. CASE ~Valid(c)
    BY <1>2, QueueTyped DEF Posted
<1>3. QED
    BY <1>1, <1>2

LEMMA PostCounts ==
    ASSUME Net, Net', PacketCounts, NEW c \in Conn, NEW m \in Message,
           (\E k \in {"data", "quit"} : m = k /\ RecvData(c, k)) \/ (m = "end" /\ (RecvFin(c) \/ err_tcp(c)))
    PROVE  PacketCounts'
<1>1. \/ nc' = [nc EXCEPT ![c].q = Posted(c, m)]
      \/ nc' = [nc EXCEPT ![c] = [@ EXCEPT !.fin = TRUE, !.q = Posted(c, m)]]
      \/ nc' = [nc EXCEPT ![c] = [@ EXCEPT !.pcb = FALSE, !.err = TRUE, !.q = Posted(c, m)]]
    BY DEF RecvData, RecvFin, err_tcp
<1>2. PICK x : x = Posted(c, m)
    OBVIOUS
<1>3. nc \in [Conn -> State] /\ nc[c] \in State
    BY DEF Net, Typed, NetTyped
<1>4. \A d \in Conn \ {c} : nc'[d] = nc[d]
    BY <1>1, <1>3
<1>5. nc'[c].q = x
    <2>1. \/ nc'[c] = [nc[c] EXCEPT !.q = x]
          \/ nc'[c] = [nc[c] EXCEPT !.fin = TRUE, !.q = x]
          \/ nc'[c] = [nc[c] EXCEPT !.pcb = FALSE, !.err = TRUE, !.q = x]
        BY <1>1, <1>2, <1>3
    <2>2. QED
        BY <1>3, <2>1 DEF State
<1>6. Packets(x) = Packets(nc[c].q) + (IF Valid(c) /\ m # "end" THEN 1 ELSE 0)
    BY <1>2, PostedCounts
<1>7. UNCHANGED <<left, buf>> /\ pool' = IF Valid(c) /\ m # "end" THEN pool - 1 ELSE pool
    BY DEF RecvData, RecvFin, err_tcp, serverVars, kernelVars
<1>8. pool \in Nat /\ buf \in 0..1 /\ Packets(nc[c].q) \in Nat
    BY CountsTyped, QueueTyped
<1>9. pool' + buf' + Packets(nc'[c].q) = pool + buf + Packets(nc[c].q)
    BY <1>5, <1>6, <1>7, <1>8
<1>10. QED
    BY <1>4, <1>7, <1>9, QueueGrows

LEMMA ServedCounts ==
    ASSUME Net, Net', PacketCounts, NEW i \in Slot, RecvUses(i) \/ RecvQuit(i) \/ RecvEnd(i)
    PROVE  PacketCounts'
<1>1. slot[i] # NULL /\ pc = "serve" /\ UNCHANGED left
    BY DEF RecvUses, RecvQuit, RecvEnd, Receives, serverVars
<1>2. PICK c \in Conn : c = slot[i]
    BY <1>1, SlotTyped
<1>3. buf = 0 /\ pool \in Nat
    BY <1>1 DEF Net, Sessions, Typed, KernelTyped
<1>4. \/ UNCHANGED <<nc, pool, buf>>
      \/ /\ nc[c].q # <<>> /\ nc' = [nc EXCEPT ![c].q = Tail(@)]
         /\ pool' + buf' = pool + buf + (IF Head(nc[c].q) # "end" THEN 1 ELSE 0)
    BY <1>2, <1>3 DEF RecvUses, RecvQuit, RecvEnd, Taken, serverVars, kernelVars
<1>5. CASE UNCHANGED <<nc, pool, buf>>
    BY <1>1, <1>5, QueuesKept
<1>6. CASE /\ nc[c].q # <<>> /\ nc' = [nc EXCEPT ![c].q = Tail(@)]
           /\ pool' + buf' = pool + buf + (IF Head(nc[c].q) # "end" THEN 1 ELSE 0)
    <2>1. nc[c] \in State
        BY DEF Net, Typed, NetTyped
    <2>2. nc'[c] = [nc[c] EXCEPT !.q = Tail(@)] /\ \A d \in Conn \ {c} : nc'[d] = nc[d]
        BY <1>6 DEF Net, Typed, NetTyped
    <2>3. nc'[c].q = Tail(nc[c].q)
        BY <2>1, <2>2 DEF State
    <2>4. Packets(nc[c].q) = Packets(Tail(nc[c].q)) + (IF Head(nc[c].q) # "end" THEN 1 ELSE 0)
        BY <1>6, QueueTyped, PacketsTaken
    <2>5. Packets(Tail(nc[c].q)) \in Nat
        BY <2>3, PlacesFinite DEF Net, Typed, NetTyped, State, Message
    <2>6. pool' + buf' + Packets(nc'[c].q) = pool + buf + Packets(nc[c].q)
        BY <1>3, <1>6, <2>3, <2>4, <2>5
    <2>7. QED
        BY <1>1, <2>2, <2>6, QueueGrows
<1>7. QED
    BY <1>4, <1>5, <1>6

LEMMA QuietPackets ==
    ASSUME Net, Net', PacketCounts, Quiet
    PROVE  PacketCounts'
<1>1. CASE \E c \in Conn : \E m \in {"data", "quit"} : RecvData(c, m)
    BY <1>1, PostCounts DEF Message
<1>2. CASE \E c \in Conn : RecvFin(c) \/ err_tcp(c)
    BY <1>2, PostCounts DEF Message
<1>3. CASE \E i \in Slot : Accept(i)
    BY <1>3, QueuesKept DEF Accept, kernelVars
<1>4. CASE \E i \in Slot : RecvUses(i) \/ RecvQuit(i) \/ RecvEnd(i)
    BY <1>4, ServedCounts
<1>5. CASE Close
    <2>1. UNCHANGED <<left, pool, buf>>
        BY <1>5 DEF Close, kernelVars
    <2>2. PICK c \in Conn : nc' = [nc EXCEPT ![c].pcb = FALSE]
        BY <1>5 DEF Close, Net, Sessions
    <2>3. \A d \in Conn : nc'[d].q = nc[d].q
        BY <2>2 DEF Net, Typed, NetTyped, State
    <2>4. QED
        BY <2>1, <2>3, QueuesKept
<1>6. QED
    BY <1>1, <1>2, <1>3, <1>4, <1>5 DEF Quiet

LEMMA DrainPackets ==
    ASSUME Net, Net', PacketCounts, Drain
    PROVE  PacketCounts'
<1>1. PICK c \in Conn : c = slot[cur]
    BY DEF Drain, Net, Sessions
<1>2. UNCHANGED <<left, buf>>
    BY DEF Drain
<1>3. CASE Valid(c)
    <2>1. /\ nc' = [nc EXCEPT ![c] = [@ EXCEPT !.recvmbox = NULL, !.q = <<>>]]
          /\ pool' = pool + Packets(nc[c].q)
        BY <1>1, <1>3 DEF Drain, Drained
    <2>2. nc[c] \in State
        BY DEF Net, Typed, NetTyped
    <2>3. /\ nc'[c] = [nc[c] EXCEPT !.recvmbox = NULL, !.q = <<>>]
          /\ \A d \in Conn \ {c} : nc'[d] = nc[d]
        BY <2>1 DEF Net, Typed, NetTyped
    <2>4. nc'[c].q = <<>>
        BY <2>2, <2>3 DEF State
    <2>5. pool \in Nat /\ buf \in 0..1 /\ Packets(nc[c].q) \in Nat /\ Packets(nc'[c].q) = 0
        BY <2>4, CountsTyped, QueueTyped, PacketsEmpty
    <2>6. pool' + buf' + Packets(nc'[c].q) = pool + buf + Packets(nc[c].q)
        BY <1>2, <2>1, <2>5
    <2>7. QED
        BY <1>2, <2>3, <2>6, QueueGrows
<1>4. CASE ~Valid(c)
    <2>1. UNCHANGED <<nc, pool>>
        BY <1>1, <1>4 DEF Drain, kernelVars
    <2>2. QED
        BY <1>2, <2>1, QueuesKept
<1>5. QED
    BY <1>3, <1>4

(* the packets of one mailbox left behind *)
LEMMA NumberedCount ==
    ASSUME NEW r, NEW n \in Nat
    PROVE  IsFiniteSet({<<r, k>> : k \in 1..n}) /\ Cardinality({<<r, k>> : k \in 1..n}) = n
<1> DEFINE S == {<<r, k>> : k \in 1..n}
           f == [k \in 1..n |-> <<r, k>>]
<1>1. f \in [1..n -> S] /\ (\A a, b \in 1..n : f[a] = f[b] => a = b)
      /\ \A t \in S : \E a \in 1..n : f[a] = t
    OBVIOUS
<1>2. IsFiniteSet(1..n) /\ Cardinality(1..n) = n
    BY FS_Interval
<1> HIDE DEF f, S
<1>3. IsFiniteSet(S) /\ Cardinality(S) = n
    BY <1>1, <1>2, SameCount
<1>4. QED
    BY <1>3 DEF S

(* netconn_free forgets a mailbox that netconn_drain passed over: its packets are *)
(* left behind with it.                                                          *)
LEMMA FreePackets ==
    ASSUME Net, Net', Own, PacketCounts, Free
    PROVE  PacketCounts'
<1>1. PICK c \in Conn : c = slot[cur]
    BY DEF Free, Net, Sessions
<1>2. PICK n : n = Packets(nc[c].q)
    OBVIOUS
<1>3. /\ nc' = [nc EXCEPT ![c] = NoConn] /\ pool' = pool + buf /\ buf' = 0
      /\ left' = left \cup {<<b, n>> : b \in {nc[c].recvmbox} \ {NULL}}
    BY <1>1, <1>2 DEF Free
<1>4. nc'[c] = NoConn /\ \A d \in Conn \ {c} : nc'[d] = nc[d]
    BY <1>3 DEF Net, Typed, NetTyped
<1>5. nc'[c].q = <<>>
    BY <1>4 DEF NoConn
<1>6. n \in Nat /\ Packets(nc'[c].q) = 0
    BY <1>2, <1>5, QueueTyped, PacketsEmpty
<1>7. /\ IsFiniteSet(Packet') /\ Cardinality(Packet') \in Nat
      /\ Cardinality(Packet') + n = Cardinality(Packet)
    <2>1. \A d \in Conn \ {c} : nc'[d].q = nc[d].q
        BY <1>4
    <2>2. /\ IsFiniteSet(Packet') /\ Cardinality(Packet') \in Nat
          /\ Cardinality(Packet') + Packets(nc[c].q) = Cardinality(Packet) + Packets(nc'[c].q)
        BY <2>1, OneQueue
    <2>3. QED
        BY <1>2, <1>6, <2>2, CountsTyped
<1>8. IsFiniteSet(PacketLeft') /\ Cardinality(PacketLeft') = Cardinality(PacketLeft) + n
    <2>1. CASE nc[c].recvmbox = NULL
        <3>1. n = 0
            BY <1>2, <2>1, PacketsEmpty DEF Net, Netconns
        <3>2. left' = left
            BY <1>3, <2>1
        <3>3. QED
            BY <3>1, <3>2, SameLeft, CountsTyped DEF PacketCounts
    <2>2. CASE nc[c].recvmbox # NULL
        <3>1. PICK r : r = nc[c].recvmbox
            OBVIOUS
        <3>2. left' = left \cup {<<r, n>>}
            BY <1>3, <2>2, <3>1
        <3> DEFINE New == {<<r, k>> : k \in 1..n}
        <3>3. PacketLeft' = PacketLeft \cup New
            <4>1. PICK l : l = <<r, n>>
                OBVIOUS
            <4>2. l[1] = r /\ l[2] = n /\ left' = left \cup {l}
                BY <3>2, <4>1
            <4>3. \A x : x \in PacketLeft' <=> x \in PacketLeft \/ \E k \in 1..l[2] : x = <<l[1], k>>
                BY <4>2 DEF PacketLeft
            <4>4. \A x : x \in PacketLeft' <=> x \in PacketLeft \/ x \in New
                BY <4>2, <4>3
            <4>5. QED
                BY <4>4
        <3>4. \A l \in left : l[1] # r
            BY <2>2, <3>1 DEF Own
        <3>5. PacketLeft \cap New = {}
            <4>1. \A x \in PacketLeft : \E l \in left : x[1] = l[1]
                BY DEF PacketLeft
            <4>2. \A x \in New : x[1] = r
                OBVIOUS
            <4>3. QED
                BY <3>4, <4>1, <4>2
        <3>6. IsFiniteSet(New) /\ Cardinality(New) = n
            BY <1>6, NumberedCount
        <3> HIDE DEF New
        <3>7. Cardinality(PacketLeft \cap New) = 0
            BY <3>5, FS_EmptySet, SMTT(20)
        <3>8. /\ IsFiniteSet(PacketLeft \cup New)
              /\ Cardinality(PacketLeft \cup New)
                    = Cardinality(PacketLeft) + Cardinality(New) - Cardinality(PacketLeft \cap New)
            BY <3>6, FS_Union DEF PacketCounts
        <3>9. QED
            BY <1>6, <3>3, <3>6, <3>7, <3>8, CountsTyped
    <2>3. QED
        BY <2>1, <2>2
<1>9. pool' + buf' + Cardinality(Packet') + Cardinality(PacketLeft') = POOL
    BY <1>3, <1>6, <1>7, <1>8, CountsTyped DEF PacketCounts
<1>10. QED
    BY <1>7, <1>8, <1>9 DEF PacketCounts

LEMMA AllocPackets ==
    ASSUME Net, PacketCounts, CanAlloc, NEW c \in Conn, netconn_alloc(c, "new"),
           UNCHANGED <<left, pool, buf>>
    PROVE  PacketCounts'
<1>1. /\ nc[c].st = "free" /\ nc'[c].q = <<>> /\ \A d \in Conn \ {c} : nc'[d] = nc[d]
    BY AllocNet
<1>2. nc[c].q = <<>>
    BY <1>1 DEF Net, Netconns
<1>3. QED
    BY <1>1, <1>2, QueuesKept

LEMMA RunningPackets ==
    ASSUME Net, Net', Own, PacketCounts, Running
    PROVE  PacketCounts'
<1>1. CASE NetconnNew
    <2>1. UNCHANGED <<left, pool, buf>> /\ CanAlloc /\ \E c \in Conn : netconn_alloc(c, "new")
        BY <1>1 DEF NetconnNew
    <2>2. QED
        BY <2>1, AllocPackets
<1>2. CASE accept_function
    <2>1. UNCHANGED <<left, pool, buf>> /\ CanAlloc /\ \E c \in Conn : netconn_alloc(c, "new")
        BY <1>2 DEF accept_function, serverVars
    <2>2. QED
        BY <2>1, AllocPackets
<1>3. CASE ListenFrees
    <2>1. nc' = [nc EXCEPT ![Listener].recvmbox = NULL] /\ UNCHANGED <<left, pool, buf>>
        BY <1>3 DEF ListenFrees
    <2>2. Listener \in Conn
        BY <1>3, OnlyListener DEF ListenFrees
    <2>3. \A d \in Conn : nc'[d].q = nc[d].q
        BY <2>1, <2>2 DEF Net, Typed, NetTyped, State
    <2>4. QED
        BY <2>1, <2>3, QueuesKept
<1>4. CASE do_listen
    <2>1. PICK p \in Block : nc' = [nc EXCEPT ![Listener] = [@ EXCEPT !.st = "listen", !.acceptmbox = p]]
        BY <1>4 DEF do_listen
    <2>2. Listener \in Conn /\ UNCHANGED <<left, pool, buf>>
        BY <1>4, OnlyListener DEF do_listen
    <2>3. \A d \in Conn : nc'[d].q = nc[d].q
        BY <2>1, <2>2 DEF Net, Typed, NetTyped, State
    <2>4. QED
        BY <2>2, <2>3, QueuesKept
<1>5. QED
    BY <1>1, <1>2, <1>3, <1>4, QuietPackets, DrainPackets, FreePackets DEF Running

LEMMA TcpipInitPackets ==
    ASSUME Net, StartInv, TcpipInit
    PROVE  PacketCounts'
<1>1. step = 9 /\ step < 10 /\ UNCHANGED <<nc, left, pool, buf>>
    BY DEF TcpipInit, serverVars
<1>2. pool' = POOL /\ buf' = 0 /\ left' = {} /\ \A c \in Conn : nc'[c].q = <<>>
    BY <1>1 DEF StartInv, Idle, NoConn
<1>3. Packet' = {} /\ PacketLeft' = {}
    BY <1>2 DEF Packet, PacketLeft
<1>4. IsFiniteSet({}) /\ Cardinality({}) = 0
    BY FS_EmptySet
<1>5. QED
    BY <1>2, <1>3, <1>4, NetconnAssumption DEF PacketCounts

-------------------------------------------------------------------------------
(* What is counted, from the moment the tasks run. *)
Counts == step = 10 => EventCounts /\ PacketCounts

LEMMA CountsStep == NInv /\ Counts /\ [Next]_vars => Counts'
<1> SUFFICES ASSUME NInv, Counts, [Next]_vars PROVE Counts'
    OBVIOUS
<1>0. PInv /\ Net /\ StartInv /\ Boxes /\ NInv'
    BY NInvStep DEF NInv
<1>1. Net'
    BY <1>0 DEF NInv
<1>2. CASE StartAlloc \/ StartFree
    BY <1>0, <1>2, StartPools DEF Counts
<1>3. CASE TcpipInit
    BY <1>0, <1>3, TcpipInitCounts, TcpipInitPackets DEF Counts
<1>4. CASE Running
    <2>1. step = 10
        BY <1>0, <1>4, RunningWhen
    <2>2. Own /\ EventCounts /\ PacketCounts
        BY <1>0, <2>1 DEF Boxes, Counts
    <2>3. QED
        BY <1>0, <1>1, <1>4, <2>2, RunningCounts, RunningPackets DEF Counts
<1>5. CASE UNCHANGED vars
    <2>1. UNCHANGED <<step, nc, left, pool, buf, events, queues, tcpip_mbox>>
        BY <1>5 DEF vars, startVars, kernelVars, serverVars
    <2>2. Areas' = Areas /\ Semaphores' = Semaphores /\ Packet' = Packet /\ PacketLeft' = PacketLeft
        BY <2>1 DEF Areas, Mailboxes, Semaphores, Packet, PacketLeft
    <2>3. QED
        BY <2>1, <2>2 DEF Counts, EventCounts, PacketCounts
<1>6. QED
    BY <1>2, <1>3, <1>4, <1>5, NextIs

LEMMA CountsHold == Spec => [](NInv /\ Counts)
<1>1. Init => NInv /\ Counts
    BY NInvInit DEF Init, Counts
<1>2. NInv /\ Counts /\ [Next]_vars => (NInv /\ Counts)'
    BY NInvStep, CountsStep
<1>3. QED
    BY <1>1, <1>2, PTL DEF Spec

(* For any number of netconns, blocks, events, queues and packets: however        *)
(* connections end, are refused or meet a full mailbox, the only thing the        *)
(* network loses is a mailbox that netconn_drain passes over (api_msg.c,          *)
(* sys_arch.c).                                                                  *)
THEOREM NothingElseEverLeaks == Spec => []NothingElseLeaks
<1>1. NInv /\ Counts => NothingElseLeaks
    <2>1. SUFFICES ASSUME NInv, Counts, step = 10
                   PROVE  /\ live = {ptr[k] : k \in 1..8} \cup Areas
                          /\ queues = QS - Cardinality(Areas)
                          /\ events = EVENTS - Cardinality(Areas) - Cardinality(Semaphores)
                          /\ pool + buf + Cardinality(Packet) + Cardinality(PacketLeft) = POOL
        BY DEF NothingElseLeaks
    <2>2. QED
        BY <2>1 DEF NInv, Boxes, Counts, Own, Buffers, EventCounts, PacketCounts
<1>2. QED
    BY <1>1, CountsHold, PTL

(* The counts stay within what the kernel and the pool have, because they are    *)
(* what is left of it.                                                           *)
THEOREM NetconnTypeCorrect == Spec => []TypeOK
<1>1. NInv /\ Counts => TypeOK
    <2> SUFFICES ASSUME NInv, Counts PROVE TypeOK
        OBVIOUS
    <2>1. PInv /\ Net /\ StartInv
        BY DEF NInv
    <2>2. events \in 0..EVENTS /\ queues \in 0..QS /\ pool \in 0..POOL
        <3>1. events \in Nat /\ queues \in Nat /\ pool \in Nat
            BY <2>1 DEF Net, Typed, KernelTyped
        <3>2. CASE step = 10
            <4>1. EventCounts /\ PacketCounts
                BY <3>2 DEF Counts
            <4>2. Cardinality(Areas) \in Nat /\ Cardinality(Semaphores) \in Nat
                BY <4>1, SemaphoresFinite, FS_CardinalityType DEF EventCounts
            <4>3. buf \in 0..1 /\ Cardinality(Packet) \in Nat /\ Cardinality(PacketLeft) \in Nat
                BY <2>1, <4>1, CountsTyped
            <4>4. QED
                BY <3>1, <4>1, <4>2, <4>3, NetconnAssumption DEF EventCounts, PacketCounts
        <3>3. CASE step # 10
            <4>1. events = EVENTS /\ queues = QS /\ pool = POOL
                BY <2>1, <3>3 DEF StartInv, Idle, Net, Typed, StartTyped
            <4>2. QED
                BY <3>1, <4>1
        <3>4. QED
            BY <3>2, <3>3
    <2>3. left \subseteq Block \X (0..POOL)
        <3>1. CASE step # 10
            BY <2>1, <3>1 DEF StartInv, Idle, Net, Typed, StartTyped
        <3>2. CASE step = 10
            <4>1. PacketCounts
                BY <3>2 DEF Counts
            <4>2. Cardinality(PacketLeft) <= POOL
                BY <2>1, <4>1, CountsTyped, NetconnAssumption DEF PacketCounts
            <4>3. ASSUME NEW l \in left
                  PROVE  l[1] \in Block /\ l[2] \in 0..POOL /\ l = <<l[1], l[2]>>
                <5>1. l \in Block \X Nat
                    BY <2>1 DEF Net, Typed, ServerTyped
                <5>2. PICK n \in Nat, r \in Block : n = l[2] /\ r = l[1]
                    BY <5>1
                <5>3. {<<r, k>> : k \in 1..n} \subseteq PacketLeft
                    BY <5>2 DEF PacketLeft
                <5>4. Cardinality({<<r, k>> : k \in 1..n}) = n
                    BY NumberedCount
                <5>5. n <= Cardinality(PacketLeft)
                    BY <4>1, <5>3, <5>4, FS_Subset DEF PacketCounts
                <5>6. Cardinality(PacketLeft) \in Nat
                    BY <2>1, <4>1, CountsTyped
                <5>7. QED
                    BY <4>2, <5>1, <5>2, <5>5, <5>6, NetconnAssumption
            <4>4. QED
                BY <4>3
        <3>3. QED
            BY <3>1, <3>2
    <2>4. nc \in [Conn -> State] /\ \A c \in Conn : Len(nc[c].q) <= MBOX
        BY <2>1 DEF Net, Typed, NetTyped
    <2>5. QED
        BY <2>1, <2>2, <2>3, <2>4 DEF TypeOK, PInv, Net, Typed, StartTyped, ServerTyped, State
<1>2. QED
    BY <1>1, CountsHold, PTL

-------------------------------------------------------------------------------
(* Room. Below the buffers of the start-up only mailboxes are allocated, all of    *)
(* one size and each as high as it fits: they lie on a grid of cells of TQ blocks, *)
(* and a mailbox that goes leaves a hole the next one fits.                       *)
Top == BLOCKS - Total

OnGrid(a) == \E k \in Nat \ {0} : a = Top - k * TQ

Covers(a, i) == a <= i /\ i < a + TQ

Grid ==
    /\ Total <= BLOCKS
    /\ \A a \in Areas : memmap[a] = TQ /\ OnGrid(a)
    /\ \A i \in Block : memmap[i] = 0 <=> i < Top /\ \A a \in Areas : ~Covers(a, i)

LEMMA TimesStep ==
    ASSUME NEW j \in Nat, NEW k \in Nat, NEW t \in Nat, j < k
    PROVE  j * t + t <= k * t /\ j * t \in Nat
<1>1. PICK n \in Nat : k = j + 1 + n
    <2>1. k - j - 1 \in Nat
        OBVIOUS
    <2>2. k = j + 1 + (k - j - 1)
        OBVIOUS
    <2>3. QED
        BY <2>1, <2>2
<1>2. k * t = j * t + t + n * t
    BY <1>1
<1>3. n * t \in Nat /\ j * t \in Nat
    OBVIOUS
<1>4. QED
    BY <1>2, <1>3

LEMMA Divided ==
    ASSUME NEW d \in Nat, NEW t \in Nat \ {0}
    PROVE  \E k \in Nat, r \in 0..t-1 : d = k * t + r
<1>1. d \div t \in Nat /\ d % t \in 0..t-1
    OBVIOUS
<1>2. d = t * (d \div t) + (d % t)
    OBVIOUS
<1>3. QED
    BY <1>1, <1>2

LEMMA TopTyped ==
    ASSUME Net
    PROVE  Top \in Int /\ Total \in Nat /\ TQ \in Nat /\ TQ >= 1 /\ BLOCKS \in Nat
BY SizesTyped, NetconnAssumption, PoolAssumption DEF Top

(* Two cells that overlap are one, and all lie below the buffers. *)
LEMMA GridNear ==
    ASSUME Net, NEW a \in Int, NEW b \in Int, OnGrid(a), OnGrid(b), a < b + TQ, b < a + TQ
    PROVE  a = b
<1>1. PICK j \in Nat : a = Top - j * TQ
    BY DEF OnGrid
<1>2. PICK k \in Nat : b = Top - k * TQ
    BY DEF OnGrid
<1>3. j * TQ \in Int /\ k * TQ \in Int
    BY TopTyped
<1>4. CASE j < k
    <2>1. j * TQ + TQ <= k * TQ
        BY <1>4, TopTyped, TimesStep
    <2>2. QED
        BY <1>1, <1>2, <1>3, <2>1, TopTyped
<1>5. CASE k < j
    <2>1. k * TQ + TQ <= j * TQ
        BY <1>5, TopTyped, TimesStep
    <2>2. QED
        BY <1>1, <1>2, <1>3, <2>1, TopTyped
<1>6. QED
    BY <1>1, <1>2, <1>4, <1>5

LEMMA GridBelow ==
    ASSUME Net, NEW a \in Int, OnGrid(a)
    PROVE  a + TQ <= Top
<1>1. PICK k \in Nat \ {0} : a = Top - k * TQ
    BY DEF OnGrid
<1>2. 0 * TQ + TQ <= k * TQ /\ k * TQ \in Int /\ 0 * TQ = 0
    BY TopTyped, TimesStep
<1>3. QED
    BY <1>1, <1>2, TopTyped

(* A place off the grid reaches into the cell above. *)
LEMMA GridAbove ==
    ASSUME Net, NEW p \in Int, p + TQ <= Top, ~OnGrid(p)
    PROVE  \E s \in Int : OnGrid(s) /\ p < s /\ s < p + TQ
<1>1. Top - p \in Nat
    BY TopTyped
<1>2. PICK k \in Nat, r \in 0..TQ-1 : Top - p = k * TQ + r
    BY <1>1, TopTyped, NetconnAssumption, Divided
<1>3. k * TQ \in Int
    BY TopTyped
<1>4. k # 0
    <2>1. 0 * TQ = 0
        BY TopTyped
    <2>2. QED
        BY <1>2, <2>1, TopTyped
<1>5. r # 0
    <2>1. ASSUME r = 0 PROVE FALSE
        <3>1. p = Top - k * TQ
            BY <1>2, <1>3, <2>1, TopTyped
        <3>2. QED
            BY <1>4, <3>1 DEF OnGrid
    <2>2. QED
        BY <2>1
<1>6. PICK s \in Int : s = Top - k * TQ
    BY <1>3, TopTyped
<1>7. OnGrid(s)
    BY <1>4, <1>6 DEF OnGrid
<1>8. s = p + r
    BY <1>2, <1>3, <1>6, TopTyped
<1>9. QED
    BY <1>5, <1>7, <1>8, TopTyped

LEMMA AreasInt ==
    ASSUME PInv, Own
    PROVE  \A a \in Areas : a \in live /\ a \in Block /\ a \in Int /\ a >= 0
BY PoolAssumption DEF Own, PInv, PoolTypeOK, Block

(* The place that mymalloc finds is on the grid, or the cell it reaches into       *)
(* would be free and higher.                                                     *)
LEMMA FoundOnGrid ==
    ASSUME PInv, Net, Own, Grid, NEW p \in Block, Found(TQ, p)
    PROVE  OnGrid(p)
<1>1. SUFFICES ASSUME ~OnGrid(p) PROVE FALSE
    OBVIOUS
<1>2. p \in Int /\ p >= 0 /\ p + TQ <= BLOCKS /\ \A i \in p..p+TQ-1 : memmap[i] = 0
    BY PoolAssumption DEF Found, Fits, Block
<1>3. \A i \in p..p+TQ-1 : i \in Block
    BY <1>2, TopTyped DEF Block
<1>4. p + TQ <= Top
    <2>1. p + TQ - 1 \in p..p+TQ-1
        BY <1>2, TopTyped
    <2>2. p + TQ - 1 < Top
        BY <1>2, <1>3, <2>1 DEF Grid
    <2>3. QED
        BY <1>2, <2>2, TopTyped
<1>5. PICK s \in Int : OnGrid(s) /\ p < s /\ s < p + TQ
    BY <1>1, <1>2, <1>4, GridAbove
<1>6. s + TQ <= Top /\ Top <= BLOCKS
    BY <1>5, GridBelow, TopTyped DEF Top
<1>7. s \in Block
    BY <1>2, <1>5, <1>6, TopTyped DEF Block
<1>8. \A a \in Areas : ~Covers(a, s)
    <2>1. s \in p..p+TQ-1
        BY <1>2, <1>5, TopTyped
    <2>2. memmap[s] = 0
        BY <1>2, <2>1
    <2>3. QED
        BY <1>7, <2>2 DEF Grid
<1>9. ASSUME NEW i \in s..s+TQ-1
      PROVE  memmap[i] = 0
    <2>1. i \in Block /\ i \in Int /\ i < Top
        BY <1>2, <1>5, <1>6, TopTyped DEF Block
    <2>2. ASSUME NEW a \in Areas, Covers(a, i)
          PROVE  FALSE
        <3>1. a \in Int /\ OnGrid(a)
            BY AreasInt DEF Grid
        <3>2. a < s + TQ /\ s < a + TQ
            BY <2>1, <2>2, <3>1, TopTyped DEF Covers
        <3>3. a = s
            BY <1>5, <3>1, <3>2, GridNear
        <3>4. Covers(a, s)
            BY <3>1, <3>3, TopTyped DEF Covers
        <3>5. QED
            BY <1>8, <3>4
    <2>3. QED
        BY <2>1, <2>2 DEF Grid
<1>10. Fits(TQ, s)
    BY <1>6, <1>7, <1>9, TopTyped DEF Fits
<1>11. s <= p
    BY <1>7, <1>10 DEF Found
<1>12. QED
    BY <1>2, <1>5, <1>11

LEMMA TakesKeepsGrid ==
    ASSUME PInv, Net, Own, Grid, NEW p \in Block, Takes(p), UNCHANGED sizes
    PROVE  Grid'
<1>1. /\ p \notin live /\ Found(TQ, p)
      /\ memmap'[p] = TQ /\ \A q \in live : memmap'[q] = memmap[q]
    BY BoxGiven DEF Takes
<1>2. Areas' = Areas \cup {p}
    BY DEF Takes
<1>3. Total' = Total /\ Top' = Top
    BY DEF Top, Total, FirstPart, SecondPart
<1>4. OnGrid(p)
    BY <1>1, FoundOnGrid
<1>5. \A a \in Areas' : memmap'[a] = TQ /\ OnGrid(a)
    BY <1>1, <1>2, <1>4, AreasInt DEF Grid
<1>6. p \in Int
    BY PoolAssumption DEF Block
<1>7. ASSUME NEW i \in Block
      PROVE  memmap'[i] = 0 <=> i < Top /\ \A a \in Areas' : ~Covers(a, i)
    <2>1. i \in Int /\ memmap'[i] = IF i \in p..p+TQ-1 THEN TQ ELSE memmap[i]
        BY PoolAssumption DEF Takes, mymalloc, Block
    <2>2. i \in p..p+TQ-1 <=> Covers(p, i)
        BY <1>6, <2>1, TopTyped DEF Covers
    <2>3. CASE Covers(p, i)
        BY <1>2, <2>1, <2>2, <2>3, TopTyped
    <2>4. CASE ~Covers(p, i)
        <3>1. memmap'[i] = memmap[i]
            BY <2>1, <2>2, <2>4
        <3>2. QED
            BY <1>2, <2>4, <3>1 DEF Grid
    <2>5. QED
        BY <2>3, <2>4
<1>8. QED
    BY <1>3, <1>5, <1>7 DEF Grid, OnGrid, Covers

LEMMA GivesBackKeepsGrid ==
    ASSUME PInv, Net, Own, Grid, NEW x \in Block, GivesBack(x), UNCHANGED sizes
    PROVE  Grid'
<1>1. x \in Areas /\ x \in live /\ myfree(x) /\ Areas' = Areas \ {x} /\ x \in Int
    BY AreasInt DEF GivesBack
<1>2. Total' = Total /\ Top' = Top
    BY DEF Top, Total, FirstPart, SecondPart
<1>3. \A q \in live \ {x} : memmap'[q] = memmap[q]
    BY <1>1, AfterFree
<1>4. \A a \in Areas' : memmap'[a] = TQ /\ OnGrid(a)
    BY <1>1, <1>3, AreasInt DEF Grid
<1>5. memmap[x] = TQ /\ OnGrid(x)
    BY <1>1 DEF Grid
<1>6. ASSUME NEW i \in Block
      PROVE  memmap'[i] = 0 <=> i < Top /\ \A a \in Areas' : ~Covers(a, i)
    <2>1. i \in Int /\ memmap'[i] = IF i \in x..x+TQ-1 THEN 0 ELSE memmap[i]
        BY <1>1, <1>5, PoolAssumption DEF myfree, Freed, Block
    <2>2. i \in x..x+TQ-1 <=> Covers(x, i)
        BY <1>1, <2>1, TopTyped DEF Covers
    <2>3. CASE Covers(x, i)
        <3>1. i < Top
            <4>1. x + TQ <= Top
                BY <1>1, <1>5, GridBelow
            <4>2. QED
                BY <1>1, <2>1, <2>3, <4>1, TopTyped DEF Covers
        <3>2. ASSUME NEW a \in Areas', Covers(a, i)
              PROVE  FALSE
            <4>1. a \in Areas /\ a # x /\ a \in Int /\ OnGrid(a)
                BY <1>1, AreasInt DEF Grid
            <4>2. a < x + TQ /\ x < a + TQ
                BY <1>1, <2>1, <2>3, <3>2, <4>1, TopTyped DEF Covers
            <4>3. QED
                BY <1>1, <1>5, <4>1, <4>2, GridNear
        <3>3. QED
            BY <2>1, <2>2, <2>3, <3>1, <3>2
    <2>4. CASE ~Covers(x, i)
        <3>1. memmap'[i] = memmap[i]
            BY <2>1, <2>2, <2>4
        <3>2. \A a \in Areas : ~Covers(a, i) <=> a = x \/ ~Covers(a, i)
            BY <2>4
        <3>3. QED
            BY <1>1, <2>4, <3>1 DEF Grid
    <2>5. QED
        BY <2>3, <2>4
<1>7. QED
    BY <1>2, <1>4, <1>6 DEF Grid, OnGrid, Covers

LEMMA UsesKeepGrid ==
    ASSUME PInv, Net, Own, Grid, Uses, UNCHANGED sizes
    PROVE  Grid'
<1>1. CASE Keeps
    <2>1. Areas' = Areas /\ memmap' = memmap
        BY <1>1 DEF Keeps, poolVars
    <2>2. Total' = Total /\ Top' = Top
        BY DEF Top, Total, FirstPart, SecondPart
    <2>3. QED
        BY <2>1, <2>2 DEF Grid, OnGrid, Covers
<1>2. QED
    BY <1>1, TakesKeepsGrid, GivesBackKeepsGrid DEF Uses

Gridded == step = 10 => Grid

LEMMA GriddedStep == NInv /\ Gridded /\ [Next]_vars => Gridded'
<1> SUFFICES ASSUME NInv, Gridded, [Next]_vars PROVE Gridded'
    OBVIOUS
<1>0. PInv /\ Net /\ StartInv /\ Boxes
    BY DEF NInv
<1>1. CASE StartAlloc \/ StartFree
    BY <1>0, <1>1, StartPools DEF Gridded
<1>2. CASE TcpipInit
    <2>1. /\ Own /\ Areas = {} /\ Total <= BLOCKS /\ Uses
          /\ \A i \in Block : i < BLOCKS - Total <=> memmap[i] = 0
        BY <1>0, <1>2, TcpipInitOwns
    <2>2. Grid
        BY <2>1 DEF Grid, Top
    <2>3. UNCHANGED sizes
        BY <1>2 DEF TcpipInit
    <2>4. QED
        BY <1>0, <2>1, <2>2, <2>3, UsesKeepGrid DEF Gridded
<1>3. CASE Running
    <2>1. step = 10 /\ UNCHANGED sizes
        BY <1>0, <1>3, RunningWhen DEF startVars
    <2>2. Own /\ Grid
        BY <1>0, <2>1 DEF Boxes, Gridded
    <2>3. Uses
        BY <1>0, <1>3, <2>2, RunningUses
    <2>4. QED
        BY <1>0, <2>1, <2>2, <2>3, UsesKeepGrid DEF Gridded
<1>4. CASE UNCHANGED vars
    <2>1. UNCHANGED <<step, sizes, memmap, nc, left, tcpip_mbox>>
        BY <1>4 DEF vars, startVars, serverVars, poolVars
    <2>2. Areas' = Areas /\ Total' = Total /\ Top' = Top
        BY <2>1 DEF Areas, Mailboxes, Top, Total, FirstPart, SecondPart
    <2>3. QED
        BY <2>1, <2>2 DEF Gridded, Grid, OnGrid, Covers
<1>5. QED
    BY <1>1, <1>2, <1>3, <1>4, NextIs

(* Fewer areas than cells: one of the cells is free. *)
LEMMA FreeCell ==
    ASSUME PInv, Net, Own, Grid, IsFiniteSet(Areas), NEW n \in Nat \ {0},
           Cardinality(Areas) < n, Total + n * TQ <= BLOCKS
    PROVE  \E p \in Block : Fits(TQ, p)
<1> DEFINE cell == [k \in 1..n |-> Top - k * TQ]
           Filled == {cell[k] : k \in 1..n}
<1>1. \A k \in 1..n : cell[k] = Top - k * TQ /\ k * TQ \in Int /\ cell[k] \in Int
    BY TopTyped
<1>2. \A k \in 1..n : OnGrid(cell[k])
    BY <1>1 DEF OnGrid
<1>3. ASSUME NEW k \in 1..n
      PROVE  cell[k] >= 0 /\ cell[k] + TQ <= Top /\ Top <= BLOCKS
    <2>1. k * TQ <= n * TQ
        <3>1. CASE k = n
            BY <1>1, <3>1
        <3>2. CASE k < n
            <4>1. k * TQ + TQ <= n * TQ
                BY <3>2, TopTyped, TimesStep
            <4>2. n * TQ \in Int
                BY TopTyped
            <4>3. QED
                BY <1>1, <4>1, <4>2, TopTyped
        <3>3. QED
            BY <3>1, <3>2
    <2>2. cell[k] + TQ <= Top
        BY <1>1, <1>2, GridBelow
    <2>3. n * TQ \in Int
        BY TopTyped
    <2>4. QED
        BY <1>1, <2>1, <2>2, <2>3, TopTyped DEF Top
<1>4. \A j, k \in 1..n : cell[j] = cell[k] => j = k
    <2>1. SUFFICES ASSUME NEW j \in 1..n, NEW k \in 1..n, j < k
                   PROVE  cell[j] # cell[k]
        OBVIOUS
    <2>2. j * TQ + TQ <= k * TQ
        BY <2>1, TopTyped, TimesStep
    <2>3. QED
        BY <1>1, <2>2, TopTyped
<1> HIDE DEF cell
<1>5. IsFiniteSet(Filled) /\ Cardinality(Filled) = n
    <2>1. IsFiniteSet(1..n) /\ Cardinality(1..n) = n
        BY FS_Interval
    <2>2. cell \in [1..n -> Filled]
        BY DEF cell
    <2>3. \A t \in Filled : \E k \in 1..n : cell[k] = t
        OBVIOUS
    <2> HIDE DEF Filled
    <2>4. QED
        BY <1>4, <2>1, <2>2, <2>3, SameCount
<1>6. PICK k \in 1..n : cell[k] \notin Areas
    <2>1. ~(Filled \subseteq Areas)
        BY <1>5, FS_Subset, FS_CardinalityType
    <2>2. QED
        BY <2>1
<1>7. PICK s \in Int : s = cell[k]
    BY <1>1
<1>8. s \in Block /\ s + TQ <= Top /\ Top <= BLOCKS /\ OnGrid(s) /\ s \notin Areas
    BY <1>2, <1>3, <1>6, <1>7, TopTyped DEF Block
<1>9. ASSUME NEW i \in s..s+TQ-1
      PROVE  memmap[i] = 0
    <2>1. i \in Block /\ i \in Int /\ i < Top
        BY <1>8, TopTyped DEF Block
    <2>2. ASSUME NEW a \in Areas, Covers(a, i)
          PROVE  FALSE
        <3>1. a \in Int /\ OnGrid(a)
            BY AreasInt DEF Grid
        <3>2. a < s + TQ /\ s < a + TQ
            BY <2>1, <2>2, <3>1, TopTyped DEF Covers
        <3>3. QED
            BY <1>8, <3>1, <3>2, GridNear
    <2>3. QED
        BY <2>1, <2>2 DEF Grid
<1>10. Fits(TQ, s)
    BY <1>8, <1>9, TopTyped DEF Fits
<1>11. QED
    BY <1>8, <1>10

LEMMA OneMore ==
    ASSUME NEW S, IsFiniteSet(S), NEW x
    PROVE  /\ IsFiniteSet(S \cup {x}) /\ Cardinality(S \cup {x}) \in Nat
           /\ Cardinality(S \cup {x}) <= Cardinality(S) + 1
<1>1. Cardinality(S) \in Nat
    BY FS_CardinalityType
<1>2. CASE x \in S
    <2>1. S \cup {x} = S
        BY <1>2
    <2>2. IsFiniteSet(S \cup {x}) /\ Cardinality(S \cup {x}) = Cardinality(S)
        BY <2>1
    <2>3. QED
        BY <1>1, <2>2
<1>3. CASE x \notin S
    <2>1. IsFiniteSet(S \cup {x})
        BY FS_AddElement
    <2>2. Cardinality(S \cup {x}) = Cardinality(S) + 1
        BY <1>3, FS_AddElement
    <2>3. QED
        BY <1>1, <2>1, <2>2
<1>4. QED
    BY <1>2, <1>3

(* A listener, the connections, and nothing left behind: what they hold. *)
Connected == {c \in Conn : nc[c].st = "new"}

LEMMA FewHeld ==
    ASSUME Net, Serving, left = {}
    PROVE  /\ IsFiniteSet(Connected) /\ Cardinality(Connected) \in Nat
           /\ Semaphores = Conn \ Unused
           /\ Cardinality(Semaphores) = Cardinality(Connected) + 1
           /\ IsFiniteSet(Areas) /\ Cardinality(Areas) <= Cardinality(Connected) + 2
<1>1. PICK e \in Conn : nc[e].st = "listen"
    BY DEF Serving
<1>2. \A c \in Conn : nc[c].st = "listen" <=> c = e
    BY <1>1 DEF Net, Setup
<1>3. \A c \in Conn : nc[c].st \in {"free", "listen", "new"}
    BY DEF Net, Typed, NetTyped, State
<1>4. IsFiniteSet(Connected) /\ Cardinality(Connected) \in Nat
    BY FS_Subset, FS_CardinalityType, NetconnAssumption DEF Connected
<1>5. Semaphores = Connected \cup {e} /\ e \notin Connected
    BY <1>1, <1>2, <1>3 DEF Semaphores, Connected, Net, Netconns
<1>6. Semaphores = Conn \ Unused
    BY DEF Semaphores, Unused, Net, Netconns
<1>7. Cardinality(Semaphores) = Cardinality(Connected) + 1
    BY <1>4, <1>5, FS_AddElement
<1> DEFINE Received == {nc[c].recvmbox : c \in Connected}
           Two == {tcpip_mbox, nc[e].acceptmbox}
<1>8. IsFiniteSet(Received) /\ Cardinality(Received) <= Cardinality(Connected)
    <2> DEFINE f == [c \in Connected |-> nc[c].recvmbox]
    <2>1. f \in [Connected -> Received] /\ \A x \in Received : \E c \in Connected : f[c] = x
        OBVIOUS
    <2> HIDE DEF f, Received
    <2>2. f \in Surjection(Connected, Received)
        BY <2>1 DEF Surjection
    <2>3. QED
        BY <1>4, <2>2, FS_Surjection DEF ExistsSurjection
<1>9. PICK t, a : t = tcpip_mbox /\ a = nc[e].acceptmbox
    OBVIOUS
<1>10. IsFiniteSet(Received \cup Two) /\ Cardinality(Received \cup Two) <= Cardinality(Received) + 2
    <2>1. Received \cup Two = (Received \cup {t}) \cup {a}
        BY <1>9
    <2> HIDE DEF Two, Received
    <2>2. /\ IsFiniteSet(Received \cup {t}) /\ Cardinality(Received \cup {t}) \in Nat
          /\ Cardinality(Received \cup {t}) <= Cardinality(Received) + 1
        BY <1>8, OneMore
    <2> DEFINE One == Received \cup {t}
    <2> HIDE DEF One
    <2>3. /\ IsFiniteSet(One \cup {a}) /\ Cardinality(One \cup {a}) \in Nat
          /\ Cardinality(One \cup {a}) <= Cardinality(One) + 1
        BY <2>2, OneMore DEF One
    <2>4. Cardinality(Received) \in Nat
        BY <1>8, FS_CardinalityType
    <2>5. QED
        BY <2>1, <2>2, <2>3, <2>4 DEF One
<1>11. Areas \subseteq Received \cup Two
    <2>1. ASSUME NEW c \in Conn, nc[c].recvmbox # NULL
          PROVE  c \in Connected
        BY <1>3, <2>1 DEF Net, Netconns, Connected
    <2>2. ASSUME NEW c \in Conn, nc[c].acceptmbox # NULL
          PROVE  c = e
        BY <1>2, <2>2 DEF Net, Netconns
    <2>3. QED
        BY <2>1, <2>2, IsArea
<1> HIDE DEF Received, Two
<1>12. IsFiniteSet(Areas) /\ Cardinality(Areas) <= Cardinality(Received \cup Two)
    BY <1>10, <1>11, FS_Subset
<1>13. Cardinality(Received) \in Nat /\ Cardinality(Received \cup Two) \in Nat
       /\ Cardinality(Areas) \in Nat
    BY <1>8, <1>10, <1>12, FS_CardinalityType
<1>14. QED
    BY <1>4, <1>6, <1>7, <1>8, <1>10, <1>12, <1>13

(* What os_cfg.h, lwipopts.h and the buffers of a build that starts must leave for *)
(* the slots: the listener and tcpip_thread besides, and two events for each of    *)
(* the connections. The code has 7 events, 5 queues and 4 netconns for 2 slots.    *)
EnoughForSlots ==
    /\ IsFiniteSet(Slot) /\ Cardinality(Slot) + 1 <= Cardinality(Conn)
    /\ 2 * Cardinality(Slot) + 3 <= EVENTS /\ Cardinality(Slot) + 2 <= QS
    /\ \A s \in Sizes :
        LET blocks == s[1] + s[2] + s[3] + s[4] + s[5] + s[6] + s[7] + s[8] IN
        blocks <= BLOCKS => blocks + (Cardinality(Slot) + 2) * TQ <= BLOCKS

(* As long as no mailbox was left behind, there is room for a connection to every *)
(* slot, in whatever order they come and go: the pool does not fragment, and the   *)
(* numbers fixed in os_cfg.h are enough (netconn_alloc, sys_mbox_new, sys_sem_new). *)
THEOREM AlwaysRoomForSlots == ASSUME EnoughForSlots PROVE Spec => []RoomForSlots
<1>1. NInv /\ Counts /\ Gridded => RoomForSlots
    <2>1. SUFFICES ASSUME NInv, Counts, Gridded, Serving, left = {},
                          Cardinality(Connected) < Cardinality(Slot)
                   PROVE  CanAlloc
        BY DEF RoomForSlots, Connected
    <2>2. PInv /\ Net /\ StartInv
        BY <2>1 DEF NInv
    <2>3. step = 10
        BY <2>1, <2>2 DEF StartInv, Idle, NoConn, Serving, Net, Typed, StartTyped
    <2>4. Own /\ Grid /\ EventCounts
        BY <2>1, <2>3 DEF NInv, Boxes, Gridded, Counts
    <2>5. PICK s \in Nat : s = Cardinality(Slot)
        BY <2>1, FS_CardinalityType DEF EnoughForSlots
    <2>6. /\ IsFiniteSet(Connected) /\ Cardinality(Connected) \in Nat
          /\ Semaphores = Conn \ Unused
          /\ Cardinality(Semaphores) = Cardinality(Connected) + 1
          /\ IsFiniteSet(Areas) /\ Cardinality(Areas) <= Cardinality(Connected) + 2
        BY <2>1, <2>2, FewHeld
    <2>7. Cardinality(Areas) \in Nat /\ Cardinality(Areas) < s + 2 /\ Cardinality(Semaphores) <= s
        BY <2>1, <2>5, <2>6, FS_CardinalityType
    <2>8. Unused # {}
        <3>1. Cardinality(Conn) \in Nat /\ s + 1 <= Cardinality(Conn)
            BY <2>1, <2>5, NetconnAssumption, FS_CardinalityType DEF EnoughForSlots
        <3>2. Semaphores # Conn
            BY <2>6, <2>7, <3>1
        <3>3. QED
            BY <2>6, <3>2
    <2>9. events >= 2 /\ queues >= 1
        <3>1. 2 * s + 3 <= EVENTS /\ s + 2 <= QS
            BY <2>1, <2>5 DEF EnoughForSlots
        <3>2. events = EVENTS - Cardinality(Areas) - Cardinality(Semaphores)
              /\ queues = QS - Cardinality(Areas)
            BY <2>4 DEF EventCounts
        <3>3. Cardinality(Semaphores) \in Nat
            BY <2>6
        <3>4. QED
            BY <2>5, <2>7, <3>1, <3>2, <3>3, NetconnAssumption
    <2>10. \E p \in Block : Fits(TQ, p)
        <3>1. sizes \in Sizes /\ \A k \in 1..8 : sizes[k] \in Nat
            BY <2>2, SizesTyped DEF Net, Typed, StartTyped
        <3>2. Total = sizes[1] + sizes[2] + sizes[3] + sizes[4]
                        + sizes[5] + sizes[6] + sizes[7] + sizes[8]
            BY <3>1 DEF Total, FirstPart, SecondPart
        <3>3. Total + (s + 2) * TQ <= BLOCKS
            BY <2>1, <2>4, <2>5, <3>1, <3>2 DEF EnoughForSlots, Grid
        <3>4. s + 2 \in Nat \ {0}
            BY <2>5
        <3>5. QED
            BY <2>2, <2>4, <2>6, <2>7, <3>3, <3>4, FreeCell
    <2>11. QED
        BY <2>8, <2>9, <2>10 DEF CanAlloc
<1>2. Init => Gridded
    BY DEF Init, Gridded
<1>3. Spec => [](NInv /\ Counts /\ Gridded)
    BY <1>2, NInvInit, CountsHold, GriddedStep, PTL DEF Spec
<1>4. QED
    BY <1>1, <1>3, PTL
=============================================================================
