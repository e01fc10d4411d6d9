--------------------------- MODULE MainLoop_proofs ---------------------------
(* The watchdog and the loop of trafficlight_task, for any number of lights, any  *)
(* periods and limits and any bound on lateness for which a feeding period fits   *)
(* the watchdog's.                                                               *)
EXTENDS MainLoop, FiniteSetTheorems, TLAPS

(* The passes since the last feed, and the most time they can have taken. *)
Passes == IF at = "top" THEN (count % FEED) + 1 ELSE count % FEED

Bound(n) == n * (1 + LATE)

FedRecently == fed => pc = "done" /\ clock <= Bound(Passes)

(* After a second scan the count is that of one scan, and a second scan starts     *)
(* from zero.                                                                     *)
CountsOneScan == g_online_num <= P /\ (pc = "scan2" => g_online_num = 0)

(* Scan and loop, each with its types. *)
ScanOK == TypeOK /\ CountsOneScan

CountsOK ==
    /\ at \in {"top", "count", "delay"}
    /\ count \in 0..STUDY /\ g_network_count \in 0..LIMIT+1 /\ loaded \in 0..LIMIT+1
    /\ reset_num \in 0..1

FlagsOK == silent \in BOOLEAN /\ fed \in BOOLEAN

LoopOK == CountsOK /\ FlagsOK

LInv == ScanOK /\ LoopOK /\ FedRecently

-------------------------------------------------------------------------------
(* The types of the constants, without the products that make arithmetic hard. *)
LEMMA Types ==
    /\ P \in Nat \ {0} /\ WDOG \in Nat /\ SCAN \in Nat
    /\ FEED \in Nat \ {0} /\ STUDY \in Nat /\ LIMIT \in Nat /\ LATE \in Nat
BY ScanAssumption, LoopAssumption

LEMMA ZeroPasses == 0 % FEED = 0
BY Types

(* One sample more is one more pass, unless it is one of the feeds. *)
LEMMA NextPass ==
    \A n \in Nat : (n + 1) % FEED # 0 => (n + 1) % FEED = (n % FEED) + 1
<1>1. ASSUME NEW n \in Nat, (n + 1) % FEED # 0
      PROVE  (n + 1) % FEED = (n % FEED) + 1
    BY <1>1, LoopAssumption
<1>2. QED
    BY <1>1

LEMMA PassesBounded == \A n \in Nat : n % FEED \in 0..FEED-1
BY Types

LEMMA BoundMonotone ==
    \A m, n \in Nat : /\ Bound(m) \in Nat
                      /\ Bound(m + 1) = Bound(m) + 1 + LATE
                      /\ m <= n => Bound(m) <= Bound(n)
BY Types DEF Bound

LEMMA BoundFits == Bound(FEED) < WDOG
<1>1. SCAN \in Nat /\ Bound(FEED) \in Nat /\ WDOG \in Nat
    BY Types, BoundMonotone
<1>2. SCAN + Bound(FEED) < WDOG
    BY LoopAssumption DEF Bound
<1>3. QED
    BY <1>1, <1>2

(* A scan sees at most P lights and appends places. *)
LEMMA ScanAppends ==
    ASSUME LInv
    PROVE  /\ Cardinality(shown) \in 0..P
           /\ AppendShown \in [0..2*P-1 -> Place \cup {none}]
<1>1. shown \subseteq Place /\ memory \in [0..2*P-1 -> Place \cup {none}]
    BY DEF LInv, ScanOK, LoopOK, TypeOK
<1>2. IsFiniteSet(Place) /\ Cardinality(Place) = P
    BY FS_Interval, Types DEF Place
<1>3. Cardinality(shown) \in 0..P
    BY <1>1, <1>2, FS_Subset, FS_CardinalityType, Types
<1>4. ASSUME NEW k \in 0..2*P-1
      PROVE  AppendShown[k] \in Place \cup {none}
    <2>1. CASE \E p \in shown : k = Slot(p)
        BY <1>1, <2>1 DEF AppendShown
    <2>2. CASE ~ \E p \in shown : k = Slot(p)
        BY <1>1, <2>2 DEF AppendShown
    <2>3. QED
        BY <2>1, <2>2
<1>5. QED
    BY <1>1, <1>3, <1>4 DEF AppendShown

-------------------------------------------------------------------------------
LEMMA ScanStepOK ==
    ASSUME ScanOK, Cardinality(shown) \in 0..P,
           AppendShown \in [0..2*P-1 -> Place \cup {none}],
           Scan1 \/ Scan2 \/ Flicker
    PROVE  ScanOK'
<1>1. /\ g_online_num \in 0..P /\ res1 \in 0..2*P /\ res2 \in 0..P /\ clock \in Nat
      /\ pc = "scan2" => g_online_num = 0
    BY Types DEF ScanOK, TypeOK, CountsOneScan
<1>2. (/\ g_online_num \in 0..2*P /\ res1 \in 0..2*P /\ res2 \in 0..P
       /\ clock \in Nat /\ pc \in {"scan1", "scan2", "done"} /\ CountsOneScan)'
    <2>1. CASE Scan1
        BY <1>1, <2>1, Types DEF Scan1, Counted, CountsOneScan
    <2>2. CASE Scan2
        BY <1>1, <2>2, Types DEF Scan2, Counted, CountsOneScan
    <2>3. CASE Flicker
        BY <1>1, <2>3, Types DEF Flicker, CountsOneScan, ScanOK, TypeOK
    <2>4. QED
        BY <2>1, <2>2, <2>3
<1>3. (shown \subseteq Place /\ settled \in BOOLEAN
         /\ scanned \in (SUBSET Place) \X (SUBSET Place))'
    BY DEF ScanOK, TypeOK, Scan1, Scan2, Flicker
<1>4. (memory \in [0..2*P-1 -> Place \cup {none}])'
    BY DEF ScanOK, TypeOK, Scan1, Scan2, Flicker
<1>5. QED
    BY <1>2, <1>3, <1>4 DEF ScanOK, TypeOK

LEMMA RestartOK ==
    ASSUME ScanOK, Restart
    PROVE  ScanOK'
<1>1. (memory \in [0..2*P-1 -> Place \cup {none}])'
    BY DEF ScanOK, TypeOK, Restart
<1>2. (scanned \in (SUBSET Place) \X (SUBSET Place))'
    BY DEF Restart
<1>3. (/\ g_online_num \in 0..2*P /\ res1 \in 0..2*P /\ res2 \in 0..P
       /\ clock \in Nat /\ pc \in {"scan1", "scan2", "done"} /\ CountsOneScan)'
    BY Types DEF Restart, CountsOneScan
<1>4. (shown \subseteq Place /\ settled \in BOOLEAN)'
    BY DEF ScanOK, TypeOK, Restart
<1>5. QED
    BY <1>1, <1>2, <1>3, <1>4 DEF ScanOK, TypeOK

LEMMA ScanKept ==
    ASSUME ScanOK, UNCHANGED scanVars, clock' \in Nat
    PROVE  ScanOK'
<1>1. UNCHANGED <<shown, settled, g_online_num, memory, res1, res2, pc, scanned>>
    BY DEF scanVars
<1>2. QED
    BY <1>1 DEF ScanOK, TypeOK, CountsOneScan

-------------------------------------------------------------------------------
LEMMA LInvInit == LoopInit => LInv
<1> SUFFICES ASSUME LoopInit
             PROVE  LInv
    OBVIOUS
<1>1. LoopOK /\ FedRecently
    <2>1. CountsOK
        BY Types DEF LoopInit, Fresh, CountsOK
    <2>2. FlagsOK /\ FedRecently
        BY DEF LoopInit, Fresh, FlagsOK, FedRecently
    <2>3. QED
        BY <2>1, <2>2 DEF LoopOK
<1>2. memory \in [0..2*P-1 -> Place \cup {none}] /\ scanned \in (SUBSET Place) \X (SUBSET Place)
    BY DEF LoopInit, Init, Reset
<1>3. /\ g_online_num \in 0..2*P /\ res1 \in 0..2*P /\ res2 \in 0..P
      /\ clock \in Nat /\ pc \in {"scan1", "scan2", "done"} /\ CountsOneScan
    BY Types DEF LoopInit, Init, Reset, CountsOneScan
<1>4. shown \subseteq Place /\ settled \in BOOLEAN
    BY DEF LoopInit, Init
<1>5. QED
    BY <1>1, <1>2, <1>3, <1>4 DEF LInv, ScanOK, TypeOK

LEMMA ScanKeepsLInv ==
    ASSUME LInv, Scan1 \/ Scan2 \/ Flicker, UNCHANGED <<loopVars, reset_num, silent>>
    PROVE  LInv'
<1>1. ScanOK'
    BY ScanStepOK, ScanAppends DEF LInv
<1>2. LoopOK'
    BY DEF LInv, LoopOK, CountsOK, FlagsOK, loopVars
<1>3. FedRecently'
    BY DEF LInv, FedRecently, Passes, Scan1, Scan2, Flicker, loopVars
<1>4. QED
    BY <1>1, <1>2, <1>3 DEF LInv

LEMMA RestartKeepsLInv ==
    ASSUME LInv, Restart, Cleared, reset_num' \in 0..1, UNCHANGED silent
    PROVE  LInv'
<1>1. ScanOK'
    BY RestartOK DEF LInv
<1>2. LoopOK' /\ FedRecently'
    <2>1. CountsOK'
        BY Types DEF CountsOK, Cleared
    <2>2. FlagsOK' /\ FedRecently'
        BY DEF LInv, LoopOK, FlagsOK, FedRecently, Cleared
    <2>3. QED
        BY <2>1, <2>2 DEF LoopOK
<1>3. QED
    BY <1>1, <1>2 DEF LInv

(* The passes since the last feed, after one more. *)
LEMMA TopKeepsFed ==
    ASSUME LInv, LoopTop
    PROVE  FedRecently'
<1>1. /\ pc = "done" /\ at = "top" /\ at' = "count" /\ pc' = pc
      /\ count \in Nat /\ count' \in Nat /\ clock \in Nat
      /\ count' = 0 \/ count' = count + 1
    BY Types DEF LInv, ScanOK, LoopOK, CountsOK, TypeOK, LoopTop, scanVars
<1>2. CASE count' % FEED = 0
    <2>1. clock' = 0
        BY <1>2 DEF LoopTop, Feeds
    <2>2. Passes' = 0
        BY <1>1, <1>2 DEF Passes
    <2>3. QED
        BY <1>1, <2>1, <2>2, BoundMonotone DEF FedRecently
<1>3. CASE count' % FEED # 0
    <2>1. clock' = clock /\ fed' = fed
        BY <1>3 DEF LoopTop, Feeds
    <2>2. count' = count + 1
        BY <1>1, <1>3, ZeroPasses
    <2>3. Passes' = Passes
        BY <1>1, <1>3, <2>2, NextPass DEF Passes
    <2>4. QED
        BY <1>1, <2>1, <2>3 DEF FedRecently, LInv
<1>4. QED
    BY <1>2, <1>3

LEMMA TopKeepsLInv ==
    ASSUME LInv, LoopTop
    PROVE  LInv'
<1>1. clock' \in Nat
    BY DEF LInv, LoopTop, ScanOK, TypeOK
<1>2. ScanOK'
    BY <1>1, ScanKept DEF LInv, LoopTop
<1>3. LoopOK'
    <2>1. CountsOK'
        BY Types DEF LInv, LoopOK, CountsOK, LoopTop, WrappedCount
    <2>2. FlagsOK'
        BY DEF LInv, LoopOK, FlagsOK, LoopTop
    <2>3. QED
        BY <2>1, <2>2 DEF LoopOK
<1>4. QED
    BY <1>2, <1>3, TopKeepsFed DEF LInv

(* A delay is one pass and takes at most 1 + LATE. *)
LEMMA DelayKeepsLInv ==
    ASSUME LInv, Delay
    PROVE  LInv'
<1>1. PICK late \in 0..LATE : clock' = clock + 1 + late
    BY DEF Delay
<1>2. ScanOK' /\ LoopOK'
    <2>1. clock' \in Nat
        BY <1>1, Types DEF LInv, ScanOK, TypeOK
    <2>2. QED
        BY <2>1, ScanKept DEF LInv, Delay, LoopOK, CountsOK, FlagsOK
<1>3. FedRecently'
    <2>1. at = "delay" /\ at' = "top" /\ UNCHANGED <<pc, count, fed>>
          /\ count \in Nat /\ clock \in Nat
        BY Types DEF LInv, ScanOK, LoopOK, CountsOK, TypeOK, Delay, scanVars
    <2>2. Passes \in Nat /\ Passes' = Passes + 1
        BY <2>1, PassesBounded DEF Passes
    <2>3. Bound(Passes') = Bound(Passes) + 1 + LATE /\ Bound(Passes) \in Nat
        BY <2>2, BoundMonotone
    <2>4. QED
        BY <1>1, <2>1, <2>3, Types DEF FedRecently, LInv
<1>4. QED
    BY <1>2, <1>3 DEF LInv

LEMMA CountKeepsLInv ==
    ASSUME LInv, Count
    PROVE  LInv'
<1>1. ScanOK'
    BY ScanKept DEF LInv, Count, ScanOK, TypeOK
<1>2. LoopOK'
    BY Types DEF LInv, LoopOK, CountsOK, FlagsOK, Count
<1>3. FedRecently'
    BY DEF LInv, FedRecently, Passes, Count, scanVars
<1>4. QED
    BY <1>1, <1>2, <1>3 DEF LInv

LEMMA OthersKeepLInv ==
    ASSUME LInv, Heartbeat \/ FallSilent \/ UNCHANGED allVars
    PROVE  LInv'
<1>1. UNCHANGED <<scanVars, clock, at, count, fed>>
    BY DEF Heartbeat, FallSilent, allVars, vars, loopVars, scanVars
<1>2. ScanOK'
    BY <1>1, ScanKept DEF LInv, ScanOK, TypeOK
<1>3. LoopOK'
    <2>1. CountsOK'
        BY Types DEF LInv, LoopOK, CountsOK, Heartbeat, FallSilent, allVars, loopVars
    <2>2. FlagsOK'
        BY DEF LInv, LoopOK, FlagsOK, Heartbeat, FallSilent, allVars, loopVars
    <2>3. QED
        BY <2>1, <2>2 DEF LoopOK
<1>4. FedRecently'
    BY <1>1 DEF LInv, FedRecently, Passes, scanVars
<1>5. QED
    BY <1>2, <1>3, <1>4 DEF LInv

LEMMA LInvHolds == LoopSpec => []LInv
<1>1. ASSUME LInv, [LoopNext]_allVars
      PROVE  LInv'
    <2>1. CASE NetRestart
        <3>1. reset_num' \in 0..1
            BY <1>1, <2>1 DEF LInv, NetRestart, LoopOK, CountsOK
        <3>2. QED
            BY <1>1, <2>1, <3>1, RestartKeepsLInv DEF NetRestart
    <2>2. CASE LoopWatchdog
        <3>1. reset_num' \in 0..1
            BY <1>1, <2>2 DEF LInv, LoopWatchdog, LoopOK, CountsOK
        <3>2. QED
            BY <1>1, <2>2, <3>1, RestartKeepsLInv DEF LoopWatchdog, Watchdog
    <2>3. QED
        BY <1>1, <2>1, <2>2, ScanKeepsLInv, TopKeepsLInv, CountKeepsLInv, DelayKeepsLInv,
           OthersKeepLInv DEF LoopNext
<1>2. QED
    BY <1>1, LInvInit, PTL DEF LoopSpec

(* What the scan and the loop keep stays in its range: the counts of lights, of    *)
(* samples and of the samples since a heartbeat (main.c 124-162).                  *)
THEOREM LoopTypeCorrect == LoopSpec => []LoopTypeOK
<1>1. LInv => LoopTypeOK
    BY Types DEF LInv, ScanOK, LoopOK, CountsOK, FlagsOK, LoopTypeOK
<1>2. QED
    BY <1>1, LInvHolds, PTL

(* Once the loop has fed the watchdog it never lets it run out, for any feeding    *)
(* period, count and lateness for which a period fits the watchdog's.             *)
THEOREM LoopFeedsInTime == LoopSpec => []FedInTime
<1>1. ASSUME LInv
      PROVE  FedInTime
    <2>1. count \in Nat /\ clock \in Nat
        BY <1>1, Types DEF LInv, ScanOK, LoopOK, CountsOK, TypeOK
    <2>2. Passes \in Nat /\ Passes <= FEED
        BY <2>1, PassesBounded, Types DEF Passes
    <2>3. Bound(Passes) <= Bound(FEED) /\ Bound(FEED) < WDOG
        BY <2>2, BoundMonotone, BoundFits, Types
    <2>4. Bound(Passes) \in Nat /\ Bound(FEED) \in Nat /\ WDOG \in Nat
        BY <2>2, BoundMonotone, Types
    <2>5. QED
        BY <1>1, <2>1, <2>3, <2>4 DEF LInv, FedRecently, FedInTime
<1>2. QED
    BY <1>1, LInvHolds, PTL

-------------------------------------------------------------------------------
LEMMA PlacesAreFinite ==
    /\ \A p \in Place : p \in Int
    /\ \A S \in SUBSET Place : IsFiniteSet(S) /\ Cardinality(S) \in 0..P
<1>1. \A p \in Place : p \in Int
    BY Types DEF Place
<1>2. IsFiniteSet(Place) /\ Cardinality(Place) = P
    BY FS_Interval, Types DEF Place
<1>3. \A S \in SUBSET Place : IsFiniteSet(S) /\ Cardinality(S) \in 0..P
    BY <1>2, FS_Subset, FS_CardinalityType, Types
<1>4. QED
    BY <1>1, <1>3

(* The number of a place among those of a scan, from zero. *)
Rank(S, p) == Cardinality({q \in S : q < p})

(* Places have different numbers, in their order, from 0 to one less than there    *)
(* are places.                                                                    *)
LEMMA RankGrows ==
    ASSUME NEW S, S \subseteq Place, NEW p \in S
    PROVE  /\ Rank(S, p) \in 0..Cardinality(S)-1 /\ Cardinality(S) \in Nat
           /\ \A r \in S : p < r => Rank(S, p) < Rank(S, r)
<1> DEFINE Below(r) == {q \in S : q < r}
<1>1. IsFiniteSet(S) /\ Cardinality(S) \in Nat /\ \A q \in S : q \in Int
    BY PlacesAreFinite
<1>2. \A T \in SUBSET S : /\ IsFiniteSet(T) /\ Cardinality(T) \in Nat
                         /\ Cardinality(T) <= Cardinality(S)
    BY <1>1, FS_Subset, FS_CardinalityType
<1>3. /\ IsFiniteSet(Below(p)) /\ Cardinality(Below(p)) \in Nat
      /\ Cardinality(Below(p) \cup {p}) = Cardinality(Below(p)) + 1
    <2>1. p \notin Below(p)
        BY <1>1
    <2>2. IsFiniteSet(Below(p)) /\ Cardinality(Below(p)) \in Nat
        BY <1>2
    <2>3. QED
        BY <2>1, <2>2, FS_AddElement
<1>4. Cardinality(Below(p)) + 1 <= Cardinality(S)
    BY <1>2, <1>3
<1>5. ASSUME NEW r \in S, p < r
      PROVE  Cardinality(Below(p)) + 1 <= Cardinality(Below(r))
    <2>1. Below(p) \cup {p} \subseteq Below(r)
        BY <1>1, <1>5
    <2>2. IsFiniteSet(Below(r))
        BY <1>2
    <2>3. Cardinality(Below(p) \cup {p}) <= Cardinality(Below(r))
        BY <2>1, <2>2, FS_Subset
    <2>4. QED
        BY <1>3, <2>3
<1>6. \A r \in S : Cardinality(Below(r)) \in Nat
    BY <1>2
<1> HIDE DEF Below
<1>7. \A r \in S : p < r => Cardinality(Below(p)) < Cardinality(Below(r))
    BY <1>3, <1>5, <1>6
<1>8. Cardinality(Below(p)) \in 0..Cardinality(S)-1
    BY <1>1, <1>3, <1>4
<1>9. QED
    BY <1>1, <1>7, <1>8 DEF Rank, Below

(* Every number below their count is that of just one of them. *)
LEMMA RankIsOnto ==
    ASSUME NEW S, S \subseteq Place
    PROVE  /\ \A p, r \in S : Rank(S, p) = Rank(S, r) => p = r
           /\ \A k \in 0..Cardinality(S)-1 : \E p \in S : Rank(S, p) = k
<1> DEFINE n == Cardinality(S)
           f == [p \in S |-> Rank(S, p)]
<1>1. n \in Nat /\ IsFiniteSet(S)
    BY PlacesAreFinite
<1>2. IsFiniteSet(0..n-1) /\ Cardinality(0..n-1) = n
    BY <1>1, FS_Interval, SMTT(20)
<1>3. ASSUME NEW p \in S, NEW r \in S, Rank(S, p) = Rank(S, r)
      PROVE  p = r
    <2>1. /\ Rank(S, p) \in Int /\ p \in Int /\ r \in Int
          /\ p < r => Rank(S, p) < Rank(S, r)
          /\ r < p => Rank(S, r) < Rank(S, p)
        BY RankGrows, PlacesAreFinite
    <2>2. QED
        BY <1>3, <2>1
<1>4. f \in [S -> 0..n-1]
    BY RankGrows
<1>5. f \in Injection(S, 0..n-1)
    BY <1>3, <1>4 DEF Injection, IsInjective
<1> HIDE DEF f, n
<1>6. f \in Surjection(S, 0..n-1)
    BY <1>1, <1>2, <1>5, FS_Injection DEF n
<1>7. \A k \in 0..n-1 : \E p \in S : f[p] = k
    BY <1>6 DEF Surjection
<1>8. QED
    BY <1>3, <1>7 DEF f, n

(* A scan that begins at zero lists what it sees. *)
LEMMA ScanLists ==
    ASSUME ScanOK, pc = "scan2"
    PROVE  LET n == Cardinality(shown)
           IN  /\ {AppendShown[k] : k \in 0..n-1} = shown
               /\ \A k \in 1..n-1 : AppendShown[k-1] < AppendShown[k]
<1> DEFINE n == Cardinality(shown)
           m == AppendShown
<1>1. /\ g_online_num = 0 /\ shown \subseteq Place /\ DOMAIN memory = 0..2*P-1
    BY DEF ScanOK, TypeOK, CountsOneScan
<1>2. n \in 0..P
    BY <1>1, PlacesAreFinite
<1>3. \A p \in shown : Slot(p) = Rank(shown, p) /\ Rank(shown, p) \in 0..n-1
    BY <1>1, RankGrows DEF Slot, Rank
<1>4. \A k \in 0..n-1 : m[k] \in shown /\ Rank(shown, m[k]) = k
    <2>1. ASSUME NEW k \in 0..n-1
          PROVE  m[k] \in shown /\ Rank(shown, m[k]) = k
        <3>1. k \in DOMAIN memory
            BY <1>1, <1>2, Types
        <3>2. \E p \in shown : k = Slot(p)
            BY <1>1, <1>3, RankIsOnto
        <3>3. m[k] = CHOOSE p \in shown : k = Slot(p)
            BY <3>1, <3>2 DEF AppendShown
        <3>4. m[k] \in shown /\ k = Slot(m[k])
            BY <3>2, <3>3
        <3>5. QED
            BY <1>3, <3>4
    <2>2. QED
        BY <2>1
<1> HIDE DEF m
<1>5. \A p \in shown : \E k \in 0..n-1 : m[k] = p
    BY <1>1, <1>3, <1>4, RankIsOnto
<1>6. ASSUME NEW k \in 1..n-1
      PROVE  m[k-1] < m[k]
    <2>1. /\ k-1 \in 0..n-1 /\ k \in 0..n-1
        BY <1>2, Types
    <2>2. /\ m[k-1] \in shown /\ m[k] \in shown
          /\ Rank(shown, m[k-1]) = k-1 /\ Rank(shown, m[k]) = k
        BY <1>4, <2>1
    <2>3. m[k] < m[k-1] => Rank(shown, m[k]) < Rank(shown, m[k-1])
        BY <1>1, <2>2, RankGrows
    <2>4. m[k] \in Int /\ m[k-1] \in Int /\ m[k] # m[k-1]
        BY <1>1, <2>1, <2>2, PlacesAreFinite
    <2>5. QED
        BY <2>2, <2>3, <2>4
<1>7. {m[k] : k \in 0..n-1} = shown
    BY <1>4, <1>5
<1>8. QED
    BY <1>6, <1>7 DEF m

(* However many rounds it took, and whatever came and went between them, init       *)
(* hands over the places of its last scan, each once and in their order, and their *)
(* number (trafficlight.c 128-150).                                                *)
THEOREM LastScanIsListed == LoopSpec => []ListsLastScan
<1>1. LoopInit => ListsLastScan
    BY DEF LoopInit, Init, Reset, ListsLastScan
<1>2. ASSUME LInv, ListsLastScan, [LoopNext]_allVars
      PROVE  ListsLastScan'
    <2>1. CASE Scan2
        <3>1. pc = "scan2" /\ ScanOK
            BY <1>2, <2>1 DEF LInv, Scan2
        <3>2. /\ memory' = AppendShown /\ g_online_num' = Cardinality(shown)
              /\ scanned'[2] = shown
            BY <3>1, <2>1, ScanAppends, <1>2 DEF Scan2, Counted, ScanOK, CountsOneScan
        <3>3. QED
            BY <3>1, <3>2, ScanLists DEF ListsLastScan
    <2>2. CASE Scan1 \/ Restart
        BY <2>2 DEF Scan1, Restart, ListsLastScan
    <2>3. CASE UNCHANGED <<g_online_num, memory, pc, scanned>>
        BY <1>2, <2>3 DEF ListsLastScan
    <2>4. QED
        BY <1>2, <2>1, <2>2, <2>3 DEF LoopNext, Flicker, LoopTop, Count, NetRestart, Delay,
           LoopWatchdog, Watchdog, Heartbeat, FallSilent, allVars, vars, scanVars
<1>3. QED
    BY <1>1, <1>2, LInvHolds, PTL DEF LoopSpec
=============================================================================
