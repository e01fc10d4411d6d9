------------------------------ MODULE OnlineScan ------------------------------
(* How trafficLightInit settles which lights are online (USER/trafficlight.c    *)
(* 128-150): it scans twice, 100 ms apart, until the two counts agree, while the *)
(* independent watchdog, which only the task's later loop feeds, runs.           *)
EXTENDS Integers, FiniteSets

CONSTANTS
    P,      \* places for a light: 4 junctions with 3 lights (12)
    WDOG,   \* samples (20 ms) before the watchdog resets the chip (5 s, 250)
    SCAN    \* samples in a round of the loop (100 ms, 5)

ASSUME ScanAssumption == P \in Nat \ {0} /\ WDOG \in Nat \ {0} /\ SCAN \in 1..WDOG

Place == 0..P-1             \* dir * 3 + to, the order in which places are scanned
none == P

VARIABLES
    shown,          \* the places whose light shows a lamp just now
    settled,        \* the junction has stopped changing which lights show
    g_online_num,
    memory,         \* g_online[0..P-1], and what lies behind it (light_info)
    res1, res2,
    pc,             \* "scan1", "scan2" or, after the loop, "done"
    clock,          \* the time since the watchdog was started or fed
    scanned         \* the places the last two scans of the loop saw

vars == <<shown, settled, g_online_num, memory, res1, res2, pc, clock, scanned>>

TypeOK ==
    /\ shown \subseteq Place /\ settled \in BOOLEAN
    /\ g_online_num \in 0..2*P
    /\ memory \in [0..2*P-1 -> Place \cup {none}]
    /\ res1 \in 0..2*P /\ res2 \in 0..P
    /\ pc \in {"scan1", "scan2", "done"}
    /\ clock \in Nat
    /\ scanned \in (SUBSET Place) \X (SUBSET Place)

(* RAM after a reset *)
Reset ==
    /\ g_online_num = 0
    /\ memory = [k \in 0..2*P-1 |-> none]
    /\ res1 = 1 /\ res2 = 0
    /\ pc = "scan1"
    /\ clock = 0
    /\ scanned = <<{}, {}>>

Init == shown \in SUBSET Place /\ settled = FALSE /\ Reset

-------------------------------------------------------------------------------
(* trafficLightNum appends the places it sees from g_online_num on, in order. *)
Slot(p) == g_online_num + Cardinality({q \in shown : q < p})

AppendShown ==
    [k \in DOMAIN memory |->
        IF \E p \in shown : k = Slot(p) THEN CHOOSE p \in shown : k = Slot(p)
        ELSE memory[k]]

Counted == g_online_num + Cardinality(shown)

(* fault: g_online_num goes on from the first scan *)
Scan1Fault ==
    /\ pc = "scan1" /\ clock < WDOG
    /\ memory' = AppendShown
    /\ res1' = Counted
    /\ g_online_num' = Counted
    /\ scanned' = <<shown, {}>>
    /\ pc' = "scan2"
    /\ UNCHANGED <<shown, settled, res2, clock>>

(* l.145-146: the count goes to res1, and g_online_num starts again from zero. *)
Scan1 ==
    /\ pc = "scan1" /\ clock < WDOG
    /\ memory' = AppendShown
    /\ res1' = Counted
    /\ g_online_num' = 0
    /\ scanned' = <<shown, {}>>
    /\ pc' = "scan2"
    /\ UNCHANGED <<shown, settled, res2, clock>>

(* l.148 and the loop's test: the count goes to res2 and stays in g_online_num. *)
Scan2 ==
    /\ pc = "scan2"
    /\ memory' = AppendShown
    /\ res2' = Counted
    /\ g_online_num' = Counted
    /\ scanned' = <<scanned[1], shown>>
    /\ clock' = clock + SCAN
    /\ pc' = IF res1 = res2' THEN "done" ELSE "scan1"
    /\ UNCHANGED <<shown, settled, res1>>

(* fault: the loop feeds the watchdog *)
WatchdogFault ==
    /\ pc = "scan1" /\ clock >= WDOG
    /\ clock' = 0
    /\ UNCHANGED <<shown, settled, g_online_num, memory, res1, res2, pc, scanned>>

(* A chip starts again: the same as Reset, and the junction goes on. *)
Restart ==
    /\ g_online_num' = 0
    /\ memory' = [k \in DOMAIN memory |-> none]
    /\ res1' = 1 /\ res2' = 0
    /\ pc' = "scan1"
    /\ clock' = 0
    /\ scanned' = <<{}, {}>>
    /\ UNCHANGED <<shown, settled>>

(* The watchdog resets a chip that is still in the loop after five seconds. *)
Watchdog == pc = "scan1" /\ clock >= WDOG /\ Restart

-------------------------------------------------------------------------------
(* The junction: lights come and go until, at some point, they settle. *)
Flicker ==
    /\ ~settled
    /\ shown' \in SUBSET Place
    /\ settled' \in BOOLEAN
    /\ UNCHANGED <<g_online_num, memory, res1, res2, pc, clock, scanned>>

-------------------------------------------------------------------------------
(* However many rounds it took, the loop hands over the places of its last scan, *)
(* each once and in order, and their number: none of an earlier scan is left.    *)
ListsLastScan ==
    pc = "done" =>
        /\ g_online_num = Cardinality(scanned[2])
        /\ {memory[k] : k \in 0..g_online_num-1} = scanned[2]
        /\ \A k \in 1..g_online_num-1 : memory[k-1] < memory[k]

(* Once the junction has settled, init comes to its end, if need be through a    *)
(* reset by the watchdog: after one disagreement the loop alone never does when  *)
(* the lights that show stay the same.                                           *)
SettledIsDone == settled ~> pc = "done"

-------------------------------------------------------------------------------
(* trafficlight.c:145 says res1 measures how many lights are online: the loop    *)
(* ends with two scans that saw as many lights.                                  *)
LastScansAgree ==
    pc = "done" => Cardinality(scanned[1]) = Cardinality(scanned[2])

(* trafficlight.c:4-6 says g_online has a place for each of the 12 lights: a     *)
(* scan writes nothing behind it.                                                *)
WithinGOnline == \A k \in P..2*P-1 : memory[k] = none
=============================================================================
