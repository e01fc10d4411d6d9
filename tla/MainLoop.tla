------------------------------- MODULE MainLoop -------------------------------
(* The life of trafficlight_task from reset to reset (main.c 124-162): the scan of *)
(* OnlineScan, then a loop that feeds the watchdog, starts new studies and counts *)
(* the samples since the last heartbeat. The server thread, of a higher priority, *)
(* zeroes that count whenever a heartbeat comes in.                               *)
EXTENDS OnlineScan

CONSTANTS
    FEED,       \* passes between two feeds (50)
    STUDY,      \* count above which it starts again from zero (30000)
    LIMIT,      \* g_network_count above which the device restarts (30000)
    LATE        \* by how much a pass may be late, in samples

ASSUME LoopAssumption ==
    /\ FEED \in Nat \ {0} /\ STUDY \in Nat /\ LIMIT \in Nat /\ LATE \in Nat
    /\ SCAN + FEED * (1 + LATE) < WDOG

VARIABLES
    at,         \* where the loop is: "top", "count", "delay"
    count,
    g_network_count,
    loaded,     \* the value of g_network_count being incremented
    reset_num,  \* restarts counted in flash, modulo 2
    silent,     \* no heartbeat will come any more
    fed         \* history: the watchdog was fed since the reset

loopVars == <<at, count, g_network_count, loaded, fed>>
allVars == <<vars, loopVars, reset_num, silent>>
scanVars == <<shown, settled, g_online_num, memory, res1, res2, pc, scanned>>

LoopTypeOK ==
    /\ TypeOK
    /\ at \in {"top", "count", "delay"}
    /\ count \in 0..STUDY /\ g_network_count \in 0..LIMIT+2 /\ loaded \in 0..LIMIT+2
    /\ reset_num \in 0..1 /\ silent \in BOOLEAN /\ fed \in BOOLEAN

Fresh == at = "top" /\ count = 0 /\ g_network_count = 0 /\ loaded = 0 /\ fed = FALSE

LoopInit ==
    /\ Init
    /\ Fresh /\ reset_num = 0 /\ silent = FALSE

Cleared == at' = "top" /\ count' = 0 /\ g_network_count' = 0 /\ loaded' = 0 /\ fed' = FALSE

(* fault: the sample at which the count starts again is not one of the feeds *)
FeedsFault(n) == n % FEED = 0 /\ n # 0

Feeds(n) == n % FEED = 0

(* fault: the network is taken for working when a study begins *)
WrappedCountFault == IF count + 1 > STUDY THEN 0 ELSE g_network_count

(* a study, trafficLight_study_once, has nothing to do with the network *)
WrappedCount == g_network_count

(* l.133-145, and the load of g_network_count at l.147 *)
LoopTop ==
    /\ pc = "done" /\ at = "top" /\ clock < WDOG
    /\ count' = IF count + 1 > STUDY THEN 0 ELSE count + 1
    /\ IF Feeds(count') THEN clock' = 0 /\ fed' = TRUE ELSE UNCHANGED <<clock, fed>>
    /\ loaded' = WrappedCount
    /\ g_network_count' = WrappedCount
    /\ at' = "count"
    /\ UNCHANGED <<scanVars, reset_num, silent>>

(* l.147-155: the increment is stored; above the limit the restart is counted in   *)
(* flash and the device reset.                                                    *)
Count ==
    /\ at = "count" /\ loaded <= LIMIT
    /\ g_network_count' = loaded + 1
    /\ at' = "delay"
    /\ UNCHANGED <<scanVars, clock, count, loaded, fed, reset_num, silent>>

NetRestart ==
    /\ at = "count" /\ loaded > LIMIT
    /\ reset_num' = 1 - reset_num
    /\ Restart /\ Cleared
    /\ UNCHANGED silent

(* l.157-160: 20 ms, or more when tasks above are busy *)
Delay ==
    /\ at = "delay"
    /\ \E late \in 0..LATE : clock' = clock + 1 + late
    /\ at' = "top"
    /\ UNCHANGED <<scanVars, count, g_network_count, loaded, fed, reset_num, silent>>

LoopWatchdog ==
    /\ \/ Watchdog
       \/ pc = "done" /\ at = "top" /\ clock >= WDOG /\ Restart
    /\ Cleared
    /\ UNCHANGED <<reset_num, silent>>

(* tcp_server.c:117, between any two steps of the loop *)
Heartbeat ==
    /\ ~silent
    /\ g_network_count' = 0
    /\ UNCHANGED <<vars, at, count, loaded, fed, reset_num, silent>>

FallSilent ==
    /\ ~silent /\ silent' = TRUE
    /\ UNCHANGED <<vars, loopVars, reset_num>>

LoopNext ==
    \/ (Scan1 \/ Scan2 \/ Flicker) /\ UNCHANGED <<loopVars, reset_num, silent>>
    \/ LoopTop \/ Count \/ NetRestart \/ Delay \/ LoopWatchdog
    \/ Heartbeat \/ FallSilent

TaskStep ==
    \/ (Scan1 \/ Scan2) /\ UNCHANGED <<loopVars, reset_num, silent>>
    \/ LoopTop \/ Count \/ NetRestart \/ Delay \/ LoopWatchdog

(* The task is ready after each delay, and the watchdog's clock never stops.       *)
LoopSpec == LoopInit /\ [][LoopNext]_allVars /\ WF_allVars(TaskStep)

-------------------------------------------------------------------------------
(* Once the loop has fed the watchdog the first time it never lets it run out,      *)
(* across the samples at which its count starts again and late ones too; before     *)
(* that a scan that took long may end in a reset yet.                             *)
FedInTime == fed => clock < WDOG

(* A device that no heartbeat reaches any more, and whose junction has settled,     *)
(* restarts again and again: the count survives no watchdog reset, yet it gets       *)
(* there.                                                                         *)
SilenceRestarts ==
    \A n \in 0..1 : (silent /\ settled /\ reset_num = n) ~> (reset_num = 1 - n)

=============================================================================
