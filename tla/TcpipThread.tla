----------------------------- MODULE TcpipThread -----------------------------
(* How tcpip_thread waits: sys_timeouts_mbox_fetch of lwIP (core/timers.c) keeps *)
(* the timers of the stack while it waits for the next message, by what          *)
(* sys_arch_mbox_fetch (LWIP/arch/sys_arch.c 115-143) says the wait has taken.   *)
EXTENDS OsQueue, Integers, Sequences

CONSTANTS
    Interval,   \* period of each timer in ms: "tcp" 250, "ip" 1000, "arp" 5000
    SECOND,     \* milliseconds of a second (1000)
    OS_TICKS_PER_SEC    \* (100)

Handler == DOMAIN Interval

ASSUME ThreadAssumption ==
    /\ SECOND \in Nat \ {0} /\ OS_TICKS_PER_SEC \in Nat \ {0}
    /\ SECOND % OS_TICKS_PER_SEC = 0
    /\ Interval \in [{"tcp", "ip", "arp"} -> Nat \ {0}]
    /\ Msg \subseteq {"open", "close", "other"}

VARIABLES
    list,       \* next_timeout: timers, each with the time left after the one before
    began,      \* OSTime when the wait began
    pcbs,       \* tcp_active_pcbs || tcp_tw_pcbs
    tcpip_tcp_timer_active

threadVars == <<list, began, pcbs, tcpip_tcp_timer_active>>
vars == <<queueVars, waitVars, OSTime, threadVars>>

-------------------------------------------------------------------------------
(* The time left of the k-th timer. *)
Left(l, k) ==
    LET sum[n \in 0..k] == IF n = 0 THEN 0 ELSE sum[n-1] + l[n].time
    IN  sum[k]

(* fault: the timer that comes after the new one keeps its time *)
AfterFault(t, time) == t

(* The timer behind a new one counts from it. *)
After(t, time) == [t EXCEPT !.time = @ - time]

(* sys_timeout: behind all timers that end no later than the new one. *)
sys_timeout(l, h) ==
    LET before == {k \in 1..Len(l) : Left(l, k) <= Interval[h]}
        n == IF before = {} THEN 0 ELSE CHOOSE k \in before : \A j \in before : j <= k
        time == Interval[h] - Left(l, n)
        rest == SubSeq(l, n + 1, Len(l))
    IN  SubSeq(l, 1, n) \o <<[time |-> time, h |-> h]>>
            \o (IF rest = <<>> THEN <<>> ELSE <<After(Head(rest), time)>> \o Tail(rest))

Init ==
    /\ QInit
    /\ list = sys_timeout(sys_timeout(<<>>, "ip"), "arp")
    /\ began = 0 /\ pcbs = FALSE /\ tcpip_tcp_timer_active = FALSE

(* sys_arch_mbox_fetch asks OSQPend for at least one tick, *)
Ticks(ms) ==
    LET ticks == (ms * OS_TICKS_PER_SEC) \div SECOND
    IN  IF ticks < 1 THEN 1 ELSE ticks

(* and answers with the ticks since then. Within one tick the difference comes   *)
(* out as if the counter had wrapped.                                            *)
Measured ==
    LET ticks == IF OSTime > began THEN OSTime - began
                 ELSE ((U32 - 1) - began + OSTime) % U32
    IN  ((ticks * SECOND) % U32) \div OS_TICKS_PER_SEC + 1

(* Wait until a message comes or the first timer is due. *)
Fetch ==
    /\ IF list = <<>> THEN OSQPend(0)
       ELSE list[1].time > 0 /\ OSQPend(Ticks(list[1].time))
    /\ began' = OSTime
    /\ UNCHANGED <<list, pcbs, tcpip_tcp_timer_active>>

(* fault: the timers stand still while messages come *)
ShortenedFault == list

(* The first timer is nearer by the time the message took. *)
Shortened ==
    IF list = <<>> THEN list
    ELSE [list EXCEPT ![1].time = IF Measured < @ THEN @ - Measured ELSE 0]

(* tcp_timer_needed, when a connection is registered *)
TimerNeeded(l) ==
    /\ pcbs' = TRUE /\ tcpip_tcp_timer_active' = TRUE
    /\ list' = IF tcpip_tcp_timer_active THEN l ELSE sys_timeout(l, "tcp")

(* A message that opens the first connection, closes the last, or does neither. *)
Handle ==
    /\ pend = "msg" /\ Return
    /\ CASE hand = "open" -> TimerNeeded(Shortened)
         [] hand = "close" -> pcbs' = FALSE /\ list' = Shortened
                                /\ UNCHANGED tcpip_tcp_timer_active
         [] OTHER -> list' = Shortened /\ UNCHANGED <<pcbs, tcpip_tcp_timer_active>>
    /\ UNCHANGED began

(* fault: a timer that is not needed any more still counts as running *)
StopTcpTimerFault(l) == list' = l /\ UNCHANGED tcpip_tcp_timer_active

StopTcpTimer(l) == list' = l /\ tcpip_tcp_timer_active' = FALSE

(* Run the first timer's handler; tcp_tmr may let the last connection go. *)
Fire ==
    /\ list # <<>>
    /\ \/ pend = "timeout" /\ Return
       \/ pend = "run" /\ list[1].time = 0 /\ UNCHANGED <<queueVars, waitVars, OSTime>>
    /\ IF list[1].h = "tcp"
       THEN /\ pcbs' \in {FALSE, pcbs}
            /\ IF pcbs' THEN list' = sys_timeout(Tail(list), "tcp")
                               /\ UNCHANGED tcpip_tcp_timer_active
               ELSE StopTcpTimer(Tail(list))
       ELSE /\ list' = sys_timeout(Tail(list), list[1].h)
            /\ UNCHANGED <<pcbs, tcpip_tcp_timer_active>>
    /\ UNCHANGED began

Post(m) == OSQPost(m) /\ UNCHANGED threadVars

Expire == PendExpires /\ UNCHANGED threadVars

Tick == OSTimeTick /\ UNCHANGED threadVars

Next == Fetch \/ Handle \/ Fire \/ (\E m \in Msg : Post(m)) \/ Expire \/ Tick

Spec == Init /\ [][Next]_vars

(* tcpip_thread has the highest priority of all tasks, and time goes on. *)
FairSpec == Spec /\ WF_vars(Fetch \/ Handle \/ Fire \/ Expire) /\ WF_vars(Tick)

-------------------------------------------------------------------------------
Scheduled(h) == {k \in 1..Len(list) : list[k].h = h}

(* The handlers put their timers back themselves: whatever messages and timeouts *)
(* come, the timers of IP and ARP are in the list exactly once, the timer of TCP  *)
(* at most once, just while it counts as active, and it runs while there are      *)
(* connections (tcp_timer_needed, tcpip_tcp_timer).                               *)
TimersScheduled ==
    /\ \A h \in {"ip", "arp"} : \E k \in 1..Len(list) : Scheduled(h) = {k}
    /\ \A j, k \in Scheduled("tcp") : j = k
    /\ tcpip_tcp_timer_active <=> Scheduled("tcp") # {}
    /\ pcbs => tcpip_tcp_timer_active

(* However timers are put between others, none is due later than its interval    *)
(* after it was set (the list keeps differences only: sys_timeout).               *)
DueWithinInterval == \A k \in 1..Len(list) : Left(list, k) <= Interval[list[k].h]

(* No traffic keeps a timer from running: those of IP and ARP run again and again. *)
TimersRun == \A h \in {"ip", "arp"} : []<><<Fire /\ list[1].h = h>>_vars

-------------------------------------------------------------------------------
(* timers.c:467-469 says time is set to the milliseconds the message was waited   *)
(* for: what is taken from the timers is never a tick more than the wait took.    *)
WaitIsMeasured ==
    pend = "msg" =>
        Measured <= (((OSTime - began + U32) % U32) + 1) * (SECOND \div OS_TICKS_PER_SEC)
=============================================================================
