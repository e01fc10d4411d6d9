------------------------------ MODULE TrafficLight ------------------------------
(* The sampling task of USER/trafficlight.c: it reads the lamps of the lights   *)
(* that are online, learns how long each lamp stays lit and, from the learned   *)
(* periods, answers with the seconds left of the lamp that is lit now.          *)
(*                                                                               *)
(* Three parties meet here:                                                      *)
(*   - the junction, which lights lamps (RegularJunction, AnyJunction: the modules    *)
(*     that extend this one say what it may do);                                 *)
(*   - trafficlight_task (main.c), one loop of LoopTop, Read, Study, Work;       *)
(*   - tcp_server_thread1, of a higher priority, which may run                   *)
(*     trafficLightStatus (Report) between any two of those calls.               *)
(* The module covers the time before the first RSU command: a command turns the *)
(* reports off for good (module TcpServer).                                      *)
EXTENDS Integers

CONSTANTS
    N,          \* number of lights online: g_online_num when init is over
    TICKS,      \* OS ticks per second (100)
    DELAY,      \* ticks trafficlight_task sleeps in each loop (20 ms = 2)
    LAG,        \* bound: ticks by which other tasks may delay its loop
    U8,         \* 2^8: the width of uint8_t (scaled down for TLC)
    U32,        \* 2^32: the width of the tick counter (scaled down for TLC)
    DISCARD,    \* a remaining time above this marks a frame for discarding (200)
    STUDY_MAX,  \* samples after which a study is given up (15000: 5 minutes)
    RELEARN     \* loops after which a new study starts (30000)

ASSUME ConstantsAssumption ==
    /\ N \in Nat \ {0} /\ TICKS \in Nat \ {0}
    /\ DELAY \in Nat \ {0} /\ LAG \in Nat
    /\ U8 \in Nat /\ U8 > 3 /\ U32 \in Nat /\ U32 > 1
    /\ DISCARD \in 0..U8-1
    /\ STUDY_MAX \in Nat /\ RELEARN \in Nat

Light == 1..N                \* indices into g_online
red == 0
green == 1
yellow == 2
unknown == 3
Lamp == {red, green, yellow}
LightType == Lamp \cup {unknown}
Byte == 0..U8-1

VARIABLES
    light,      \* light[i]: the fields of g_trafficlight that are ever read
    now,        \* OSTimeGet()
    timer,      \* ticks since trafficlight_task last went to sleep
    pc,         \* where trafficlight_task stands in its loop
    count,      \* the task's loop counter
    g_study_ok  \* every light has finished its first study

vars == <<light, now, timer, pc, count, g_study_ok>>

TrafficLightRec ==
    [last_light: LightType, current_light: LightType,
     study_flag: Byte, start_study_flag: {0, 1}, study_num: 0..STUDY_MAX+1,
     light_period: [LightType -> Byte], light_period_study: [LightType -> Byte],
     status: 0..3, error_num: Byte,
     start_ticks: 0..U32-1, start_ticks_study: 0..U32-1]

Steps == {"top", "delay", "study", "work"}

TypeOK ==
    /\ light \in [Light -> TrafficLightRec]
    /\ now \in 0..U32-1
    /\ timer \in 0..DELAY+LAG
    /\ pc \in Steps
    /\ count \in 0..RELEARN
    /\ g_study_ok \in {0, 1}

-------------------------------------------------------------------------------
(* trafficLightRead. A picture says, for each light, which lamps are lit. *)
Picture == [Light -> SUBSET Lamp]

Double(s) == \E a, b \in s : a # b

(* The first of the three bits of a light never shows two lamps lit. *)
FirstBitFault(g) == g       \* fault: status is left alone
FirstBit(g) == [g EXCEPT !.status = 1]

(* A second lit lamp ends the sampling of this light. *)
ManyLit(g) ==
    LET e == IF g.status = 1 THEN 0 ELSE (g.error_num + 1) % U8 IN
    IF e = 2
    THEN [g EXCEPT !.error_num = e, !.status = 2, !.study_flag = 1,
                   !.light_period = [c \in LightType |->
                                        IF c \in Lamp THEN 0 ELSE @[c]],
                   !.last_light = g.current_light, !.start_ticks = 0]
    ELSE [g EXCEPT !.error_num = e, !.status = 2]

(* At most one lamp is lit. None lit leaves last_light and current_light alone. *)
OneLit(g, s) ==
    IF s = {} THEN g
    ELSE [g EXCEPT !.last_light = g.current_light,
                   !.current_light = CHOOSE c \in s : TRUE]

(* Lights are read in the order of g_online; the first one with two lamps lit    *)
(* ends the function, and the lights after it keep what they had.                *)
ReadLights(gs, lit) ==
    [i \in Light |->
        IF \A j \in 1..i : ~Double(lit[j]) THEN OneLit(FirstBit(gs[i]), lit[i])
        ELSE IF \A j \in 1..i-1 : ~Double(lit[j]) THEN ManyLit(FirstBit(gs[i]))
        ELSE gs[i]]

-------------------------------------------------------------------------------
(* trafficLightInit, once the number of online lights is settled (OnlineScan). *)
Blank ==
    [last_light |-> red, current_light |-> unknown,
     study_flag |-> 0, start_study_flag |-> 0, study_num |-> 0,
     light_period |-> [c \in LightType |-> 0],
     light_period_study |-> [c \in LightType |-> 0],
     status |-> 0, error_num |-> 0, start_ticks |-> 0, start_ticks_study |-> 0]

StartStudy(g) ==
    [g EXCEPT !.study_flag = 1, !.start_study_flag = 1,
              !.last_light = g.current_light]

InitWith(lit) ==
    /\ light = LET gs == ReadLights([i \in Light |-> Blank], lit)
               IN  [i \in Light |-> StartStudy(gs[i])]
    /\ now = 1              \* init slept for some ticks: the clock is past zero
    /\ timer = DELAY       \* and the first loop follows it at once
    /\ pc = "top"
    /\ count = 0
    /\ g_study_ok = 0

-------------------------------------------------------------------------------
(* trafficLightStudy *)
Changed(g) == g.last_light # g.current_light

Elapsed(since) == (now - since) % U32

Seconds(ticks) == ((ticks + TICKS \div 2) \div TICKS) % U8

(* study_num saturates above STUDY_MAX, where every value acts alike. *)
CountStudy(g) ==
    IF g.study_num + 1 > STUDY_MAX
    THEN [g EXCEPT !.study_num = STUDY_MAX + 1, !.study_flag = 0, !.status = 3]
    ELSE [g EXCEPT !.study_num = @ + 1]

(* fault: the clock of the study is started by its first change and not again *)
MeasurePhaseFault(g) ==
    LET p == Seconds(Elapsed(g.start_ticks_study))
    IN  IF g.start_ticks_study = 0 THEN [g EXCEPT !.start_ticks_study = now]
        ELSE [g EXCEPT !.light_period_study[g.last_light] = p,
                       !.light_period[g.last_light] = p]

(* A change ends a phase that began at start_ticks_study; zero: not yet known. *)
MeasurePhase(g) ==
    LET p == Seconds(Elapsed(g.start_ticks_study))
        h == IF g.start_ticks_study = 0 THEN g
             ELSE [g EXCEPT !.light_period_study[g.last_light] = p,
                            !.light_period[g.last_light] = p]
    IN  [h EXCEPT !.start_ticks_study = now]

(* fault: two measured lamps are enough *)
FinishStudyFault(g) ==
    IF \A c \in {red, green} : g.light_period_study[c] # 0
    THEN [g EXCEPT !.start_study_flag = 0, !.study_flag = 0, !.status = 0]
    ELSE g

FinishStudy(g) ==
    IF \A c \in Lamp : g.light_period_study[c] # 0
    THEN [g EXCEPT !.start_study_flag = 0, !.study_flag = 0, !.status = 0]
    ELSE g

StudyOne(g) ==
    IF g.study_flag # 1 THEN g
    ELSE LET h == CountStudy(g)
         IN  IF Changed(h) THEN FinishStudy(MeasurePhase(h)) ELSE h

(* fault: a new study counts as the first one *)
StudyOnceFault(g) ==
    [g EXCEPT !.study_num = 0, !.study_flag = 1, !.start_ticks_study = 0,
              !.status = 0, !.start_study_flag = 1,
              !.light_period_study = [c \in LightType |->
                                         IF c \in Lamp THEN 0 ELSE @[c]]]

(* fault: a new study erases the periods that are reported *)
StudyOnceErases(g) ==
    [g EXCEPT !.study_num = 0, !.study_flag = 1, !.start_ticks_study = 0,
              !.status = 0,
              !.light_period = [c \in LightType |-> 0],
              !.light_period_study = [c \in LightType |->
                                         IF c \in Lamp THEN 0 ELSE @[c]]]

(* trafficLight_study_once *)
StudyOnce(g) ==
    [g EXCEPT !.study_num = 0, !.study_flag = 1, !.start_ticks_study = 0,
              !.status = 0,
              !.light_period_study = [c \in LightType |->
                                         IF c \in Lamp THEN 0 ELSE @[c]]]

(* fault: changes are not recorded while a new study runs *)
WorkOneFault(g) ==
    IF g.start_study_flag = 0 /\ g.study_flag = 0 /\ Changed(g)
    THEN [g EXCEPT !.start_ticks = now]
    ELSE g

(* trafficLightWork *)
WorkOne(g) ==
    IF g.start_study_flag = 0 /\ Changed(g) THEN [g EXCEPT !.start_ticks = now]
    ELSE g

-------------------------------------------------------------------------------
(* The loop of trafficlight_task *)
(* fault: the counter is not reset, so every loop starts a new study *)
LoopTopFault ==
    /\ pc = "top"
    /\ IF count + 1 > RELEARN
       THEN /\ UNCHANGED count
            /\ light' = [i \in Light |-> StudyOnce(light[i])]
       ELSE /\ count' = count + 1
            /\ UNCHANGED light
    /\ pc' = "delay"
    /\ timer' = 0
    /\ UNCHANGED <<now, g_study_ok>>

LoopTop ==
    /\ pc = "top"
    /\ IF count + 1 > RELEARN
       THEN /\ count' = 0
            /\ light' = [i \in Light |-> StudyOnce(light[i])]
       ELSE /\ count' = count + 1
            /\ UNCHANGED light
    /\ pc' = "delay"
    /\ timer' = 0
    /\ UNCHANGED <<now, g_study_ok>>

Read(lit) ==
    /\ pc = "delay"
    /\ timer >= DELAY
    /\ light' = ReadLights(light, lit)
    /\ pc' = "study"
    /\ UNCHANGED <<now, timer, count, g_study_ok>>

Study ==
    /\ pc = "study"
    /\ light' = [i \in Light |-> StudyOne(light[i])]
    /\ pc' = "work"
    /\ UNCHANGED <<now, timer, count, g_study_ok>>

Work ==
    /\ pc = "work"
    /\ light' = [i \in Light |-> WorkOne(light[i])]
    /\ g_study_ok' = IF \A i \in Light : light[i].start_study_flag = 0
                     THEN 1 ELSE g_study_ok
    /\ pc' = "top"
    /\ UNCHANGED <<now, timer, count>>

(* One OS tick. trafficlight_task is at most LAG ticks late. *)
Tick ==
    /\ timer < DELAY + LAG
    /\ now' = (now + 1) % U32
    /\ timer' = timer + 1
    /\ UNCHANGED <<light, pc, count, g_study_ok>>

-------------------------------------------------------------------------------
(* trafficLightStatus for the light in place i of g_online, run by              *)
(* tcp_server_thread1 for a client's heartbeat.                                  *)
Letter(c) == CASE c = red -> "R" [] c = green -> "G" [] OTHER -> "Y"

NextLamp(c) == IF c + 1 > 2 THEN red ELSE c + 1

(* fault: the seconds left are not cut to a byte *)
LastSecondsFault(g) ==
    g.light_period[g.current_light] - Elapsed(g.start_ticks) \div TICKS - 1

LastSeconds(g) ==
    (g.light_period[g.current_light] - Elapsed(g.start_ticks) \div TICKS - 1) % U8

(* last_seconds has three entries; entry 3 (unknown) is the byte of study_flag. *)
KeepLastSeconds(g) ==
    IF g.current_light = unknown THEN [g EXCEPT !.study_flag = LastSeconds(g)]
    ELSE g

(* The frame a report puts into light_info[i]: its lamp and seconds left, and    *)
(* whether head1 tells the client to discard it.                                 *)
FrameOf(i) ==
    LET g == light[i]
        over == LastSeconds(g) = 0
        lamp == IF over THEN NextLamp(g.current_light) ELSE g.current_light
        left == IF over THEN g.light_period[lamp] ELSE LastSeconds(g)
        shown == IF g.status = 3 THEN U8 - 1 ELSE left
    IN  [letter |-> Letter(lamp),
         secs |-> IF g.start_study_flag = 1 \/ g.status = 3 THEN U8 - 1 ELSE shown,
         discard |-> shown > DISCARD]

(* What the reports of all lights (send_trafficlight_info) leave behind in the   *)
(* state of the sampling task.                                                   *)
Report ==
    /\ light' = [i \in Light |-> KeepLastSeconds(light[i])]
    /\ UNCHANGED <<now, timer, pc, count, g_study_ok>>
=============================================================================
