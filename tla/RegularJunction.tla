---------------------------- MODULE RegularJunction ----------------------------
(* TrafficLight beside a junction that works as the reports assume: each light   *)
(* shows one lamp at a time, in the order red, green, yellow, each for a         *)
(* duration of its own that never changes. Here what the program learned and    *)
(* reports can be compared with the truth.                                       *)
EXTENDS TrafficLight

CONSTANTS Durations     \* the possible [Lamp -> ticks] of a light

(* A lamp stays lit longer than the longest time between two samples. *)
ASSUME DurationsAssumption ==
    \A d \in Durations : \A c \in Lamp : d[c] \in Nat /\ d[c] > DELAY + 2 * LAG

VARIABLES
    dur,    \* dur[i][c]: how long lamp c of light i stays lit
    lamp,   \* lamp[i]: the lamp of light i that is lit
    age     \* age[i]: for how many ticks it has been lit

junction == <<dur, lamp, age>>
allvars == <<vars, junction>>

Lit == [i \in Light |-> {lamp[i]}]

RegularInit ==
    /\ dur \in [Light -> Durations]
    /\ lamp \in [Light -> Lamp]
    /\ age \in [Light -> 0..U32-1]
    /\ \A i \in Light : age[i] < dur[i][lamp[i]]
    /\ InitWith(Lit)

Task(A) == A /\ UNCHANGED junction

TopStep == Task(LoopTop)
ReadStep == Task(Read(Lit))
StudyStep == Task(Study)
WorkStep == Task(Work)
ReportStep == Task(Report)

(* A tick passes for the program and for the lamps. *)
TickStep ==
    /\ Tick
    /\ LET over(i) == age[i] + 1 = dur[i][lamp[i]] IN
       /\ lamp' = [i \in Light |-> IF over(i) THEN NextLamp(lamp[i]) ELSE lamp[i]]
       /\ age' = [i \in Light |-> IF over(i) THEN 0 ELSE age[i] + 1]
    /\ UNCHANGED dur

RegularNext ==
    TopStep \/ ReadStep \/ StudyStep \/ WorkStep \/ TickStep \/ ReportStep

(* The clock interrupt ticks and the sampling task, the only task of its         *)
(* priority, runs whenever it is ready: tasks above it block within LAG ticks.   *)
RegularFairness ==
    /\ WF_allvars(TopStep) /\ WF_allvars(ReadStep) /\ WF_allvars(StudyStep)
    /\ WF_allvars(WorkStep) /\ WF_allvars(TickStep)

RegularSpec == RegularInit /\ [][RegularNext]_allvars
RegularFairSpec == RegularSpec /\ RegularFairness

-------------------------------------------------------------------------------
Distance(a, b) == IF a < b THEN b - a ELSE a - b

(* A change is seen up to one sampling interval late, and so is the next one. *)
Jitter == DELAY + 2 * LAG

(* What a light learned of a lamp is that lamp's duration, rounded to seconds,   *)
(* give or take the sampling jitter; zero means not measured yet (l.193-203).    *)
PeriodsTrue ==
    \A i \in Light, c \in Lamp :
        light[i].light_period[c] # 0 =>
            Distance(light[i].light_period[c] * TICKS, dur[i][c])
                <= TICKS \div 2 + Jitter

(* At rest, a frame that is not marked for discarding tells the lamp and its     *)
(* seconds left. They are too many by at most half a second and two jitters, one *)
(* of the period and one of the tick at which the phase was seen to begin; they  *)
(* are too few by at most half a second, one jitter and one second more: in the *)
(* last second the frame may already name the next lamp, with its period.        *)
Truth(i) ==
    LET f == FrameOf(i)
        left == dur[i][lamp[i]] - age[i]
        slack == TICKS \div 2 + Jitter IN
    \/ /\ f.letter = Letter(lamp[i])
       /\ f.secs * TICKS <= left + slack + Jitter
       /\ f.secs * TICKS >= left - slack - TICKS
    \/ /\ f.letter = Letter(NextLamp(lamp[i]))
       /\ left <= TICKS + slack
       /\ f.secs = light[i].light_period[NextLamp(lamp[i])]

Counting(i) == light[i].start_study_flag = 0 /\ ~FrameOf(i).discard

(* The sampling task sleeps and its last sample is not older than the jitter:    *)
(* the lamp has not just changed unseen.                                         *)
Sampled(i) == light[i].current_light = lamp[i]

ReportTrueAtRest ==
    pc = "delay" => \A i \in Light : Counting(i) /\ Sampled(i) => Truth(i)

(* A light of a regular junction never reports the period of a lamp as zero once *)
(* it counts down: new studies overwrite periods, they do not erase them.        *)
CountingHasPeriods ==
    \A i \in Light : light[i].start_study_flag = 0 =>
        \A c \in Lamp : light[i].light_period[c] # 0

(* Every light of a regular junction is learned, and then g_study_ok is set.     *)
EventuallyLearned ==
    /\ \A i \in Light : <>[](light[i].start_study_flag = 0)
    /\ <>[](g_study_ok = 1)

(* A new study of a light that counts down comes to an end: it is studied        *)
(* again and again, and not for ever.                                            *)
StudiesEnd ==
    \A i \in Light : (light[i].study_flag = 1) ~> (light[i].study_flag = 0)

-------------------------------------------------------------------------------
(* trafficlight.h:62 says last_seconds is the time left of the lamp shown. A     *)
(* frame made at any moment, not marked for discarding, tells it.                *)
ReportTrueAlways == \A i \in Light : Counting(i) /\ Sampled(i) => Truth(i)
=============================================================================
