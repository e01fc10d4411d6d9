------------------------------ MODULE AnyJunction ------------------------------
(* TrafficLight beside a junction that may show any lamps at any sample: dark   *)
(* or flickering lamps, two lamps of one light lit at once, lamps in any order. *)
EXTENDS TrafficLight

Init == \E lit \in Picture : InitWith(lit)

Sample == \E lit \in Picture : Read(lit)

Next ==
    \/ LoopTop
    \/ Sample
    \/ Study
    \/ Work
    \/ Tick
    \/ Report

Spec == Init /\ [][Next]_vars

-------------------------------------------------------------------------------
(* Two periods are kept: the one a running study has measured and the one the    *)
(* reports use. A lamp the study has measured is reported with that same value,  *)
(* however studies, restarts of a study and samples with two lamps lit follow    *)
(* each other (l.198-199, l.219-239 against the reset of l.99-108).              *)
StudiedIsReported ==
    \A i \in Light, c \in Lamp :
        light[i].light_period_study[c] # 0 =>
            light[i].light_period[c] = light[i].light_period_study[c]

(* A first study ends only when every lamp has a period to report (l.204-212):   *)
(* no light starts to count down with a lamp it never measured.                  *)
FirstStudyComplete ==
    [][\A i \in Light :
         (light[i].start_study_flag = 1 /\ light'[i].start_study_flag = 0) =>
             \A c \in Lamp : light'[i].light_period[c] # 0]_vars

(* Once a light counts down it never falls back to "still learning", and        *)
(* g_study_ok is only ever set when all of them count down (l.251-260).          *)
LearnedForGood ==
    [][/\ \A i \in Light : light[i].start_study_flag = 0 =>
                               light'[i].start_study_flag = 0
       /\ g_study_ok # g_study_ok' =>
             \A i \in Light : light'[i].start_study_flag = 0]_vars

(* The study and the countdown each keep the tick at which the current phase     *)
(* began (start_ticks_study, start_ticks). While the task sleeps the two are     *)
(* within LAG ticks of each other, for a light that counts down and whose study  *)
(* is running: neither clock misses a change the other one saw.                  *)
Apart(a, b) == IF a < b THEN b - a ELSE a - b
PhaseClocksAgree ==
    pc \in {"top", "delay"} =>
        \A i \in Light :
            (/\ light[i].start_study_flag = 0 /\ light[i].study_flag = 1
             /\ light[i].start_ticks_study # 0) =>
            \/ Apart(light[i].start_ticks, light[i].start_ticks_study) <= LAG
            \/ Apart(light[i].start_ticks, light[i].start_ticks_study) >= U32 - LAG

-------------------------------------------------------------------------------
(* trafficlight.h:40 says error_num counts the consecutive samples with several  *)
(* lamps lit: such a sample after such a sample leaves it above zero.            *)
ErrorNumCounts ==
    [][\A lit \in Picture :
         Read(lit) =>
             \A i \in Light :
                 (/\ Double(lit[i]) /\ light[i].status = 2
                  /\ \A j \in 1..i-1 : ~Double(lit[j])) =>
                 light'[i].error_num > 0]_vars

(* trafficlight.c:319: the seconds left of a light that is always on are 255.    *)
(* A sample that shows the very lamp a light was found to be always on with      *)
(* leaves its reports at 255.                                                    *)
AlwaysOnReports255 ==
    [][\A lit \in Picture, i \in Light :
         (/\ Read(lit) /\ light[i].status = 3
          /\ lit[i] = {light[i].current_light}) =>
         (FrameOf(i).secs = U8 - 1 => FrameOf(i)'.secs = U8 - 1)]_vars

(* trafficlight.c:82: when two lamps of a light are lit its data is dropped. The *)
(* other lights, each with one lamp lit, are up to date after the same read.     *)
OnlyBadLightDropped ==
    [][\A lit \in Picture :
         Read(lit) =>
             \A i \in Light, c \in Lamp :
                 lit[i] = {c} => light'[i].current_light = c]_vars

(* trafficlight.h:33-34: last_seconds holds seconds, study_flag says whether a   *)
(* light is being studied; a report only reads the latter.                       *)
ReportKeepsStudy ==
    [][\A i \in Light :
         Report => light'[i].study_flag = light[i].study_flag]_vars
=============================================================================
