-------------------------- MODULE TrafficLight_proofs --------------------------
(* The sampling task, for every number of lights and every value of the bounds.  *)
(* Beside any junction: types, the two sets of periods, the end of a first study *)
(* and the one-way step from learning to counting down, and the two clocks of a  *)
(* phase. Beside a regular junction, whose behaviours are among those: that what *)
(* is learned and reported is the truth.                                         *)
EXTENDS AnyJunction, RegularJunction, TLAPS

(* The reset of trafficLightRead (l.99-108) would clear a reported period that a *)
(* study has measured. It needs error_num to reach 2, and the read leaves status *)
(* at 1 before it looks at it: error_num stays 0.                                *)
ErrorNumZero == \A i \in Light : light[i].error_num = 0

IInv == TypeOK /\ ErrorNumZero /\ StudiedIsReported

(* The same of one light. *)
Sound(g) ==
    /\ g \in TrafficLightRec
    /\ g.error_num = 0
    /\ \A c \in Lamp : g.light_period_study[c] # 0 =>
                           g.light_period[c] = g.light_period_study[c]

-------------------------------------------------------------------------------
(* A value cut to eight bits is a byte. *)
LEMMA CutIsByte == \A x \in Int : x % U8 \in Byte
BY ConstantsAssumption DEF Byte

(* The difference of two ticks is a tick. *)
LEMMA ElapsedIsTick ==
    ASSUME now \in 0..U32-1, NEW t \in 0..U32-1
    PROVE  Elapsed(t) \in 0..U32-1
BY ConstantsAssumption DEF Elapsed

(* The length of a phase is reported in a byte. *)
LEMMA SecondsIsByte == \A t \in Int : Seconds(t) \in Byte
<1>1. \A t \in Int : (t + TICKS \div 2) \div TICKS \in Int
    BY ConstantsAssumption
<1>2. QED
    BY <1>1, CutIsByte DEF Seconds

(* IInv is TypeOK and every light being sound. *)
LEMMA IInvIsSound ==
    IInv <=> TypeOK /\ \A i \in Light : Sound(light[i])
BY DEF IInv, TypeOK, ErrorNumZero, StudiedIsReported, Sound

(* One assignment to a field of a light keeps it sound. *)
Kept(g, h) == Sound(h) /\ h.start_study_flag = g.start_study_flag

LEMMA AssignSound ==
    ASSUME NEW g, Sound(g)
    PROVE  /\ \A v \in LightType : Kept(g, [g EXCEPT !.last_light = v])
           /\ \A v \in LightType : Kept(g, [g EXCEPT !.current_light = v])
           /\ \A v \in Byte : Kept(g, [g EXCEPT !.study_flag = v])
           /\ \A v \in {0, 1} : Sound([g EXCEPT !.start_study_flag = v])
           /\ \A v \in 0..STUDY_MAX+1 : Kept(g, [g EXCEPT !.study_num = v])
           /\ \A v \in 0..3 : Kept(g, [g EXCEPT !.status = v])
           /\ Kept(g, [g EXCEPT !.error_num = 0])
           /\ \A v \in 0..U32-1 : Kept(g, [g EXCEPT !.start_ticks = v])
           /\ \A v \in 0..U32-1 : Kept(g, [g EXCEPT !.start_ticks_study = v])
<1> USE DEF Kept, Sound, TrafficLightRec
<1>1. \A v \in LightType : Kept(g, [g EXCEPT !.last_light = v])
    OBVIOUS
<1>2. \A v \in LightType : Kept(g, [g EXCEPT !.current_light = v])
    OBVIOUS
<1>3. \A v \in Byte : Kept(g, [g EXCEPT !.study_flag = v])
    OBVIOUS
<1>4. \A v \in {0, 1} : Sound([g EXCEPT !.start_study_flag = v])
    OBVIOUS
<1>5. \A v \in 0..STUDY_MAX+1 : Kept(g, [g EXCEPT !.study_num = v])
    OBVIOUS
<1>6. \A v \in 0..3 : Kept(g, [g EXCEPT !.status = v])
    OBVIOUS
<1>7. Kept(g, [g EXCEPT !.error_num = 0])
    BY ConstantsAssumption DEF Byte
<1>8. \A v \in 0..U32-1 : Kept(g, [g EXCEPT !.start_ticks = v])
    OBVIOUS
<1>9. \A v \in 0..U32-1 : Kept(g, [g EXCEPT !.start_ticks_study = v])
    OBVIOUS
<1>10. QED
    BY <1>1, <1>2, <1>3, <1>4, <1>5, <1>6, <1>7, <1>8, <1>9

(* The constants that the code assigns are of the fields' types. *)
LEMMA Constants ==
    /\ 0 \in Byte /\ 1 \in Byte
    /\ 0 \in 0..STUDY_MAX+1 /\ STUDY_MAX+1 \in 0..STUDY_MAX+1
    /\ 0 \in 0..3 /\ 1 \in 0..3 /\ 2 \in 0..3 /\ 3 \in 0..3
    /\ 0 \in {0, 1} /\ 1 \in {0, 1} /\ 0 \in 0..U32-1
BY ConstantsAssumption DEF Byte

(* The fields a sound light has. *)
LEMMA Fields ==
    ASSUME NEW g, Sound(g)
    PROVE  /\ g \in TrafficLightRec
           /\ g.last_light \in LightType /\ g.current_light \in LightType
           /\ g.start_study_flag \in {0, 1}
           /\ g.study_num \in 0..STUDY_MAX+1
           /\ g.light_period \in [LightType -> Byte]
           /\ g.light_period_study \in [LightType -> Byte]
           /\ g.start_ticks \in 0..U32-1 /\ g.start_ticks_study \in 0..U32-1
BY DEF Sound, TrafficLightRec

(* trafficLightRead keeps a light sound, whatever it sees. *)
LEMMA FirstBitKept ==
    ASSUME NEW g, Sound(g)
    PROVE  Kept(g, FirstBit(g)) /\ FirstBit(g).status = 1
<1>1. Kept(g, FirstBit(g))
    BY Constants, AssignSound DEF FirstBit
<1>2. FirstBit(g).status = 1
    BY Fields DEF FirstBit, TrafficLightRec
<1>3. QED
    BY <1>1, <1>2

LEMMA OneLitKept ==
    ASSUME NEW g, Sound(g), NEW s \in SUBSET Lamp
    PROVE  Kept(g, OneLit(g, s))
<1>1. CASE s = {}
    BY <1>1 DEF OneLit, Kept
<1>2. CASE s # {}
    <2> DEFINE h == [g EXCEPT !.last_light = g.current_light]
               f == [h EXCEPT !.current_light = CHOOSE c \in s : TRUE]
    <2>1. (CHOOSE c \in s : TRUE) \in LightType /\ g.current_light \in LightType
        <3>1. (CHOOSE c \in s : TRUE) \in s
            BY <1>2
        <3>2. QED
            BY <3>1, Fields DEF LightType
    <2>2. Kept(g, h)
        BY <2>1, AssignSound
    <2>3. OneLit(g, s) = f
        BY <1>2 DEF OneLit
    <2> HIDE DEF h
    <2>4. Sound(h) => Kept(h, f)
        BY <2>1, AssignSound
    <2> HIDE DEF f
    <2>5. QED
        BY <2>2, <2>3, <2>4 DEF Kept
<1>3. QED
    BY <1>1, <1>2

LEMMA ManyLitKept ==
    ASSUME NEW g, Sound(g), g.status = 1
    PROVE  Kept(g, ManyLit(g))
<1> DEFINE h == [g EXCEPT !.error_num = 0]
           f == [h EXCEPT !.status = 2]
<1>1. ManyLit(g) = f
    <2>1. 0 # 2
        OBVIOUS
    <2>2. QED
        BY <2>1 DEF ManyLit
<1>2. Kept(g, h)
    BY AssignSound
<1> HIDE DEF h
<1>3. Sound(h) => Kept(h, f)
    BY Constants, AssignSound
<1> HIDE DEF f
<1>4. QED
    BY <1>1, <1>2, <1>3 DEF Kept

(* trafficLightStudy: the count, the measurement of a phase, the end of a study. *)
LEMMA CountStudyKept ==
    ASSUME NEW g, Sound(g)
    PROVE  Kept(g, CountStudy(g))
<1>1. CASE g.study_num + 1 > STUDY_MAX
    <2> DEFINE h == [g EXCEPT !.study_num = STUDY_MAX + 1]
               k == [h EXCEPT !.study_flag = 0]
               f == [k EXCEPT !.status = 3]
    <2>1. CountStudy(g) = f
        BY <1>1 DEF CountStudy
    <2>2. Kept(g, h)
        BY Constants, AssignSound
    <2> HIDE DEF h
    <2>3. Sound(h) => Kept(h, k)
        BY Constants, AssignSound
    <2> HIDE DEF k
    <2>4. Sound(k) => Kept(k, f)
        BY Constants, AssignSound
    <2> HIDE DEF f
    <2>5. QED
        BY <2>1, <2>2, <2>3, <2>4 DEF Kept
<1>2. CASE ~(g.study_num + 1 > STUDY_MAX)
    <2>1. g.study_num + 1 \in 0..STUDY_MAX+1
        BY <1>2, Fields, ConstantsAssumption
    <2>2. CountStudy(g) = [g EXCEPT !.study_num = g.study_num + 1]
        BY <1>2 DEF CountStudy
    <2>3. QED
        BY <2>1, <2>2, AssignSound
<1>3. QED
    BY <1>1, <1>2

LEMMA MeasurePhaseKept ==
    ASSUME NEW g, Sound(g), now \in 0..U32-1
    PROVE  Kept(g, MeasurePhase(g))
<1> DEFINE p == Seconds(Elapsed(g.start_ticks_study))
           h == [g EXCEPT !.light_period_study[g.last_light] = p,
                          !.light_period[g.last_light] = p]
<1>1. p \in Byte
    <2>1. Elapsed(g.start_ticks_study) \in Int
        BY Fields, ElapsedIsTick
    <2>2. QED
        BY <2>1, SecondsIsByte
<1>2. Kept(g, h)
    <2> HIDE DEF p
    <2>1. QED
        BY <1>1 DEF Kept, Sound, TrafficLightRec, LightType
<1>3. CASE g.start_ticks_study = 0
    <2>1. MeasurePhase(g) = [g EXCEPT !.start_ticks_study = now]
        BY <1>3 DEF MeasurePhase
    <2>2. QED
        BY <2>1, AssignSound
<1>4. CASE g.start_ticks_study # 0
    <2>1. MeasurePhase(g) = [h EXCEPT !.start_ticks_study = now]
        BY <1>4 DEF MeasurePhase
    <2> HIDE DEF h
    <2>2. Sound(h) => Kept(h, MeasurePhase(g))
        BY <2>1, AssignSound
    <2>3. QED
        BY <1>2, <2>2 DEF Kept
<1>5. QED
    BY <1>3, <1>4

(* A study that ends leaves every lamp with a period to report, and a light that *)
(* counts down goes on to do so.                                                 *)
Learned(g) == \A c \in Lamp : g.light_period[c] # 0
Forward(g, h) ==
    /\ Sound(h)
    /\ g.start_study_flag = 0 => h.start_study_flag = 0
    /\ g.start_study_flag = 1 /\ h.start_study_flag = 0 => Learned(h)

LEMMA FinishStudyForward ==
    ASSUME NEW g, Sound(g)
    PROVE  Forward(g, FinishStudy(g))
<1>1. CASE \A c \in Lamp : g.light_period_study[c] # 0
    <2> DEFINE h == [g EXCEPT !.start_study_flag = 0]
               k == [h EXCEPT !.study_flag = 0]
               f == [k EXCEPT !.status = 0]
    <2>1. Learned(g)
        BY <1>1 DEF Sound, Learned
    <2>2. FinishStudy(g) = f
        BY <1>1 DEF FinishStudy
    <2>3. /\ h.light_period = g.light_period /\ k.light_period = g.light_period
          /\ f.light_period = g.light_period
          /\ h.start_study_flag = 0
        BY Fields DEF TrafficLightRec
    <2>4. Sound(h)
        BY Constants, AssignSound
    <2> HIDE DEF h
    <2>5. Kept(h, k)
        BY <2>4, Constants, AssignSound
    <2> HIDE DEF k
    <2>6. Sound(k) => Kept(k, f)
        BY Constants, AssignSound
    <2> HIDE DEF f
    <2>7. QED
        BY <2>1, <2>2, <2>3, <2>4, <2>5, <2>6 DEF Kept, Forward, Learned
<1>2. CASE ~(\A c \in Lamp : g.light_period_study[c] # 0)
    BY <1>2 DEF FinishStudy, Forward
<1>3. QED
    BY <1>1, <1>2

LEMMA StudyOneForward ==
    ASSUME NEW g, Sound(g), now \in 0..U32-1
    PROVE  Forward(g, StudyOne(g))
<1>1. CASE g.study_flag # 1
    BY <1>1 DEF StudyOne, Forward
<1>2. CASE g.study_flag = 1
    <2> DEFINE h == CountStudy(g)
               k == MeasurePhase(h)
    <2>1. StudyOne(g) = IF Changed(h) THEN FinishStudy(k) ELSE h
        BY <1>2 DEF StudyOne
    <2>2. Kept(g, h)
        BY CountStudyKept
    <2>3. Kept(h, k)
        BY <2>2, MeasurePhaseKept DEF Kept
    <2> HIDE DEF h, k
    <2>4. Forward(k, FinishStudy(k))
        BY <2>3, FinishStudyForward DEF Kept
    <2>5. QED
        BY <2>1, <2>2, <2>3, <2>4 DEF Kept, Forward
<1>3. QED
    BY <1>1, <1>2

(* trafficLight_study_once, trafficLightWork, trafficLightStatus and the last    *)
(* lines of trafficLightInit keep a light sound.                                 *)
LEMMA StudyOnceKept ==
    ASSUME NEW g, Sound(g)
    PROVE  Kept(g, StudyOnce(g))
<1> DEFINE g1 == [g EXCEPT !.study_num = 0]
           g2 == [g1 EXCEPT !.study_flag = 1]
           g3 == [g2 EXCEPT !.start_ticks_study = 0]
           g4 == [g3 EXCEPT !.status = 0]
           zero == [c \in LightType |-> IF c \in Lamp THEN 0
                                        ELSE g.light_period_study[c]]
           f == [g4 EXCEPT !.light_period_study = zero]
<1>1. StudyOnce(g) = f
    <2>1. g4.light_period_study = g.light_period_study
        BY Fields DEF TrafficLightRec
    <2>2. QED
        BY <2>1 DEF StudyOnce
<1>2. zero \in [LightType -> Byte] /\ \A c \in Lamp : zero[c] = 0
    BY Fields, Constants DEF LightType
<1> HIDE DEF zero
<1>3. Kept(g, g1)
    BY Constants, AssignSound
<1> HIDE DEF g1
<1>4. Sound(g1) => Kept(g1, g2)
    BY Constants, AssignSound
<1> HIDE DEF g2
<1>5. Sound(g2) => Kept(g2, g3)
    BY Constants, AssignSound
<1> HIDE DEF g3
<1>6. Sound(g3) => Kept(g3, g4)
    BY Constants, AssignSound
<1> HIDE DEF g4
<1>7. Sound(g4) => Kept(g4, f)
    BY <1>2 DEF Kept, Sound, TrafficLightRec
<1> HIDE DEF f
<1>8. QED
    BY <1>1, <1>3, <1>4, <1>5, <1>6, <1>7 DEF Kept

LEMMA WorkOneKept ==
    ASSUME NEW g, Sound(g), now \in 0..U32-1
    PROVE  Kept(g, WorkOne(g))
BY AssignSound DEF WorkOne, Kept

LEMMA KeepLastSecondsKept ==
    ASSUME NEW g, Sound(g), now \in 0..U32-1
    PROVE  Kept(g, KeepLastSeconds(g))
<1>1. Elapsed(g.start_ticks) \in Int
    BY Fields, ElapsedIsTick
<1>2. Elapsed(g.start_ticks) \div TICKS \in Int
    BY <1>1, ConstantsAssumption
<1>3. g.light_period[g.current_light] \in Int
    BY Fields DEF Byte
<1>4. LastSeconds(g) \in Byte
    BY <1>2, <1>3, CutIsByte DEF LastSeconds
<1>5. QED
    BY <1>4, AssignSound DEF KeepLastSeconds, Kept

LEMMA BlankSound == Sound(Blank)
<1>1. {0, 1} \subseteq Byte /\ 0 \in 0..STUDY_MAX+1 /\ 0 \in 0..U32-1
    BY ConstantsAssumption DEF Byte
<1>2. [c \in LightType |-> 0] \in [LightType -> Byte]
    BY <1>1
<1>3. red \in LightType /\ unknown \in LightType
    BY DEF LightType, Lamp
<1>4. QED
    BY <1>1, <1>2, <1>3 DEF Sound, Blank, TrafficLightRec, Lamp, LightType

LEMMA StartStudySound == ASSUME NEW g, Sound(g) PROVE Sound(StartStudy(g))
<1> DEFINE h == [g EXCEPT !.study_flag = 1]
           k == [h EXCEPT !.start_study_flag = 1]
           f == [k EXCEPT !.last_light = g.current_light]
<1>1. StartStudy(g) = f
    BY DEF StartStudy
<1>2. g.current_light \in LightType
    BY Fields
<1>3. Kept(g, h)
    BY Constants, AssignSound
<1> HIDE DEF h
<1>4. Sound(h) => Sound(k)
    BY Constants, AssignSound
<1> HIDE DEF k
<1>5. Sound(k) => Kept(k, f)
    BY <1>2, AssignSound
<1> HIDE DEF f
<1>6. QED
    BY <1>1, <1>3, <1>4, <1>5 DEF Kept

-------------------------------------------------------------------------------
(* Every sample reads a sound light into a sound light. *)
LEMMA ReadKept ==
    ASSUME NEW gs, \A i \in Light : Sound(gs[i]), NEW lit \in Picture
    PROVE  /\ ReadLights(gs, lit) \in [Light -> TrafficLightRec]
           /\ \A i \in Light : Kept(gs[i], ReadLights(gs, lit)[i])
<1>1. ASSUME NEW i \in Light
      PROVE  Kept(gs[i], ReadLights(gs, lit)[i])
    <2> DEFINE f == FirstBit(gs[i])
    <2>1. lit[i] \in SUBSET Lamp
        BY DEF Picture
    <2>2. Kept(gs[i], f) /\ f.status = 1
        BY FirstBitKept
    <2>3. \/ ReadLights(gs, lit)[i] = OneLit(f, lit[i])
          \/ ReadLights(gs, lit)[i] = ManyLit(f)
          \/ ReadLights(gs, lit)[i] = gs[i]
        BY DEF ReadLights
    <2> HIDE DEF f
    <2>4. Kept(f, OneLit(f, lit[i])) /\ Kept(f, ManyLit(f))
        BY <2>1, <2>2, OneLitKept, ManyLitKept DEF Kept
    <2>5. QED
        BY <2>2, <2>3, <2>4 DEF Kept
<1>2. QED
    BY <1>1 DEF Kept, Sound, ReadLights

(* IInv holds at first. *)
LEMMA InitIInv == Init => IInv
<1> SUFFICES ASSUME NEW lit \in Picture, InitWith(lit)
             PROVE  IInv
    BY DEF Init
<1> DEFINE gs == ReadLights([i \in Light |-> Blank], lit)
<1>1. \A i \in Light : Sound(gs[i])
    <2>1. \A i \in Light : Sound([j \in Light |-> Blank][i])
        BY BlankSound
    <2>2. QED
        BY <2>1, ReadKept DEF Kept
<1> HIDE DEF gs
<1>2. light = [i \in Light |-> StartStudy(gs[i])]
    BY DEF InitWith, gs
<1>3. \A i \in Light : Sound(light[i])
    BY <1>1, <1>2, StartStudySound
<1>4. light \in [Light -> TrafficLightRec]
    BY <1>2, <1>3 DEF Sound
<1>5. TypeOK
    BY <1>4, ConstantsAssumption DEF InitWith, TypeOK, Steps
<1>6. QED
    BY <1>3, <1>5, IInvIsSound

(* In every step each light is kept or goes forward, and is sound. *)
LEMMA StepForward ==
    ASSUME IInv, [Next]_vars
    PROVE  /\ light' \in [Light -> TrafficLightRec]
           /\ \A i \in Light : Forward(light[i], light'[i])
<1>1. \A i \in Light : Sound(light[i])
    BY IInvIsSound
<1>2. now \in 0..U32-1 /\ light \in [Light -> TrafficLightRec]
    BY DEF IInv, TypeOK
<1>3. \A g, h : Kept(g, h) /\ Sound(g) => Forward(g, h)
    BY DEF Kept, Forward
<1>4. CASE UNCHANGED light
    BY <1>1, <1>2, <1>4 DEF Forward
<1>5. CASE LoopTop
    <2>1. CASE UNCHANGED light
        BY <1>4, <2>1
    <2>2. CASE light' = [i \in Light |-> StudyOnce(light[i])]
        <3>1. \A i \in Light : Kept(light[i], light'[i])
            BY <1>1, <2>2, StudyOnceKept
        <3>2. QED
            BY <1>1, <1>3, <2>2, <3>1 DEF Kept, Sound
    <2>3. QED
        BY <1>5, <2>1, <2>2 DEF LoopTop
<1>6. ASSUME NEW lit \in Picture, Read(lit)
      PROVE  /\ light' \in [Light -> TrafficLightRec]
             /\ \A i \in Light : Forward(light[i], light'[i])
    <2>1. light' = ReadLights(light, lit)
        BY <1>6 DEF Read
    <2>2. QED
        BY <1>1, <1>3, <2>1, ReadKept
<1>7. CASE Study
    <2>1. light' = [i \in Light |-> StudyOne(light[i])]
        BY <1>7 DEF Study
    <2>2. \A i \in Light : Forward(light[i], light'[i])
        BY <1>1, <1>2, <2>1, StudyOneForward
    <2>3. QED
        BY <2>1, <2>2 DEF Forward, Sound
<1>8. CASE Work
    <2>1. light' = [i \in Light |-> WorkOne(light[i])]
        BY <1>8 DEF Work
    <2>2. \A i \in Light : Kept(light[i], light'[i])
        BY <1>1, <1>2, <2>1, WorkOneKept
    <2>3. QED
        BY <1>1, <1>3, <2>1, <2>2 DEF Kept, Sound
<1>9. CASE Report
    <2>1. light' = [i \in Light |-> KeepLastSeconds(light[i])]
        BY <1>9 DEF Report
    <2>2. \A i \in Light : Kept(light[i], light'[i])
        BY <1>1, <1>2, <2>1, KeepLastSecondsKept
    <2>3. QED
        BY <1>1, <1>3, <2>1, <2>2 DEF Kept, Sound
<1>10. QED
    BY <1>4, <1>5, <1>6, <1>7, <1>8, <1>9 DEF Next, Sample, Tick, vars

(* The clock, the counter and the place in the loop keep their types. *)
LEMMA OthersTyped ==
    ASSUME TypeOK, [Next]_vars
    PROVE  /\ now' \in 0..U32-1 /\ timer' \in 0..DELAY+LAG /\ pc' \in Steps
           /\ count' \in 0..RELEARN /\ g_study_ok' \in {0, 1}
<1> USE ConstantsAssumption DEF TypeOK, Steps
<1>1. CASE LoopTop
    BY <1>1 DEF LoopTop
<1>2. CASE Sample
    BY <1>2 DEF Sample, Read
<1>3. CASE Study
    BY <1>3 DEF Study
<1>4. CASE Work
    BY <1>4 DEF Work
<1>5. CASE Tick
    BY <1>5 DEF Tick
<1>6. CASE Report
    BY <1>6 DEF Report
<1>7. CASE UNCHANGED vars
    BY <1>7 DEF vars
<1>8. QED
    BY <1>1, <1>2, <1>3, <1>4, <1>5, <1>6, <1>7 DEF Next

(* IInv is inductive. *)
LEMMA StepIInv == IInv /\ [Next]_vars => IInv'
<1> SUFFICES ASSUME IInv, [Next]_vars
             PROVE  IInv'
    OBVIOUS
<1>1. \A i \in Light : Sound(light'[i])
    BY StepForward DEF Forward
<1>2. TypeOK'
    BY StepForward, OthersTyped DEF IInv, TypeOK
<1>3. QED
    BY <1>1, <1>2 DEF IInv, ErrorNumZero, StudiedIsReported, Sound

LEMMA Invariance == Spec => []IInv
BY InitIInv, StepIInv, PTL DEF Spec

(* Types: every field stays in its width, whatever the junction shows; so does   *)
(* study_flag, into which the reports of an unknown lamp are written.            *)
THEOREM TypeCorrect == Spec => []TypeOK
BY Invariance, PTL DEF IInv

(* The reset of the reported periods at l.99-108 never separates them from the   *)
(* periods a study has measured.                                                 *)
THEOREM StudiedIsReportedAlways == Spec => []StudiedIsReported
BY Invariance, PTL DEF IInv

(* A light starts to count down only with a period for each lamp (l.204-212).    *)
THEOREM FirstStudyIsComplete == Spec => FirstStudyComplete
<1> DEFINE Complete ==
        \A i \in Light :
            (light[i].start_study_flag = 1 /\ light'[i].start_study_flag = 0) =>
                \A c \in Lamp : light'[i].light_period[c] # 0
<1>1. IInv /\ [Next]_vars => [Complete]_vars
    BY StepForward DEF Forward, Learned
<1>2. QED
    BY <1>1, Invariance, PTL DEF Spec, FirstStudyComplete

(* A light that counts down does so for good, and g_study_ok is set only when    *)
(* all lights do (l.251-260).                                                    *)
THEOREM LearnedIsForGood == Spec => LearnedForGood
<1> DEFINE ForGood ==
        /\ \A i \in Light : light[i].start_study_flag = 0 =>
                                 light'[i].start_study_flag = 0
        /\ g_study_ok # g_study_ok' =>
               \A i \in Light : light'[i].start_study_flag = 0
<1>1. IInv /\ [Next]_vars => [ForGood]_vars
    <2> SUFFICES ASSUME IInv, [Next]_vars
                 PROVE  ForGood
        OBVIOUS
    <2>1. \A i \in Light : light[i].start_study_flag = 0 =>
                               light'[i].start_study_flag = 0
        BY StepForward DEF Forward
    <2>2. g_study_ok # g_study_ok' =>
              \A i \in Light : light[i].start_study_flag = 0
        BY DEF Next, LoopTop, Sample, Read, Study, Work, Tick, Report, vars
    <2>3. QED
        BY <2>1, <2>2
<1>2. QED
    BY <1>1, Invariance, PTL DEF Spec, LearnedForGood

-------------------------------------------------------------------------------
(* The two clocks of a phase. Study and Work of one pass are at most LAG ticks     *)
(* apart, and see the same change; nothing else moves one clock and not the other. *)
Close(a, b) == Apart(a, b) <= LAG \/ Apart(a, b) >= U32 - LAG

(* The clock has moved on from tick s by at most m ticks. *)
Behind(s, m) == IF s <= now THEN now - s <= m ELSE s - now >= U32 - m

Restudied(g) ==
    g.start_study_flag = 0 /\ g.study_flag = 1 /\ g.start_ticks_study # 0

(* A light that never showed a lamp has not finished its first study: only then   *)
(* do reports write to study_flag.                                                *)
Known(g) ==
    g.current_light = unknown => g.last_light = unknown /\ g.start_study_flag = 1

Agree(g) == Restudied(g) => Close(g.start_ticks, g.start_ticks_study)

(* Between Study and Work the study has seen a change that Work will see. *)
Pending(g) ==
    Restudied(g) => IF Changed(g) THEN Behind(g.start_ticks_study, timer - DELAY)
                    ELSE Close(g.start_ticks, g.start_ticks_study)

PhaseInv ==
    /\ pc \in {"study", "work"} => timer >= DELAY
    /\ \A i \in Light : Known(light[i])
    /\ pc # "work" => \A i \in Light : Agree(light[i])
    /\ pc = "work" => \A i \in Light : Pending(light[i])

LEMMA TicksTyped ==
    /\ LAG \in Nat /\ DELAY \in Nat /\ U32 \in Nat /\ U32 > 1
    /\ TypeOK => now \in 0..U32-1 /\ timer \in Nat /\ timer <= DELAY + LAG
BY ConstantsAssumption DEF TypeOK

LEMMA BehindIsClose ==
    ASSUME TypeOK, NEW s \in 0..U32-1, Behind(s, timer - DELAY)
    PROVE  Close(now, s)
BY TicksTyped DEF Behind, Close, Apart

(* A tick moves the clock on, over its wrap as well. *)
LEMMA TickBehind ==
    ASSUME TypeOK, Tick, timer >= DELAY, NEW s \in 0..U32-1, Behind(s, timer - DELAY)
    PROVE  Behind(s, timer - DELAY)'
<1>1. now' = IF now + 1 = U32 THEN 0 ELSE now + 1
    <2>1. now' = (now + 1) % U32 /\ now \in 0..U32-1
        BY TicksTyped DEF Tick
    <2>2. CASE now + 1 = U32
        BY <2>1, <2>2, TicksTyped
    <2>3. CASE now + 1 < U32
        <3>1. \A n \in 0..U32-1 : n % U32 = n
            BY TicksTyped
        <3>2. now + 1 \in 0..U32-1
            BY <2>1, <2>3, TicksTyped
        <3>3. QED
            BY <2>1, <2>3, <3>1, <3>2
    <2>4. QED
        BY <2>1, <2>2, <2>3, TicksTyped
<1>2. timer' = timer + 1
    BY DEF Tick
<1>3. QED
    BY <1>1, <1>2, TicksTyped DEF Behind

(* The fields by which the clocks are kept. *)
SamePhase(g, h) ==
    /\ h.start_study_flag = g.start_study_flag /\ h.study_flag = g.study_flag
    /\ h.start_ticks = g.start_ticks /\ h.start_ticks_study = g.start_ticks_study

SameLamps(g, h) == h.last_light = g.last_light /\ h.current_light = g.current_light

(* A read changes neither clock, and a lamp once known stays known. *)
LEMMA ReadPhase ==
    ASSUME NEW gs, \A i \in Light : Sound(gs[i]) /\ Known(gs[i]),
           NEW lit \in Picture, NEW i \in Light
    PROVE  LET h == ReadLights(gs, lit)[i]
           IN  Known(h) /\ SamePhase(gs[i], h)
<1> DEFINE g == gs[i]
           f == FirstBit(g)
<1>1. g \in TrafficLightRec /\ Sound(g) /\ Known(g)
    BY DEF Sound
<1>2. f.status = 1 /\ SamePhase(g, f) /\ SameLamps(g, f) /\ Sound(f)
    BY <1>1, FirstBitKept DEF FirstBit, SamePhase, SameLamps, TrafficLightRec, Kept
<1>3. \/ ReadLights(gs, lit)[i] = OneLit(f, lit[i])
      \/ ReadLights(gs, lit)[i] = ManyLit(f)
      \/ ReadLights(gs, lit)[i] = g
    BY DEF ReadLights
<1> HIDE DEF f
<1>4. f \in TrafficLightRec /\ Known(f)
    BY <1>1, <1>2 DEF Sound, Known, SamePhase, SameLamps
<1>5. SamePhase(f, ManyLit(f)) /\ SameLamps(f, ManyLit(f))
    <2>1. ManyLit(f) = [f EXCEPT !.error_num = 0, !.status = 2]
        BY <1>2 DEF ManyLit
    <2>2. QED
        BY <1>4, <2>1 DEF SamePhase, SameLamps, TrafficLightRec
<1>6. SamePhase(f, OneLit(f, lit[i])) /\ Known(OneLit(f, lit[i]))
    <2>1. CASE lit[i] = {}
        BY <1>4, <2>1 DEF OneLit, SamePhase
    <2>2. CASE lit[i] # {}
        <3>1. (CHOOSE c \in lit[i] : TRUE) \in Lamp
            BY <2>2 DEF Picture
        <3>2. \A c \in Lamp : c # unknown
            BY DEF Lamp, unknown, red, green, yellow
        <3>3. OneLit(f, lit[i]) = [f EXCEPT !.last_light = f.current_light,
                                            !.current_light = CHOOSE c \in lit[i] : TRUE]
            BY <2>2 DEF OneLit
        <3>4. QED
            BY <1>4, <3>1, <3>2, <3>3 DEF SamePhase, Known, TrafficLightRec
    <2>3. QED
        BY <2>1, <2>2
<1>7. QED
    BY <1>1, <1>2, <1>3, <1>4, <1>5, <1>6 DEF SamePhase, SameLamps, Known

LEMMA FinishPhase ==
    ASSUME NEW g \in TrafficLightRec
    PROVE  LET h == FinishStudy(g)
           IN  /\ h.start_ticks = g.start_ticks
               /\ h.start_ticks_study = g.start_ticks_study /\ SameLamps(g, h)
               /\ Restudied(h) => h = g
BY DEF FinishStudy, SameLamps, Restudied, TrafficLightRec

LEMMA MeasurePhaseClock ==
    ASSUME NEW g \in TrafficLightRec
    PROVE  LET h == MeasurePhase(g)
           IN  /\ h.start_ticks_study = now /\ h.start_ticks = g.start_ticks
               /\ h.start_study_flag = g.start_study_flag
               /\ SameLamps(g, h)
BY DEF MeasurePhase, SameLamps, TrafficLightRec

LEMMA CountPhase ==
    ASSUME NEW g \in TrafficLightRec
    PROVE  LET h == CountStudy(g)
           IN  /\ h.start_ticks_study = g.start_ticks_study
               /\ h.start_ticks = g.start_ticks
               /\ h.start_study_flag = g.start_study_flag
               /\ h.study_flag \in {g.study_flag, 0}
               /\ SameLamps(g, h)
BY DEF CountStudy, SameLamps, TrafficLightRec

(* The study starts its clock at a change, while it runs, and at nothing else. *)
LEMMA StudyPhase ==
    ASSUME NEW g, Sound(g), Known(g), Agree(g), TypeOK, timer >= DELAY
    PROVE  Known(StudyOne(g)) /\ Pending(StudyOne(g))
<1> DEFINE h == CountStudy(g)
           m == MeasurePhase(h)
           f == FinishStudy(m)
<1>1. g \in TrafficLightRec /\ h \in TrafficLightRec /\ m \in TrafficLightRec
    <2>1. Sound(h)
        BY CountStudyKept DEF Kept
    <2>2. now \in 0..U32-1
        BY DEF TypeOK
    <2>3. Sound(m)
        BY <2>1, <2>2, MeasurePhaseKept DEF Kept
    <2>4. QED
        BY <2>1, <2>3 DEF Sound
<1>2. CASE g.study_flag # 1
    BY <1>2 DEF StudyOne, Pending, Restudied
<1>3. CASE g.study_flag = 1 /\ Changed(h)
    <2>1. StudyOne(g) = f
        BY <1>3 DEF StudyOne
    <2>2. /\ SameLamps(g, h) /\ SameLamps(h, m) /\ SameLamps(m, f)
          /\ f.start_ticks_study = now
        BY <1>1, CountPhase, MeasurePhaseClock, FinishPhase
    <2>3. Changed(f) /\ f.current_light # unknown
        BY <1>3, <2>2 DEF SameLamps, Changed, Known
    <2>4. Behind(now, timer - DELAY)
        BY TicksTyped DEF Behind
    <2>5. QED
        BY <2>1, <2>2, <2>3, <2>4 DEF Known, Pending
<1>4. CASE g.study_flag = 1 /\ ~Changed(h)
    <2>1. StudyOne(g) = h
        BY <1>4 DEF StudyOne
    <2>2. /\ SameLamps(g, h) /\ h.start_ticks_study = g.start_ticks_study
          /\ h.start_ticks = g.start_ticks /\ h.start_study_flag = g.start_study_flag
        BY <1>1, CountPhase
    <2>3. QED
        BY <1>4, <2>1, <2>2 DEF Known, Pending, Agree, Restudied, SameLamps
<1>5. QED
    BY <1>2, <1>3, <1>4

(* Work starts the clock of the countdown at the change the study has seen. *)
LEMMA WorkPhase ==
    ASSUME NEW g, Sound(g), Known(g), Pending(g), TypeOK
    PROVE  Known(WorkOne(g)) /\ Agree(WorkOne(g))
<1>1. g \in TrafficLightRec /\ g.start_ticks_study \in 0..U32-1
    BY DEF Sound, TrafficLightRec
<1>2. CASE g.start_study_flag = 0 /\ Changed(g)
    <2>1. WorkOne(g) = [g EXCEPT !.start_ticks = now]
        BY <1>2 DEF WorkOne
    <2>2. /\ SameLamps(g, WorkOne(g)) /\ WorkOne(g).start_ticks = now
          /\ WorkOne(g).start_ticks_study = g.start_ticks_study
          /\ WorkOne(g).start_study_flag = g.start_study_flag
          /\ WorkOne(g).study_flag = g.study_flag
        BY <1>1, <2>1 DEF SameLamps, TrafficLightRec
    <2>3. Restudied(g) => Close(now, g.start_ticks_study)
        BY <1>1, <1>2, BehindIsClose DEF Pending
    <2>4. QED
        BY <2>2, <2>3 DEF Known, Agree, Restudied, SameLamps
<1>3. CASE ~(g.start_study_flag = 0 /\ Changed(g))
    BY <1>3 DEF WorkOne, Pending, Agree, Restudied
<1>4. QED
    BY <1>2, <1>3

(* A new study begins without a clock; a report touches only lights that have      *)
(* never shown a lamp.                                                            *)
LEMMA StudyOncePhase ==
    ASSUME NEW g \in TrafficLightRec, Known(g)
    PROVE  Known(StudyOnce(g)) /\ Agree(StudyOnce(g))
<1>1. /\ SameLamps(g, StudyOnce(g)) /\ StudyOnce(g).start_ticks_study = 0
      /\ StudyOnce(g).start_study_flag = g.start_study_flag
    BY DEF StudyOnce, SameLamps, TrafficLightRec
<1>2. QED
    BY <1>1 DEF Known, Agree, Restudied, SameLamps

LEMMA ReportPhase ==
    ASSUME NEW g \in TrafficLightRec, Known(g)
    PROVE  /\ Known(KeepLastSeconds(g))
           /\ Agree(g) => Agree(KeepLastSeconds(g))
           /\ Pending(g) => Pending(KeepLastSeconds(g))
<1>1. CASE g.current_light # unknown
    BY <1>1 DEF KeepLastSeconds
<1>2. CASE g.current_light = unknown
    <2>1. /\ SameLamps(g, KeepLastSeconds(g))
          /\ KeepLastSeconds(g).start_study_flag = g.start_study_flag
        BY <1>2 DEF KeepLastSeconds, SameLamps, TrafficLightRec
    <2>2. g.start_study_flag = 1
        BY <1>2 DEF Known
    <2>3. QED
        BY <2>1, <2>2 DEF Known, Agree, Pending, Restudied, SameLamps
<1>3. QED
    BY <1>1, <1>2

LEMMA InitPhase == Init => PhaseInv
<1> SUFFICES ASSUME NEW lit \in Picture, InitWith(lit)
             PROVE  PhaseInv
    BY DEF Init
<1> DEFINE gs == ReadLights([i \in Light |-> Blank], lit)
<1>1. \A i \in Light : gs[i] \in TrafficLightRec
    <2>1. \A i \in Light : Sound([j \in Light |-> Blank][i])
        BY BlankSound
    <2>2. QED
        BY <2>1, ReadKept DEF Kept, Sound
<1> HIDE DEF gs
<1>2. light = [i \in Light |-> StartStudy(gs[i])] /\ pc = "top"
    BY DEF InitWith, gs
<1>3. ASSUME NEW i \in Light
      PROVE  Known(light[i]) /\ Agree(light[i])
    <2>1. light[i].start_study_flag = 1 /\ light[i].last_light = light[i].current_light
        BY <1>1, <1>2 DEF StartStudy, TrafficLightRec
    <2>2. QED
        BY <2>1 DEF Known, Agree, Restudied
<1>4. QED
    BY <1>2, <1>3 DEF PhaseInv

LEMMA StepPhase ==
    ASSUME IInv, PhaseInv, [Next]_vars
    PROVE  PhaseInv'
<1>1. /\ \A i \in Light : Sound(light[i]) /\ Known(light[i]) /\ light[i] \in TrafficLightRec
      /\ TypeOK
    BY IInvIsSound DEF PhaseInv, Sound, IInv
<1>2. CASE LoopTop
    <2>1. pc = "top" /\ pc' = "delay"
        BY <1>2 DEF LoopTop
    <2>2. CASE UNCHANGED light
        BY <2>1, <2>2 DEF PhaseInv, Agree, Known, Restudied, Close
    <2>3. CASE light' = [i \in Light |-> StudyOnce(light[i])]
        <3>1. \A i \in Light : Known(light'[i]) /\ Agree(light'[i])
            BY <1>1, <2>3, StudyOncePhase
        <3>2. QED
            BY <2>1, <3>1 DEF PhaseInv, Agree, Known, Restudied, Close
    <2>4. QED
        BY <1>2, <2>2, <2>3 DEF LoopTop
<1>3. CASE Sample
    <2>1. PICK lit \in Picture : Read(lit)
        BY <1>3 DEF Sample
    <2>2. /\ pc = "delay" /\ pc' = "study" /\ timer >= DELAY /\ timer' = timer
          /\ light' = ReadLights(light, lit)
        BY <2>1 DEF Read
    <2>3. \A i \in Light : Known(light'[i]) /\ SamePhase(light[i], light'[i])
        BY <1>1, <2>2, ReadPhase
    <2>4. \A i \in Light : Agree(light'[i])
        BY <2>2, <2>3 DEF PhaseInv, Agree, Restudied, SamePhase
    <2>5. QED
        BY <2>2, <2>3, <2>4 DEF PhaseInv, Agree, Known, Restudied, Close
<1>4. CASE Study
    <2>1. /\ pc = "study" /\ pc' = "work" /\ timer >= DELAY /\ UNCHANGED <<now, timer>>
          /\ light' = [i \in Light |-> StudyOne(light[i])]
        BY <1>4 DEF Study, PhaseInv
    <2>2. \A i \in Light : Known(light'[i]) /\ Pending(light'[i])
        BY <1>1, <2>1, StudyPhase DEF PhaseInv
    <2>3. QED
        BY <2>1, <2>2 DEF PhaseInv, Pending, Known, Restudied, Close, Behind, Changed
<1>5. CASE Work
    <2>1. /\ pc = "work" /\ pc' = "top"
          /\ light' = [i \in Light |-> WorkOne(light[i])]
        BY <1>5 DEF Work
    <2>2. \A i \in Light : Known(light'[i]) /\ Agree(light'[i])
        BY <1>1, <2>1, WorkPhase DEF PhaseInv
    <2>3. QED
        BY <2>1, <2>2 DEF PhaseInv, Agree, Known, Restudied, Close
<1>6. CASE Tick
    <2>1. UNCHANGED <<light, pc>> /\ timer' = timer + 1
        BY <1>6 DEF Tick
    <2>2. timer >= DELAY => timer' >= DELAY
        BY <1>1, <2>1, TicksTyped
    <2>3. ASSUME NEW i \in Light, pc = "work"
          PROVE  Pending(light[i])'
        <3>1. /\ timer >= DELAY /\ Pending(light[i])
              /\ light[i].start_ticks_study \in 0..U32-1
            BY <1>1, <2>3 DEF PhaseInv, TrafficLightRec
        <3>2. Behind(light[i].start_ticks_study, timer - DELAY) =>
                  Behind(light[i].start_ticks_study, timer - DELAY)'
            BY <1>1, <1>6, <2>1, <3>1, TickBehind DEF Behind
        <3>3. QED
            BY <2>1, <3>1, <3>2 DEF Pending, Restudied, Changed, Close
    <2>4. QED
        BY <2>1, <2>2, <2>3 DEF PhaseInv, Agree, Known, Restudied, Close
<1>7. CASE Report
    <2>1. UNCHANGED <<now, timer, pc>> /\ light' = [i \in Light |-> KeepLastSeconds(light[i])]
        BY <1>7 DEF Report
    <2>2. \A i \in Light : /\ Known(light'[i])
                           /\ Agree(light[i]) => Agree(light'[i])
                           /\ Pending(light[i]) => Pending(light'[i])
        BY <1>1, <2>1, ReportPhase
    <2>3. QED
        BY <2>1, <2>2 DEF PhaseInv, Agree, Pending, Known, Restudied, Close, Behind, Changed
<1>8. CASE UNCHANGED vars
    BY <1>8 DEF PhaseInv, vars, Agree, Pending, Known, Restudied, Close, Behind, Changed
<1>9. QED
    BY <1>2, <1>3, <1>4, <1>5, <1>6, <1>7, <1>8 DEF Next

(* The study's clock and the countdown's agree within the time the task may be     *)
(* late, for any lateness, any clock width and whatever the junction shows         *)
(* (l.189-203 and l.252-254 of trafficlight.c).                                    *)
THEOREM PhaseClocksAlwaysAgree == Spec => []PhaseClocksAgree
<1>1. IInv /\ PhaseInv /\ [Next]_vars => PhaseInv'
    BY StepPhase
<1>2. PhaseInv => PhaseClocksAgree
    BY DEF PhaseInv, PhaseClocksAgree, Agree, Restudied, Close
<1>3. QED
    BY <1>1, <1>2, InitPhase, Invariance, PTL DEF Spec

-------------------------------------------------------------------------------
(* The regular junction: one of the junctions that may show any lamps. A light   *)
(* shows one lamp, in a phase that has not yet ended.                            *)
JunctionTyped ==
    /\ dur \in [Light -> Durations]
    /\ lamp \in [Light -> Lamp]
    /\ age \in [Light -> Nat]
    /\ \A i \in Light : age[i] < dur[i][lamp[i]]

LEMMA NextIsLamp == \A c \in Lamp : NextLamp(c) \in Lamp /\ NextLamp(c) # c
BY DEF NextLamp, Lamp, red, green, yellow

LEMMA LampsTyped ==
    ASSUME JunctionTyped, NEW i \in Light
    PROVE  /\ dur[i] \in Durations /\ lamp[i] \in Lamp /\ age[i] \in Nat
           /\ \A c \in Lamp : dur[i][c] \in Nat /\ dur[i][c] > Jitter
           /\ age[i] < dur[i][lamp[i]]
BY DurationsAssumption DEF JunctionTyped, Jitter

LEMMA InitJunction == RegularInit => JunctionTyped
BY ConstantsAssumption DEF RegularInit, JunctionTyped

LEMMA StepJunction ==
    ASSUME JunctionTyped, [RegularNext]_allvars
    PROVE  JunctionTyped'
<1>1. CASE TickStep
    <2>1. ASSUME NEW i \in Light
          PROVE  /\ lamp'[i] \in Lamp /\ age'[i] \in Nat
                 /\ age'[i] < dur'[i][lamp'[i]]
        <3>1. /\ dur'[i] = dur[i]
              /\ IF age[i] + 1 = dur[i][lamp[i]]
                 THEN lamp'[i] = NextLamp(lamp[i]) /\ age'[i] = 0
                 ELSE lamp'[i] = lamp[i] /\ age'[i] = age[i] + 1
            BY <1>1 DEF TickStep
        <3>2. Jitter \in Nat
            BY ConstantsAssumption DEF Jitter
        <3>3. QED
            BY <3>1, <3>2, LampsTyped, NextIsLamp
    <2>2. /\ dur' = dur
          /\ lamp' = [i \in Light |-> lamp'[i]] /\ age' = [i \in Light |-> age'[i]]
        BY <1>1 DEF TickStep
    <2>3. lamp' \in [Light -> Lamp] /\ age' \in [Light -> Nat]
        BY <2>1, <2>2
    <2>4. QED
        BY <2>1, <2>2, <2>3 DEF JunctionTyped
<1>2. CASE UNCHANGED junction
    BY <1>2 DEF junction, JunctionTyped
<1>3. QED
    BY <1>1, <1>2 DEF RegularNext, TopStep, ReadStep, StudyStep, WorkStep, ReportStep,
                     Task, allvars

LEMMA LitIsPicture == JunctionTyped => Lit \in Picture
BY DEF JunctionTyped, Lit, Picture

(* Every behaviour beside a regular junction is one beside a junction that may   *)
(* show anything: what is proved of that one holds here.                         *)
THEOREM RegularIsAny == RegularSpec => Spec
<1>1. RegularInit => Init
    BY InitJunction, LitIsPicture DEF RegularInit, Init
<1>2. JunctionTyped /\ [RegularNext]_allvars => [Next]_vars
    BY LitIsPicture DEF RegularNext, TopStep, ReadStep, StudyStep, WorkStep,
       TickStep, ReportStep, Task, Next, Sample, allvars
<1>3. QED
    BY <1>1, <1>2, InitJunction, StepJunction, PTL DEF RegularSpec, Spec

-------------------------------------------------------------------------------
(* Arithmetic of the tick counter and of seconds. *)
LEMMA JitterNat == /\ Jitter \in Nat /\ Jitter = DELAY + 2 * LAG /\ Jitter > 0
                   /\ TICKS \div 2 \in Nat
                   /\ 2 * (TICKS \div 2) <= TICKS /\ TICKS <= 2 * (TICKS \div 2) + 1
BY ConstantsAssumption DEF Jitter

LEMMA ElapsedIs ==
    ASSUME NEW n \in 0..U32-1, NEW s \in 0..U32-1
    PROVE  (n - s) % U32 = IF s <= n THEN n - s ELSE n - s + U32
<1> USE ConstantsAssumption
<1>1. \A x \in 0..U32-1 : x % U32 = x
    OBVIOUS
<1>2. CASE s <= n
    BY <1>1, <1>2
<1>3. CASE ~(s <= n)
    <2>1. n - s + U32 \in 0..U32-1 /\ n - s \in Int
        BY <1>3
    <2>2. (n - s) % U32 = (n - s + U32) % U32
        BY <2>1
    <2>3. QED
        BY <1>1, <1>3, <2>1, <2>2
<1>4. QED
    BY <1>2, <1>3

(* A clock read one tick later has advanced by one, while it does not wrap. *)
LEMMA ElapsedTick ==
    ASSUME NEW n \in 0..U32-1, NEW s \in 0..U32-1, ((n - s) % U32) + 1 < U32
    PROVE  (((n + 1) % U32) - s) % U32 = ((n - s) % U32) + 1
<1> USE ConstantsAssumption
<1>1. (n - s) % U32 = IF s <= n THEN n - s ELSE n - s + U32
    BY ElapsedIs
<1>2. CASE n + 1 = U32
    <2>1. (n + 1) % U32 = 0 /\ 0 \in 0..U32-1
        BY <1>2
    <2>2. (0 - s) % U32 = IF s <= 0 THEN 0 - s ELSE 0 - s + U32
        BY <2>1, ElapsedIs
    <2>3. QED
        BY <1>1, <1>2, <2>1, <2>2
<1>3. CASE n + 1 # U32
    <2>1. n + 1 \in 0..U32-1
        BY <1>3
    <2>2. (n + 1) % U32 = n + 1
        <3>1. \A x \in 0..U32-1 : x % U32 = x
            OBVIOUS
        <3>2. QED
            BY <2>1, <3>1
    <2>3. (n + 1 - s) % U32 = IF s <= n + 1 THEN n + 1 - s ELSE n + 1 - s + U32
        BY <2>1, ElapsedIs
    <2>4. QED
        BY <1>1, <1>3, <2>2, <2>3
<1>4. QED
    BY <1>2, <1>3

LEMMA Quotient ==
    ASSUME NEW a \in Nat
    PROVE  /\ a \div TICKS \in Nat
           /\ (a \div TICKS) * TICKS <= a
           /\ a < (a \div TICKS) * TICKS + TICKS
BY ConstantsAssumption

LEMMA Cancel == \A p, u \in Int : p * TICKS < u * TICKS => p < u
BY ConstantsAssumption

-------------------------------------------------------------------------------
(* The clocks of a light, and the phase they measure.                            *)
(* Every phase, and one jitter more, is measured without wrapping the tick       *)
(* counter and without cutting the seconds to a byte.                            *)
Measurable ==
    \A d \in Durations, c \in Lamp :
        /\ d[c] + Jitter <= U32
        /\ d[c] + Jitter + TICKS \div 2 <= U8 * TICKS

(* The ticks since the last sample are fewer than LAG + timer while the task     *)
(* sleeps; awake, at most timer - DELAY.                                         *)
Unseen == IF pc = "delay" THEN LAG + timer ELSE timer - DELAY

(* The lamp whose phase the clocks of a light measure (until Study has run, the  *)
(* one before a change), and the ticks since that phase began.                   *)
Measured(i) == IF pc = "study" THEN light[i].last_light ELSE light[i].current_light
Since(i) ==
    IF lamp[i] = Measured(i) THEN age[i] ELSE dur[i][Measured(i)] + age[i]

(* A clock was started when that phase had begun, less than one jitter ago. *)
InStep(i, s) == Elapsed(s) <= Since(i) /\ Since(i) < Elapsed(s) + Jitter

(* A light knows the lamp that is lit or, of a change just made, the one before. *)
InSight(i) ==
    LET g == light[i] IN
    /\ g.current_light \in Lamp /\ g.last_light \in Lamp
    /\ g.current_light \in {g.last_light, NextLamp(g.last_light)}
    /\ \/ lamp[i] = g.current_light
       \/ lamp[i] = NextLamp(g.current_light) /\ age[i] < Unseen
    /\ pc \in {"study", "work"} /\ Changed(g) =>
           lamp[i] = g.current_light /\ age[i] < LAG + timer

StudyClock(i) ==
    light[i].study_flag = 1 /\ light[i].start_ticks_study # 0 =>
        InStep(i, light[i].start_ticks_study)

CountClock(i) ==
    light[i].start_study_flag = 0 /\ ~(pc = "work" /\ Changed(light[i])) =>
        InStep(i, light[i].start_ticks)

(* What a phase of d ticks may be measured as: e ticks, or p seconds. *)
Near(e, d) == e < d + Jitter /\ d < e + Jitter
Rounded(p, d) ==
    /\ p * TICKS < d + Jitter + TICKS \div 2
    /\ d + TICKS \div 2 + 1 < p * TICKS + TICKS + Jitter

PeriodsMeasured(i) ==
    \A c \in Lamp : light[i].light_period[c] # 0 =>
                        Rounded(light[i].light_period[c], dur[i][c])

InTime == pc # "delay" => timer >= DELAY
Clocked(i) == InSight(i) /\ StudyClock(i) /\ CountClock(i)

RegularInv ==
    /\ JunctionTyped
    /\ InTime
    /\ \A i \in Light : Clocked(i) /\ PeriodsMeasured(i)

(* What TypeOK and the invariant say of one light. *)
LEMMA OneLight ==
    ASSUME IInv, RegularInv, NEW i \in Light
    PROVE  /\ light[i] \in TrafficLightRec /\ Sound(light[i])
           /\ light[i].start_ticks \in 0..U32-1
           /\ light[i].start_ticks_study \in 0..U32-1
           /\ now \in 0..U32-1 /\ timer \in Nat /\ timer <= DELAY + LAG /\ pc \in Steps
           /\ JunctionTyped /\ InTime
           /\ InSight(i) /\ StudyClock(i) /\ CountClock(i) /\ PeriodsMeasured(i)
<1>1. light[i] \in TrafficLightRec /\ Sound(light[i])
    BY IInvIsSound DEF Sound
<1>2. QED
    BY <1>1, TicksTyped DEF TrafficLightRec, RegularInv, Clocked, IInv, TypeOK

(* The last change of the lamp is less than one jitter ago, unless the phase     *)
(* that is measured still goes on.                                               *)
LEMMA LateBy ==
    ASSUME IInv, RegularInv, NEW i \in Light
    PROVE  /\ Measured(i) \in Lamp
           /\ \/ lamp[i] = Measured(i)
              \/ /\ lamp[i] = NextLamp(Measured(i))
                 /\ age[i] < LAG + timer
<1>1. /\ InSight(i) /\ timer \in Nat /\ LAG \in Nat /\ DELAY \in Nat /\ DELAY > 0
      /\ age[i] \in Nat
    BY OneLight, LampsTyped, ConstantsAssumption
<1>2. Unseen <= LAG + timer /\ Unseen \in Int
    BY <1>1 DEF Unseen
<1>3. CASE pc = "study" /\ Changed(light[i])
    BY <1>1, <1>3 DEF InSight, Measured, Changed
<1>4. CASE ~(pc = "study" /\ Changed(light[i]))
    <2>1. Measured(i) = light[i].current_light
        BY <1>4 DEF Measured, Changed
    <2>2. QED
        BY <1>1, <1>2, <2>1 DEF InSight
<1>5. QED
    BY <1>3, <1>4

(* A read of a regular junction reads one lamp of every light. *)
LEMMA LitRead ==
    ASSUME NEW gs, NEW i \in Light
    PROVE  ReadLights(gs, Lit)[i] = OneLit(FirstBit(gs[i]), {lamp[i]})
<1>1. \A j \in 1..i : j \in Light
    BY ConstantsAssumption DEF Light
<1>2. \A j \in Light : Lit[j] = {lamp[j]}
    BY DEF Lit
<1>3. \A j \in 1..i : ~Double(Lit[j])
    BY <1>1, <1>2 DEF Double
<1>4. QED
    BY <1>2, <1>3 DEF ReadLights

LEMMA InitRegular == RegularInit => RegularInv
<1> SUFFICES ASSUME RegularInit PROVE RegularInv
    OBVIOUS
<1>1. JunctionTyped /\ InitWith(Lit) /\ Lit \in Picture
    BY InitJunction, LitIsPicture DEF RegularInit
<1>2. pc = "top" /\ timer = DELAY /\ DELAY \in Nat
    BY <1>1, ConstantsAssumption DEF InitWith
<1>3. ASSUME NEW i \in Light
      PROVE  Clocked(i) /\ PeriodsMeasured(i)
    <2> DEFINE f == FirstBit(Blank)
               h == OneLit(f, {lamp[i]})
    <2>1. lamp[i] \in Lamp
        BY <1>1, LampsTyped
    <2>2. light[i] = StartStudy(ReadLights([j \in Light |-> Blank], Lit)[i])
        BY <1>1 DEF InitWith
    <2>3. ReadLights([j \in Light |-> Blank], Lit)[i] = h
        BY LitRead
    <2>4. /\ f \in TrafficLightRec /\ f.light_period = [c \in LightType |-> 0]
          /\ f.start_ticks_study = 0
        <3>1. Sound(f)
            BY BlankSound, FirstBitKept DEF Kept
        <3>2. /\ f.light_period = Blank.light_period
              /\ f.start_ticks_study = Blank.start_ticks_study
            BY DEF FirstBit, Blank
        <3>3. QED
            BY <3>1, <3>2 DEF Sound, Blank
    <2>5. h = [f EXCEPT !.last_light = f.current_light, !.current_light = lamp[i]]
        <3>1. (CHOOSE c \in {lamp[i]} : TRUE) = lamp[i] /\ {lamp[i]} # {}
            OBVIOUS
        <3>2. QED
            BY <3>1 DEF OneLit
    <2>6. /\ h \in TrafficLightRec /\ h.current_light = lamp[i]
          /\ h.light_period = f.light_period
          /\ h.start_ticks_study = f.start_ticks_study
        <3>1. Sound(h)
            BY <2>1, BlankSound, FirstBitKept, OneLitKept DEF Kept
        <3>2. f \in TrafficLightRec
            BY <2>4
        <3> HIDE DEF f
        <3>3. QED
            BY <2>5, <3>1, <3>2 DEF Sound, TrafficLightRec
    <2> HIDE DEF h, f
    <2>7. /\ light[i].current_light = lamp[i] /\ light[i].last_light = lamp[i]
          /\ light[i].start_study_flag = 1 /\ light[i].light_period = h.light_period
          /\ light[i].start_ticks_study = 0
        BY <2>2, <2>3, <2>4, <2>6 DEF StartStudy, TrafficLightRec
    <2>8. \A c \in Lamp : light[i].light_period[c] = 0
        BY <2>4, <2>6, <2>7 DEF LightType
    <2>9. QED
        BY <1>2, <2>1, <2>7, <2>8
        DEF Clocked, InSight, StudyClock, CountClock, PeriodsMeasured, Changed
<1>4. QED
    BY <1>1, <1>2, <1>3 DEF RegularInv, InTime

(* A tick: the phase that is measured grows as its clocks do. *)
LEMMA TickClocked ==
    ASSUME IInv, RegularInv, Measurable, TickStep, NEW i \in Light
    PROVE  Clocked(i)' /\ PeriodsMeasured(i)'
<1> DEFINE m == Measured(i)
<1>1. /\ now' = (now + 1) % U32 /\ timer < DELAY + LAG /\ timer' = timer + 1
      /\ UNCHANGED <<light, pc, dur>>
      /\ IF age[i] + 1 = dur[i][lamp[i]]
         THEN lamp'[i] = NextLamp(lamp[i]) /\ age'[i] = 0
         ELSE lamp'[i] = lamp[i] /\ age'[i] = age[i] + 1
    BY DEF TickStep, Tick
<1>2. /\ now \in 0..U32-1 /\ timer \in Nat /\ DELAY \in Nat /\ LAG \in Nat /\ U32 \in Nat
      /\ light[i].start_ticks \in 0..U32-1 /\ light[i].start_ticks_study \in 0..U32-1
      /\ InTime /\ InSight(i) /\ StudyClock(i) /\ CountClock(i) /\ PeriodsMeasured(i)
    BY OneLight, ConstantsAssumption
<1>3. /\ m \in Lamp /\ NextLamp(m) # m
      /\ lamp[i] = m \/ (lamp[i] = NextLamp(m) /\ age[i] < LAG + timer)
    BY LateBy, NextIsLamp
<1>4. /\ dur[i] \in Durations /\ lamp[i] \in Lamp /\ age[i] \in Nat
      /\ dur[i][m] \in Nat /\ dur[i][lamp[i]] \in Nat /\ age[i] < dur[i][lamp[i]]
      /\ dur[i][lamp[i]] > Jitter /\ dur[i][m] + Jitter <= U32
    BY <1>2, <1>3, OneLight, LampsTyped DEF Measurable
<1>5. Measured(i)' = m
    BY <1>1 DEF Measured
<1> HIDE DEF m
<1>6. lamp[i] # m => lamp'[i] = lamp[i] /\ age'[i] = age[i] + 1 /\ age[i] + 1 < Jitter
    BY <1>1, <1>2, <1>3, <1>4, JitterNat
<1>7. /\ Since(i) \in Nat /\ Since(i)' = Since(i) + 1
      /\ Since(i) + 1 < dur[i][m] + Jitter
    <2>1. Since(i) = IF lamp[i] = m THEN age[i] ELSE dur[i][m] + age[i]
        BY DEF Since, m
    <2>2. Since(i)' = IF lamp'[i] = m THEN age'[i] ELSE dur[i][m] + age'[i]
        BY <1>1, <1>5 DEF Since
    <2>3. CASE lamp[i] = m
        BY <1>1, <1>3, <1>4, <2>1, <2>2, <2>3, JitterNat
    <2>4. CASE lamp[i] # m
        BY <1>4, <1>6, <2>1, <2>2, <2>4, JitterNat
    <2>5. QED
        BY <2>3, <2>4
<1>8. ASSUME NEW s \in 0..U32-1, InStep(i, s)
      PROVE  /\ (now' - s) % U32 <= Since(i)'
             /\ Since(i)' < ((now' - s) % U32) + Jitter
    <2>1. (now - s) % U32 <= Since(i) /\ Since(i) < ((now - s) % U32) + Jitter
        BY <1>8 DEF InStep, Elapsed
    <2>2. (now - s) % U32 \in Nat
        BY <1>2, ElapsedIs
    <2>3. ((now - s) % U32) + 1 < U32
        BY <1>2, <1>4, <1>7, <2>1, <2>2, JitterNat
    <2>4. (now' - s) % U32 = ((now - s) % U32) + 1
        BY <1>1, <1>2, <2>3, ElapsedTick
    <2>5. QED
        BY <1>7, <2>1, <2>2, <2>4, JitterNat
<1>9. StudyClock(i)' /\ CountClock(i)'
    BY <1>1, <1>2, <1>8 DEF StudyClock, CountClock, InStep, Elapsed, Changed
<1>10. InSight(i)'
    <2>1. light'[i] = light[i] /\ pc' = pc
        BY <1>1
    <2>2. Unseen' = Unseen + 1 /\ Unseen \in Nat
        BY <1>1, <1>2 DEF Unseen, InTime
    <2>3. \/ lamp'[i] = light[i].current_light
          \/ lamp'[i] = NextLamp(light[i].current_light) /\ age'[i] < Unseen'
        <3>1. CASE lamp[i] = light[i].current_light
            BY <1>1, <2>2, <3>1
        <3>2. CASE lamp[i] = NextLamp(light[i].current_light) /\ age[i] < Unseen
            <4>1. Unseen <= LAG + timer
                BY <1>2 DEF Unseen
            <4>2. age[i] + 1 < dur[i][lamp[i]]
                BY <1>1, <1>2, <1>4, <2>2, <3>2, <4>1, JitterNat
            <4>3. QED
                BY <1>1, <1>4, <2>2, <3>2, <4>2
        <3>3. QED
            BY <1>2, <3>1, <3>2 DEF InSight
    <2>4. ASSUME pc \in {"study", "work"}, Changed(light[i])
          PROVE  lamp'[i] = light[i].current_light /\ age'[i] < LAG + timer'
        <3>1. lamp[i] = light[i].current_light /\ age[i] < LAG + timer
            BY <1>2, <2>4 DEF InSight
        <3>2. age[i] + 1 < dur[i][lamp[i]]
            BY <1>1, <1>2, <1>4, <3>1, JitterNat
        <3>3. QED
            BY <1>1, <1>2, <1>4, <3>1, <3>2
    <2>5. QED
        BY <1>2, <2>1, <2>3, <2>4 DEF InSight, Changed
<1>11. PeriodsMeasured(i)'
    BY <1>1, <1>2 DEF PeriodsMeasured, Rounded
<1>12. QED
    BY <1>9, <1>10, <1>11 DEF Clocked

(* The top of the loop: the task goes to sleep, and a new study has no clock yet. *)
LEMMA TopClocked ==
    ASSUME IInv, RegularInv, TopStep, NEW i \in Light
    PROVE  Clocked(i)' /\ PeriodsMeasured(i)'
<1>1. /\ pc = "top" /\ pc' = "delay" /\ timer' = 0
      /\ UNCHANGED <<now, dur, lamp, age>>
      /\ light'[i] \in {light[i], StudyOnce(light[i])}
    BY DEF TopStep, Task, LoopTop, junction
<1>2. /\ light[i] \in TrafficLightRec /\ timer \in Nat /\ LAG \in Nat /\ DELAY \in Nat
      /\ timer <= DELAY + LAG /\ age[i] \in Nat
      /\ InTime /\ InSight(i) /\ StudyClock(i) /\ CountClock(i) /\ PeriodsMeasured(i)
    BY OneLight, LampsTyped, ConstantsAssumption
<1> DEFINE h == light'[i]
<1>3. /\ SameLamps(light[i], h) /\ h.start_study_flag = light[i].start_study_flag
      /\ h.start_ticks = light[i].start_ticks /\ h.light_period = light[i].light_period
      /\ \/ h.start_ticks_study = 0
         \/ /\ h.study_flag = light[i].study_flag
            /\ h.start_ticks_study = light[i].start_ticks_study
    BY <1>1, <1>2 DEF StudyOnce, SameLamps, TrafficLightRec
<1> HIDE DEF h
<1>4. Measured(i)' = Measured(i) /\ Since(i)' = Since(i)
    BY <1>1, <1>3 DEF Measured, Since, SameLamps, h
<1>5. \A s : InStep(i, s) => /\ (now' - s) % U32 <= Since(i)'
                             /\ Since(i)' < ((now' - s) % U32) + Jitter
    BY <1>1, <1>4 DEF InStep, Elapsed
<1>6. StudyClock(i)'
    BY <1>2, <1>3, <1>5 DEF StudyClock, InStep, Elapsed, h
<1>7. CountClock(i)'
    BY <1>1, <1>2, <1>3, <1>5 DEF CountClock, InStep, Elapsed, h
<1>8. InSight(i)'
    <2>1. Unseen <= Unseen' /\ Unseen \in Int /\ Unseen' \in Int
        BY <1>1, <1>2 DEF Unseen
    <2>2. lamp'[i] = lamp[i] /\ age'[i] = age[i]
        BY <1>1
    <2>3. QED
        BY <1>1, <1>2, <1>3, <2>1, <2>2 DEF InSight, SameLamps, h
<1>9. PeriodsMeasured(i)'
    BY <1>1, <1>2, <1>3 DEF PeriodsMeasured, Rounded, h
<1>10. QED
    BY <1>6, <1>7, <1>8, <1>9 DEF Clocked

(* A read shows the lamp that is lit; the clocks go on to measure the lamp before. *)
LEMMA ReadClocked ==
    ASSUME IInv, RegularInv, ReadStep, NEW i \in Light
    PROVE  /\ Clocked(i)' /\ PeriodsMeasured(i)'
           /\ light'[i].light_period = light[i].light_period
<1> DEFINE g == light[i]
           f == FirstBit(g)
           h == light'[i]
<1>1. /\ pc = "delay" /\ pc' = "study" /\ UNCHANGED <<now, timer, dur, lamp, age>>
      /\ h = OneLit(f, {lamp[i]})
    <2>1. light' = ReadLights(light, Lit)
        BY DEF ReadStep, Task, Read
    <2>2. QED
        BY <2>1, LitRead DEF ReadStep, Task, Read, junction
<1>2. /\ g \in TrafficLightRec /\ Sound(g) /\ timer \in Nat /\ LAG \in Nat /\ DELAY \in Nat
      /\ lamp[i] \in Lamp /\ age[i] \in Nat
      /\ InSight(i) /\ StudyClock(i) /\ CountClock(i) /\ PeriodsMeasured(i)
    BY OneLight, LampsTyped, ConstantsAssumption
<1>3. f \in TrafficLightRec /\ SamePhase(g, f) /\ SameLamps(g, f)
      /\ f.light_period = g.light_period
    <2>1. Sound(f)
        BY <1>2, FirstBitKept DEF Kept
    <2>2. QED
        BY <1>2, <2>1 DEF FirstBit, SamePhase, SameLamps, Sound, TrafficLightRec
<1> HIDE DEF f
<1>4. h = [f EXCEPT !.last_light = f.current_light, !.current_light = lamp[i]]
    <2>1. (CHOOSE c \in {lamp[i]} : TRUE) = lamp[i] /\ {lamp[i]} # {}
        OBVIOUS
    <2>2. QED
        BY <1>1, <2>1 DEF OneLit
<1> HIDE DEF h
<1>5. /\ h.current_light = lamp[i] /\ h.last_light = g.current_light
      /\ SamePhase(g, h) /\ h.light_period = g.light_period
    BY <1>3, <1>4 DEF SamePhase, SameLamps, TrafficLightRec
<1> HIDE DEF g
<1>6. Measured(i)' = Measured(i) /\ Since(i)' = Since(i)
    BY <1>1, <1>5 DEF Measured, Since, g, h
<1>7. \A s : InStep(i, s) => /\ (now' - s) % U32 <= Since(i)'
                             /\ Since(i)' < ((now' - s) % U32) + Jitter
    BY <1>1, <1>6 DEF InStep, Elapsed
<1>8. StudyClock(i)' /\ CountClock(i)'
    BY <1>1, <1>2, <1>5, <1>7 DEF StudyClock, CountClock, InStep, Elapsed, SamePhase, g, h
<1>9. InSight(i)'
    <2>1. Unseen = LAG + timer
        BY <1>1 DEF Unseen
    <2>2. QED
        BY <1>1, <1>2, <1>5, <2>1 DEF InSight, Changed, g, h
<1>10. PeriodsMeasured(i)'
    BY <1>1, <1>2, <1>5 DEF PeriodsMeasured, Rounded, g, h
<1>11. QED
    BY <1>5, <1>8, <1>9, <1>10 DEF Clocked, g, h

(* Work starts the clock of the countdown when it sees the change. *)
LEMMA WorkClocked ==
    ASSUME IInv, RegularInv, WorkStep, NEW i \in Light
    PROVE  /\ Clocked(i)' /\ PeriodsMeasured(i)'
           /\ light'[i].light_period = light[i].light_period
<1> DEFINE g == light[i]
           h == light'[i]
<1>1. /\ pc = "work" /\ pc' = "top" /\ UNCHANGED <<now, timer, dur, lamp, age>>
      /\ h = WorkOne(g)
    BY DEF WorkStep, Task, Work, junction
<1>2. /\ g \in TrafficLightRec /\ timer \in Nat /\ LAG \in Nat /\ DELAY \in Nat
      /\ timer <= DELAY + LAG /\ now \in 0..U32-1
      /\ lamp[i] \in Lamp /\ age[i] \in Nat
      /\ InTime /\ InSight(i) /\ StudyClock(i) /\ CountClock(i) /\ PeriodsMeasured(i)
    BY OneLight, LampsTyped, ConstantsAssumption
<1>3. /\ SameLamps(g, h) /\ h.study_flag = g.study_flag
      /\ h.start_study_flag = g.start_study_flag
      /\ h.start_ticks_study = g.start_ticks_study /\ h.light_period = g.light_period
      /\ h.start_ticks = IF g.start_study_flag = 0 /\ Changed(g) THEN now
                         ELSE g.start_ticks
    BY <1>1, <1>2 DEF WorkOne, SameLamps, TrafficLightRec
<1> HIDE DEF g, h
<1>4. Measured(i)' = Measured(i) /\ Since(i)' = Since(i)
    BY <1>1, <1>3 DEF Measured, Since, SameLamps, g, h
<1>5. \A s : InStep(i, s) => /\ (now' - s) % U32 <= Since(i)'
                             /\ Since(i)' < ((now' - s) % U32) + Jitter
    BY <1>1, <1>4 DEF InStep, Elapsed
<1>6. StudyClock(i)'
    BY <1>2, <1>3, <1>5 DEF StudyClock, InStep, Elapsed, g, h
<1>7. CountClock(i)'
    <2>1. CASE Changed(g)
        <3>1. /\ Since(i) = age[i] /\ age[i] < LAG + timer
            BY <1>1, <1>2, <2>1 DEF Since, Measured, InSight, g
        <3>2. (now' - now) % U32 = 0
            <4>1. (now - now) % U32 = IF now <= now THEN now - now ELSE now - now + U32
                BY <1>2, ElapsedIs
            <4>2. QED
                BY <1>1, <1>2, <4>1
        <3>3. (now' - now) % U32 <= Since(i)' /\ Since(i)' < ((now' - now) % U32) + Jitter
            BY <1>2, <1>4, <3>1, <3>2, JitterNat
        <3>4. QED
            BY <1>3, <2>1, <3>3 DEF CountClock, InStep, Elapsed, h
    <2>2. CASE ~Changed(g)
        BY <1>1, <1>2, <1>3, <1>5, <2>2 DEF CountClock, InStep, Elapsed, g, h
    <2>3. QED
        BY <2>1, <2>2
<1>8. InSight(i)'
    <2>1. Unseen' = Unseen
        BY <1>1 DEF Unseen
    <2>2. QED
        BY <1>1, <1>2, <1>3, <2>1 DEF InSight, SameLamps, g, h
<1>9. PeriodsMeasured(i)'
    BY <1>1, <1>2, <1>3 DEF PeriodsMeasured, Rounded, g, h
<1>10. QED
    BY <1>3, <1>6, <1>7, <1>8, <1>9 DEF Clocked, g, h

(* A light beside a regular junction has always seen a lamp: a report changes    *)
(* nothing.                                                                      *)
LEMMA ReportClocked ==
    ASSUME IInv, RegularInv, ReportStep
    PROVE  UNCHANGED allvars
<1>1. ASSUME NEW i \in Light
      PROVE  KeepLastSeconds(light[i]) = light[i]
    <2>1. light[i].current_light # unknown
        BY <1>1, OneLight DEF InSight, Lamp, unknown, red, green, yellow
    <2>2. QED
        BY <2>1 DEF KeepLastSeconds
<1>2. light' = [i \in Light |-> KeepLastSeconds(light[i])]
    BY DEF ReportStep, Task, Report
<1>3. light \in [Light -> TrafficLightRec]
    BY DEF IInv, TypeOK
<1>4. light' = light
    BY <1>1, <1>2, <1>3
<1>5. QED
    BY <1>4 DEF ReportStep, Task, Report, allvars, vars, junction

-------------------------------------------------------------------------------
(* Seconds of a phase measured to within a jitter. *)
LEMMA SecondsRounded ==
    ASSUME NEW e \in Nat, NEW d \in Nat, Near(e, d),
           d + Jitter + TICKS \div 2 <= U8 * TICKS
    PROVE  Rounded(Seconds(e), d)
<1> DEFINE a == e + TICKS \div 2
           q == a \div TICKS
<1>1. a \in Nat /\ TICKS \in Nat /\ U8 \in Nat
    BY JitterNat, ConstantsAssumption
<1>2. q \in Nat /\ q * TICKS <= a /\ a < q * TICKS + TICKS
    BY <1>1, Quotient
<1> HIDE DEF q
<1>3. q * TICKS \in Int /\ U8 * TICKS \in Int
    BY <1>1, <1>2
<1>4. q * TICKS < U8 * TICKS
    <2> DEFINE x == q * TICKS
               y == U8 * TICKS
    <2>1. x \in Int /\ y \in Int /\ x <= a /\ d + Jitter + TICKS \div 2 <= y
        BY <1>2, <1>3
    <2> HIDE DEF x, y
    <2>2. x < y
        BY <2>1, JitterNat DEF Near
    <2>3. QED
        BY <2>2 DEF x, y
<1>5. q < U8
    BY <1>1, <1>2, <1>4, Cancel
<1>6. Seconds(e) = q
    <2>1. \A x \in 0..U8-1 : x % U8 = x
        BY ConstantsAssumption
    <2>2. q \in 0..U8-1
        BY <1>1, <1>2, <1>5
    <2>3. QED
        BY <2>1, <2>2 DEF Seconds, q
<1>7. QED
    <2> DEFINE x == q * TICKS
    <2>1. x \in Int /\ x <= a /\ a < x + TICKS
        BY <1>2, <1>3
    <2> HIDE DEF x
    <2>2. x < d + Jitter + TICKS \div 2 /\ d + TICKS \div 2 + 1 < x + TICKS + Jitter
        BY <1>1, <2>1, JitterNat DEF Near
    <2>3. QED
        BY <1>6, <2>2 DEF Rounded, x

(* The period Study writes, if any, is that of the phase that has just ended. *)
LEMMA MeasurePeriod ==
    ASSUME NEW g \in TrafficLightRec, NEW c \in Lamp
    PROVE  MeasurePhase(g).light_period[c] =
               IF g.start_ticks_study # 0 /\ c = g.last_light
               THEN Seconds(Elapsed(g.start_ticks_study)) ELSE g.light_period[c]
<1>1. g.light_period \in [LightType -> Byte] /\ c \in LightType
    BY DEF TrafficLightRec, LightType
<1>2. CASE g.start_ticks_study = 0
    BY <1>2 DEF MeasurePhase, TrafficLightRec
<1>3. CASE g.start_ticks_study # 0
    BY <1>1, <1>3 DEF MeasurePhase, TrafficLightRec
<1>4. QED
    BY <1>2, <1>3

(* What trafficLightStudy makes of one light. *)
LEMMA StudyMakes ==
    ASSUME NEW g, Sound(g), now \in 0..U32-1
    PROVE  LET k == StudyOne(g)
           IN  /\ SameLamps(g, k) /\ k.start_ticks = g.start_ticks
               /\ g.study_flag # 1 => k = g
               /\ ~Changed(g) => /\ k.start_study_flag = g.start_study_flag
                                 /\ k.start_ticks_study = g.start_ticks_study
                                 /\ k.study_flag \in {g.study_flag, 0}
                                 /\ k.light_period = g.light_period
               /\ Changed(g) /\ g.study_flag = 1 =>
                      /\ k.start_ticks_study = now
                      /\ \A c \in Lamp : k.light_period[c] =
                             IF g.start_ticks_study # 0 /\ c = g.last_light
                             THEN Seconds(Elapsed(g.start_ticks_study))
                             ELSE g.light_period[c]
<1> DEFINE h == CountStudy(g)
           m == MeasurePhase(h)
           f == FinishStudy(m)
           k == StudyOne(g)
<1>1. g \in TrafficLightRec /\ h \in TrafficLightRec /\ m \in TrafficLightRec
    <2>1. Sound(h)
        BY CountStudyKept DEF Kept
    <2>2. Sound(m)
        BY <2>1, MeasurePhaseKept DEF Kept
    <2>3. QED
        BY <2>1, <2>2 DEF Sound
<1>2. /\ SameLamps(g, h) /\ h.start_ticks = g.start_ticks
      /\ h.start_ticks_study = g.start_ticks_study /\ h.start_study_flag = g.start_study_flag
      /\ h.study_flag \in {g.study_flag, 0} /\ h.light_period = g.light_period
    BY <1>1, CountPhase DEF CountStudy, TrafficLightRec
<1>3. /\ SameLamps(m, f) /\ f.start_ticks = m.start_ticks
      /\ f.start_ticks_study = m.start_ticks_study /\ f.light_period = m.light_period
    BY <1>1, FinishPhase DEF FinishStudy, TrafficLightRec
<1>4. /\ SameLamps(h, m) /\ m.start_ticks = h.start_ticks /\ m.start_ticks_study = now
      /\ \A c \in Lamp : m.light_period[c] =
             IF h.start_ticks_study # 0 /\ c = h.last_light
             THEN Seconds(Elapsed(h.start_ticks_study)) ELSE h.light_period[c]
    BY <1>1, MeasurePhaseClock, MeasurePeriod
<1>5. /\ g.study_flag # 1 => k = g
      /\ g.study_flag = 1 => k = IF Changed(h) THEN f ELSE h
    BY DEF StudyOne
<1> HIDE DEF h, m, f, k
<1>6. Changed(h) <=> Changed(g)
    BY <1>2 DEF Changed, SameLamps
<1>7. CASE g.study_flag # 1
    BY <1>5, <1>7 DEF SameLamps, k
<1>8. CASE g.study_flag = 1 /\ ~Changed(g)
    BY <1>2, <1>5, <1>6, <1>8 DEF k
<1>9. CASE g.study_flag = 1 /\ Changed(g)
    <2>1. k = f
        BY <1>5, <1>6, <1>9
    <2>2. SameLamps(g, f) /\ f.start_ticks = g.start_ticks /\ f.start_ticks_study = now
        BY <1>2, <1>3, <1>4 DEF SameLamps
    <2>3. \A c \in Lamp : f.light_period[c] =
              IF g.start_ticks_study # 0 /\ c = g.last_light
              THEN Seconds(Elapsed(g.start_ticks_study)) ELSE g.light_period[c]
        BY <1>2, <1>3, <1>4 DEF SameLamps
    <2>4. QED
        BY <1>9, <2>1, <2>2, <2>3 DEF k
<1>10. QED
    BY <1>7, <1>8, <1>9

(* The ticks a running study counts for the phase that has just ended. *)
LEMMA PhaseMeasured ==
    ASSUME IInv, RegularInv, NEW i \in Light, pc = "study", Changed(light[i]),
           light[i].study_flag = 1, light[i].start_ticks_study # 0
    PROVE  /\ Elapsed(light[i].start_ticks_study) \in Nat
           /\ Near(Elapsed(light[i].start_ticks_study), dur[i][light[i].last_light])
<1> DEFINE s == light[i].start_ticks_study
           l == light[i].last_light
<1>1. /\ InSight(i) /\ StudyClock(i) /\ now \in 0..U32-1 /\ s \in 0..U32-1
      /\ timer \in Nat /\ timer <= DELAY + LAG /\ DELAY \in Nat /\ LAG \in Nat
      /\ age[i] \in Nat
    BY OneLight, LampsTyped, ConstantsAssumption
<1>2. l \in Lamp /\ lamp[i] # l /\ age[i] < LAG + timer
    BY <1>1 DEF InSight, Changed
<1>3. dur[i][l] \in Nat
    BY <1>2, OneLight, LampsTyped
<1>4. Since(i) = dur[i][l] + age[i]
    BY <1>2 DEF Since, Measured
<1>5. Elapsed(s) <= Since(i) /\ Since(i) < Elapsed(s) + Jitter
    BY <1>1 DEF StudyClock, InStep
<1>6. Elapsed(s) \in Nat
    <2>1. (now - s) % U32 = IF s <= now THEN now - s ELSE now - s + U32
        BY <1>1, ElapsedIs
    <2>2. QED
        BY <1>1, <2>1, ConstantsAssumption DEF Elapsed
<1> HIDE DEF s, l
<1>7. Near(Elapsed(s), dur[i][l])
    <2>1. \A e, d \in Nat : e <= d + age[i] /\ d + age[i] < e + Jitter => Near(e, d)
        BY <1>1, <1>2, JitterNat DEF Near
    <2>2. QED
        BY <1>3, <1>4, <1>5, <1>6, <2>1
<1>8. QED
    BY <1>6, <1>7 DEF s, l

(* Study measures the phase before a change and starts its clock anew. *)
LEMMA StudyClocked ==
    ASSUME IInv, RegularInv, StudyStep, NEW i \in Light
    PROVE  /\ Clocked(i)'
           /\ \A c \in Lamp :
                  \/ light'[i].light_period[c] = light[i].light_period[c]
                  \/ \E e \in Nat : /\ light'[i].light_period[c] = Seconds(e)
                                    /\ Near(e, dur[i][c])
<1> DEFINE g == light[i]
           k == light'[i]
<1>1. /\ pc = "study" /\ pc' = "work" /\ UNCHANGED <<now, timer, dur, lamp, age>>
      /\ k = StudyOne(g)
    BY DEF StudyStep, Task, Study, junction
<1>2. /\ g \in TrafficLightRec /\ Sound(g) /\ timer \in Nat /\ LAG \in Nat /\ DELAY \in Nat
      /\ timer <= DELAY + LAG /\ now \in 0..U32-1 /\ age[i] \in Nat
      /\ InTime /\ InSight(i) /\ StudyClock(i) /\ CountClock(i)
    BY OneLight, LampsTyped, ConstantsAssumption
<1>3. /\ SameLamps(g, k) /\ k.start_ticks = g.start_ticks
      /\ g.study_flag # 1 => k = g
      /\ ~Changed(g) => /\ k.start_study_flag = g.start_study_flag
                        /\ k.start_ticks_study = g.start_ticks_study
                        /\ k.study_flag \in {g.study_flag, 0}
                        /\ k.light_period = g.light_period
      /\ Changed(g) /\ g.study_flag = 1 =>
             /\ k.start_ticks_study = now
             /\ \A c \in Lamp : k.light_period[c] =
                    IF g.start_ticks_study # 0 /\ c = g.last_light
                    THEN Seconds(Elapsed(g.start_ticks_study))
                    ELSE g.light_period[c]
    BY <1>1, <1>2, StudyMakes
<1> HIDE DEF g, k
<1>4. InSight(i)'
    <2>1. Unseen' = Unseen
        BY <1>1 DEF Unseen
    <2>2. QED
        BY <1>1, <1>2, <1>3, <2>1 DEF InSight, SameLamps, Changed, g, k
<1>5. CASE ~Changed(g)
    <2>1. Measured(i)' = Measured(i) /\ Since(i)' = Since(i)
        BY <1>1, <1>3, <1>5 DEF Measured, Since, SameLamps, Changed, g, k
    <2>2. \A s : InStep(i, s) => /\ (now' - s) % U32 <= Since(i)'
                                 /\ Since(i)' < ((now' - s) % U32) + Jitter
        BY <1>1, <2>1 DEF InStep, Elapsed
    <2>3. StudyClock(i)' /\ CountClock(i)'
        BY <1>1, <1>2, <1>3, <1>5, <2>2
        DEF StudyClock, CountClock, InStep, Elapsed, g, k
    <2>4. QED
        BY <1>3, <1>4, <1>5, <2>3 DEF Clocked, g, k
<1>6. CASE Changed(g)
    <2>1. /\ Since(i)' = age[i] /\ age[i] < LAG + timer
        BY <1>1, <1>2, <1>3, <1>6 DEF Since, Measured, InSight, SameLamps, g, k
    <2>2. (now' - now) % U32 = 0
        <3>1. (now - now) % U32 = IF now <= now THEN now - now ELSE now - now + U32
            BY <1>2, ElapsedIs
        <3>2. QED
            BY <1>1, <1>2, <3>1
    <2>3. (now' - now) % U32 <= Since(i)' /\ Since(i)' < ((now' - now) % U32) + Jitter
        BY <1>2, <2>1, <2>2, JitterNat
    <2>4. StudyClock(i)'
        BY <1>3, <1>6, <2>3 DEF StudyClock, InStep, Elapsed, g, k
    <2>5. CountClock(i)'
        BY <1>1, <1>3, <1>6 DEF CountClock, SameLamps, Changed, k
    <2>6. ASSUME NEW c \in Lamp
          PROVE  \/ k.light_period[c] = g.light_period[c]
                 \/ \E e \in Nat : k.light_period[c] = Seconds(e) /\ Near(e, dur[i][c])
        <3>1. CASE g.study_flag = 1 /\ g.start_ticks_study # 0 /\ c = g.last_light
            BY <1>1, <1>3, <1>6, <3>1, PhaseMeasured DEF g
        <3>2. CASE ~(g.study_flag = 1 /\ g.start_ticks_study # 0 /\ c = g.last_light)
            BY <1>3, <1>6, <3>2
        <3>3. QED
            BY <3>1, <3>2
    <2>7. QED
        BY <1>4, <2>4, <2>5, <2>6 DEF Clocked, g, k
<1>7. QED
    BY <1>5, <1>6

(* In every step each period is kept or measured anew. *)
LEMMA PeriodStep ==
    ASSUME IInv, RegularInv, [RegularNext]_allvars, NEW i \in Light, NEW c \in Lamp
    PROVE  \/ light'[i].light_period[c] = light[i].light_period[c]
           \/ \E e \in Nat : /\ light'[i].light_period[c] = Seconds(e)
                             /\ Near(e, dur[i][c])
<1>1. CASE TopStep
    <2>1. /\ light[i] \in TrafficLightRec
          /\ light'[i] \in {light[i], StudyOnce(light[i])}
        BY <1>1, OneLight DEF TopStep, Task, LoopTop
    <2>2. StudyOnce(light[i]).light_period = light[i].light_period
        BY <2>1 DEF StudyOnce, TrafficLightRec
    <2>3. QED
        BY <2>1, <2>2
<1>2. CASE ReadStep
    BY <1>2, ReadClocked
<1>3. CASE StudyStep
    BY <1>3, StudyClocked
<1>4. CASE WorkStep
    BY <1>4, WorkClocked
<1>5. CASE TickStep
    BY <1>5 DEF TickStep, Tick
<1>6. CASE ReportStep
    BY <1>6, ReportClocked DEF allvars, vars
<1>7. CASE UNCHANGED allvars
    BY <1>7 DEF allvars, vars
<1>8. QED
    BY <1>1, <1>2, <1>3, <1>4, <1>5, <1>6, <1>7 DEF RegularNext

LEMMA StepRegular ==
    ASSUME Measurable, IInv, RegularInv, [RegularNext]_allvars
    PROVE  RegularInv'
<1>1. JunctionTyped' /\ JunctionTyped
    BY StepJunction DEF RegularInv
<1>2. InTime'
    <2>1. /\ InTime /\ timer \in Nat /\ DELAY \in Nat
        BY TicksTyped DEF RegularInv, IInv
    <2>2. QED
        BY <2>1 DEF InTime, RegularNext, TopStep, ReadStep, StudyStep, WorkStep, TickStep,
           ReportStep, Task, LoopTop, Read, Study, Work, Tick, Report, allvars, vars
<1>3. ASSUME NEW i \in Light
      PROVE  Clocked(i)' /\ PeriodsMeasured(i)'
    <2>1. CASE StudyStep
        <3>1. dur' = dur
            BY <2>1 DEF StudyStep, Task, junction
        <3>2. ASSUME NEW c \in Lamp, light'[i].light_period[c] # 0
              PROVE  Rounded(light'[i].light_period[c], dur[i][c])
            <4>1. CASE light'[i].light_period[c] = light[i].light_period[c]
                BY <3>2, <4>1, OneLight DEF PeriodsMeasured
            <4>2. ASSUME NEW e \in Nat, Near(e, dur[i][c]),
                         light'[i].light_period[c] = Seconds(e)
                  PROVE  Rounded(light'[i].light_period[c], dur[i][c])
                <5>1. dur[i] \in Durations /\ dur[i][c] \in Nat
                    BY <1>1, LampsTyped
                <5>2. dur[i][c] + Jitter + TICKS \div 2 <= U8 * TICKS
                    BY <5>1 DEF Measurable
                <5>3. QED
                    BY <4>2, <5>1, <5>2, SecondsRounded
            <4>3. QED
                BY <2>1, <4>1, <4>2, StudyClocked
        <3>3. PeriodsMeasured(i)'
            BY <3>1, <3>2 DEF PeriodsMeasured, Rounded
        <3>4. QED
            BY <2>1, <3>3, StudyClocked
    <2>2. CASE UNCHANGED allvars
        <3>1. Clocked(i) /\ PeriodsMeasured(i)
            BY DEF RegularInv
        <3>2. QED
            BY <2>2, <3>1 DEF allvars, vars, junction, Clocked, InSight, StudyClock, CountClock,
               PeriodsMeasured, Rounded, InStep, Since, Measured, Unseen, Elapsed, Changed
    <2>3. QED
        BY <2>1, <2>2, TopClocked, ReadClocked, WorkClocked, TickClocked, ReportClocked
        DEF RegularNext
<1>4. QED
    BY <1>1, <1>2, <1>3 DEF RegularInv

-------------------------------------------------------------------------------
LEMMA RegularInvariance ==
    ASSUME Measurable PROVE RegularSpec => []IInv /\ []RegularInv
<1>1. IInv /\ RegularInv /\ [RegularNext]_allvars => RegularInv'
    BY StepRegular
<1>2. RegularSpec => []IInv
    BY RegularIsAny, Invariance, PTL
<1>3. QED
    BY <1>1, <1>2, InitRegular, PTL DEF RegularSpec

(* A period is a byte, and its seconds in ticks are an integer. *)
LEMMA PeriodTyped ==
    ASSUME IInv, NEW i \in Light, NEW c \in Lamp
    PROVE  light[i].light_period[c] \in 0..U8-1 /\ light[i].light_period[c] * TICKS \in Int
<1>1. light[i] \in TrafficLightRec /\ c \in LightType
    BY DEF IInv, TypeOK, LightType
<1>2. light[i].light_period[c] \in 0..U8-1
    BY <1>1 DEF TrafficLightRec, Byte
<1>3. \A x, y \in Int : x * y \in Int
    OBVIOUS
<1>4. QED
    BY <1>2, <1>3, ConstantsAssumption

(* What a light has learned of a lamp is the lamp's duration to within half a    *)
(* second and the time between two samples (l.193-203), for any number of lights *)
(* and any durations that can be measured: shorter than the clock's wrap and     *)
(* than 256 seconds.                                                             *)
THEOREM PeriodsAreTrue == ASSUME Measurable PROVE RegularSpec => []PeriodsTrue
<1>1. IInv /\ RegularInv => PeriodsTrue
    <2> SUFFICES ASSUME IInv, RegularInv, NEW i \in Light, NEW c \in Lamp,
                        light[i].light_period[c] # 0
                 PROVE  Distance(light[i].light_period[c] * TICKS, dur[i][c])
                            <= TICKS \div 2 + Jitter
        BY DEF PeriodsTrue
    <2> DEFINE x == light[i].light_period[c] * TICKS
    <2>1. /\ x < dur[i][c] + Jitter + TICKS \div 2
          /\ dur[i][c] + TICKS \div 2 + 1 < x + TICKS + Jitter
        BY DEF RegularInv, PeriodsMeasured, Rounded
    <2>2. dur[i][c] \in Nat /\ TICKS \in Nat
        BY LampsTyped, ConstantsAssumption DEF RegularInv
    <2>3. x \in Int
        BY PeriodTyped
    <2> HIDE DEF x
    <2>4. Distance(x, dur[i][c]) <= TICKS \div 2 + Jitter
        BY <2>1, <2>2, <2>3, JitterNat DEF Distance
    <2>5. QED
        BY <2>4 DEF x
<1>2. QED
    BY <1>1, RegularInvariance, PTL

(* Every lamp lasts long enough for its period not to be rounded down to zero,   *)
(* the mark of a lamp that was not measured.                                     *)
LongEnough ==
    \A d \in Durations, c \in Lamp : TICKS + Jitter <= d[c] + TICKS \div 2 + 1

LEMMA SecondsPositive ==
    ASSUME LongEnough, Measurable, NEW d \in Durations, NEW c \in Lamp,
           NEW e \in Nat, Near(e, d[c])
    PROVE  Seconds(e) # 0
<1>1. d[c] \in Nat /\ d[c] + Jitter + TICKS \div 2 <= U8 * TICKS /\ TICKS \in Nat
      /\ TICKS + Jitter <= d[c] + TICKS \div 2 + 1
    BY DurationsAssumption, ConstantsAssumption DEF Measurable, LongEnough
<1> DEFINE p == Seconds(e)
<1>2. Rounded(p, d[c])
    BY <1>1, SecondsRounded
<1>3. ASSUME p = 0 PROVE FALSE
    <2>1. 0 * TICKS = 0
        BY <1>1
    <2>2. d[c] + TICKS \div 2 + 1 < TICKS + Jitter
        BY <1>1, <1>2, <1>3, <2>1, JitterNat DEF Rounded
    <2>3. QED
        BY <1>1, <2>2, JitterNat
<1>4. QED
    BY <1>3

(* A light that counts down never reports the period of a lamp as zero, over any *)
(* number of new studies (l.99-108, l.204-239).                                  *)
THEOREM CountingAlwaysHasPeriods ==
    ASSUME Measurable, LongEnough PROVE RegularSpec => []CountingHasPeriods
<1>1. RegularInit => CountingHasPeriods
    <2>1. ASSUME RegularInit, NEW i \in Light
          PROVE  light[i].start_study_flag = 1
        <3> DEFINE gs == ReadLights([j \in Light |-> Blank], Lit)
        <3>1. Sound(gs[i])
            <4>1. \A j \in Light : Sound([k \in Light |-> Blank][j])
                BY BlankSound
            <4>2. Lit \in Picture
                BY <2>1, InitJunction, LitIsPicture
            <4>3. QED
                BY <4>1, <4>2, ReadKept DEF Kept
        <3>2. light[i] = StartStudy(gs[i])
            BY <2>1 DEF RegularInit, InitWith
        <3> HIDE DEF gs
        <3>3. QED
            BY <3>1, <3>2 DEF StartStudy, Sound, TrafficLightRec
    <2>2. QED
        BY <2>1 DEF CountingHasPeriods
<1>2. IInv /\ RegularInv /\ CountingHasPeriods /\ [RegularNext]_allvars
          => CountingHasPeriods'
    <2> SUFFICES ASSUME IInv, RegularInv, CountingHasPeriods, [RegularNext]_allvars,
                        NEW i \in Light, light'[i].start_study_flag = 0, NEW c \in Lamp
                 PROVE  light'[i].light_period[c] # 0
        BY DEF CountingHasPeriods
    <2>1. [Next]_vars
        BY LitIsPicture DEF RegularInv, RegularNext, TopStep, ReadStep, StudyStep, WorkStep,
           TickStep, ReportStep, Task, Next, Sample, allvars
    <2>2. CASE light[i].start_study_flag = 0
        <3>1. light[i].light_period[c] # 0
            BY <2>2 DEF CountingHasPeriods
        <3>2. dur[i] \in Durations
            BY LampsTyped DEF RegularInv
        <3>3. ASSUME NEW e \in Nat, Near(e, dur[i][c])
              PROVE  Seconds(e) # 0
            BY <3>2, <3>3, SecondsPositive
        <3>4. QED
            BY <3>1, <3>3, PeriodStep
    <2>3. CASE light[i].start_study_flag # 0
        <3>1. light[i].start_study_flag = 1
            BY <2>3, OneLight DEF TrafficLightRec
        <3>2. QED
            BY <2>1, <3>1, StepForward DEF Forward, Learned
    <2>4. QED
        BY <2>2, <2>3
<1>3. QED
    BY <1>1, <1>2, RegularInvariance, PTL DEF RegularSpec

(* A phase that lasts longer than was learned counts down below zero; the byte   *)
(* such a count wraps to is one that marks the frame for discarding.             *)
ShortOverrun ==
    /\ DISCARD < U8 - 1
    /\ Jitter + 2 * TICKS <= (U8 - DISCARD) * TICKS + TICKS \div 2 + 2

(* A byte wraps a small negative count once. *)
LEMMA CutNegative ==
    ASSUME NEW z \in Int, z < 0, z + U8 >= 0
    PROVE  z % U8 = z + U8
<1>1. z + U8 \in 0..U8-1 /\ U8 \in Nat /\ U8 > 0
    BY ConstantsAssumption
<1>2. z % U8 = (z + U8) % U8
    BY <1>1
<1>3. \A n \in 0..U8-1 : n % U8 = n
    BY <1>1
<1>4. QED
    BY <1>1, <1>2, <1>3

(* The seconds left by a period of p seconds when e ticks of the phase have gone *)
(* by: right, or the phase is in its last second, or the count is below zero.    *)
LEMMA CountDown ==
    ASSUME ShortOverrun, NEW p \in 0..U8-1, NEW e \in Nat, NEW d \in Nat, NEW t \in Nat,
           Rounded(p, d), t < d, e <= t, t < e + Jitter
    PROVE  LET s == (p - e \div TICKS - 1) % U8
           IN  /\ s \in 0..U8-1
               /\ s = 0 => d - t <= TICKS + (TICKS \div 2 + Jitter)
               /\ s # 0 /\ s <= DISCARD =>
                      /\ s * TICKS <= d - t + (TICKS \div 2 + Jitter) + Jitter
                      /\ s * TICKS >= d - t - (TICKS \div 2 + Jitter) - TICKS
<1> DEFINE k == e \div TICKS
           x == p - k - 1
           s == x % U8
           h == TICKS \div 2
<1>1. /\ TICKS \in Nat /\ TICKS > 0 /\ U8 \in Nat /\ U8 > 3 /\ DISCARD \in Nat
      /\ p \in Nat /\ p <= U8 - 1
    BY ConstantsAssumption
<1>2. k \in Nat /\ k * TICKS <= e /\ e < k * TICKS + TICKS
    BY Quotient
<1> HIDE DEF k
<1>3. /\ h \in Nat /\ 2 * h <= TICKS /\ TICKS <= 2 * h + 1 /\ Jitter \in Nat
      /\ p * TICKS < d + Jitter + h /\ d + h + 1 < p * TICKS + TICKS + Jitter
      /\ DISCARD < U8 - 1
      /\ Jitter + 2 * TICKS <= (U8 - DISCARD) * TICKS + h + 2
    BY JitterNat DEF Rounded, ShortOverrun
<1> HIDE DEF h
<1>4. x \in Int /\ x * TICKS = p * TICKS - k * TICKS - TICKS
    BY <1>1, <1>2
<1>5. p * TICKS \in Int /\ k * TICKS \in Int
    BY <1>1, <1>2
<1>6. x * TICKS > (DISCARD - U8) * TICKS
    <2> DEFINE a == p * TICKS
               b == k * TICKS
               y == x * TICKS
               z == (U8 - DISCARD) * TICKS
               w == (DISCARD - U8) * TICKS
    <2>1. w = 0 - z /\ z \in Int
        BY <1>1
    <2>2. a \in Int /\ b \in Int /\ y = a - b - TICKS
        BY <1>4, <1>5
    <2>3. b <= e /\ d + h + 1 < a + TICKS + Jitter /\ Jitter + 2 * TICKS <= z + h + 2
        BY <1>2, <1>3
    <2> HIDE DEF a, b, y, z, w
    <2>4. y > w
        BY <1>1, <1>3, <2>1, <2>2, <2>3
    <2>5. QED
        BY <2>4 DEF y, w
<1>7. x > DISCARD - U8 /\ x <= U8 - 2
    <2>1. x > DISCARD - U8
        BY <1>1, <1>4, <1>6, Cancel
    <2>2. QED
        BY <1>1, <1>2, <2>1
<1>8. s = IF x >= 0 THEN x ELSE x + U8
    <2>1. \A n \in 0..U8-1 : n % U8 = n
        BY <1>1
    <2>2. CASE x >= 0
        BY <1>1, <1>4, <1>7, <2>1, <2>2
    <2>3. CASE x < 0
        BY <1>1, <1>4, <1>7, <2>3, CutNegative
    <2>4. QED
        BY <1>4, <2>2, <2>3
<1>9. s \in 0..U8-1
    BY <1>1, <1>4, <1>7, <1>8
<1>10. s = 0 => d - t <= TICKS + (h + Jitter)
    <2>1. SUFFICES ASSUME s = 0 PROVE d - t <= TICKS + (h + Jitter)
        OBVIOUS
    <2>2. x = 0
        <3>1. x \in Int /\ (IF x >= 0 THEN x ELSE x + U8) = 0
            BY <1>4, <1>8, <2>1
        <3> HIDE DEF x
        <3>2. QED
            BY <1>1, <1>7, <3>1
    <2>3. x * TICKS = 0
        BY <1>1, <2>2
    <2> DEFINE a == p * TICKS
               b == k * TICKS
               y == x * TICKS
    <2>4. /\ a \in Int /\ b \in Int /\ y = a - b - TICKS /\ y = 0
          /\ b <= e /\ d + h + 1 < a + TICKS + Jitter
        BY <1>2, <1>3, <1>4, <1>5, <2>3
    <2> HIDE DEF a, b, y
    <2>5. QED
        BY <1>1, <1>3, <2>4
<1>11. s # 0 /\ s <= DISCARD =>
           /\ s * TICKS <= d - t + (h + Jitter) + Jitter
           /\ s * TICKS >= d - t - (h + Jitter) - TICKS
    <2>1. SUFFICES ASSUME s # 0, s <= DISCARD
                   PROVE  /\ s * TICKS <= d - t + (h + Jitter) + Jitter
                          /\ s * TICKS >= d - t - (h + Jitter) - TICKS
        OBVIOUS
    <2>2. s = x
        BY <1>1, <1>4, <1>7, <1>8, <2>1
    <2> DEFINE a == p * TICKS
               b == k * TICKS
               y == x * TICKS
    <2>3. /\ a \in Int /\ b \in Int /\ y = a - b - TICKS
          /\ b <= e /\ e < b + TICKS
          /\ a < d + Jitter + h /\ d + h + 1 < a + TICKS + Jitter
        BY <1>2, <1>3, <1>4, <1>5
    <2> HIDE DEF a, b, y
    <2>4. /\ y <= d - t + (h + Jitter) + Jitter
          /\ y >= d - t - (h + Jitter) - TICKS
        BY <1>1, <1>3, <2>3
    <2>5. QED
        BY <2>2, <2>4 DEF y
<1>12. QED
    BY <1>9, <1>10, <1>11 DEF k, h

(* While the task sleeps, what a light that has seen the lamp that is lit tells  *)
(* of it is the truth (l.290-379), for any number of lights and any durations.   *)
THEOREM ReportsAreTrueAtRest ==
    ASSUME Measurable, LongEnough, ShortOverrun
    PROVE  RegularSpec => []ReportTrueAtRest
<1>1. IInv /\ RegularInv /\ CountingHasPeriods => ReportTrueAtRest
    <2> SUFFICES ASSUME IInv, RegularInv, CountingHasPeriods, pc = "delay",
                        NEW i \in Light, Counting(i), Sampled(i)
                 PROVE  Truth(i)
        BY DEF ReportTrueAtRest
    <2> DEFINE g == light[i]
               c == lamp[i]
               s == LastSeconds(g)
               f == FrameOf(i)
    <2>1. /\ g.current_light = c /\ g.start_study_flag = 0 /\ c \in Lamp
          /\ g.light_period[c] \in 0..U8-1 /\ Rounded(g.light_period[c], dur[i][c])
          /\ age[i] \in Nat /\ age[i] < dur[i][c] /\ dur[i][c] \in Nat
        <3>1. c \in Lamp /\ g.current_light = c /\ g.start_study_flag = 0
            BY OneLight, LampsTyped DEF Sampled, Counting
        <3>2. g.light_period[c] # 0
            BY <3>1 DEF CountingHasPeriods
        <3>3. QED
            BY <3>1, <3>2, OneLight, LampsTyped, PeriodTyped DEF PeriodsMeasured
    <2>2. /\ Elapsed(g.start_ticks) \in Nat /\ Elapsed(g.start_ticks) <= age[i]
          /\ age[i] < Elapsed(g.start_ticks) + Jitter
        <3>1. Since(i) = age[i]
            BY <2>1 DEF Since, Measured
        <3>2. InStep(i, g.start_ticks)
            BY <2>1, OneLight DEF CountClock
        <3>3. now \in 0..U32-1 /\ g.start_ticks \in 0..U32-1
            BY OneLight
        <3>4. Elapsed(g.start_ticks) = IF g.start_ticks <= now THEN now - g.start_ticks
                                       ELSE now - g.start_ticks + U32
            BY <3>3, ElapsedIs DEF Elapsed
        <3>5. Elapsed(g.start_ticks) \in Nat
            BY <3>3, <3>4, ConstantsAssumption
        <3>6. QED
            BY <3>1, <3>2, <3>5 DEF InStep
    <2>3. /\ s \in 0..U8-1
          /\ s = 0 => dur[i][c] - age[i] <= TICKS + (TICKS \div 2 + Jitter)
          /\ s # 0 /\ s <= DISCARD =>
                 /\ s * TICKS <= dur[i][c] - age[i] + (TICKS \div 2 + Jitter) + Jitter
                 /\ s * TICKS >= dur[i][c] - age[i] - (TICKS \div 2 + Jitter) - TICKS
        BY <2>1, <2>2, CountDown DEF LastSeconds
    <2>4. g.status # 3 /\ (s # 0 => s <= DISCARD)
        <3>1. ~f.discard
            BY DEF Counting
        <3>2. f.discard = ((IF g.status = 3 THEN U8 - 1
                            ELSE IF s = 0 THEN g.light_period[NextLamp(g.current_light)]
                                 ELSE s) > DISCARD)
            BY DEF FrameOf
        <3>3. U8 - 1 > DISCARD /\ DISCARD \in Int
            BY ConstantsAssumption DEF ShortOverrun
        <3>4. g.status # 3
            BY <3>1, <3>2, <3>3
        <3>5. s # 0 => ~(s > DISCARD)
            BY <3>1, <3>2, <3>4
        <3>6. QED
            BY <2>3, <3>3, <3>4, <3>5
    <2>5. /\ s = 0 => /\ f.letter = Letter(NextLamp(c))
                      /\ f.secs = g.light_period[NextLamp(c)]
          /\ s # 0 => f.letter = Letter(c) /\ f.secs = s
        BY <2>1, <2>4 DEF FrameOf
    <2>6. QED
        BY <2>3, <2>4, <2>5 DEF Truth
<1>2. RegularSpec => []CountingHasPeriods
    BY CountingAlwaysHasPeriods
<1>3. QED
    BY <1>1, <1>2, RegularInvariance, PTL
===============================================================================
