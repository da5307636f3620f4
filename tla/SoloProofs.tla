------------------------------ MODULE SoloProofs ------------------------------
(* The light ramp, for any number of levels, any thresholds in them and any bound *)
(* on the camera's turns: what it promises of a sound camera and of the count.    *)
(* The health section, for any numbers of viewers, clients and log lines: what it *)
(* concludes.  The bench legs, for any sequence of invocations: how they leave    *)
(* the bench, and what they say of it.                                            *)
EXTENDS MCSolo, Integers, Sequences, TLAPS

(* The camera has turned since the last answer, and the watch has not seen it. *)
Behind == prev \notin {"none", state}

(* The watch is never ahead of the camera.                                     *)
CountInv == trans <= flips /\ (Behind => trans < flips)

(* A sound camera that began in the state of the light turns once, beyond the  *)
(* threshold on the far side, and the ramp never leads it back.                *)
TurnInv ==
  sound /\ settled =>
    \/ flips = 0 /\ state = (IF dir = "down" THEN "day" ELSE "night")
    \/ /\ flips = 1 /\ state = (IF dir = "down" THEN "night" ELSE "day")
       /\ IF dir = "down" THEN level <= NightAt ELSE level >= DayAt

JudgeInv == verdict = "fail" => trans > 1

IInv == TypeOK /\ CountInv /\ TurnInv /\ JudgeInv

USE DEF First, Last
-------------------------------------------------------------------------------
LEMMA InitHolds == Init => IInv
<1> SUFFICES ASSUME Init PROVE IInv
  OBVIOUS
<1>1. settled \in BOOLEAN
  BY Zenon DEF Init
<1>2. settled => state = (IF dir = "down" THEN "day" ELSE "night")
  BY Zenon DEF Init
<1>3. dir \in {"down", "up"} /\ level = First /\ prev = "none" /\ trans = 0 /\ flips = 0
      /\ sound \in BOOLEAN /\ state \in {"day", "night"} /\ verdict = "none"
      /\ ramp = "walking" /\ watch = "starting"
  BY Zenon DEF Init
<1>4. TypeOK
  BY <1>1, <1>3, ConstAssumption DEF TypeOK
<1>5. CountInv /\ TurnInv /\ JudgeInv
  BY <1>2, <1>3 DEF CountInv, Behind, TurnInv, JudgeInv
<1> QED
  BY <1>4, <1>5 DEF IInv

(* A turn of the camera: the watch falls behind, and a sound camera can make   *)
(* only its first one.                                                         *)
LEMMA TurnKeeps == IInv /\ Turn => IInv'
<1> SUFFICES ASSUME IInv, Turn PROVE IInv'
  OBVIOUS
<1>1. TypeOK'
  BY ConstAssumption DEF IInv, TypeOK, Turn
<1>2. CountInv'
  BY DEF IInv, TypeOK, CountInv, Behind, Turn
<1>3. TurnInv'
  BY ConstAssumption DEF IInv, TypeOK, TurnInv, Turn
<1>4. JudgeInv'
  BY DEF IInv, JudgeInv, Turn
<1> QED
  BY <1>1, <1>2, <1>3, <1>4 DEF IInv

(* A step of the light: away from where a sound camera has turned.             *)
LEMMA RampStepKeeps == IInv /\ RampStep => IInv'
<1> SUFFICES ASSUME IInv, RampStep PROVE IInv'
  OBVIOUS
<1>1. TypeOK'
  BY ConstAssumption DEF IInv, TypeOK, RampStep
<1>2. CountInv' /\ JudgeInv'
  BY DEF IInv, CountInv, Behind, JudgeInv, RampStep
<1>3. TurnInv'
  BY ConstAssumption DEF IInv, TypeOK, TurnInv, RampStep
<1> QED
  BY <1>1, <1>2, <1>3 DEF IInv

LEMMA SampleKeeps == IInv /\ Sample => IInv'
<1> SUFFICES ASSUME IInv, Sample PROVE IInv'
  OBVIOUS
<1>1. TypeOK' /\ TurnInv'
  BY DEF IInv, TypeOK, TurnInv, Sample
<1>2. CountInv'
  BY DEF IInv, TypeOK, CountInv, Behind, Sample
<1>3. JudgeInv'
  BY DEF IInv, TypeOK, JudgeInv, Sample
<1> QED
  BY <1>1, <1>2, <1>3 DEF IInv

LEMMA JudgeKeeps == IInv /\ Judge => IInv'
  BY DEF IInv, TypeOK, CountInv, Behind, TurnInv, JudgeInv, Judge

LEMMA StepKeeps == IInv /\ [Next]_vars => IInv'
<1> SUFFICES ASSUME IInv, [Next]_vars PROVE IInv'
  OBVIOUS
<1>1. CASE Turn
  BY <1>1, TurnKeeps
<1>2. CASE RampStep
  BY <1>2, RampStepKeeps
<1>3. CASE Sample
  BY <1>3, SampleKeeps
<1>4. CASE Judge
  BY <1>4, JudgeKeeps
<1>5. CASE WatchStart \/ WatchEnd
  BY <1>5 DEF IInv, TypeOK, CountInv, Behind, TurnInv, JudgeInv, WatchStart, WatchEnd
<1>6. CASE UNCHANGED vars
  BY <1>6 DEF IInv, TypeOK, CountInv, Behind, TurnInv, JudgeInv, vars
<1> QED
  BY <1>1, <1>2, <1>3, <1>4, <1>5, <1>6 DEF Next
-------------------------------------------------------------------------------
(* The inductive invariant holds in every reachable state.                     *)
THEOREM Invariance == Spec => []IInv
  BY InitHolds, StepKeeps, PTL DEF Spec

(* Type correctness of the ramp, its watch and its camera.                     *)
THEOREM TypeCorrect == Spec => []TypeOK
<1>1. IInv => TypeOK
  BY DEF IInv
<1> QED
  BY <1>1, Invariance, PTL

(* The watch never counts a transition the camera did not make                 *)
(* (DN_FLAPWATCH, raptor-test:1051-1055).                                      *)
THEOREM CountCorrect == Spec => []CountSound
<1>1. IInv => CountSound
  BY DEF IInv, CountInv, CountSound
<1> QED
  BY <1>1, Invariance, PTL

(* dn_flap_check never fails a camera with hysteresis that had settled: such a *)
(* camera turns at most once, and the count is at most that                    *)
(* (raptor-test:521-528).                                                      *)
THEOREM VerdictCorrect == Spec => []SoundCameraPasses
<1>1. IInv => SoundCameraPasses
  BY DEF IInv, TypeOK, CountInv, TurnInv, JudgeInv, SoundCameraPasses
<1> QED
  BY <1>1, Invariance, PTL

--------------------------------------------------------------------------------
(* The health section.  Before the ladder nothing is refused or leaked; the       *)
(* baseline is the viewers there were then, or 0.                                 *)
HealthType ==
  /\ healthPc \in {"base", "ladder", "health", "done"}
  /\ viewers \in Nat /\ guests \in Nat /\ external \in {guests, 0} /\ logBase \in Nat
  /\ leaked \in Nat /\ refused \in Nat /\ logged \in Nat
  /\ ring \in Seq(HealthPart!Line) /\ Len(ring) <= RingLen
  /\ healthVerdict \in [HealthPart!Check -> {"none", "pass", "skip", "fail"}]
HealthFlags == left \in BOOLEAN /\ errors \in BOOLEAN
EarlyInv ==
  /\ healthPc = "base" => external = 0 /\ guests = 0
  /\ healthPc \in {"base", "ladder"} =>
       leaked = 0 /\ refused = 0
  /\ healthPc \in {"base", "ladder", "health"} =>
       healthVerdict["leak"] = "none" /\ healthVerdict["log"] = "none"

(* Who watched when the baseline was taken still does, or somebody has left.      *)
ViewerInv == healthPc # "base" /\ ~left => viewers >= guests

RefusedInv == refused > 0 /\ healthVerdict["ladder"] # "fail" => guests > 0
LeakInv ==
  healthVerdict["leak"] = "pass" /\ leaked > 0 => guests > 0 /\ (left \/ "leak" \in healthLost)

(* A line behind the baseline's length has been logged since, whatever the ring   *)
(* has lost; as long as it has lost nothing, all of those lines are there.        *)
RingInv ==
  /\ healthPc = "base" => logBase > RingLen /\ logged = 0 /\ ~errors
  /\ \A j \in 1 .. Len(ring) : j > logBase /\ ring[j] = "error" => errors
  /\ logBase + logged <= RingLen =>
       /\ Len(ring) = logBase + logged
       /\ errors => \E j \in 1 .. Len(ring) : j > logBase /\ ring[j] = "error"
LogInv ==
  /\ healthVerdict["log"] = "fail" => errors
  /\ healthVerdict["log"] = "pass" /\ errors =>
       logBase + logged > RingLen \/ "log" \in healthLost

HInv ==
  /\ HealthType /\ HealthFlags /\ EarlyInv /\ ViewerInv /\ RefusedInv /\ LeakInv
  /\ RingInv /\ LogInv

LEMMA HealthBounds ==
  Viewers \in Nat /\ Clients \in Nat /\ RingLen \in Nat \ {0} /\ LogMax \in Nat
  BY SoloConstants, Zenon DEF HealthPart!ConstAssumption

LEMMA HealthInitHolds == HealthPart!Init => HInv
<1> SUFFICES ASSUME HealthPart!Init
             PROVE  HInv
  OBVIOUS
<1>1. /\ healthPc = "base" /\ external = 0 /\ logBase = RingLen + 1 /\ guests = 0
      /\ healthVerdict = [c \in HealthPart!Check |-> "none"]
      /\ viewers \in 0 .. Viewers /\ leaked = 0 /\ refused = 0 /\ logged = 0
  BY DEF HealthPart!Init, HealthPart!Lost
<1>2. ring \in Seq(HealthPart!Line) /\ Len(ring) <= RingLen
  <2>1. PICK n \in 0 .. RingLen : ring \in [1 .. n -> HealthPart!Line]
    BY DEF HealthPart!Init
  <2>2. n \in Nat /\ n <= RingLen
    BY HealthBounds
  <2> QED
    BY <2>1, <2>2
<1>3. left = FALSE /\ errors = FALSE
  BY Zenon DEF HealthPart!Init
<1>4. HealthType
  BY <1>1, <1>2, HealthBounds DEF HealthType
<1>5. HealthFlags
  BY <1>3, Zenon DEF HealthFlags
<1>6. EarlyInv /\ ViewerInv /\ RefusedInv /\ LeakInv /\ LogInv
  BY <1>1, <1>3 DEF EarlyInv, ViewerInv, RefusedInv, LeakInv, LogInv, HealthPart!Check
<1>7. RingInv
  BY <1>1, <1>2, <1>3, HealthBounds DEF RingInv
<1> QED
  BY <1>4, <1>5, <1>6, <1>7 DEF HInv

(* A line of the log: the lines that stay move down, and the new one is last.     *)
LEMMA Logged ==
  ASSUME HInv, NEW kind \in HealthPart!Line, HealthPart!LogLine(kind)
  PROVE  \E k \in 0 .. 2 :
           /\ k <= Len(ring) /\ (k = 0) = (Len(ring) < RingLen)
           /\ ring' \in Seq(HealthPart!Line) /\ Len(ring') = Len(ring) - k + 1
           /\ \A j \in 1 .. Len(ring) - k : ring'[j] = ring[j + k]
           /\ ring'[Len(ring')] = kind
<1>1. PICK k \in 0 .. 2 :
        /\ k <= Len(ring) /\ (k = 0) = (Len(ring) < RingLen)
        /\ ring' = Append(SubSeq(ring, k + 1, Len(ring)), kind)
  BY DEF HealthPart!LogLine
<1> DEFINE rest == SubSeq(ring, k + 1, Len(ring))
<1>2. ring \in Seq(HealthPart!Line)
  BY DEF HInv, HealthType
<1>3. /\ rest \in Seq(HealthPart!Line) /\ Len(rest) = Len(ring) - k
      /\ \A j \in 1 .. Len(ring) - k : rest[j] = ring[j + k]
  BY <1>1, <1>2
<1> HIDE DEF rest
<1>4. ring' = Append(rest, kind)
  BY <1>1 DEF rest
<1>5. /\ ring' \in Seq(HealthPart!Line) /\ Len(ring') = Len(rest) + 1
      /\ \A j \in 1 .. Len(rest) : ring'[j] = rest[j]
      /\ ring'[Len(rest) + 1] = kind
  BY <1>3, <1>4
<1> QED
  BY <1>1, <1>2, <1>3, <1>5

LEMMA HealthTypeStep == HInv /\ HealthPart!Next => HealthType' /\ HealthFlags'
<1> SUFFICES ASSUME HInv, HealthPart!Next
             PROVE  HealthType' /\ HealthFlags'
  OBVIOUS
<1>t. HealthType /\ HealthFlags
  BY DEF HInv
<1> USE <1>t, HealthBounds DEF HealthType
<1>1. HealthFlags'
  <2>1. left' \in BOOLEAN
    BY <1>t, Zenon
       DEF HealthFlags, HealthPart!Next, HealthPart!ViewerJoins, HealthPart!ViewerLeaves,
           HealthPart!LogLine, HealthPart!Baseline, HealthPart!Ladder,
           HealthPart!HealthSection, HealthPart!device
  <2>2. errors' \in BOOLEAN
    BY <1>t, Zenon
       DEF HealthFlags, HealthPart!Next, HealthPart!ViewerJoins, HealthPart!ViewerLeaves,
           HealthPart!LogLine, HealthPart!Baseline, HealthPart!Ladder,
           HealthPart!HealthSection, HealthPart!log
  <2> QED
    BY <2>1, <2>2 DEF HealthFlags
<1>2. ring' \in Seq(HealthPart!Line) /\ Len(ring') <= RingLen /\ logged' \in Nat
  <2>1. CASE \E kind \in HealthPart!Line : HealthPart!LogLine(kind)
    <3>1. PICK kind \in HealthPart!Line : HealthPart!LogLine(kind)
      BY <2>1
    <3>2. logged' = logged + 1
      BY <3>1 DEF HealthPart!LogLine
    <3> QED
      BY <3>1, <3>2, Logged
  <2>2. CASE UNCHANGED <<ring, logged>>
    BY <2>2
  <2> QED
    BY <2>1, <2>2
       DEF HealthPart!Next, HealthPart!ViewerJoins, HealthPart!ViewerLeaves,
           HealthPart!Baseline, HealthPart!Ladder, HealthPart!HealthSection, HealthPart!log
<1>3. /\ healthPc' \in {"base", "ladder", "health", "done"}
      /\ viewers' \in Nat /\ guests' \in Nat /\ external' \in {guests', 0}
      /\ leaked' \in Nat /\ refused' \in Nat
  <2>0. EarlyInv
    BY DEF HInv
  <2>1. CASE HealthPart!ViewerJoins \/ HealthPart!ViewerLeaves
    BY <2>1 DEF HealthPart!ViewerJoins, HealthPart!ViewerLeaves, HealthPart!suiteVars
  <2>2. CASE HealthPart!Baseline
    BY <2>2 DEF HealthPart!Baseline
  <2>3. CASE HealthPart!Ladder
    BY <2>3 DEF HealthPart!Ladder
  <2>4. CASE HealthPart!HealthSection
    BY <2>4 DEF HealthPart!HealthSection, HealthPart!device
  <2>5. CASE \E kind \in HealthPart!Line : HealthPart!LogLine(kind)
    BY <2>5 DEF HealthPart!LogLine, HealthPart!device, HealthPart!suiteVars
  <2> QED
    BY <2>1, <2>2, <2>3, <2>4, <2>5 DEF HealthPart!Next
<1>4. logBase' \in Nat
  <2>1. logBase' \in {logBase, Len(ring), RingLen + 1}
    BY DEF HealthPart!Next, HealthPart!ViewerJoins, HealthPart!ViewerLeaves,
           HealthPart!LogLine, HealthPart!Baseline, HealthPart!Ladder, HealthPart!Lost,
           HealthPart!HealthSection, HealthPart!suiteVars
  <2>2. Len(ring) \in Nat /\ RingLen + 1 \in Nat
    OBVIOUS
  <2> QED
    BY <2>1, <2>2
<1>5. healthVerdict' \in [HealthPart!Check -> {"none", "pass", "skip", "fail"}]
  <2>1. CASE HealthPart!Ladder
    BY <2>1 DEF HealthPart!Ladder, HealthPart!Record, HealthPart!LadderVerdict
  <2>2. CASE HealthPart!HealthSection
    BY <2>2 DEF HealthPart!HealthSection, HealthPart!Record, HealthPart!LeakVerdict,
                HealthPart!LogVerdict
  <2>3. CASE healthVerdict' = healthVerdict
    BY <2>3
  <2> QED
    BY <2>1, <2>2, <2>3
       DEF HealthPart!Next, HealthPart!ViewerJoins, HealthPart!ViewerLeaves,
           HealthPart!LogLine, HealthPart!Baseline, HealthPart!suiteVars
<1> QED
  BY <1>1, <1>2, <1>3, <1>4, <1>5

(* What the three sections of the suite record.                                   *)
LEMMA SectionVerdicts ==
  ASSUME HInv, HealthPart!HealthSection
  PROVE  /\ healthVerdict'["ladder"] = healthVerdict["ladder"]
         /\ \/ healthVerdict'["leak"] = "fail"
            \/ "leak" \in healthLost' /\ 1 <= external
            \/ viewers + leaked <= external
         /\ \/ healthVerdict'["log"] \notin {"pass", "fail"}
            \/ healthVerdict'["log"] = "fail" /\ "error" \in HealthPart!NewLines
            \/ healthVerdict'["log"] = "pass"
                 /\ ("error" \notin HealthPart!NewLines \/ "log" \in healthLost')
<1>1. PICK conns \in BOOLEAN, length \in BOOLEAN, lines \in BOOLEAN :
        /\ HealthPart!Record([leak |-> HealthPart!LeakVerdict(conns),
                              log  |-> HealthPart!LogVerdict(length, lines)])
        /\ healthLost' = {c \in {"leak", "log"} : CASE c = "leak" -> ~conns
                                                    [] c = "log" -> ~(length /\ lines)}
  BY DEF HealthPart!HealthSection
<1>2. /\ healthVerdict'["ladder"] = healthVerdict["ladder"]
      /\ healthVerdict'["leak"] = HealthPart!LeakVerdict(conns)
      /\ healthVerdict'["log"] = HealthPart!LogVerdict(length, lines)
  BY <1>1 DEF HealthPart!Record, HealthPart!Check, HInv, HealthType
<1>3. ~conns => "leak" \in healthLost'
  BY <1>1
<1>4. ~(length /\ lines) => "log" \in healthLost'
  BY <1>1
<1> QED
  BY <1>2, <1>3, <1>4 DEF HealthPart!LeakVerdict, HealthPart!LogVerdict

(* The three judgements, from the numbers they are made of.                       *)
LEMMA JudgeStep ==
  HInv /\ HealthPart!Next => EarlyInv' /\ ViewerInv' /\ RefusedInv' /\ LeakInv'
<1> SUFFICES ASSUME HInv, HealthPart!Next
             PROVE  EarlyInv' /\ ViewerInv' /\ RefusedInv' /\ LeakInv'
  OBVIOUS
<1>i. EarlyInv /\ ViewerInv /\ RefusedInv /\ LeakInv
  BY DEF HInv
<1>t. /\ viewers \in Nat /\ guests \in Nat /\ external \in {guests, 0} /\ leaked \in Nat
      /\ refused \in Nat
      /\ healthVerdict \in [HealthPart!Check -> {"none", "pass", "skip", "fail"}]
  BY DEF HInv, HealthType
<1>1. CASE HealthPart!ViewerJoins
  <2>1. /\ UNCHANGED <<healthPc, external, guests, leaked, refused, healthVerdict, left,
                       healthLost>>
        /\ viewers' = viewers + 1
    BY <1>1 DEF HealthPart!ViewerJoins, HealthPart!suiteVars
  <2>2. EarlyInv' /\ RefusedInv' /\ LeakInv'
    BY <1>i, <2>1, Zenon DEF EarlyInv, RefusedInv, LeakInv
  <2>3. healthPc # "base" /\ ~left => viewers + 1 >= guests
    BY <1>i, <1>t DEF ViewerInv
  <2> QED
    BY <2>1, <2>2, <2>3, Zenon DEF ViewerInv
<1>2. CASE HealthPart!ViewerLeaves
  <2>1. /\ UNCHANGED <<healthPc, external, guests, leaked, refused, healthVerdict, healthLost>>
        /\ left' = (left \/ healthPc # "base")
    BY <1>2 DEF HealthPart!ViewerLeaves, HealthPart!suiteVars
  <2>2. EarlyInv' /\ RefusedInv'
    BY <1>i, <2>1, Zenon DEF EarlyInv, RefusedInv
  <2>3. LeakInv'
    BY <1>i, <2>1, Zenon DEF LeakInv
  <2> QED
    BY <2>1, <2>2, <2>3, Zenon DEF ViewerInv
<1>3. CASE \E kind \in HealthPart!Line : HealthPart!LogLine(kind)
  <2>1. UNCHANGED <<healthPc, external, guests, leaked, refused, healthVerdict, left,
                    healthLost, viewers>>
    BY <1>3 DEF HealthPart!LogLine, HealthPart!suiteVars, HealthPart!device
  <2> QED
    BY <1>i, <2>1, Zenon DEF EarlyInv, RefusedInv, LeakInv, ViewerInv
<1>4. CASE HealthPart!Baseline
  <2>1. /\ healthPc = "base" /\ healthPc' = "ladder" /\ guests' = viewers /\ viewers' = viewers
        /\ UNCHANGED <<leaked, refused, healthVerdict>>
    BY <1>4 DEF HealthPart!Baseline
  <2>2. EarlyInv'
    BY <1>i, <2>1 DEF EarlyInv
  <2>3. leaked' = 0 /\ refused' = 0
    BY <1>i, <2>1 DEF EarlyInv
  <2>4. viewers' >= guests'
    BY <1>t, <2>1
  <2> QED
    BY <2>2, <2>3, <2>4 DEF ViewerInv, RefusedInv, LeakInv
<1>5. CASE HealthPart!Ladder
  <2>1. PICK r \in 0 .. Clients, dirty \in BOOLEAN :
          /\ refused' = r
          /\ HealthPart!Record([ladder |-> HealthPart!LadderVerdict(dirty, r)])
    BY <1>5 DEF HealthPart!Ladder
  <2>2. /\ healthVerdict'["ladder"] = HealthPart!LadderVerdict(dirty, r)
        /\ healthVerdict'["leak"] = healthVerdict["leak"]
        /\ healthVerdict'["log"] = healthVerdict["log"]
    BY <1>t, <2>1 DEF HealthPart!Record, HealthPart!Check
  <2>3. /\ healthPc = "ladder" /\ healthPc' = "health"
        /\ UNCHANGED <<external, viewers, guests, left>>
    BY <1>5 DEF HealthPart!Ladder
  <2>4. EarlyInv' /\ LeakInv'
    BY <1>i, <2>2, <2>3 DEF EarlyInv, LeakInv
  <2>5. RefusedInv'
    BY <1>t, <2>1, <2>2, <2>3 DEF RefusedInv, HealthPart!LadderVerdict
  <2>6. ViewerInv'
    BY <1>i, <2>3, Zenon DEF ViewerInv
  <2> QED
    BY <2>4, <2>5, <2>6
<1>6. CASE HealthPart!HealthSection
  <2>1. /\ healthPc = "health" /\ healthPc' = "done"
        /\ UNCHANGED <<external, viewers, guests, left, leaked, refused>>
    BY <1>6 DEF HealthPart!HealthSection, HealthPart!device
  <2>2. EarlyInv' /\ ViewerInv'
    BY <1>i, <2>1, Zenon DEF EarlyInv, ViewerInv
  <2>3. RefusedInv'
    BY <1>6, <1>i, <2>1, SectionVerdicts DEF RefusedInv
  <2>4. CASE "leak" \in healthLost' /\ 1 <= external
    <3>1. guests' > 0
      BY <1>t, <2>1, <2>4
    <3> QED
      BY <2>2, <2>3, <2>4, <3>1 DEF LeakInv
  <2>5. CASE viewers + leaked <= external /\ leaked > 0
    <3>1. guests' > 0 /\ ~(viewers >= guests)
      BY <1>t, <2>1, <2>5
    <3>2. left'
      BY <1>i, <2>1, <3>1, Zenon DEF ViewerInv
    <3> QED
      BY <2>2, <2>3, <3>1, <3>2, Zenon DEF LeakInv
  <2>6. CASE healthVerdict'["leak"] = "fail" \/ ~(leaked > 0)
    BY <2>1, <2>2, <2>3, <2>6 DEF LeakInv
  <2> QED
    BY <1>6, <2>4, <2>5, <2>6, SectionVerdicts
<1> QED
  BY <1>1, <1>2, <1>3, <1>4, <1>5, <1>6 DEF HealthPart!Next

LEMMA RingStep == HInv /\ HealthPart!Next => RingInv'
<1> SUFFICES ASSUME HInv, HealthPart!Next
             PROVE  RingInv'
  OBVIOUS
<1>i. RingInv
  BY DEF HInv
<1>t. /\ logBase \in Nat /\ logged \in Nat /\ Len(ring) \in Nat /\ Len(ring) <= RingLen
      /\ ring \in Seq(HealthPart!Line)
  BY DEF HInv, HealthType
<1>1. CASE \E kind \in HealthPart!Line : HealthPart!LogLine(kind)
  <2>1. PICK kind \in HealthPart!Line : HealthPart!LogLine(kind)
    BY <1>1
  <2>2. PICK k \in 0 .. 2 :
           /\ k <= Len(ring) /\ (k = 0) = (Len(ring) < RingLen)
           /\ ring' \in Seq(HealthPart!Line) /\ Len(ring') = Len(ring) - k + 1
           /\ \A j \in 1 .. Len(ring) - k : ring'[j] = ring[j + k]
           /\ ring'[Len(ring')] = kind
    BY <2>1, Logged
  <2>3. /\ logged' = logged + 1 /\ logBase' = logBase /\ healthPc' = healthPc
        /\ healthPc # "base"
    BY <2>1 DEF HealthPart!LogLine, HealthPart!suiteVars
  <2>4. errors' = (errors \/ kind = "error")
    BY <2>1, Zenon DEF HealthPart!LogLine
  <2>5. ASSUME NEW j \in 1 .. Len(ring'), j > logBase, ring'[j] = "error"
        PROVE  errors'
    <3>1. CASE j = Len(ring')
      <4>1. kind = "error"
        BY <2>2, <2>5, <3>1
      <4> QED
        BY <2>4, <4>1, Zenon
    <3>2. CASE j # Len(ring')
      <4>1. j \in 1 .. Len(ring) - k /\ j + k \in 1 .. Len(ring) /\ j + k > logBase
        BY <1>t, <2>2, <2>5, <3>2
      <4>2. ring[j + k] = "error"
        BY <2>2, <2>5, <4>1
      <4>3. errors
        BY <1>i, <4>1, <4>2, Zenon DEF RingInv
      <4> QED
        BY <2>4, <4>3, Zenon
    <3> QED
      BY <3>1, <3>2
  <2>6. ASSUME logBase + logged' <= RingLen
        PROVE  /\ Len(ring') = logBase + logged'
               /\ errors' => \E j \in 1 .. Len(ring') : j > logBase /\ ring'[j] = "error"
    <3>1. logBase + logged <= RingLen /\ logBase + logged < RingLen
      BY <1>t, <2>3, <2>6, HealthBounds
    <3>2. Len(ring) = logBase + logged
      BY <1>i, <3>1 DEF RingInv
    <3>3. k = 0
      BY <2>2, <3>1, <3>2
    <3>4. Len(ring') = logBase + logged'
      BY <1>t, <2>2, <2>3, <3>2, <3>3
    <3>5. ASSUME errors'
          PROVE  \E j \in 1 .. Len(ring') : j > logBase /\ ring'[j] = "error"
      <4>1. CASE kind = "error"
        <5>1. Len(ring') \in 1 .. Len(ring') /\ Len(ring') > logBase
          BY <1>t, <2>3, <3>4
        <5> QED
          BY <2>2, <4>1, <5>1
      <4>2. CASE errors
        <5>1. PICK j \in 1 .. Len(ring) : j > logBase /\ ring[j] = "error"
          BY <1>i, <3>1, <4>2, Zenon DEF RingInv
        <5>2. j \in 1 .. Len(ring) - k /\ ring'[j] = ring[j + k] /\ j + k = j
          BY <1>t, <2>2, <3>3
        <5>3. j \in 1 .. Len(ring')
          BY <1>t, <2>2, <3>3
        <5> QED
          BY <5>1, <5>2, <5>3
      <4> QED
        BY <2>4, <3>5, <4>1, <4>2, Zenon
    <3> QED
      BY <3>4, <3>5
  <2> QED
    BY <2>3, <2>5, <2>6, Zenon DEF RingInv
<1>2. CASE HealthPart!Baseline
  <2>1. /\ healthPc = "base" /\ healthPc' = "ladder" /\ logBase' \in {Len(ring), RingLen + 1}
        /\ UNCHANGED <<ring, logged, errors>>
    BY <1>2 DEF HealthPart!Baseline, HealthPart!log, HealthPart!Lost
  <2>2. logged = 0 /\ ~errors
    BY <1>i, <2>1, Zenon DEF RingInv
  <2>3. ~errors' /\ logged' = 0
    BY <2>1, <2>2, Zenon
  <2>4. logBase' + logged' <= RingLen => Len(ring') = logBase' + logged'
    BY <1>t, <2>1, <2>3, HealthBounds
  <2>5. \A j \in 1 .. Len(ring') : ~(j > logBase')
    BY <1>t, <2>1, HealthBounds
  <2> QED
    BY <2>1, <2>3, <2>4, <2>5, Zenon DEF RingInv
<1>3. CASE UNCHANGED <<ring, logged, errors, logBase>> /\ (healthPc' = "base" => healthPc = "base")
  BY <1>i, <1>3, Zenon DEF RingInv
<1> QED
  BY <1>1, <1>2, <1>3
     DEF HealthPart!Next, HealthPart!ViewerJoins, HealthPart!ViewerLeaves,
         HealthPart!Ladder, HealthPart!HealthSection, HealthPart!log, HealthPart!suiteVars

LEMMA LogStep == HInv /\ HealthPart!Next => LogInv'
<1> SUFFICES ASSUME HInv, HealthPart!Next
             PROVE  LogInv'
  OBVIOUS
<1>i. LogInv /\ RingInv /\ EarlyInv
  BY DEF HInv
<1>t. /\ logBase \in Nat /\ logged \in Nat /\ Len(ring) \in Nat
      /\ healthVerdict \in [HealthPart!Check -> {"none", "pass", "skip", "fail"}]
  BY DEF HInv, HealthType
<1>1. CASE HealthPart!HealthSection
  <2>1. UNCHANGED <<logBase, logged, ring, errors>>
    BY <1>1 DEF HealthPart!HealthSection, HealthPart!log
  <2>2. "error" \in HealthPart!NewLines => errors
    BY <1>i, <1>t DEF RingInv, HealthPart!NewLines
  <2>3. errors /\ logBase + logged <= RingLen => "error" \in HealthPart!NewLines
    BY <1>i, <1>t DEF RingInv, HealthPart!NewLines
  <2>4. logBase + logged <= RingLen \/ logBase + logged > RingLen
    BY <1>t, HealthBounds
  <2>5. \/ healthVerdict'["log"] \notin {"pass", "fail"}
        \/ healthVerdict'["log"] = "fail" /\ "error" \in HealthPart!NewLines
        \/ healthVerdict'["log"] = "pass"
             /\ ("error" \notin HealthPart!NewLines \/ "log" \in healthLost')
    BY <1>1, SectionVerdicts
  <2> QED
    BY <2>1, <2>2, <2>3, <2>4, <2>5, Zenon DEF LogInv
<1>2. CASE healthPc \in {"base", "ladder", "health"} /\ healthVerdict'["log"] = healthVerdict["log"]
  BY <1>i, <1>2 DEF LogInv, EarlyInv
<1>3. CASE UNCHANGED <<healthVerdict, healthLost, errors, logBase, logged>>
  BY <1>i, <1>3, Zenon DEF LogInv
<1>4. CASE HealthPart!Ladder
  <2>1. healthPc = "ladder" /\ healthVerdict'["log"] = healthVerdict["log"]
    BY <1>t, <1>4 DEF HealthPart!Ladder, HealthPart!Record, HealthPart!Check
  <2> QED
    BY <1>2, <2>1
<1>5. CASE ~HealthPart!Ladder /\ ~HealthPart!HealthSection
  <2>1. \/ UNCHANGED <<healthVerdict, healthLost, errors, logBase, logged>>
        \/ healthPc \in {"base", "ladder", "health"} /\ UNCHANGED healthVerdict
    BY <1>5 DEF HealthPart!Next, HealthPart!ViewerJoins, HealthPart!ViewerLeaves,
       HealthPart!LogLine, HealthPart!Baseline, HealthPart!log, HealthPart!suiteVars
  <2> QED
    BY <1>2, <1>3, <2>1
<1> QED
  BY <1>1, <1>4, <1>5

LEMMA HealthStepKeeps == HInv /\ [HealthPart!Next]_(HealthPart!vars) => HInv'
<1>1. HInv /\ HealthPart!Next => HInv'
  BY HealthTypeStep, JudgeStep, RingStep, LogStep DEF HInv
<1>2. HInv /\ UNCHANGED HealthPart!vars => HInv'
  <2> SUFFICES ASSUME HInv, UNCHANGED HealthPart!vars
               PROVE  HInv'
    OBVIOUS
  <2>1. UNCHANGED <<healthPc, external, logBase, healthVerdict, healthLost, viewers, guests,
                    left, leaked, refused, ring, logged, errors>>
    BY DEF HealthPart!vars, HealthPart!suiteVars, HealthPart!device, HealthPart!log
  <2>2. HealthType' /\ HealthFlags' /\ EarlyInv' /\ ViewerInv'
    BY <2>1, Zenon DEF HInv, HealthType, HealthFlags, EarlyInv, ViewerInv
  <2>3. RefusedInv' /\ LeakInv' /\ LogInv'
    BY <2>1, Zenon DEF HInv, RefusedInv, LeakInv, LogInv
  <2>4. RingInv'
    BY <2>1, Zenon DEF HInv, RingInv
  <2> QED
    BY <2>2, <2>3, <2>4 DEF HInv
<1> QED
  BY <1>1, <1>2

(* The parts of the health section's invariant hold together, the ring of the log *)
(* and its baseline among them (raptor-test:365-380, 2498-2613).                  *)
THEOREM HealthInvariance == HealthPart!Spec => []HInv
  BY HealthInitHolds, HealthStepKeeps, PTL DEF HealthPart!Spec

(* A refused client is charged to the server unless somebody else watched, a leak *)
(* passes only behind a viewer who left or a lost answer, and the log's sweep     *)
(* charges the run with its own errors, however the ring has rolled               *)
(* (raptor-test:365-380, 2498-2504, 2592-2613).                                   *)
THEOREM HealthCorrect == HealthPart!Spec => []HealthVerdicts
<1>1. HInv => HealthPart!RefusalsCharged
  BY DEF HInv, RefusedInv, HealthPart!RefusalsCharged
<1>2. HInv => HealthPart!LeakSound
  BY DEF HInv, LeakInv, HealthPart!LeakSound
<1>3. HInv => HealthPart!LogSound
  BY DEF HInv, LogInv, HealthPart!LogSound
<1> QED
  BY <1>1, <1>2, <1>3, HealthInvariance, PTL DEF HealthVerdicts

--------------------------------------------------------------------------------
(* The bench legs.                                                                *)
CyclePC == {"status", "night", "day", "auto", "turn", "wait", "hold", "shorten", "force",
            "release", "reacquire", "recheck", "restore"}
CastPC == {"cast", "red", "blue", "castend"}
BenchPC == {"idle", "over", "cal", "ladder", "calend", "verify", "rung"} \cup CyclePC \cup CastPC

BenchType ==
  /\ pc \in BenchPC /\ stage \in 1 .. 5
  /\ mode \in {"auto", "day", "night"} /\ ricState \in {"day", "night"}
  /\ benchPrev \in {"auto", "day", "night"}
  /\ table \in 0 .. 3 /\ rig \in 1 .. 2
  /\ benchVerdict \in [BenchLegs!Check -> {"none", "pass", "skip", "fail"}]
BenchFlags == lost \in BOOLEAN /\ unread \in BOOLEAN /\ drift \in BOOLEAN

(* With every exposure read no leg is left in its middle: the other cameras are   *)
(* released wherever nothing has been quiesced, and the room is lit but in the    *)
(* steps that turn the light: in full behind every leg that sets it, the cast     *)
(* apart.                                                                         *)
FreeInv == ~unread /\ pc \in {"idle", "over", "status"} => bench = "free"
LightInv ==
  ~unread =>
    /\ pc \in {"idle", "over", "cal", "verify", "status", "night", "day", "auto", "recheck",
               "restore"} \cup CastPC => light \in {"full", CastKey}
    /\ pc \in {"recheck", "restore"} => light = "full"
    /\ pc = "over" /\ BenchLegs!Relit => light = "full"
    /\ pc = "wait" => light = BenchLegs!StageLight[stage]

(* Which invocation is where; and what those that release the other cameras and   *)
(* light the room whatever was read leave behind.                                 *)
LegInv ==
  /\ pc \in {"cal", "ladder", "calend"} => inv = "cal"
  /\ pc \in {"verify", "rung"} => inv \in {"verify", "daynight", "suite"}
  /\ pc = "verify" /\ table = BenchLegs!NoTable => inv = "verify"
  /\ pc \in CyclePC => inv \in {"daynight", "suite"}
  /\ pc \in CastPC => inv \in {"cast", "suite"}
  /\ pc = "status" => benchVerdict["auto"] = "none"
  /\ pc = "over" =>
       /\ inv = "cal" => bench = "free" /\ light = "full"
       /\ inv = "verify" => bench = "free"
       /\ inv = "daynight" /\ benchVerdict["auto"] # "none" => bench = "free"

(* With no call lost either, the camera is in auto but in the steps that force a  *)
(* mode, and these restore auto.                                                  *)
ModeInv ==
  ~unread /\ ~lost =>
    /\ pc \notin {"ladder", "calend", "rung", "day", "auto", "release"} => mode = "auto"
    /\ pc \in {"ladder", "calend", "rung"} => benchPrev = "auto"
RecheckInv ==
  recheck = "20" =>
    \/ lost
    \/ stage >= 3 /\ pc \in {"turn", "wait", "force", "release", "reacquire", "recheck"}

(* A forced mode is ric's state.  A camera that is still in night behind the      *)
(* cycle's first check has failed it, and behind the re-acquisition one in day    *)
(* has failed that.                                                               *)
ForcedInv == mode # "auto" => ricState = mode
StillNight ==
  \/ /\ pc \in {"turn", "wait", "hold", "shorten", "force", "release", "reacquire"}
     /\ mode = "night"
  \/ pc = "verify" /\ inv # "verify" /\ mode = "night"
  \/ pc = "rung" /\ inv # "verify" /\ "night" \in {mode, benchPrev}
NightInv ==
  /\ StillNight => benchVerdict["auto"] = "fail"
  /\ benchVerdict["reacquire"] # "none" =>
       /\ pc \in {"turn", "wait", "recheck", "restore", "over", "idle"} \cup CastPC
       /\ pc \in {"turn", "wait"} => stage = 5
       /\ mode = "auto" \/ "fail" \in {benchVerdict["auto"], benchVerdict["reacquire"]}

(* A table of another rig is drift from the first rung on.                        *)
RungInv ==
  /\ pc = "rung" => table # BenchLegs!NoTable
  /\ pc = "rung" /\ ~drift /\ todo = <<>> => table \in {rig, BenchLegs!Unreadable}
  /\ pc \in {"cal", "ladder", "calend", "verify", "status", "night", "day", "auto"} =>
       benchVerdict["verify"] = "none"
  /\ benchVerdict["verify"] = "pass" /\ pc # "idle" => table \in {rig, BenchLegs!Unreadable}

(* With every exposure read a response is that of a wash, and the pinned one      *)
(* that of the wash it was pinned under.                                          *)
CastInv ==
  /\ pc \notin {"over", "idle"} => benchVerdict["drift"] = "none"
  /\ ~unread =>
       /\ cast.of = cast.resp
       /\ pc \in {"red", "blue", "castend"} => seen = wash
       /\ pc # "idle" /\ benchVerdict["drift"] = "pass" => cast.of = wash

BInv ==
  /\ BenchType /\ BenchFlags /\ FreeInv /\ LegInv /\ LightInv /\ ModeInv /\ RecheckInv
  /\ ForcedInv /\ NightInv /\ RungInv /\ CastInv

LEMMA BenchInitHolds == BenchLegs!Init => BInv
<1> SUFFICES ASSUME BenchLegs!Init
             PROVE  BInv
  OBVIOUS
<1>1. /\ pc = "idle" /\ stage = 1 /\ todo = <<>> /\ benchPrev = "auto"
      /\ benchVerdict = [c \in BenchLegs!Check |-> "none"]
      /\ bench = "free" /\ light = "full" /\ rig = 1 /\ wash = 1
      /\ mode = "auto" /\ ricState = "day" /\ recheck = "own" /\ table = 0
      /\ cast = [of |-> 0, resp |-> 0]
  BY DEF BenchLegs!Init, BenchLegs!NoVerdicts, BenchLegs!NoTable, BenchLegs!NoCast
<1>2. lost = FALSE /\ unread = FALSE /\ drift = FALSE
  BY Zenon DEF BenchLegs!Init
<1>3. BenchType
  BY <1>1 DEF BenchType, BenchPC
<1>4. BenchFlags
  BY <1>2, Zenon DEF BenchFlags
<1>5. FreeInv /\ LegInv /\ LightInv /\ ModeInv /\ RecheckInv /\ ForcedInv /\ NightInv /\ RungInv
  BY <1>1 DEF FreeInv, LegInv, LightInv, ModeInv, RecheckInv, ForcedInv, NightInv, StillNight, RungInv,
              CyclePC, CastPC, BenchLegs!Check
<1>6. CastInv
  BY <1>1 DEF CastInv, BenchLegs!Check
<1> QED
  BY <1>3, <1>4, <1>5, <1>6 DEF BInv

Cal == BenchLegs!CalStart \/ BenchLegs!CalLadder \/ BenchLegs!CalEnd
Verify == BenchLegs!VerifyStart \/ BenchLegs!VerifyRung \/ BenchLegs!VerifyEnd
Forcing == BenchLegs!ForceNight \/ BenchLegs!ForceDay \/ BenchLegs!ForceDark \/ BenchLegs!ReleaseDark
Turning == BenchLegs!Turn \/ BenchLegs!Waited \/ BenchLegs!Hold \/ BenchLegs!Shorten \/ BenchLegs!Lengthen
Cycle == BenchLegs!Status \/ BenchLegs!BackToAuto \/ BenchLegs!Reacquired \/ BenchLegs!Restore
Cast == BenchLegs!CastStart \/ BenchLegs!CastColor \/ BenchLegs!CastEnd
Around == BenchLegs!Exit \/ BenchLegs!RicFollows \/ BenchLegs!Rearranged

LEMMA BenchSteps ==
  ASSUME BenchLegs!Next
  PROVE  Cal \/ Verify \/ Forcing \/ Turning \/ Cycle \/ Cast \/ Around
         \/ \E i \in Invocation : BenchLegs!Invoke(i)
  BY DEF BenchLegs!Next, BenchLegs!Leg, Cal, Verify, Forcing, Turning, Cycle, Cast, Around

(* An invocation begins at one of its four entries, with nothing recorded.        *)
LEMMA Invoked ==
  ASSUME NEW i \in Invocation, BenchLegs!Invoke(i)
  PROVE  /\ pc = "idle" /\ pc' \in {"status", "cal", "verify", "cast"}
         /\ inv' = i /\ (pc' # "status" => pc' = inv')
         /\ (pc' = "status" => inv' \in {"daynight", "suite"})
         /\ \A c \in BenchLegs!Check : benchVerdict'[c] = "none"
         /\ benchVerdict' \in [BenchLegs!Check -> {"none"}]
         /\ stage' = 1 /\ drift' = FALSE
         /\ UNCHANGED <<todo, benchPrev, bench, light, rig, wash, mode, ricState, recheck,
                       table, cast, lost, unread>>
<1>1. i \in BenchLegs!Legs
  BY SoloConstants DEF BenchLegs!ConstAssumption
<1> QED
  BY <1>1
     DEF BenchLegs!Invoke, BenchLegs!Legs, BenchLegs!NoVerdicts, BenchLegs!benchVars,
         BenchLegs!ricVars, BenchLegs!fileVars

(* What the actions are made of.                                                  *)
USE DEF Cal, Verify, Forcing, Turning, Cycle, Cast, Around,
        BenchLegs!SetMode, BenchLegs!AskMode, BenchLegs!VerifyReturns, BenchLegs!Forced,
        BenchLegs!SetRecheck, BenchLegs!AfterCycle, BenchLegs!Record, BenchLegs!legVars,
        BenchLegs!benchVars, BenchLegs!ricVars, BenchLegs!fileVars

(* One part of the invariant at a time, over the groups of actions.               *)
LEMMA FlagStep == BInv /\ BenchLegs!Next => BenchFlags'
<1> SUFFICES ASSUME BInv, BenchLegs!Next
             PROVE  BenchFlags'
  OBVIOUS
<1>t. BenchFlags
  BY DEF BInv, BenchType, BenchFlags
<1>1. CASE Cal
  BY <1>t, <1>1, Zenon
     DEF BenchFlags, BenchLegs!CalStart, BenchLegs!CalLadder, BenchLegs!CalEnd
<1>2. CASE Verify
  BY <1>t, <1>2, Zenon
     DEF BenchFlags, BenchLegs!VerifyStart, BenchLegs!VerifyRung,
         BenchLegs!VerifyEnd
<1>3. CASE Forcing
  BY <1>t, <1>3, Zenon
     DEF BenchFlags, BenchLegs!ForceNight, BenchLegs!ForceDay, BenchLegs!ForceDark,
         BenchLegs!ReleaseDark
<1>4. CASE Turning
  BY <1>t, <1>4, Zenon
     DEF BenchFlags, BenchLegs!Turn, BenchLegs!Waited, BenchLegs!Hold,
         BenchLegs!Shorten, BenchLegs!Lengthen
<1>5. CASE Cycle
  BY <1>t, <1>5, Zenon
     DEF BenchFlags, BenchLegs!Status, BenchLegs!BackToAuto, BenchLegs!Reacquired,
         BenchLegs!Restore
<1>6. CASE Cast
  BY <1>t, <1>6, Zenon
     DEF BenchFlags, BenchLegs!CastStart, BenchLegs!CastColor, BenchLegs!CastEnd
<1>7. CASE Around
  BY <1>t, <1>7, Zenon
     DEF BenchFlags, BenchLegs!Exit, BenchLegs!RicFollows, BenchLegs!Rearranged
<1>8. CASE \E i \in Invocation : BenchLegs!Invoke(i)
  BY <1>t, <1>8, Invoked, Zenon
     DEF BenchFlags
<1> QED
  BY <1>1, <1>2, <1>3, <1>4, <1>5, <1>6, <1>7, <1>8, BenchSteps

LEMMA FreeStep == BInv /\ BenchLegs!Next => FreeInv'
<1> SUFFICES ASSUME BInv, BenchLegs!Next
             PROVE  FreeInv'
  OBVIOUS
<1>t. FreeInv /\ unread \in BOOLEAN
  BY DEF BInv, BenchType, BenchFlags
<1>1. CASE Cal
  BY <1>t, <1>1
     DEF FreeInv, BenchLegs!CalStart, BenchLegs!CalLadder, BenchLegs!CalEnd
<1>2. CASE Verify
  BY <1>t, <1>2
     DEF FreeInv, BenchLegs!VerifyStart, BenchLegs!VerifyRung, BenchLegs!VerifyEnd
<1>3. CASE Forcing
  BY <1>t, <1>3
     DEF FreeInv, BenchLegs!ForceNight, BenchLegs!ForceDay, BenchLegs!ForceDark,
         BenchLegs!ReleaseDark
<1>4. CASE Turning
  BY <1>t, <1>4
     DEF FreeInv, BenchLegs!Turn, BenchLegs!Waited, BenchLegs!Hold,
         BenchLegs!Shorten, BenchLegs!Lengthen
<1>5. CASE Cycle
  BY <1>t, <1>5
     DEF FreeInv, BenchLegs!Status, BenchLegs!BackToAuto, BenchLegs!Reacquired,
         BenchLegs!Restore
<1>6. CASE Cast
  BY <1>t, <1>6
     DEF FreeInv, BenchLegs!CastStart, BenchLegs!CastColor, BenchLegs!CastEnd
<1>7. CASE Around
  BY <1>t, <1>7
     DEF FreeInv, BenchLegs!Exit, BenchLegs!RicFollows, BenchLegs!Rearranged
<1>8. CASE \E i \in Invocation : BenchLegs!Invoke(i)
  BY <1>t, <1>8, Invoked
     DEF FreeInv
<1> QED
  BY <1>1, <1>2, <1>3, <1>4, <1>5, <1>6, <1>7, <1>8, BenchSteps

LEMMA LegStep == BInv /\ BenchLegs!Next => LegInv'
<1> SUFFICES ASSUME BInv, BenchLegs!Next
             PROVE  LegInv'
  OBVIOUS
<1>t. LegInv /\ benchVerdict \in [BenchLegs!Check -> {"none", "pass", "skip", "fail"}]
  BY DEF BInv, BenchType
<1>1. CASE Cal
  BY <1>t, <1>1
     DEF LegInv, CyclePC, CastPC, BenchLegs!Check,
         BenchLegs!CalStart, BenchLegs!CalLadder, BenchLegs!CalEnd
<1>2. CASE Verify
  BY <1>t, <1>2
     DEF LegInv, CyclePC, CastPC, BenchLegs!Check,
         BenchLegs!VerifyStart, BenchLegs!VerifyRung, BenchLegs!VerifyEnd
<1>3. CASE Forcing
  BY <1>t, <1>3
     DEF LegInv, CyclePC, CastPC, BenchLegs!Check,
         BenchLegs!ForceNight, BenchLegs!ForceDay, BenchLegs!ForceDark,
         BenchLegs!ReleaseDark
<1>4. CASE Turning
  BY <1>t, <1>4
     DEF LegInv, CyclePC, CastPC, BenchLegs!Check,
         BenchLegs!Turn, BenchLegs!Waited, BenchLegs!Hold,
         BenchLegs!Shorten, BenchLegs!Lengthen
<1>5. CASE Cycle
  BY <1>t, <1>5
     DEF LegInv, CyclePC, CastPC, BenchLegs!Check,
         BenchLegs!Status, BenchLegs!BackToAuto, BenchLegs!Reacquired,
         BenchLegs!Restore
<1>6. CASE Cast
  BY <1>t, <1>6
     DEF LegInv, CyclePC, CastPC, BenchLegs!Check,
         BenchLegs!CastStart, BenchLegs!CastColor, BenchLegs!CastEnd
<1>7. CASE Around
  BY <1>t, <1>7
     DEF LegInv, CyclePC, CastPC, BenchLegs!Check,
         BenchLegs!Exit, BenchLegs!RicFollows, BenchLegs!Rearranged
<1>8. CASE \E i \in Invocation : BenchLegs!Invoke(i)
  BY <1>t, <1>8, Invoked
     DEF LegInv, CyclePC, CastPC, BenchLegs!Check
<1> QED
  BY <1>1, <1>2, <1>3, <1>4, <1>5, <1>6, <1>7, <1>8, BenchSteps

LEMMA LightStep == BInv /\ BenchLegs!Next => LightInv'
<1> SUFFICES ASSUME BInv, BenchLegs!Next
             PROVE  LightInv'
  OBVIOUS
<1>t. LightInv /\ LegInv /\ unread \in BOOLEAN /\ stage \in 1 .. 5
  BY DEF BInv, BenchType, BenchFlags
<1>1. CASE Cal
  BY <1>t, <1>1
     DEF LightInv, LegInv, BenchLegs!Relit, CyclePC, CastPC,
         BenchLegs!StageLight, BenchLegs!CalStart,
         BenchLegs!CalLadder, BenchLegs!CalEnd
<1>2. CASE Verify
  <2> USE DEF LightInv, LegInv, BenchLegs!Relit, BenchLegs!StageLight, CyclePC, CastPC
  <2>1. CASE BenchLegs!VerifyStart
    BY <1>t, <2>1 DEF BenchLegs!VerifyStart
  <2>2. CASE BenchLegs!VerifyRung
    BY <1>t, <2>2 DEF BenchLegs!VerifyRung
  <2>3. CASE BenchLegs!VerifyEnd
    BY <1>t, <2>3 DEF BenchLegs!VerifyEnd
  <2> QED
    BY <1>2, <2>1, <2>2, <2>3
<1>3. CASE Forcing
  BY <1>t, <1>3
     DEF LightInv, LegInv, BenchLegs!Relit, CyclePC, CastPC,
         BenchLegs!StageLight, BenchLegs!ForceNight,
         BenchLegs!ForceDay, BenchLegs!ForceDark, BenchLegs!ReleaseDark
<1>4. CASE Turning
  BY <1>t, <1>4
     DEF LightInv, LegInv, BenchLegs!Relit, CyclePC, CastPC,
         BenchLegs!StageLight, BenchLegs!Turn, BenchLegs!Waited,
         BenchLegs!Hold, BenchLegs!Shorten, BenchLegs!Lengthen
<1>5. CASE Cycle
  BY <1>t, <1>5
     DEF LightInv, LegInv, BenchLegs!Relit, CyclePC, CastPC,
         BenchLegs!StageLight, BenchLegs!Status,
         BenchLegs!BackToAuto, BenchLegs!Reacquired, BenchLegs!Restore
<1>6. CASE Cast
  BY <1>t, <1>6
     DEF LightInv, LegInv, BenchLegs!Relit, CyclePC, CastPC,
         BenchLegs!StageLight, BenchLegs!CastStart,
         BenchLegs!CastColor, BenchLegs!CastEnd
<1>7. CASE Around
  BY <1>t, <1>7
     DEF LightInv, LegInv, BenchLegs!Relit, CyclePC, CastPC,
         BenchLegs!StageLight, BenchLegs!Exit,
         BenchLegs!RicFollows, BenchLegs!Rearranged
<1>8. CASE \E i \in Invocation : BenchLegs!Invoke(i)
  BY <1>t, <1>8, Invoked
     DEF LightInv, LegInv, BenchLegs!Relit, CyclePC, CastPC, BenchLegs!StageLight
<1> QED
  BY <1>1, <1>2, <1>3, <1>4, <1>5, <1>6, <1>7, <1>8, BenchSteps

LEMMA ModeStep == BInv /\ BenchLegs!Next => ModeInv'
<1> SUFFICES ASSUME BInv, BenchLegs!Next
             PROVE  ModeInv'
  OBVIOUS
<1>t. ModeInv /\ unread \in BOOLEAN /\ lost \in BOOLEAN
  BY DEF BInv, BenchType, BenchFlags
<1>1. CASE Cal
  BY <1>t, <1>1
     DEF ModeInv, BenchLegs!CalStart, BenchLegs!CalLadder, BenchLegs!CalEnd
<1>2. CASE Verify
  BY <1>t, <1>2
     DEF ModeInv, BenchLegs!VerifyStart, BenchLegs!VerifyRung, BenchLegs!VerifyEnd
<1>3. CASE Forcing
  BY <1>t, <1>3
     DEF ModeInv, BenchLegs!ForceNight, BenchLegs!ForceDay, BenchLegs!ForceDark,
         BenchLegs!ReleaseDark
<1>4. CASE Turning
  BY <1>t, <1>4
     DEF ModeInv, BenchLegs!Turn, BenchLegs!Waited, BenchLegs!Hold,
         BenchLegs!Shorten, BenchLegs!Lengthen
<1>5. CASE Cycle
  BY <1>t, <1>5
     DEF ModeInv, BenchLegs!Status, BenchLegs!BackToAuto, BenchLegs!Reacquired,
         BenchLegs!Restore
<1>6. CASE Cast
  BY <1>t, <1>6
     DEF ModeInv, BenchLegs!CastStart, BenchLegs!CastColor, BenchLegs!CastEnd
<1>7. CASE Around
  BY <1>t, <1>7
     DEF ModeInv, BenchLegs!Exit, BenchLegs!RicFollows, BenchLegs!Rearranged
<1>8. CASE \E i \in Invocation : BenchLegs!Invoke(i)
  BY <1>t, <1>8, Invoked
     DEF ModeInv
<1> QED
  BY <1>1, <1>2, <1>3, <1>4, <1>5, <1>6, <1>7, <1>8, BenchSteps

LEMMA RecheckStep == BInv /\ BenchLegs!Next => RecheckInv'
<1> SUFFICES ASSUME BInv, BenchLegs!Next
             PROVE  RecheckInv'
  OBVIOUS
<1>t. RecheckInv /\ stage \in 1 .. 5 /\ lost \in BOOLEAN
  BY DEF BInv, BenchType, BenchFlags
<1>1. CASE Cal
  BY <1>t, <1>1
     DEF RecheckInv, BenchLegs!CalStart, BenchLegs!CalLadder, BenchLegs!CalEnd
<1>2. CASE Verify
  BY <1>t, <1>2
     DEF RecheckInv, BenchLegs!VerifyStart, BenchLegs!VerifyRung,
         BenchLegs!VerifyEnd
<1>3. CASE Forcing
  BY <1>t, <1>3
     DEF RecheckInv, BenchLegs!ForceNight, BenchLegs!ForceDay, BenchLegs!ForceDark,
         BenchLegs!ReleaseDark
<1>4. CASE Turning
  BY <1>t, <1>4
     DEF RecheckInv, BenchLegs!Turn, BenchLegs!Waited, BenchLegs!Hold,
         BenchLegs!Shorten, BenchLegs!Lengthen
<1>5. CASE Cycle
  BY <1>t, <1>5
     DEF RecheckInv, BenchLegs!Status, BenchLegs!BackToAuto, BenchLegs!Reacquired,
         BenchLegs!Restore
<1>6. CASE Cast
  BY <1>t, <1>6
     DEF RecheckInv, BenchLegs!CastStart, BenchLegs!CastColor, BenchLegs!CastEnd
<1>7. CASE Around
  BY <1>t, <1>7
     DEF RecheckInv, BenchLegs!Exit, BenchLegs!RicFollows, BenchLegs!Rearranged
<1>8. CASE \E i \in Invocation : BenchLegs!Invoke(i)
  BY <1>t, <1>8, Invoked
     DEF RecheckInv
<1> QED
  BY <1>1, <1>2, <1>3, <1>4, <1>5, <1>6, <1>7, <1>8, BenchSteps

LEMMA ForcedStep == BInv /\ BenchLegs!Next => ForcedInv'
<1> SUFFICES ASSUME BInv, BenchLegs!Next
             PROVE  ForcedInv'
  OBVIOUS
<1>t. ForcedInv
  BY DEF BInv, BenchType, BenchFlags
<1>1. CASE Cal
  BY <1>t, <1>1
     DEF ForcedInv, BenchLegs!CalStart, BenchLegs!CalLadder, BenchLegs!CalEnd
<1>2. CASE Verify
  BY <1>t, <1>2
     DEF ForcedInv, BenchLegs!VerifyStart, BenchLegs!VerifyRung, BenchLegs!VerifyEnd
<1>3. CASE Forcing
  BY <1>t, <1>3
     DEF ForcedInv, BenchLegs!ForceNight, BenchLegs!ForceDay, BenchLegs!ForceDark,
         BenchLegs!ReleaseDark
<1>4. CASE Turning
  BY <1>t, <1>4
     DEF ForcedInv, BenchLegs!Turn, BenchLegs!Waited, BenchLegs!Hold,
         BenchLegs!Shorten, BenchLegs!Lengthen
<1>5. CASE Cycle
  BY <1>t, <1>5
     DEF ForcedInv, BenchLegs!Status, BenchLegs!BackToAuto, BenchLegs!Reacquired,
         BenchLegs!Restore
<1>6. CASE Cast
  BY <1>t, <1>6
     DEF ForcedInv, BenchLegs!CastStart, BenchLegs!CastColor, BenchLegs!CastEnd
<1>7. CASE Around
  BY <1>t, <1>7
     DEF ForcedInv, BenchLegs!Exit, BenchLegs!RicFollows, BenchLegs!Rearranged
<1>8. CASE \E i \in Invocation : BenchLegs!Invoke(i)
  BY <1>t, <1>8, Invoked
     DEF ForcedInv
<1> QED
  BY <1>1, <1>2, <1>3, <1>4, <1>5, <1>6, <1>7, <1>8, BenchSteps

LEMMA NightStep == BInv /\ BenchLegs!Next => NightInv'
<1> SUFFICES ASSUME BInv, BenchLegs!Next
             PROVE  NightInv'
  OBVIOUS
<1>t. NightInv /\ ForcedInv /\ pc \in BenchPC /\ mode \in {"auto", "day", "night"}
      /\ benchVerdict \in [BenchLegs!Check -> {"none", "pass", "skip", "fail"}]
  BY DEF BInv, BenchType, BenchFlags
<1>1. CASE Cal
  BY <1>t, <1>1
     DEF NightInv, StillNight, CyclePC, CastPC, BenchPC, BenchLegs!Check,
         BenchLegs!CalStart, BenchLegs!CalLadder, BenchLegs!CalEnd
<1>2. CASE Verify
  BY <1>t, <1>2
     DEF NightInv, StillNight, CyclePC, CastPC, BenchPC, BenchLegs!Check,
         BenchLegs!VerifyStart, BenchLegs!VerifyRung, BenchLegs!VerifyEnd
<1>3. CASE Forcing
  BY <1>t, <1>3
     DEF NightInv, StillNight, CyclePC, CastPC, BenchPC, BenchLegs!Check,
         BenchLegs!ForceNight, BenchLegs!ForceDay, BenchLegs!ForceDark,
         BenchLegs!ReleaseDark
<1>4. CASE Turning
  BY <1>t, <1>4
     DEF NightInv, StillNight, CyclePC, CastPC, BenchPC, BenchLegs!Check,
         BenchLegs!Turn, BenchLegs!Waited, BenchLegs!Hold, BenchLegs!Shorten,
         BenchLegs!Lengthen
<1>5. CASE Cycle
  <2>1. CASE BenchLegs!Status
    BY <1>t, <2>1
       DEF NightInv, StillNight, CyclePC, CastPC, BenchPC, BenchLegs!Check,
           BenchLegs!Status
  <2>2. CASE BenchLegs!BackToAuto
    BY <1>t, <2>2
       DEF NightInv, StillNight, CyclePC, CastPC, BenchPC, BenchLegs!Check,
           BenchLegs!BackToAuto
  <2>3. CASE BenchLegs!Reacquired
    <3>1. /\ pc = "reacquire" /\ pc' = "turn" /\ stage' = 5 /\ mode' = mode
      BY <2>3 DEF BenchLegs!Reacquired
    <3>2. \/ ricState = "night" /\ benchVerdict'["reacquire"] = "pass"
          \/ benchVerdict'["reacquire"] = "fail"
      BY <1>t, <2>3 DEF BenchLegs!Reacquired, BenchLegs!Check
    <3>3. benchVerdict'["auto"] = benchVerdict["auto"] /\ inv' = inv
      BY <1>t, <2>3 DEF BenchLegs!Reacquired, BenchLegs!Check
    <3>4. mode = "night" => benchVerdict["auto"] = "fail"
      BY <1>t, <3>1 DEF NightInv, StillNight
    <3> QED
      BY <3>1, <3>2, <3>3, <3>4, <1>t DEF NightInv, StillNight, ForcedInv
  <2>4. CASE BenchLegs!Restore
    BY <1>t, <2>4
       DEF NightInv, StillNight, CyclePC, CastPC, BenchPC, BenchLegs!Check,
           BenchLegs!Restore
  <2> QED
    BY <1>5, <2>1, <2>2, <2>3, <2>4
<1>6. CASE Cast
  BY <1>t, <1>6
     DEF NightInv, StillNight, CyclePC, CastPC, BenchPC, BenchLegs!Check,
         BenchLegs!CastStart, BenchLegs!CastColor, BenchLegs!CastEnd
<1>7. CASE Around
  BY <1>t, <1>7
     DEF NightInv, StillNight, CyclePC, CastPC, BenchPC, BenchLegs!Check,
         BenchLegs!Exit, BenchLegs!RicFollows, BenchLegs!Rearranged
<1>8. CASE \E i \in Invocation : BenchLegs!Invoke(i)
  BY <1>t, <1>8, Invoked
     DEF NightInv, StillNight, CyclePC, CastPC, BenchPC, BenchLegs!Check
<1> QED
  BY <1>1, <1>2, <1>3, <1>4, <1>5, <1>6, <1>7, <1>8, BenchSteps

LEMMA RungStep == BInv /\ BenchLegs!Next => RungInv'
<1> SUFFICES ASSUME BInv, BenchLegs!Next
             PROVE  RungInv'
  OBVIOUS
<1>t. RungInv /\ drift \in BOOLEAN /\ table \in 0 .. 3 /\ rig \in 1 .. 2
      /\ benchVerdict \in [BenchLegs!Check -> {"none", "pass", "skip", "fail"}]
  BY DEF BInv, BenchType, BenchFlags
<1>1. CASE Cal
  BY <1>t, <1>1
     DEF RungInv, BenchLegs!Check, BenchLegs!Rungs, BenchLegs!NoTable,
         BenchLegs!Unreadable, BenchLegs!CalStart, BenchLegs!CalLadder,
         BenchLegs!CalEnd
<1>2. CASE Verify
  <2>1. CASE BenchLegs!VerifyStart
    BY <1>t, <2>1
       DEF RungInv, BenchLegs!Check, BenchLegs!Rungs, BenchLegs!NoTable,
           BenchLegs!Unreadable, BenchLegs!VerifyStart
  <2>2. CASE BenchLegs!VerifyRung
    BY <1>t, <2>2
       DEF RungInv, BenchLegs!Check, BenchLegs!Rungs, BenchLegs!NoTable,
           BenchLegs!Unreadable, BenchLegs!VerifyRung
  <2>3. CASE BenchLegs!VerifyEnd
    BY <1>t, <2>3
       DEF RungInv, BenchLegs!Check, BenchLegs!Rungs, BenchLegs!NoTable,
           BenchLegs!Unreadable, BenchLegs!VerifyEnd
  <2> QED
    BY <1>2, <2>1, <2>2, <2>3
<1>3. CASE Forcing
  BY <1>t, <1>3
     DEF RungInv, BenchLegs!Check, BenchLegs!Rungs, BenchLegs!NoTable,
         BenchLegs!Unreadable, BenchLegs!ForceNight, BenchLegs!ForceDay,
         BenchLegs!ForceDark, BenchLegs!ReleaseDark
<1>4. CASE Turning
  BY <1>t, <1>4
     DEF RungInv, BenchLegs!Check, BenchLegs!Rungs, BenchLegs!NoTable,
         BenchLegs!Unreadable, BenchLegs!Turn, BenchLegs!Waited, BenchLegs!Hold,
         BenchLegs!Shorten, BenchLegs!Lengthen
<1>5. CASE Cycle
  <2>1. CASE BenchLegs!Status
    BY <1>t, <2>1
       DEF RungInv, BenchLegs!Check, BenchLegs!Rungs, BenchLegs!NoTable,
           BenchLegs!Unreadable, BenchLegs!Status
  <2>2. CASE BenchLegs!BackToAuto
    BY <1>t, <2>2
       DEF RungInv, BenchLegs!Check, BenchLegs!Rungs, BenchLegs!NoTable,
           BenchLegs!Unreadable, BenchLegs!BackToAuto
  <2>3. CASE BenchLegs!Reacquired
    BY <1>t, <2>3
       DEF RungInv, BenchLegs!Check, BenchLegs!Rungs, BenchLegs!NoTable,
           BenchLegs!Unreadable, BenchLegs!Reacquired
  <2>4. CASE BenchLegs!Restore
    BY <1>t, <2>4
       DEF RungInv, BenchLegs!Check, BenchLegs!Rungs, BenchLegs!NoTable,
           BenchLegs!Unreadable, BenchLegs!Restore
  <2> QED
    BY <1>5, <2>1, <2>2, <2>3, <2>4
<1>6. CASE Cast
  BY <1>t, <1>6
     DEF RungInv, BenchLegs!Check, BenchLegs!Rungs, BenchLegs!NoTable,
         BenchLegs!Unreadable, BenchLegs!CastStart, BenchLegs!CastColor,
         BenchLegs!CastEnd
<1>7. CASE Around
  BY <1>t, <1>7
     DEF RungInv, BenchLegs!Check, BenchLegs!Rungs, BenchLegs!NoTable,
         BenchLegs!Unreadable, BenchLegs!Exit, BenchLegs!RicFollows,
         BenchLegs!Rearranged
<1>8. CASE \E i \in Invocation : BenchLegs!Invoke(i)
  BY <1>t, <1>8, Invoked
     DEF RungInv, BenchLegs!Check, BenchLegs!Rungs, BenchLegs!NoTable,
         BenchLegs!Unreadable
<1> QED
  BY <1>1, <1>2, <1>3, <1>4, <1>5, <1>6, <1>7, <1>8, BenchSteps

LEMMA CastStep == BInv /\ BenchLegs!Next => CastInv'
<1> SUFFICES ASSUME BInv, BenchLegs!Next
             PROVE  CastInv'
  OBVIOUS
<1>t. CastInv /\ unread \in BOOLEAN
      /\ benchVerdict \in [BenchLegs!Check -> {"none", "pass", "skip", "fail"}]
  BY DEF BInv, BenchType, BenchFlags
<1>1. CASE Cal
  BY <1>t, <1>1
     DEF CastInv, BenchLegs!Check, BenchLegs!NoCast, BenchLegs!CalStart,
         BenchLegs!CalLadder, BenchLegs!CalEnd
<1>2. CASE Verify
  BY <1>t, <1>2
     DEF CastInv, BenchLegs!Check, BenchLegs!NoCast, BenchLegs!VerifyStart,
         BenchLegs!VerifyRung, BenchLegs!VerifyEnd
<1>3. CASE Forcing
  BY <1>t, <1>3
     DEF CastInv, BenchLegs!Check, BenchLegs!NoCast, BenchLegs!ForceNight,
         BenchLegs!ForceDay, BenchLegs!ForceDark, BenchLegs!ReleaseDark
<1>4. CASE Turning
  BY <1>t, <1>4
     DEF CastInv, BenchLegs!Check, BenchLegs!NoCast, BenchLegs!Turn,
         BenchLegs!Waited, BenchLegs!Hold, BenchLegs!Shorten, BenchLegs!Lengthen
<1>5. CASE Cycle
  BY <1>t, <1>5
     DEF CastInv, BenchLegs!Check, BenchLegs!NoCast, BenchLegs!Status,
         BenchLegs!BackToAuto, BenchLegs!Reacquired, BenchLegs!Restore
<1>6. CASE Cast
  BY <1>t, <1>6
     DEF CastInv, BenchLegs!Check, BenchLegs!NoCast, BenchLegs!CastStart,
         BenchLegs!CastColor, BenchLegs!CastEnd
<1>7. CASE Around
  BY <1>t, <1>7
     DEF CastInv, BenchLegs!Check, BenchLegs!NoCast, BenchLegs!Exit,
         BenchLegs!RicFollows, BenchLegs!Rearranged
<1>8. CASE \E i \in Invocation : BenchLegs!Invoke(i)
  BY <1>t, <1>8, Invoked
     DEF CastInv, BenchLegs!Check, BenchLegs!NoCast
<1> QED
  BY <1>1, <1>2, <1>3, <1>4, <1>5, <1>6, <1>7, <1>8, BenchSteps

LEMMA BenchTypeStep == BInv /\ BenchLegs!Next => BenchType'
<1> SUFFICES ASSUME BInv, BenchLegs!Next
             PROVE  BenchType'
  OBVIOUS
<1>t. BenchType
  BY DEF BInv
<1> USE DEF BenchType
<1>1. pc' \in BenchPC
  BY <1>t, BenchSteps, Invoked
     DEF BenchPC, CyclePC, CastPC, BenchLegs!CalStart, BenchLegs!CalLadder,
         BenchLegs!CalEnd, BenchLegs!VerifyStart, BenchLegs!VerifyRung,
         BenchLegs!VerifyEnd, BenchLegs!Status, BenchLegs!ForceNight,
         BenchLegs!ForceDay, BenchLegs!BackToAuto, BenchLegs!Turn,
         BenchLegs!Waited, BenchLegs!Hold, BenchLegs!Shorten, BenchLegs!ForceDark,
         BenchLegs!ReleaseDark, BenchLegs!Reacquired, BenchLegs!Lengthen,
         BenchLegs!Restore, BenchLegs!CastStart, BenchLegs!CastColor,
         BenchLegs!CastEnd, BenchLegs!Exit, BenchLegs!RicFollows,
         BenchLegs!Rearranged
<1>2. stage' \in 1 .. 5
  <2>1. \/ stage' \in {stage, 1, 3, 5}
        \/ stage' = stage + 1 /\ stage # 2 /\ stage # 4 /\ stage # 5
    BY <1>t, BenchSteps, Invoked
       DEF BenchLegs!CalStart, BenchLegs!CalLadder, BenchLegs!CalEnd,
           BenchLegs!VerifyStart, BenchLegs!VerifyRung, BenchLegs!VerifyEnd,
           BenchLegs!Status, BenchLegs!ForceNight, BenchLegs!ForceDay,
           BenchLegs!BackToAuto, BenchLegs!Turn, BenchLegs!Waited, BenchLegs!Hold,
           BenchLegs!Shorten, BenchLegs!ForceDark, BenchLegs!ReleaseDark,
           BenchLegs!Reacquired, BenchLegs!Lengthen, BenchLegs!Restore,
           BenchLegs!CastStart, BenchLegs!CastColor, BenchLegs!CastEnd,
           BenchLegs!Exit, BenchLegs!RicFollows, BenchLegs!Rearranged
  <2> QED
    BY <1>t, <2>1
<1>3. mode' \in {"auto", "day", "night"} /\ benchPrev' \in {"auto", "day", "night"}
  BY <1>t, BenchSteps, Invoked
     DEF BenchLegs!CalStart, BenchLegs!CalLadder, BenchLegs!CalEnd,
         BenchLegs!VerifyStart, BenchLegs!VerifyRung, BenchLegs!VerifyEnd,
         BenchLegs!Status, BenchLegs!ForceNight, BenchLegs!ForceDay,
         BenchLegs!BackToAuto, BenchLegs!Turn, BenchLegs!Waited, BenchLegs!Hold,
         BenchLegs!Shorten, BenchLegs!ForceDark, BenchLegs!ReleaseDark,
         BenchLegs!Reacquired, BenchLegs!Lengthen, BenchLegs!Restore,
         BenchLegs!CastStart, BenchLegs!CastColor, BenchLegs!CastEnd,
         BenchLegs!Exit, BenchLegs!RicFollows, BenchLegs!Rearranged
<1>4. ricState' \in {"day", "night"}
  BY <1>t, BenchSteps, Invoked
     DEF BenchLegs!CalStart, BenchLegs!CalLadder, BenchLegs!CalEnd,
         BenchLegs!VerifyStart, BenchLegs!VerifyRung, BenchLegs!VerifyEnd,
         BenchLegs!Status, BenchLegs!ForceNight, BenchLegs!ForceDay,
         BenchLegs!BackToAuto, BenchLegs!Turn, BenchLegs!Waited, BenchLegs!Hold,
         BenchLegs!Shorten, BenchLegs!ForceDark, BenchLegs!ReleaseDark,
         BenchLegs!Reacquired, BenchLegs!Lengthen, BenchLegs!Restore,
         BenchLegs!CastStart, BenchLegs!CastColor, BenchLegs!CastEnd,
         BenchLegs!Exit, BenchLegs!RicFollows, BenchLegs!Rearranged
<1>5. table' \in 0 .. 3 /\ rig' \in 1 .. 2
  <2>1. table' \in {table, rig, 3} /\ rig' \in {rig, 3 - rig}
    BY <1>t, BenchSteps, Invoked
       DEF BenchLegs!Unreadable, BenchLegs!CalStart, BenchLegs!CalLadder,
           BenchLegs!CalEnd, BenchLegs!VerifyStart, BenchLegs!VerifyRung,
           BenchLegs!VerifyEnd, BenchLegs!Status, BenchLegs!ForceNight,
           BenchLegs!ForceDay, BenchLegs!BackToAuto, BenchLegs!Turn,
           BenchLegs!Waited, BenchLegs!Hold, BenchLegs!Shorten,
           BenchLegs!ForceDark, BenchLegs!ReleaseDark, BenchLegs!Reacquired,
           BenchLegs!Lengthen, BenchLegs!Restore, BenchLegs!CastStart,
           BenchLegs!CastColor, BenchLegs!CastEnd, BenchLegs!Exit,
           BenchLegs!RicFollows, BenchLegs!Rearranged
  <2> QED
    BY <1>t, <2>1
<1>6. benchVerdict' \in [BenchLegs!Check -> {"none", "pass", "skip", "fail"}]
  BY <1>t, BenchSteps, Invoked
     DEF BenchLegs!CalStart, BenchLegs!CalLadder, BenchLegs!CalEnd,
         BenchLegs!VerifyStart, BenchLegs!VerifyRung, BenchLegs!VerifyEnd,
         BenchLegs!Status, BenchLegs!ForceNight, BenchLegs!ForceDay,
         BenchLegs!BackToAuto, BenchLegs!Turn, BenchLegs!Waited, BenchLegs!Hold,
         BenchLegs!Shorten, BenchLegs!ForceDark, BenchLegs!ReleaseDark,
         BenchLegs!Reacquired, BenchLegs!Lengthen, BenchLegs!Restore,
         BenchLegs!CastStart, BenchLegs!CastColor, BenchLegs!CastEnd,
         BenchLegs!Exit, BenchLegs!RicFollows, BenchLegs!Rearranged
<1> QED
  BY <1>1, <1>2, <1>3, <1>4, <1>5, <1>6

LEMMA BenchStepKeeps == BInv /\ [BenchLegs!Next]_(BenchLegs!vars) => BInv'
<1>1. BInv /\ BenchLegs!Next => BInv'
  BY BenchTypeStep, FlagStep, FreeStep, LegStep, LightStep, ModeStep, RecheckStep, ForcedStep,
     NightStep, RungStep, CastStep DEF BInv
<1>2. BInv /\ UNCHANGED BenchLegs!vars => BInv'
  <2> SUFFICES ASSUME BInv, UNCHANGED BenchLegs!vars
               PROVE  BInv'
    OBVIOUS
  <2>1. UNCHANGED <<benchPrev, benchVerdict, ricState, inv, pc, stage, todo, drift, bench,
                    light, rig, wash, mode, recheck, table, cast, seen, lost, unread>>
    BY DEF BenchLegs!vars
  <2>2. BenchType' /\ BenchFlags' /\ FreeInv'
    BY <2>1, Zenon DEF BInv, BenchType, BenchFlags, FreeInv
  <2>6. LegInv'
    BY <2>1 DEF BInv, LegInv
  <2>5. LightInv'
    <3>1. BenchLegs!Relit' <=> BenchLegs!Relit
      BY <2>1 DEF BenchLegs!Relit
    <3> QED
      BY <2>1, <3>1, Zenon DEF BInv, LightInv
  <2>3. ModeInv' /\ RecheckInv' /\ ForcedInv' /\ NightInv'
    BY <2>1, Zenon DEF BInv, ModeInv, RecheckInv, ForcedInv, NightInv, StillNight
  <2>4. RungInv' /\ CastInv'
    BY <2>1, Zenon DEF BInv, RungInv, CastInv
  <2> QED
    BY <2>2, <2>3, <2>4, <2>5, <2>6 DEF BInv
<1> QED
  BY <1>1, <1>2

(* The parts of the bench legs' invariant hold together: free cameras, light, mode *)
(* and table at every step (raptor-test:541-1327).                                *)
THEOREM BenchInvariance == BenchLegs!Spec => []BInv
  BY BenchInitHolds, BenchStepKeeps, PTL DEF BenchLegs!Spec

(* How any sequence of legs leaves the bench: what a calibration, a verification  *)
(* and a cycle put back whatever was lost, and what all of them do with every     *)
(* exposure read, and every call heard (raptor-test:541, 568-619, 690, 738-746,   *)
(* 1091-1154, 1230-1309, 1319-1327).                                              *)
THEOREM BenchLeft == BenchLegs!Spec => []LeftAsFound
<1>1. BInv => LeftAsFound
  BY DEF BInv, FreeInv, LegInv, LightInv, ModeInv, RecheckInv, LeftAsFound,
         BenchLegs!LeftAsFound, BenchLegs!Relit, BenchLegs!Over
<1> QED
  BY <1>1, BenchInvariance, PTL

(* A camera left in a forced mode has failed a check, a passed verification means *)
(* the rig of the table, and a wash called unchanged is unchanged                 *)
(* (raptor-test:619-620, 726-736, 1095-1124, 1205-1224).                          *)
THEOREM BenchSound == BenchLegs!Spec => []BenchVerdicts
<1>1. BInv => BenchLegs!ModeLossReported
  BY DEF BInv, NightInv, BenchLegs!ModeLossReported, BenchLegs!Over
<1>2. BInv => BenchLegs!VerifySound
  BY DEF BInv, BenchType, RungInv, BenchLegs!VerifySound, BenchLegs!Over
<1>3. BInv => BenchLegs!CastSound
  BY DEF BInv, CastInv, BenchLegs!CastSound, BenchLegs!Over
<1> QED
  BY <1>1, <1>2, <1>3, BenchInvariance, PTL DEF BenchVerdicts

(* What TLC runs is a behaviour of one of the three parts.                        *)
THEOREM PartsMerged == SoloSpec => Spec /\ BenchLegs!Spec /\ HealthPart!Spec
<1>1. SoloInit => Init /\ BenchLegs!Init /\ HealthPart!Init
  BY DEF SoloInit
<1>2. [SoloNext]_<<part, vars, benchVars, healthVars>> => [Next]_vars
  BY DEF SoloNext
<1>3. [SoloNext]_<<part, vars, benchVars, healthVars>> => [BenchLegs!Next]_(BenchLegs!vars)
  BY DEF SoloNext, benchVars, BenchLegs!vars
<1>4. [SoloNext]_<<part, vars, benchVars, healthVars>> => [HealthPart!Next]_(HealthPart!vars)
  BY DEF SoloNext, healthVars, HealthPart!vars, HealthPart!suiteVars, HealthPart!device,
         HealthPart!log
<1> QED
  BY <1>1, <1>2, <1>3, <1>4, PTL DEF SoloSpec, Spec, BenchLegs!Spec, HealthPart!Spec
================================================================================
