---------------------------- MODULE LateLegsProofs ----------------------------
(* The late legs, for any number of tries and any servers.  The producer restart  *)
(* and the resolution flips: types, and that a device left without a producer, or *)
(* at half resolution, is a recorded failure.  The wall-clock step: the clock is  *)
(* put back, lost ntpd is reported, a stale anchor is the server's own.           *)
EXTENDS MCLateLegs, Integers, TLAPS

(* ------------------------------------------------------------------------------ *)
(* The restart of the producer and the flips (RestartLegs).                       *)

(* Behind the look for the consumer, the one producer still runs, or the other    *)
(* streams, or the check has failed, or the server had a codec to name without    *)
(* one.  The victim's session is over by then, so that nobody who is seen         *)
(* streaming is about to exit.                                                    *)
FlipPC == {"dims", "ride", "down", "halved", "up", "raised", "rider", "done"}
SomeProducer ==
  /\ pc = "ask" => old = "up"
  /\ pc = "consumer" => old # "dying"
  /\ pc \in FlipPC => \/ old = "up" \/ new = "streaming"
                    \/ verdict["consumer"] = "fail" \/ named

(* The stream is at full resolution until it is flipped down, and behind the      *)
(* probe of the flip up, or that probe has failed.                                *)
FullBefore == pc \notin {"halved", "up", "raised", "rider", "done"} => res = "full"
FullBehind == pc \in {"rider", "done"} => res = "full" \/ verdict["up"] = "fail"

(* A loop that is still polling has a try left.                                   *)
TryLeft == pc \in {"ring", "consumer", "halved", "raised"} => polls < Polls

IInv == TypeOK /\ TryLeft /\ SomeProducer /\ FullBefore /\ FullBehind

Device == OldExits \/ NewMaps \/ NewStreams \/ NewDies \/ Reconnect \/ RiderEnds

LEMMA RecordType ==
  ASSUME TypeOK, NEW c \in Check, NEW r \in {"pass", "fail"}, Record(c, r)
  PROVE  /\ verdict' \in [Check -> {"none", "pass", "fail"}]
         /\ verdict'[c] = r
         /\ \A d \in Check : d # c => verdict'[d] = verdict[d]
  BY DEF Record, TypeOK

LEMMA InitHolds == Init => IInv
<1> SUFFICES ASSUME Init
             PROVE  IInv
  OBVIOUS
<1>1. TypeOK
  <2>1. polls \in 0 .. Polls
    BY PollsAssumption DEF Init
  <2>2. /\ pc \in PC /\ verdict \in [Check -> {"none", "pass", "fail"}]
        /\ old \in {"up", "dying", "gone"} /\ res \in {"full", "half"}
        /\ new \in {"none", "starting", "mapped", "streaming", "dead"}
        /\ kind \in {"rvd", "rfs"} /\ ring \in {"old", "none", "new"}
        /\ rider \in {"none", "riding", "over"} /\ rode \subseteq {"half", "full"}
    BY DEF Init, PC
  <2>3. consumer \in BOOLEAN /\ raised \in BOOLEAN /\ named \in BOOLEAN
    BY Zenon DEF Init
  <2> QED
    BY <2>1, <2>2, <2>3 DEF TypeOK
<1>2. TryLeft /\ SomeProducer /\ FullBefore /\ FullBehind
  BY DEF Init, TryLeft, SomeProducer, FullBefore, FullBehind, FlipPC
<1> QED
  BY <1>1, <1>2 DEF IInv

LEMMA PollsStep == IInv /\ [Next]_vars => TryLeft' /\ polls' \in 0 .. Polls
<1> SUFFICES ASSUME IInv, [Next]_vars
             PROVE  TryLeft' /\ polls' \in 0 .. Polls
  OBVIOUS
<1> USE PollsAssumption DEF IInv, TypeOK, TryLeft, legVars
<1>1. CASE Device
  BY <1>1 DEF Device, OldExits, NewMaps, NewStreams, NewDies, Reconnect, RiderEnds
<1>2. CASE AskProducer \/ Restart \/ WaitVictim \/ ReadDims \/ StartRider
  BY <1>2 DEF AskProducer, Restart, WaitVictim, ReadDims, StartRider
<1>3. CASE PollRing \/ PollConsumer
  BY <1>3 DEF PollRing, PollConsumer
<1>4. CASE FlipDown \/ FlipUp \/ WaitRider
  BY <1>4 DEF FlipDown, FlipUp, WaitRider
<1>5. CASE ProbeHalved \/ ProbeRaised
  BY <1>5 DEF ProbeHalved, ProbeRaised, ResProbe
<1>6. CASE UNCHANGED vars
  BY <1>6 DEF vars
<1> QED
  BY <1>1, <1>2, <1>3, <1>4, <1>5, <1>6 DEF Next, Legs, Device

LEMMA VerdictStep ==
  IInv /\ [Next]_vars => verdict' \in [Check -> {"none", "pass", "fail"}]
<1> SUFFICES ASSUME IInv, [Next]_vars
             PROVE  verdict' \in [Check -> {"none", "pass", "fail"}]
  OBVIOUS
<1>1. \/ verdict' = verdict
      \/ \E c \in Check, r \in {"pass", "fail"} : Record(c, r)
  BY DEF Next, Legs, vars, legVars, OldExits, NewMaps, NewStreams, NewDies, Reconnect,
         RiderEnds, AskProducer, Restart, PollRing, WaitVictim, PollConsumer, ReadDims,
         StartRider, FlipDown, ProbeHalved, FlipUp, ProbeRaised, ResProbe, WaitRider, Check
<1> QED
  BY <1>1, RecordType DEF IInv, TypeOK

LEMMA TypeStep == IInv /\ [Next]_vars => TypeOK'
<1> SUFFICES ASSUME IInv, [Next]_vars
             PROVE  TypeOK'
  OBVIOUS
<1> DEFINE Others ==
      /\ pc \in PC /\ old \in {"up", "dying", "gone"} /\ res \in {"full", "half"}
      /\ new \in {"none", "starting", "mapped", "streaming", "dead"}
      /\ kind \in {"rvd", "rfs"} /\ ring \in {"old", "none", "new"}
      /\ rider \in {"none", "riding", "over"} /\ rode \subseteq {"half", "full"}
<1>a. Others
  BY DEF IInv, TypeOK
<1> USE <1>a DEF PC, legVars, deviceVars
<1>1. ASSUME Device PROVE Others'
  BY <1>1 DEF Device, OldExits, NewMaps, NewStreams, NewDies, Reconnect, RiderEnds
<1>2. ASSUME AskProducer \/ ReadDims \/ StartRider \/ WaitVictim \/ Restart PROVE Others'
  <2>1. CASE AskProducer \/ WaitVictim
    BY <2>1 DEF AskProducer, WaitVictim
  <2>2. CASE ReadDims \/ StartRider
    BY <2>2, ZenonT(30) DEF ReadDims, StartRider
  <2>3. CASE Restart
    BY <2>3 DEF Restart
  <2> QED
    BY <1>2, <2>1, <2>2, <2>3
<1>3. ASSUME PollRing \/ PollConsumer PROVE Others'
  BY <1>3 DEF PollRing, PollConsumer
<1>4. ASSUME FlipDown \/ FlipUp PROVE Others'
  <2>1. \/ \E r \in {"full", "half"} : Flip(r)
        \/ UNCHANGED <<res, rode>>
    BY <1>4 DEF FlipDown, FlipUp
  <2>2. res' \in {"full", "half"}
    BY <2>1 DEF Flip
  <2>3. rode' \subseteq {"half", "full"}
    BY <2>1 DEF Flip
  <2>4. pc' \in {"halved", "raised"} /\ UNCHANGED <<old, new, kind, ring, rider>>
    BY <1>4 DEF FlipDown, FlipUp
  <2> QED
    BY <2>2, <2>3, <2>4
<1>5. ASSUME ProbeHalved \/ ProbeRaised \/ WaitRider PROVE Others'
  BY <1>5 DEF ProbeHalved, ProbeRaised, ResProbe, WaitRider
<1>6. ASSUME UNCHANGED vars PROVE Others'
  BY <1>6 DEF vars
<1>7. Others'
  BY <1>1, <1>2, <1>3, <1>4, <1>5, <1>6 DEF Next, Legs, Device
<1>8. consumer' \in BOOLEAN
  <2>1. CASE OldExits
    BY <2>1, Zenon DEF OldExits
  <2>2. CASE Reconnect
    BY <2>2, Zenon DEF Reconnect
  <2>3. CASE consumer' = consumer
    BY <2>3 DEF IInv, TypeOK
  <2>4. \/ OldExits \/ Reconnect \/ consumer' = consumer
    BY DEF Next, Legs, vars, NewMaps, NewStreams, NewDies, RiderEnds, AskProducer, Restart,
           PollRing, WaitVictim, PollConsumer, ReadDims, StartRider, FlipDown, ProbeHalved,
           FlipUp, ProbeRaised, ResProbe, WaitRider
  <2> QED
    BY <2>1, <2>2, <2>3, <2>4
<1>9. raised' \in BOOLEAN
  <2>1. \/ FlipUp \/ raised' = raised
    BY DEF Next, Legs, vars, OldExits, Reconnect, NewMaps, NewStreams, NewDies, RiderEnds,
           AskProducer, Restart, PollRing, WaitVictim, PollConsumer, ReadDims, StartRider,
           FlipDown, ProbeHalved, ProbeRaised, ResProbe, WaitRider
  <2> QED
    BY <2>1 DEF FlipUp, IInv, TypeOK
<1>10. named' = named
  BY DEF Next, Legs, vars, deviceVars, OldExits, Reconnect, NewMaps, NewStreams, NewDies,
         RiderEnds, AskProducer, Restart, PollRing, WaitVictim, PollConsumer, ReadDims,
         StartRider, FlipDown, FlipUp, ProbeHalved, ProbeRaised, ResProbe, WaitRider
<1>11. named' \in BOOLEAN
  BY <1>10 DEF IInv, TypeOK
<1> QED
  BY <1>7, <1>8, <1>9, <1>11, PollsStep, VerdictStep DEF TypeOK

(* An exit is only ever the old producer's, which somebody terminated; the new    *)
(* one that streams goes on.                                                      *)
LEMMA ProducerStep == IInv /\ [Next]_vars => SomeProducer'
<1> SUFFICES ASSUME IInv, [Next]_vars
             PROVE  SomeProducer'
  OBVIOUS
<1> USE DEF SomeProducer, FlipPC, legVars, deviceVars
<1>1. CASE Device
  BY <1>1 DEF IInv, Device, OldExits, NewMaps, NewStreams, NewDies, Reconnect, RiderEnds
<1>2. CASE AskProducer \/ Restart \/ PollRing \/ WaitVictim
  BY <1>2 DEF IInv, AskProducer, Restart, PollRing, WaitVictim
<1>3. CASE PollConsumer
  <2>1. CASE (Serving \/ named) /\ pc' = "dims"
    BY <1>3, <2>1 DEF IInv, TypeOK, PollConsumer, Serving, Streaming
  <2>2. CASE Record("consumer", "fail")
    <3>1. verdict'["consumer"] = "fail"
      BY <2>2, RecordType DEF IInv, Check
    <3> QED
      BY <1>3, <3>1 DEF IInv, PollConsumer
  <2>3. CASE UNCHANGED <<verdict, pc>>
    BY <1>3, <2>3 DEF IInv, PollConsumer
  <2> QED
    BY <1>3, <2>1, <2>2, <2>3 DEF PollConsumer
<1>4. CASE ReadDims \/ StartRider \/ FlipDown \/ FlipUp
  BY <1>4 DEF IInv, ReadDims, StartRider, FlipDown, FlipUp
<1>5. CASE ProbeHalved \/ ProbeRaised \/ WaitRider
  <2>1. verdict'["consumer"] = verdict["consumer"]
    BY <1>5 DEF IInv, TypeOK, ProbeHalved, ProbeRaised, ResProbe, WaitRider, Record, Check
  <2> QED
    BY <1>5, <2>1 DEF IInv, ProbeHalved, ProbeRaised, ResProbe, WaitRider
<1>6. CASE UNCHANGED vars
  BY <1>6 DEF IInv, vars
<1> QED
  BY <1>1, <1>2, <1>3, <1>4, <1>5, <1>6 DEF Next, Legs, Device

(* Nobody but the two flips changes the resolution, a new producer apart, which   *)
(* begins at the full one.                                                        *)
LEMMA FullStep == IInv /\ [Next]_vars => FullBefore' /\ FullBehind'
<1> SUFFICES ASSUME IInv, [Next]_vars
             PROVE  FullBefore' /\ FullBehind'
  OBVIOUS
<1> USE DEF FullBefore, FullBehind, legVars, deviceVars
<1>1. CASE Device
  BY <1>1 DEF IInv, Device, OldExits, NewMaps, NewStreams, NewDies, Reconnect, RiderEnds
<1>2. CASE AskProducer \/ Restart \/ PollRing \/ WaitVictim \/ PollConsumer
  BY <1>2 DEF IInv, AskProducer, Restart, PollRing, WaitVictim, PollConsumer
<1>3. CASE ReadDims \/ StartRider \/ FlipDown \/ ProbeHalved \/ FlipUp
  BY <1>3 DEF IInv, ReadDims, StartRider, FlipDown, ProbeHalved, ResProbe, FlipUp
<1>4. CASE ProbeRaised
  <2>1. CASE res = "full"
    BY <1>4, <2>1 DEF ProbeRaised, ResProbe
  <2>2. CASE Record("up", "fail")
    <3>1. verdict'["up"] = "fail"
      BY <2>2, RecordType DEF IInv, Check
    <3> QED
      BY <1>4, <3>1 DEF ProbeRaised, ResProbe
  <2>3. CASE pc' = pc
    BY <1>4, <2>3 DEF ProbeRaised
  <2> QED
    BY <1>4, <2>1, <2>2, <2>3 DEF ProbeRaised, ResProbe
<1>5. CASE WaitRider
  <2>1. verdict'["up"] = verdict["up"]
    BY <1>5 DEF IInv, TypeOK, WaitRider, Record, Check
  <2> QED
    BY <1>5, <2>1 DEF IInv, WaitRider
<1>6. CASE UNCHANGED vars
  BY <1>6 DEF IInv, vars
<1> QED
  BY <1>1, <1>2, <1>3, <1>4, <1>5, <1>6 DEF Next, Legs, Device

LEMMA StepKeeps == IInv /\ [Next]_vars => IInv'
  BY TypeStep, PollsStep, ProducerStep, FullStep DEF IInv

(* The parts of the invariant of the restart and flip legs hold together.        *)
THEOREM Invariance == Spec => []IInv
  BY InitHolds, StepKeeps, PTL DEF Spec

(* The types of the variables, for any number of tries of the polling loops       *)
(* (raptor-test:890-1012).                                                        *)
THEOREM TypeCorrect == Spec => []TypeOK
  BY Invariance, PTL DEF IInv

(* A device left without a producer is a recorded failure, whatever rings outlive *)
(* it, unless the server has a codec to name without one (raptor-test:909-945).   *)
THEOREM LossCorrect == Spec => []LossReported
<1>1. IInv => LossReported
  BY DEF IInv, SomeProducer, FlipPC, LossReported, Failed, Check
<1> QED
  BY <1>1, Invariance, PTL

(* A device left at half resolution is a recorded failure, whichever call was     *)
(* lost (raptor-test:976-998).                                                    *)
THEOREM HalfCorrect == Spec => []HalfReported
<1>1. IInv => HalfReported
  BY DEF IInv, FullBehind, HalfReported
<1> QED
  BY <1>1, Invariance, PTL

--------------------------------------------------------------------------------
(* The wall-clock step: types, and what each of the three hazards needs.          *)
ClockPC == {"ask", "stop", "probe", "wait", "idle", "rearm", "back", "start", "check",
            "verdict", "done"}
Call == {"waiting", "ran", "lost"}

ClockPlaces ==
  /\ csPc \in ClockPC /\ ntpdWas \in {"", "yes", "no"}
  /\ forward \in Call /\ back \in Call
  /\ server \in Server
  /\ csVerdict \in [ClockLeg!Check -> {"none", "pass", "fail", "skip", "stale"}]
ClockNumbers == clock \in Int /\ csOld \in Nat /\ tries \in Nat
ClockFlags ==
  stopped \in BOOLEAN /\ ntpd \in BOOLEAN /\ idle \in BOOLEAN /\ session \in BOOLEAN
ClockType == ClockPlaces /\ ClockNumbers /\ ClockFlags

(* The probe has its session in its own step only.                                *)
SessionInv == session => csPc = "probe"

(* The leg does not go on before the stepper's call, and puts the clock back      *)
(* once.  With ntpd stopped nobody else sets it: it is ahead by a call that ran   *)
(* and has not been put back.                                                     *)
Stepped == {"idle", "rearm", "back", "start", "check", "verdict", "done"}
PutBack == {"start", "check", "verdict", "done"}
ClockInv ==
  /\ csPc \in {"ask", "stop"} => forward = "waiting" /\ ~stopped /\ clock = 0
  /\ csPc \in Stepped => forward # "waiting"
  /\ stopped /\ csPc \notin PutBack =>
       clock = (IF forward = "ran" THEN 1 ELSE 0) /\ ~ntpd
  /\ csPc \in PutBack /\ stopped /\ forward = "ran" /\ back = "ran" => clock = 0

(* ntpd is looked for behind its start, and nothing stops it from there.          *)
NtpdInv ==
  csPc \in {"verdict", "done"} /\ ntpdWas = "yes" /\ ~ntpd => csVerdict["ntpd"] = "fail"

(* A session of earlier legs that is not live outlives fewer tries than are       *)
(* left; a server that keeps no anchor has none without a session.                *)
AnchorInv ==
  /\ ~server["keepsAnchor"] /\ csOld = 0 /\ ~session => anchor = ClockLeg!Free
  /\ csOld <= ClockLeg!Live
  /\ csPc \in ClockPC \ (PutBack \cup {"rearm", "back"}) => tries = 0 /\ ~idle
  /\ csPc = "rearm" => tries < Tries /\ (csOld = 0 \/ csOld + tries <= Linger)

(* The last report of a fresh session is of the stepped clock, or the anchor is   *)
(* the server's own.                                                              *)
RearmInv ==
  /\ idle /\ csPc \in PutBack \cup {"back"} /\ stopped /\ forward = "ran" =>
       \/ server["keepsAnchor"] /\ ~server["srFollows"]
       \/ rearm \in {1, ClockLeg!NoSr}
  /\ csVerdict["anchor"] = "stale" => idle /\ csPc = "done" /\ rearm \notin {1, ClockLeg!NoSr}

CInv == ClockType /\ SessionInv /\ ClockInv /\ NtpdInv /\ AnchorInv /\ RearmInv

LEMMA ClockBounds == Linger \in Nat /\ Tries \in Nat /\ Linger < Tries
  BY ClockConstants, Zenon DEF ClockLeg!ConstAssumption

LEMMA ClockInitHolds == ClockLeg!Init => CInv
<1> SUFFICES ASSUME ClockLeg!Init
             PROVE  CInv
  OBVIOUS
<1>a. csOld \in {0, ClockLeg!Live} /\ server \in Server
  BY DEF ClockLeg!Init
<1>b. /\ csPc = "ask" /\ ntpdWas = "" /\ forward = "waiting" /\ back = "waiting"
      /\ clock = 0 /\ tries = 0 /\ csVerdict = [c \in ClockLeg!Check |-> "none"]
      /\ ~stopped /\ ~idle /\ ~session
      /\ anchor = IF csOld = 0 THEN ClockLeg!Free ELSE 0
  BY Zenon DEF ClockLeg!Init
<1>d. clock = 0 /\ tries = 0
  BY <1>b
<1>c. /\ stopped \in BOOLEAN /\ ntpd \in BOOLEAN /\ idle \in BOOLEAN /\ session \in BOOLEAN
  BY Zenon DEF ClockLeg!Init
<1>1. ClockType
  <2>1. csOld \in Nat
    BY <1>a, ClockBounds DEF ClockLeg!Live
  <2>2. csVerdict \in [ClockLeg!Check -> {"none", "pass", "fail", "skip", "stale"}]
    BY <1>b
  <2>3. ClockPlaces
    BY <1>a, <1>b, <2>2 DEF ClockPlaces, ClockPC, Call
  <2>4. ClockNumbers
    BY <1>d, <2>1 DEF ClockNumbers
  <2>5. ClockFlags
    BY <1>c DEF ClockFlags
  <2> QED
    BY <2>3, <2>4, <2>5 DEF ClockType
<1>6. SessionInv
  BY <1>b DEF SessionInv
<1>2. ClockInv
  BY <1>b DEF ClockInv, Stepped, PutBack
<1>3. NtpdInv
  BY <1>b DEF NtpdInv
<1>4. AnchorInv
  <2>1. csOld <= ClockLeg!Live
    BY <1>a, ClockBounds DEF ClockLeg!Live
  <2> QED
    BY <1>b, <2>1 DEF AnchorInv
<1>5. RearmInv
  BY <1>b DEF RearmInv, PutBack, ClockLeg!Check
<1> QED
  BY <1>1, <1>2, <1>3, <1>4, <1>5, <1>6 DEF CInv

(* The parties of the leg, and what each leaves alone.                            *)
LEMMA ClockSteps ==
  ASSUME ClockLeg!Next
  PROVE  \/ ClockLeg!AskNtpd \/ ClockLeg!StopNtpd \/ ClockLeg!ProbeOpen
         \/ ClockLeg!ProbeEnd \/ ClockLeg!ProbeFails \/ ClockLeg!WaitStepper
         \/ ClockLeg!PollIdle \/ ClockLeg!Rearm \/ ClockLeg!StepBack
         \/ ClockLeg!StartNtpd \/ ClockLeg!CheckNtpd \/ ClockLeg!Verdict
         \/ ClockLeg!StepForward \/ ClockLeg!NtpSync \/ ClockLeg!OldLeave
         \/ ClockLeg!OldReaped
  BY DEF ClockLeg!Next, ClockLeg!Leg

LEMMA ClockTypeStep == CInv /\ ClockLeg!Next => ClockType' /\ SessionInv'
<1> SUFFICES ASSUME CInv, ClockLeg!Next
             PROVE  ClockType' /\ SessionInv'
  OBVIOUS
<1>t. ClockPlaces /\ ClockNumbers /\ ClockFlags
  BY DEF CInv, ClockType
<1>1. /\ csPc' \in ClockPC /\ ntpdWas' \in {"", "yes", "no"}
      /\ forward' \in Call /\ back' \in Call /\ server' \in Server
  BY <1>t, ClockSteps
     DEF ClockPlaces, ClockPC, Call, ClockLeg!AskNtpd, ClockLeg!StopNtpd, ClockLeg!ProbeOpen,
         ClockLeg!ProbeEnd, ClockLeg!ProbeFails, ClockLeg!WaitStepper, ClockLeg!PollIdle,
         ClockLeg!Rearm, ClockLeg!StepBack, ClockLeg!StartNtpd, ClockLeg!CheckNtpd,
         ClockLeg!Verdict, ClockLeg!StepForward, ClockLeg!NtpSync, ClockLeg!OldLeave,
         ClockLeg!OldReaped, ClockLeg!legVars, ClockLeg!deviceVars
<1>2. csVerdict' \in [ClockLeg!Check -> {"none", "pass", "fail", "skip", "stale"}]
  <2>1. CASE ClockLeg!Verdict
    BY <1>t, <2>1 DEF ClockPlaces, ClockLeg!Verdict
  <2>2. CASE ClockLeg!CheckNtpd
    BY <1>t, <2>2 DEF ClockPlaces, ClockLeg!CheckNtpd
  <2>3. CASE csVerdict' = csVerdict
    BY <1>t, <2>3 DEF ClockPlaces
  <2>4. ClockLeg!Verdict \/ ClockLeg!CheckNtpd \/ csVerdict' = csVerdict
    BY ClockSteps
       DEF ClockLeg!AskNtpd, ClockLeg!StopNtpd, ClockLeg!ProbeOpen,
         ClockLeg!ProbeEnd, ClockLeg!ProbeFails, ClockLeg!WaitStepper, ClockLeg!PollIdle,
         ClockLeg!Rearm, ClockLeg!StepBack, ClockLeg!StartNtpd, ClockLeg!CheckNtpd,
         ClockLeg!Verdict, ClockLeg!StepForward, ClockLeg!NtpSync, ClockLeg!OldLeave,
         ClockLeg!OldReaped, ClockLeg!legVars, ClockLeg!deviceVars
  <2> QED
    BY <2>1, <2>2, <2>3, <2>4
<1>3. clock' \in Int
  <2>1. \/ clock' \in {clock, 0}
        \/ ClockLeg!SetClock(clock + 1) \/ ClockLeg!SetClock(clock - 1)
    BY ClockSteps
       DEF ClockLeg!AskNtpd, ClockLeg!StopNtpd, ClockLeg!ProbeOpen,
           ClockLeg!ProbeEnd, ClockLeg!ProbeFails, ClockLeg!WaitStepper, ClockLeg!PollIdle,
           ClockLeg!Rearm, ClockLeg!StepBack, ClockLeg!StartNtpd, ClockLeg!CheckNtpd,
           ClockLeg!Verdict, ClockLeg!StepForward, ClockLeg!NtpSync, ClockLeg!OldLeave,
           ClockLeg!OldReaped, ClockLeg!legVars, ClockLeg!deviceVars,
           ClockLeg!SetClock
  <2>2. clock' \in {clock, 0, clock + 1, clock - 1}
    BY <2>1 DEF ClockLeg!SetClock
  <2> QED
    BY <1>t, <2>2 DEF ClockNumbers
<1>4. tries' \in Nat
  <2>1. tries' \in {tries, tries + 1}
    BY ClockSteps
       DEF ClockLeg!AskNtpd, ClockLeg!StopNtpd, ClockLeg!ProbeOpen,
           ClockLeg!ProbeEnd, ClockLeg!ProbeFails, ClockLeg!WaitStepper, ClockLeg!PollIdle,
           ClockLeg!Rearm, ClockLeg!StepBack, ClockLeg!StartNtpd, ClockLeg!CheckNtpd,
           ClockLeg!Verdict, ClockLeg!StepForward, ClockLeg!NtpSync, ClockLeg!OldLeave,
           ClockLeg!OldReaped, ClockLeg!legVars, ClockLeg!deviceVars
  <2> QED
    BY <1>t, <2>1 DEF ClockNumbers
<1>5. csOld' \in Nat
  <2>1. CASE ClockLeg!Rearm
    BY <1>t, <2>1, ClockBounds DEF ClockNumbers, ClockLeg!Rearm
  <2>2. CASE ClockLeg!OldLeave \/ ClockLeg!OldReaped
    BY <2>2, ClockBounds DEF ClockLeg!OldLeave, ClockLeg!OldReaped
  <2>3. CASE csOld' = csOld
    BY <1>t, <2>3 DEF ClockNumbers
  <2>4. \/ ClockLeg!Rearm \/ ClockLeg!OldLeave \/ ClockLeg!OldReaped \/ csOld' = csOld
    BY ClockSteps
       DEF ClockLeg!AskNtpd, ClockLeg!StopNtpd, ClockLeg!ProbeOpen,
         ClockLeg!ProbeEnd, ClockLeg!ProbeFails, ClockLeg!WaitStepper, ClockLeg!PollIdle,
         ClockLeg!Rearm, ClockLeg!StepBack, ClockLeg!StartNtpd, ClockLeg!CheckNtpd,
         ClockLeg!Verdict, ClockLeg!StepForward, ClockLeg!NtpSync, ClockLeg!OldLeave,
         ClockLeg!OldReaped, ClockLeg!legVars, ClockLeg!deviceVars
  <2> QED
    BY <2>1, <2>2, <2>3, <2>4
<1>6. ClockFlags'
  BY <1>t, ClockSteps, Zenon
     DEF ClockFlags, ClockLeg!AskNtpd, ClockLeg!StopNtpd, ClockLeg!ProbeOpen,
         ClockLeg!ProbeEnd, ClockLeg!ProbeFails, ClockLeg!WaitStepper, ClockLeg!PollIdle,
         ClockLeg!Rearm, ClockLeg!StepBack, ClockLeg!StartNtpd, ClockLeg!CheckNtpd,
         ClockLeg!Verdict, ClockLeg!StepForward, ClockLeg!NtpSync, ClockLeg!OldLeave,
         ClockLeg!OldReaped, ClockLeg!legVars, ClockLeg!deviceVars
<1>7. SessionInv'
  <2>1. session => csPc = "probe"
    BY DEF CInv, SessionInv
  <2> QED
    BY <2>1, ClockSteps
       DEF SessionInv, ClockLeg!AskNtpd, ClockLeg!StopNtpd, ClockLeg!ProbeOpen,
         ClockLeg!ProbeEnd, ClockLeg!ProbeFails, ClockLeg!WaitStepper, ClockLeg!PollIdle,
         ClockLeg!Rearm, ClockLeg!StepBack, ClockLeg!StartNtpd, ClockLeg!CheckNtpd,
         ClockLeg!Verdict, ClockLeg!StepForward, ClockLeg!NtpSync, ClockLeg!OldLeave,
         ClockLeg!OldReaped, ClockLeg!legVars, ClockLeg!deviceVars
<1> QED
  BY <1>1, <1>2, <1>3, <1>4, <1>5, <1>6, <1>7 DEF ClockType, ClockPlaces, ClockNumbers

(* The clock is set by the stepper, by the step back, and by an ntpd that runs.   *)
LEMMA ClockInvStep == CInv /\ ClockLeg!Next => ClockInv'
<1> SUFFICES ASSUME CInv, ClockLeg!Next
             PROVE  ClockInv'
  OBVIOUS
<1>t. clock \in Int /\ csPc \in ClockPC /\ forward \in Call
  BY DEF CInv, ClockType, ClockPlaces, ClockNumbers
<1>i. ClockInv
  BY DEF CInv
<1> USE DEF ClockInv, Stepped, PutBack, ClockPC
<1>1. CASE ClockLeg!StepForward
  BY <1>t, <1>i, <1>1 DEF Call, ClockLeg!StepForward, ClockLeg!SetClock
<1>2. CASE ClockLeg!StepBack
  BY <1>t, <1>i, <1>2 DEF Call, ClockLeg!StepBack, ClockLeg!SetClock
<1>3. CASE ClockLeg!NtpSync
  BY <1>t, <1>i, <1>3 DEF ClockLeg!NtpSync, ClockLeg!SetClock, ClockLeg!legVars
<1>4. CASE ClockLeg!StopNtpd
  BY <1>t, <1>i, <1>4 DEF ClockLeg!StopNtpd
<1>5. CASE ClockLeg!AskNtpd \/ ClockLeg!StartNtpd \/ ClockLeg!CheckNtpd \/ ClockLeg!Verdict
  <2>1. CASE ClockLeg!AskNtpd
    BY <1>t, <1>i, <2>1, Zenon DEF ClockLeg!AskNtpd, ClockLeg!deviceVars
  <2>2. CASE ClockLeg!StartNtpd
    BY <1>t, <1>i, <2>2, Zenon DEF ClockLeg!StartNtpd, ClockLeg!deviceVars
  <2>3. CASE ClockLeg!CheckNtpd
    BY <1>t, <1>i, <2>3, Zenon DEF ClockLeg!CheckNtpd, ClockLeg!deviceVars
  <2>4. CASE ClockLeg!Verdict
    BY <1>t, <1>i, <2>4, Zenon DEF ClockLeg!Verdict, ClockLeg!deviceVars
  <2> QED
    BY <1>5, <2>1, <2>2, <2>3, <2>4
<1>6. CASE ClockLeg!ProbeOpen \/ ClockLeg!ProbeEnd \/ ClockLeg!ProbeFails \/ ClockLeg!WaitStepper
  <2>1. CASE ClockLeg!ProbeOpen
    BY <1>t, <1>i, <2>1, Zenon DEF ClockLeg!ProbeOpen, ClockLeg!deviceVars, ClockLeg!legVars
  <2>2. CASE ClockLeg!ProbeEnd
    BY <1>t, <1>i, <2>2, Zenon DEF ClockLeg!ProbeEnd, ClockLeg!deviceVars, ClockLeg!legVars
  <2>3. CASE ClockLeg!ProbeFails
    BY <1>t, <1>i, <2>3, Zenon DEF ClockLeg!ProbeFails, ClockLeg!deviceVars, ClockLeg!legVars
  <2>4. CASE ClockLeg!WaitStepper
    BY <1>t, <1>i, <2>4, Zenon DEF ClockLeg!WaitStepper, ClockLeg!deviceVars, ClockLeg!legVars
  <2> QED
    BY <1>6, <2>1, <2>2, <2>3, <2>4
<1>7. CASE ClockLeg!PollIdle \/ ClockLeg!Rearm \/ ClockLeg!OldLeave \/ ClockLeg!OldReaped
  BY <1>t, <1>i, <1>7 DEF ClockLeg!PollIdle, ClockLeg!Rearm, ClockLeg!OldLeave,
     ClockLeg!OldReaped, ClockLeg!deviceVars, ClockLeg!legVars
<1> QED
  BY <1>1, <1>2, <1>3, <1>4, <1>5, <1>6, <1>7, ClockSteps

LEMMA NtpdInvStep == CInv /\ ClockLeg!Next => NtpdInv'
<1> SUFFICES ASSUME CInv, ClockLeg!Next
             PROVE  NtpdInv'
  OBVIOUS
<1>i. NtpdInv
  BY DEF CInv
<1>v. csVerdict \in [ClockLeg!Check -> {"none", "pass", "fail", "skip", "stale"}]
  BY DEF CInv, ClockType, ClockPlaces
<1> USE DEF NtpdInv
<1>1. CASE ClockLeg!CheckNtpd
  <2>1. PICK r \in {"fail", IF ntpd THEN "pass" ELSE "fail"} :
          csVerdict' = [csVerdict EXCEPT !["ntpd"] = r]
    BY <1>1 DEF ClockLeg!CheckNtpd
  <2>2. ntpd' = ntpd /\ csVerdict'["ntpd"] = r
    BY <1>1, <1>v, <2>1 DEF ClockLeg!CheckNtpd, ClockLeg!deviceVars, ClockLeg!Check
  <2> QED
    BY <2>1, <2>2
<1>2. CASE ClockLeg!Verdict
  <2>1. csVerdict'["ntpd"] = csVerdict["ntpd"]
    BY <1>2, <1>v DEF ClockLeg!Verdict, ClockLeg!Check
  <2> QED
    BY <1>i, <1>2, <2>1, Zenon DEF ClockLeg!Verdict, ClockLeg!deviceVars
<1>3. CASE ClockLeg!StepBack
  BY <1>i, <1>3, Zenon DEF ClockLeg!StepBack
<1>4. CASE \/ csPc' \notin {"verdict", "done"}
           \/ UNCHANGED <<csPc, ntpdWas, ntpd, csVerdict>>
  BY <1>i, <1>4, Zenon
<1>5. \/ ClockLeg!CheckNtpd \/ ClockLeg!Verdict \/ ClockLeg!StepBack
      \/ csPc' \notin {"verdict", "done"}
      \/ UNCHANGED <<csPc, ntpdWas, ntpd, csVerdict>>
  BY ClockSteps
    DEF ClockLeg!AskNtpd, ClockLeg!StopNtpd, ClockLeg!ProbeOpen, ClockLeg!ProbeEnd,
         ClockLeg!ProbeFails, ClockLeg!WaitStepper, ClockLeg!PollIdle,
         ClockLeg!Rearm, ClockLeg!StepBack, ClockLeg!StartNtpd, ClockLeg!CheckNtpd,
         ClockLeg!Verdict, ClockLeg!StepForward, ClockLeg!NtpSync,
         ClockLeg!OldLeave, ClockLeg!OldReaped, ClockLeg!legVars,
         ClockLeg!deviceVars
<1> QED
  BY <1>1, <1>2, <1>3, <1>4, <1>5

(* A session of earlier legs loses one try of its life to each try made, and an   *)
(* anchor its server does not keep goes with the last session.                    *)
LEMMA AnchorInvStep == CInv /\ ClockLeg!Next => AnchorInv'
<1> SUFFICES ASSUME CInv, ClockLeg!Next
             PROVE  AnchorInv'
  OBVIOUS
<1>t. /\ csOld \in Nat /\ tries \in Nat /\ csPc \in ClockPC
      /\ csOld' \in Nat /\ tries' \in Nat
      /\ session \in BOOLEAN /\ idle \in BOOLEAN
  BY ClockTypeStep DEF CInv, ClockType, ClockPlaces, ClockNumbers, ClockFlags
<1>i. AnchorInv /\ SessionInv
  BY DEF CInv
<1>s. server' = server
  BY ClockSteps
       DEF ClockLeg!AskNtpd, ClockLeg!StopNtpd, ClockLeg!ProbeOpen,
           ClockLeg!ProbeEnd, ClockLeg!ProbeFails, ClockLeg!WaitStepper,
           ClockLeg!PollIdle, ClockLeg!Rearm, ClockLeg!StepBack,
           ClockLeg!StartNtpd, ClockLeg!CheckNtpd, ClockLeg!Verdict,
           ClockLeg!StepForward, ClockLeg!NtpSync, ClockLeg!OldLeave,
           ClockLeg!OldReaped, ClockLeg!legVars, ClockLeg!deviceVars
<1>1. ~server'["keepsAnchor"] /\ csOld' = 0 /\ ~session' => anchor' = ClockLeg!Free
  <2> SUFFICES ASSUME ~server["keepsAnchor"], csOld' = 0, ~session'
               PROVE  anchor' = ClockLeg!Free
    BY <1>s
  <2>1. csOld = 0 /\ ~session => anchor = ClockLeg!Free
    BY <1>i DEF AnchorInv
  <2>2. CASE ClockLeg!ProbeEnd \/ ClockLeg!ProbeFails
    BY <2>2, Zenon DEF ClockLeg!ProbeEnd, ClockLeg!ProbeFails
  <2>3. CASE ClockLeg!Rearm
    BY <2>3, Zenon DEF ClockLeg!Rearm
  <2>4. CASE ClockLeg!OldLeave \/ ClockLeg!OldReaped
    <3>1. anchor' = ClockLeg!Released(0) /\ session' = session
      BY <2>4 DEF ClockLeg!OldLeave, ClockLeg!OldReaped
    <3> QED
      BY <3>1, Zenon DEF ClockLeg!Released
  <2>5. CASE ClockLeg!ProbeOpen
    BY <2>5, Zenon DEF ClockLeg!ProbeOpen
  <2>6. CASE UNCHANGED <<csOld, session, anchor>>
    BY <2>1, <2>6, Zenon
  <2>7. \/ ClockLeg!ProbeEnd \/ ClockLeg!ProbeFails \/ ClockLeg!Rearm \/ ClockLeg!OldLeave
        \/ ClockLeg!OldReaped \/ ClockLeg!ProbeOpen
        \/ UNCHANGED <<csOld, session, anchor>>
    BY ClockSteps
       DEF ClockLeg!AskNtpd, ClockLeg!StopNtpd, ClockLeg!ProbeOpen,
           ClockLeg!ProbeEnd, ClockLeg!ProbeFails, ClockLeg!WaitStepper,
           ClockLeg!PollIdle, ClockLeg!Rearm, ClockLeg!StepBack,
           ClockLeg!StartNtpd, ClockLeg!CheckNtpd, ClockLeg!Verdict,
           ClockLeg!StepForward, ClockLeg!NtpSync, ClockLeg!OldLeave,
           ClockLeg!OldReaped, ClockLeg!legVars, ClockLeg!deviceVars
  <2> QED
    BY <2>2, <2>3, <2>4, <2>5, <2>6, <2>7
<1>2. csOld' <= ClockLeg!Live
  <2>1. csOld <= ClockLeg!Live
    BY <1>i DEF AnchorInv
  <2>2. CASE ClockLeg!Rearm
    BY <1>t, <2>1, <2>2, ClockBounds DEF ClockLeg!Rearm, ClockLeg!Live
  <2>3. CASE ClockLeg!OldLeave \/ ClockLeg!OldReaped
    BY <2>3, ClockBounds DEF ClockLeg!OldLeave, ClockLeg!OldReaped, ClockLeg!Live
  <2>4. \/ ClockLeg!Rearm \/ ClockLeg!OldLeave \/ ClockLeg!OldReaped \/ csOld' = csOld
    BY ClockSteps
       DEF ClockLeg!AskNtpd, ClockLeg!StopNtpd, ClockLeg!ProbeOpen,
           ClockLeg!ProbeEnd, ClockLeg!ProbeFails, ClockLeg!WaitStepper,
           ClockLeg!PollIdle, ClockLeg!Rearm, ClockLeg!StepBack,
           ClockLeg!StartNtpd, ClockLeg!CheckNtpd, ClockLeg!Verdict,
           ClockLeg!StepForward, ClockLeg!NtpSync, ClockLeg!OldLeave,
           ClockLeg!OldReaped, ClockLeg!legVars, ClockLeg!deviceVars
  <2> QED
    BY <2>1, <2>2, <2>3, <2>4 DEF ClockLeg!Live
<1>3. csPc' \in ClockPC \ (PutBack \cup {"rearm", "back"}) => tries' = 0 /\ ~idle'
  <2> SUFFICES ASSUME csPc' \in ClockPC \ (PutBack \cup {"rearm", "back"})
               PROVE  tries' = 0 /\ ~idle'
    OBVIOUS
  <2>1. csPc \in ClockPC \ (PutBack \cup {"rearm", "back"}) => tries = 0 /\ ~idle
    BY <1>i DEF AnchorInv
  <2>2. CASE ClockLeg!PollIdle
    BY <2>1, <2>2, Zenon DEF ClockLeg!PollIdle, ClockPC, PutBack
  <2>3. CASE /\ UNCHANGED <<tries, idle>>
             /\ csPc \in ClockPC \ (PutBack \cup {"rearm", "back"})
    BY <2>1, <2>3, Zenon
  <2>4. \/ ClockLeg!PollIdle
        \/ /\ UNCHANGED <<tries, idle>>
           /\ csPc \in ClockPC \ (PutBack \cup {"rearm", "back"})
    BY ClockSteps
       DEF ClockLeg!AskNtpd, ClockLeg!StopNtpd, ClockLeg!ProbeOpen,
           ClockLeg!ProbeEnd, ClockLeg!ProbeFails, ClockLeg!WaitStepper,
           ClockLeg!PollIdle, ClockLeg!Rearm, ClockLeg!StepBack,
           ClockLeg!StartNtpd, ClockLeg!CheckNtpd, ClockLeg!Verdict,
           ClockLeg!StepForward, ClockLeg!NtpSync, ClockLeg!OldLeave,
           ClockLeg!OldReaped, ClockLeg!legVars, ClockLeg!deviceVars,
           ClockPC, PutBack
  <2> QED
    BY <2>2, <2>3, <2>4
<1>4. csPc' = "rearm" => tries' < Tries /\ (csOld' = 0 \/ csOld' + tries' <= Linger)
  <2> SUFFICES ASSUME csPc' = "rearm"
               PROVE  tries' < Tries /\ (csOld' = 0 \/ csOld' + tries' <= Linger)
    OBVIOUS
  <2>1. csPc = "rearm" => tries < Tries /\ (csOld = 0 \/ csOld + tries <= Linger)
    BY <1>i DEF AnchorInv
  <2>2. CASE ClockLeg!PollIdle
    <3>1. tries = 0 /\ csOld <= ClockLeg!Live
      BY <1>i, <2>2 DEF AnchorInv, ClockPC, PutBack, ClockLeg!PollIdle
    <3>2. csOld # ClockLeg!Live /\ tries' = tries /\ csOld' = csOld
      BY <2>2 DEF ClockLeg!PollIdle, ClockLeg!deviceVars
    <3> QED
      BY <1>t, <3>1, <3>2, ClockBounds DEF ClockLeg!Live
  <2>3. CASE ClockLeg!Rearm
    <3>1. /\ csPc = "rearm" /\ tries' = tries + 1 /\ tries' # Tries
          /\ csOld' = IF csOld \in 1 .. Linger THEN csOld - 1 ELSE csOld
      BY <2>3 DEF ClockLeg!Rearm
    <3>2. tries' < Tries
      BY <1>t, <2>1, <3>1, ClockBounds
    <3>3. csOld' = 0 \/ csOld' + tries' <= Linger
      BY <1>t, <2>1, <3>1, ClockBounds
    <3> QED
      BY <3>2, <3>3
  <2>4. CASE ClockLeg!OldLeave
    <3>1. csPc = "rearm" /\ csOld = ClockLeg!Live
      BY <2>4 DEF ClockLeg!OldLeave, ClockLeg!legVars
    <3> QED
      BY <1>t, <2>1, <3>1, ClockBounds DEF ClockLeg!Live
  <2>5. CASE ClockLeg!OldReaped
    BY <2>1, <2>5 DEF ClockLeg!OldReaped, ClockLeg!legVars
  <2>6. CASE UNCHANGED <<csPc, tries, csOld>>
    BY <2>1, <2>6
  <2>7. \/ ClockLeg!PollIdle \/ ClockLeg!Rearm \/ ClockLeg!OldLeave \/ ClockLeg!OldReaped
        \/ UNCHANGED <<csPc, tries, csOld>>
    BY ClockSteps
       DEF ClockLeg!AskNtpd, ClockLeg!StopNtpd, ClockLeg!ProbeOpen,
           ClockLeg!ProbeEnd, ClockLeg!ProbeFails, ClockLeg!WaitStepper,
           ClockLeg!PollIdle, ClockLeg!Rearm, ClockLeg!StepBack,
           ClockLeg!StartNtpd, ClockLeg!CheckNtpd, ClockLeg!Verdict,
           ClockLeg!StepForward, ClockLeg!NtpSync, ClockLeg!OldLeave,
           ClockLeg!OldReaped, ClockLeg!legVars, ClockLeg!deviceVars
  <2> QED
    BY <2>2, <2>3, <2>4, <2>5, <2>6, <2>7
<1> QED
  BY <1>1, <1>2, <1>3, <1>4 DEF AnchorInv

(* The last of the tries meets no session of earlier legs, so that what it        *)
(* reports is the stepped clock of a server that keeps no anchor.                 *)
LEMMA RearmInvStep == CInv /\ ClockLeg!Next => RearmInv'
<1> SUFFICES ASSUME CInv, ClockLeg!Next
             PROVE  RearmInv'
  OBVIOUS
<1>i. RearmInv /\ AnchorInv /\ ClockInv /\ SessionInv
  BY DEF CInv
<1>t. /\ csOld \in Nat /\ tries \in Nat /\ csPc \in ClockPC
      /\ csVerdict \in [ClockLeg!Check -> {"none", "pass", "fail", "skip", "stale"}]
  BY DEF CInv, ClockType, ClockPlaces, ClockNumbers
<1>1. CASE ClockLeg!Rearm
  <2>1. csVerdict["anchor"] # "stale"
    BY <1>i, <1>1 DEF RearmInv, ClockLeg!Rearm
  <2>2. CASE csPc' = "back" /\ stopped /\ forward = "ran" /\ rearm' # 1
    <3>1. tries' = Tries /\ csOld' = csOld /\ tries' = tries + 1
      BY <1>1, <2>2 DEF ClockLeg!Rearm
    <3>2. csOld = 0
      BY <1>i, <1>1, <1>t, <3>1, ClockBounds DEF AnchorInv, ClockLeg!Rearm
    <3>3. clock = 1
      BY <1>i, <1>1, <2>2 DEF ClockInv, ClockLeg!Rearm, PutBack
    <3>4. ~server["keepsAnchor"] => ClockLeg!Anchored = 1
      BY <1>i, <1>1, <3>2, <3>3 DEF AnchorInv, SessionInv, ClockLeg!Anchored, ClockLeg!Rearm
    <3>5. rearm' \in {ClockLeg!NoSr, IF server["srFollows"] THEN clock ELSE ClockLeg!Anchored}
      BY <1>1 DEF ClockLeg!Rearm
    <3>6. \/ server["keepsAnchor"] /\ ~server["srFollows"]
          \/ rearm' \in {1, ClockLeg!NoSr}
      BY <3>3, <3>4, <3>5
    <3> QED
      BY <1>1, <2>1, <3>6, Zenon DEF RearmInv, ClockLeg!Rearm
  <2>3. CASE csPc' = "back" /\ rearm' = 1
    BY <1>1, <2>1, <2>3, Zenon DEF RearmInv, ClockLeg!Rearm
  <2>4. CASE ~(csPc' = "back" /\ stopped /\ forward = "ran")
    BY <1>1, <2>1, <2>4, Zenon DEF RearmInv, ClockLeg!Rearm, PutBack
  <2> QED
    BY <2>2, <2>3, <2>4
<1>2. CASE ClockLeg!Verdict
  <2>1. \/ csVerdict'["anchor"] = csVerdict["anchor"]
        \/ csVerdict'["anchor"] # "stale"
        \/ idle /\ rearm \notin {1, ClockLeg!NoSr}
    BY <1>t, <1>2 DEF ClockLeg!Verdict, ClockLeg!Check
  <2>2. csVerdict["anchor"] # "stale"
    BY <1>i, <1>2 DEF RearmInv, ClockLeg!Verdict
  <2> QED
    BY <1>i, <1>2, <2>1, <2>2, Zenon DEF RearmInv, ClockLeg!Verdict, ClockLeg!deviceVars, PutBack
<1>3. CASE ClockLeg!CheckNtpd
  <2>1. csVerdict'["anchor"] = csVerdict["anchor"]
    BY <1>t, <1>3 DEF ClockLeg!CheckNtpd, ClockLeg!Check
  <2> QED
    BY <1>i, <1>3, <2>1, Zenon DEF RearmInv, ClockLeg!CheckNtpd, ClockLeg!deviceVars, PutBack
<1>4. CASE ClockLeg!PollIdle
  BY <1>i, <1>4, Zenon DEF RearmInv, ClockLeg!PollIdle, ClockLeg!deviceVars, PutBack
<1>5. CASE ClockLeg!StepForward
  <2>1. csPc \notin PutBack \cup {"back"} /\ csVerdict' = csVerdict /\ csPc' = csPc
    BY <1>i, <1>5 DEF ClockInv, Stepped, PutBack, ClockLeg!StepForward
  <2> QED
    BY <1>i, <2>1, Zenon DEF RearmInv, PutBack
<1>6. CASE /\ UNCHANGED <<csVerdict, idle, rearm>>
           /\ csPc # "done" /\ csPc' \notin PutBack \cup {"back"}
  BY <1>i, <1>6, Zenon DEF RearmInv
<1>7. CASE /\ UNCHANGED <<csVerdict, idle, rearm, server, stopped, forward>>
           /\ \/ csPc' = csPc
              \/ csPc # "done" /\ csPc \in PutBack \cup {"back"}
  BY <1>i, <1>7, Zenon DEF RearmInv
<1>8. \/ ClockLeg!Rearm \/ ClockLeg!Verdict \/ ClockLeg!CheckNtpd \/ ClockLeg!PollIdle
      \/ ClockLeg!StepForward
      \/ /\ UNCHANGED <<csVerdict, idle, rearm>>
         /\ csPc # "done" /\ csPc' \notin PutBack \cup {"back"}
      \/ /\ UNCHANGED <<csVerdict, idle, rearm, server, stopped, forward>>
         /\ \/ csPc' = csPc
            \/ csPc # "done" /\ csPc \in PutBack \cup {"back"}
  BY ClockSteps
     DEF ClockLeg!AskNtpd, ClockLeg!StopNtpd, ClockLeg!ProbeOpen,
         ClockLeg!ProbeEnd, ClockLeg!ProbeFails, ClockLeg!WaitStepper,
         ClockLeg!PollIdle, ClockLeg!Rearm, ClockLeg!StepBack, ClockLeg!StartNtpd,
         ClockLeg!CheckNtpd, ClockLeg!Verdict, ClockLeg!StepForward,
         ClockLeg!NtpSync, ClockLeg!OldLeave, ClockLeg!OldReaped, ClockLeg!legVars,
         ClockLeg!deviceVars, PutBack
<1> QED
  BY <1>1, <1>2, <1>3, <1>4, <1>5, <1>6, <1>7, <1>8

LEMMA ClockStepKeeps == CInv /\ [ClockLeg!Next]_(ClockLeg!vars) => CInv'
<1>1. CInv /\ ClockLeg!Next => CInv'
  BY ClockTypeStep, ClockInvStep, NtpdInvStep, AnchorInvStep, RearmInvStep DEF CInv
<1>2. CInv /\ UNCHANGED ClockLeg!vars => CInv'
  <2> SUFFICES ASSUME CInv, UNCHANGED ClockLeg!vars
               PROVE  CInv'
    OBVIOUS
  <2>1. UNCHANGED <<csPc, csVerdict, csOld, ntpdWas, stopped, forward, back, idle, tries,
                    rearm, clock, ntpd, server, session, anchor>>
    BY DEF ClockLeg!vars, ClockLeg!legVars, ClockLeg!deviceVars
  <2>2. ClockType' /\ SessionInv'
    BY <2>1, Zenon
       DEF CInv, ClockType, ClockPlaces, ClockNumbers, ClockFlags, SessionInv
  <2>3. ClockInv' /\ NtpdInv'
    BY <2>1, Zenon DEF CInv, ClockInv, NtpdInv
  <2>4. AnchorInv'
    BY <2>1, Zenon DEF CInv, AnchorInv
  <2>5. RearmInv'
    BY <2>1, Zenon DEF CInv, RearmInv
  <2> QED
    BY <2>2, <2>3, <2>4, <2>5 DEF CInv
<1> QED
  BY <1>1, <1>2

(* Those of the clock step: what the clock, ntpd, the anchor and the re-arm are   *)
(* wherever the leg and its background stepper stand (raptor-test:751-884).       *)
THEOREM ClockInvariance == ClockLeg!Spec => []CInv
  BY ClockInitHolds, ClockStepKeeps, PTL DEF ClockLeg!Spec

(* The leg leaves the device on true time if its calls were carried out, and no   *)
(* step of it is still to come (raptor-test:765-776, 824-825).                    *)
THEOREM ClockRestoredCorrect == ClockLeg!Spec => []ClockRestored
<1>1. CInv => ClockRestored
  BY DEF CInv, ClockInv, Stepped, PutBack, ClockRestored, ClockLeg!ClockRestored
<1> QED
  BY <1>1, ClockInvariance, PTL

(* ntpd seen running and lost is a recorded failure, and a server is blamed for a *)
(* stale anchor only if it keeps one (raptor-test:777-838, 875-884).              *)
THEOREM ClockVerdictsCorrect == ClockLeg!Spec => []ClockVerdicts
<1>1. CInv => ClockLeg!NtpdLossReported
  BY DEF CInv, NtpdInv, ClockLeg!NtpdLossReported
<1>2. CInv => ClockLeg!StaleBlameSound
  BY DEF CInv, RearmInv, PutBack, ClockLeg!StaleBlameSound
<1> QED
  BY <1>1, <1>2, ClockInvariance, PTL DEF ClockVerdicts

(* What TLC runs is a behaviour of either leg, with the other one standing still. *)
THEOREM LegsMerged == LateSpec => Spec /\ ClockLeg!Spec
<1>1. LateInit => Init /\ ClockLeg!Init
  BY DEF LateInit
<1>2. [LateNext]_LateVars => [Next]_vars
  BY DEF LateNext, LateVars
<1>3. [LateNext]_LateVars => [ClockLeg!Next]_(ClockLeg!vars)
  BY DEF LateNext, LateVars, clockVars, ClockLeg!vars, ClockLeg!legVars, ClockLeg!deviceVars
<1> QED
  BY <1>1, <1>2, <1>3, PTL DEF LateSpec, Spec, ClockLeg!Spec
================================================================================
