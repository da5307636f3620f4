---------------------------------- MODULE Ramp ----------------------------------
(* One ramp of the day/night cycle (raptor-test:452-529, 1049-1057): dn_ramp      *)
(* walks the room light down or up in the background while DN_FLAPWATCH, on the   *)
(* camera, samples ric's state every two seconds for as long as the ramp should   *)
(* take; dn_flap_check then judges the transitions it counted.  The light, the    *)
(* camera and the watch each go at their own pace.                                *)
EXTENDS Naturals

CONSTANTS
  Levels,    \* bound: the light levels are 0 (dark) .. Levels (full)
  NightAt,   \* a camera with hysteresis turns to night at this level or below,
  DayAt,     \* and to day at this one or above
  MaxFlip    \* bound: the state changes of a camera

ASSUME ConstAssumption ==
  /\ Levels \in Nat \ {0} /\ MaxFlip \in Nat
  /\ NightAt \in 0 .. Levels - 1 /\ DayAt \in NightAt + 1 .. Levels

VARIABLES
  dir,      \* the ramp: down, up
  level,    \* the room light
  ramp,     \* dn_ramp: walking, over
  watch,    \* DN_FLAPWATCH: starting, sampling, over, or lost with its ssh
  prev,     \* its $prev: none, day, night
  trans,    \* its $trans
  verdict,  \* the check: none, pass, fail; unjudged without a count
  sound,    \* the camera has the hysteresis it should
  settled,  \* it was in the state of the light when the ramp began
  state,    \* its state
  flips     \* its state changes since

vars == <<dir, level, ramp, watch, prev, trans, verdict, sound, settled, state, flips>>

First == IF dir = "down" THEN Levels ELSE 0
Last  == IF dir = "down" THEN 0 ELSE Levels

Init ==
  /\ dir \in {"down", "up"} /\ level = First
  /\ ramp = "walking" /\ watch = "starting" /\ prev = "none" /\ trans = 0
  /\ verdict = "none"
  /\ sound \in BOOLEAN /\ state \in {"day", "night"} /\ flips = 0
  /\ settled = (state = IF dir = "down" THEN "day" ELSE "night")

------------------------------------------------------------------------------
(* The camera.  One without hysteresis may turn at any level.                     *)
Turn ==
  /\ flips < MaxFlip
  /\ sound => IF state = "day" THEN level <= NightAt ELSE level >= DayAt
  /\ state' = IF state = "day" THEN "night" ELSE "day"
  /\ flips' = flips + 1
  /\ UNCHANGED <<dir, level, ramp, watch, prev, trans, verdict, sound, settled>>

------------------------------------------------------------------------------
(* The next level of the schedule.                                                *)
RampStep ==
  /\ ramp = "walking"
  /\ IF level = Last THEN ramp' = "over" /\ UNCHANGED level
     ELSE level' = (IF dir = "down" THEN level - 1 ELSE level + 1) /\ UNCHANGED ramp
  /\ UNCHANGED <<dir, watch, prev, trans, verdict, sound, settled, state, flips>>

------------------------------------------------------------------------------
(* The watch.                                                                     *)

WatchStart ==
  /\ watch = "starting" /\ watch' \in {"sampling", "lost"}
  /\ UNCHANGED <<dir, level, ramp, prev, trans, verdict, sound, settled, state, flips>>

(* Fault: an empty answer is a state. *)
SampleEmpty ==
  /\ watch = "sampling"
  /\ \E st \in {"", state} :
       /\ prev' = IF st = "" THEN "none" ELSE st
       /\ trans' = IF st # prev /\ prev # "none" THEN trans + 1 ELSE trans
  /\ UNCHANGED <<dir, level, ramp, watch, verdict, sound, settled, state, flips>>

(* One sample, with an answer or without.                                         *)
Sample ==
  /\ watch = "sampling"
  /\ trans' = IF prev \notin {"none", state} THEN trans + 1 ELSE trans
  /\ prev' = state
  /\ UNCHANGED <<dir, level, ramp, watch, verdict, sound, settled, state, flips>>

(* Its time is over: it began when its ssh had connected, and not with the ramp,  *)
(* whose levels take longer than their pauses.                                    *)
WatchEnd ==
  /\ watch = "sampling" /\ watch' \in {"over", "lost"}
  /\ UNCHANGED <<dir, level, ramp, prev, trans, verdict, sound, settled, state, flips>>

(* Fault: the one crossing there must be is one too many. *)
JudgeStrict ==
  /\ verdict = "none" /\ ramp = "over" /\ watch \in {"over", "lost"}
  /\ verdict' = IF watch = "lost" THEN "unjudged" ELSE IF trans < 1 THEN "pass" ELSE "fail"
  /\ UNCHANGED <<dir, level, ramp, watch, prev, trans, sound, settled, state, flips>>

(* dn_flap_check, when both are back; with no count it says nothing.              *)
Judge ==
  /\ verdict = "none" /\ ramp = "over" /\ watch \in {"over", "lost"}
  /\ verdict' = IF watch = "lost" THEN "unjudged" ELSE IF trans <= 1 THEN "pass" ELSE "fail"
  /\ UNCHANGED <<dir, level, ramp, watch, prev, trans, sound, settled, state, flips>>

Next == Turn \/ RampStep \/ WatchStart \/ Sample \/ WatchEnd \/ Judge

Spec == Init /\ [][Next]_vars
------------------------------------------------------------------------------
(* Type correctness. *)
TypeOK ==
  /\ dir \in {"down", "up"}
  /\ level \in 0 .. Levels
  /\ ramp \in {"walking", "over"}
  /\ watch \in {"starting", "sampling", "over", "lost"}
  /\ prev \in {"none", "day", "night"}
  /\ trans \in Nat
  /\ verdict \in {"none", "pass", "fail", "unjudged"}
  /\ sound \in BOOLEAN /\ settled \in BOOLEAN
  /\ state \in {"day", "night"}
  /\ flips \in 0 .. MaxFlip

(* The watch counts no transition the camera did not make, however its samples    *)
(* and its empty answers fall (raptor-test:1051-1055).                            *)
CountSound == trans <= flips

(* A camera with hysteresis that had settled before the ramp is never blamed for  *)
(* flapping (raptor-test:521-528).                                                *)
SoundCameraPasses == sound /\ settled => verdict # "fail"
================================================================================
