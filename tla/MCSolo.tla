------------------------------- MODULE MCSolo -------------------------------
(* The parts of raptor-test around the light bench and the health section,    *)
(* for TLC.  They share nothing, and a behaviour is one of either: a ramp     *)
(* over five levels with a camera that turns up to five times; up to three    *)
(* invocations of the bench legs, with casts under a key level; or the health *)
(* section with two viewers, two clients and a log ring of three lines that   *)
(* five lines are logged into.                                                *)
EXTENDS Ramp

CONSTANTS Invocation, MaxRun, CastKey, Viewers, Clients, RingLen, LogMax

VARIABLES
  part,                                       \* "ramp", "bench" or "health"
  benchPrev, benchVerdict, ricState,          \* Bench's prev, verdict, state
  run, inv, pc, stage, todo, drift, battery, bench, light, rig, wash, mode, recheck,
  table, cast, seen, lost, unread,
  healthPc, healthVerdict, healthLost,        \* Health's pc, verdict, lost
  external, logBase, viewers, guests, left, leaked, refused, starved, ring, logged, errors

BenchLegs == INSTANCE Bench WITH prev <- benchPrev, verdict <- benchVerdict, state <- ricState
HealthPart == INSTANCE Health WITH pc <- healthPc, verdict <- healthVerdict, lost <- healthLost

ASSUME SoloConstants == BenchLegs!ConstAssumption /\ HealthPart!ConstAssumption

MCAll == {"cal", "verify", "daynight", "cast", "suite"}

benchVars ==
  <<benchPrev, benchVerdict, ricState, run, inv, pc, stage, todo, drift, battery, bench,
    light, rig, wash, mode, recheck, table, cast, seen, lost, unread>>
healthVars ==
  <<healthPc, healthVerdict, healthLost, external, logBase, viewers, guests, left, leaked,
    refused, starved, ring, logged, errors>>

SoloInit ==
  /\ part \in {"ramp", "bench", "health"}
  /\ Init /\ (part # "ramp" => dir = "down" /\ sound /\ settled)
  /\ BenchLegs!Init
  /\ HealthPart!Init /\ (part # "health" => viewers = 0 /\ ring = <<>>)

SoloNext ==
  /\ UNCHANGED part
  /\ \/ part = "ramp"   /\ Next            /\ UNCHANGED <<benchVars, healthVars>>
     \/ part = "bench"  /\ BenchLegs!Next  /\ UNCHANGED <<vars, healthVars>>
     \/ part = "health" /\ HealthPart!Next /\ UNCHANGED <<vars, benchVars>>

SoloSpec == SoloInit /\ [][SoloNext]_<<part, vars, benchVars, healthVars>>

\* The bench is left as it was found.
LeftAsFound == BenchLegs!LeftAsFound

\* What the bench legs say: of a camera left in a forced mode, of the rig, and
\* of the wash.
BenchVerdicts == BenchLegs!ModeLossReported /\ BenchLegs!VerifySound /\ BenchLegs!CastSound

\* What the health section says: of refused clients, of leaked sessions, and of
\* the log.
HealthVerdicts == HealthPart!RefusalsCharged /\ HealthPart!LeakSound /\ HealthPart!LogSound
=============================================================================
