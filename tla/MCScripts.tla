------------------------------ MODULE MCScripts ------------------------------
(* The scripts that run everything else, for TLC.  A behaviour is one of      *)
(* them: two bring-ups on a device (Bringup); the battery over two targets,   *)
(* the second of which has a broken conf (Battery); or the sections of one    *)
(* run of the suite, under every combination of flags (Suite).  The battery   *)
(* has a bring-up and a run of the suite as single steps, so they meet only   *)
(* in their outcomes.  The variables of a script that does not run stay at 0, *)
(* those of Bringup at a device without daemons.                              *)
EXTENDS MCBringup, MCValues

CONSTANTS Conf, Only, Target, Sweep, Patterns, Flags

VARIABLES
  part,                                       \* "bringup", "battery" or "suite"
  target, conf, only, leg, step, item, fails, \* Battery; leg is its pass,
  confSet, brought, rows, failed, sick, unread,    \*     brought its device
  keys, flags, at, bound, ran, late, checkFailed,  \* Suite; keys is its only,
  result, exit                                     \*     checkFailed its failed

Runner == INSTANCE Battery WITH pass <- leg, device <- brought
Tests == INSTANCE Suite WITH Only <- Patterns, only <- keys, failed <- checkFailed

ASSUME ScriptConstants == Runner!ConstAssumption /\ Tests!ConstAssumption

runnerVars == <<target, conf, only, leg, step, item, fails, confSet, brought, rows, failed,
                sick, unread>>
testVars == <<keys, flags, at, bound, ran, late, checkFailed, result, exit>>
all == <<part, vars, runnerVars, testVars>>

NoDevice == life = [d \in Daemon |-> [g \in Run |-> "none"]] /\ syslog = {}
NoRunner ==
  /\ target = 0 /\ conf = 0 /\ only = 0 /\ leg = 0 /\ step = 0 /\ item = 0 /\ fails = 0
  /\ confSet = 0 /\ brought = 0 /\ rows = 0 /\ failed = 0 /\ sick = 0 /\ unread = 0
NoTests ==
  /\ keys = 0 /\ flags = 0 /\ at = 0 /\ bound = 0 /\ ran = 0 /\ late = 0
  /\ checkFailed = 0 /\ result = 0 /\ exit = 0

ScriptsInit ==
  /\ Init
  /\ \/ part = "bringup" /\ NoRunner /\ NoTests
     \/ part = "battery" /\ NoDevice /\ Runner!Init /\ NoTests
     \/ part = "suite"   /\ NoDevice /\ NoRunner /\ Tests!Init

ScriptsNext ==
  /\ UNCHANGED part
  /\ \/ part = "bringup" /\ Next        /\ UNCHANGED <<runnerVars, testVars>>
     \/ part = "battery" /\ Runner!Next /\ UNCHANGED <<vars, testVars>>
     \/ part = "suite"   /\ Tests!Next  /\ UNCHANGED <<vars, runnerVars>>

\* With the fairness of the two specifications that have one.
ScriptsSpec ==
  /\ ScriptsInit /\ [][ScriptsNext]_all
  /\ WF_vars(part = "bringup" /\ Script)
  /\ WF_runnerVars(part = "battery" /\ Runner!Next)

\* A broken item of a sweep fails its row and the battery, whatever the items, the
\* passes and the target behind it do (run-battery:659-694, 720-747, 773-841).
SweepTold == part = "battery" => Runner!SweepTold

\* What the battery tests is what it brought up for the pass, with the pass's own
\* CONF_SET (run-battery:516-523, 570-604, 625-634, 670-691, 838, 882-1000).
TestedAsBroughtUp == part = "battery" => Runner!TestedAsBroughtUp

\* No row is missing from the matrix but for the excused ones: those the code
\* drops, NeverDropped shows them (run-battery:121-125, 882-1000).
RowsButForExcused == part = "battery" => Runner!RowsButForExcused

\* The battery gets to its matrix whatever fails on the way
\* (run-battery:1039-1055).
BatteryEnds == <>(part = "battery" => step = "done")

\* A run of the whole suite runs all it is due and comes out behind the late legs
\* (raptor-test:1435-3507).
FullRunComplete == part = "suite" => Tests!FullRunComplete

\* Nothing is measured after the late legs have disturbed the stream, in any mode
\* (raptor-test:753-755, 1584-1585, 2444-2454, 3502-3504).
LateLegsLast == [][part = "suite" /\ late => ran' = ran]_all
=============================================================================
