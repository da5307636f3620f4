-------------------------------- MODULE Battery --------------------------------
(* run-battery: the passes a target goes through, the bring-up in front of     *)
(* each, the rows of the matrix and the exit status.  A target is its conf     *)
(* reduced to what decides the control flow; a bring-up is one step with the   *)
(* outcomes of bringup() (module Bringup has its inside), and a suite run or a *)
(* probe is one step with the verdicts the script can read out of it.          *)
EXTENDS Naturals, FiniteSets

CONSTANTS
  Conf,        \* for each target its possible confs, records of the fields in Field
  Only,        \* the sets of passes a --backend argument can match
  Target,      \* bound: the targets of one invocation, 1 .. Target
  Sweep        \* bound: bring-ups in a sweep (five codecs, the RC modes)

Field == {"exists", "parses", "base", "ssh", "bin", "r555", "h265", "sign",
          "rec", "host6", "rlat", "drift"}

(* The matrix labels, numbered in the order of battery_for_target. *)
Label == <<"rsd", "rsd-555", "h265 sub", "h265 main", "h265 main rsd-555",
           "signing", "audio codecs", "rc modes", "recording", "ipv6",
           "sr-wallclock", "drift">>
LastPass == 12
Passes == 1 .. LastPass
NoLabel == 0                 \* "-": the row of a target that has no pass

ConstAssumption ==
  /\ Conf \in [1 .. Target -> SUBSET [Field -> BOOLEAN]]
  /\ Conf[1] # {}
  /\ Only \subseteq SUBSET Passes
  /\ Only # {}
  /\ Target \in Nat \ {0}
  /\ Sweep \in Nat \ {0}

VARIABLES
  target,    \* the number of the target under test
  conf,      \* its conf
  only,      \* the passes --backend asked for
  pass,      \* the pass the runner is at
  step,      \* where in that pass it is
  item,      \* bring-ups left to do in it, counting the current one
  fails,     \* cfail, rfail, recfail: the failures a sweep has counted
  confSet,   \* CONF_SET: "own", or the pass whose overrides it has on top
  device,    \* what the daemons were last brought up for, or why they were not
  rows,      \* the matrix: the results recorded for each target and pass
  failed,    \* OVERALL_FAIL
  sick,      \* history: the sweeps an item of which did not come up or did not play
  unread     \* history: the sweeps a recorded segment of which was not fetched

past == <<sick, unread>>
vars == <<target, conf, only, pass, step, item, fails, confSet, device, rows, failed, past>>

Skipped  == {"skipped", "n/a", "skip"}
Failures == {"BRING-UP FAILED", "CONF PARSE ERROR", "failed", "no result line"}
Result   == Skipped \cup Failures \cup {"passed"}

Unmanaged == [pass |-> 0, conf |-> "own", up |-> TRUE]

Sweeps == {7, 8, 9}          \* audio codecs, rc modes, recording

Items(p) == IF p \in {7, 8} THEN Sweep ELSE 1

(* The condition a pass stands under, or else it is not run. *)
Exposed(p) ==
  CASE p = 1        -> TRUE
    [] p = 2        -> conf["r555"]
    [] p \in {3, 4} -> conf["h265"] /\ conf["base"]
    [] p = 5        -> conf["h265"] /\ conf["base"] /\ conf["r555"]
    [] p = 6        -> conf["sign"] /\ conf["base"]
    [] p \in {7, 8} -> conf["base"] /\ conf["ssh"]
    [] p = 9        -> conf["base"] /\ conf["rec"] /\ conf["ssh"]
    [] p = 10       -> conf["host6"]
    [] p = 11       -> conf["rlat"] /\ conf["base"] /\ conf["ssh"]
    [] p = 12       -> conf["drift"] /\ conf["ssh"] /\ conf["base"]

(* A pass not run leaves an n/a row, but for these branches of the code. *)
RecordsNa(p) ==
  /\ p \notin {4, 5}
  /\ p = 12 => conf["drift"]

(* The CONF_SET a pass works with: its own overrides on top of the conf's,    *)
(* or the conf's alone.  The two h265 main passes share one.                  *)
Overrides(p) ==
  IF p \in {1, 2, 10, 12} THEN "own" ELSE IF p = 5 THEN Label[4] ELSE Label[p]

(* Fault: the recording pass does not put CONF_SET back. *)
RestoresLater(p) == p # 9 /\ ~(p = 4 /\ conf["r555"])

(* CONF_SET goes back to the conf's own at the end of a pass; the h265 main   *)
(* pass leaves that to the rsd-555 half, if there is one.                     *)
Restores(p) == ~(p = 4 /\ conf["r555"])

(* Record r for the current pass; a failure also fails the battery.           *)
Record(p, r) ==
  /\ rows' = [rows EXCEPT ![target][p] = @ \cup {r}]
  /\ failed' = (failed \/ r \in Failures)

NoRow == UNCHANGED <<rows, failed>>

Init ==
  /\ target = 1 /\ conf \in Conf[1] /\ only \in Only
  /\ pass = 1 /\ step = "target" /\ item = 0 /\ fails = 0
  /\ confSet = "own" /\ device = Unmanaged
  /\ rows = [t \in 1 .. Target |-> [p \in Passes \cup {NoLabel} |-> {}]]
  /\ failed = FALSE /\ sick = {} /\ unread = {}

------------------------------------------------------------------------------
(* The target: its conf is looked for and sourced, every field reset first.   *)

NoSuchTarget ==
  /\ step = "target" /\ ~conf["exists"]
  /\ failed' = TRUE /\ step' = "end" /\ pass' = LastPass + 1
  /\ UNCHANGED <<target, conf, only, item, fails, confSet, device, rows, past>>

ParseError ==
  /\ step = "target" /\ conf["exists"] /\ ~conf["parses"]
  /\ Record(NoLabel, "CONF PARSE ERROR")
  /\ step' = "end" /\ pass' = LastPass + 1
  /\ UNCHANGED <<target, conf, only, item, fails, confSet, device, past>>

StartTarget ==
  /\ step = "target" /\ conf["exists"] /\ conf["parses"]
  /\ step' = "gate" /\ confSet' = "own"
  /\ UNCHANGED <<target, conf, only, pass, item, fails, device, rows, failed, past>>

(* --all goes on to the next conf it lists, which exists and is of another     *)
(* device; a target named alone is the last one.                               *)
NextTarget ==
  /\ step = "end" /\ pass > LastPass
  /\ \/ /\ target < Target /\ conf["exists"]
        /\ target' = target + 1 /\ conf' \in {c \in Conf[target + 1] : c["exists"]}
        /\ pass' = 1 /\ step' = "target" /\ device' = Unmanaged
     \/ step' = "done" /\ UNCHANGED <<target, conf, pass, device>>
  /\ UNCHANGED <<only, item, fails, confSet, rows, failed, past>>

------------------------------------------------------------------------------
(* One pass.                                                                  *)

(* The three sweeps ask want_backend before anything else. *)
SweepUnwanted ==
  /\ step = "gate" /\ pass \in Sweeps /\ pass \notin only
  /\ Record(pass, "skipped")
  /\ step' = "end"
  /\ UNCHANGED <<target, conf, only, pass, item, fails, confSet, device, past>>

NotExposed ==
  /\ step = "gate" /\ ~Exposed(pass)
  /\ pass \in Sweeps => pass \in only
  /\ IF RecordsNa(pass) THEN Record(pass, "n/a") ELSE NoRow
  /\ step' = "end"
  /\ UNCHANGED <<target, conf, only, pass, item, fails, confSet, device, past>>

OpenPass ==
  /\ step = "gate" /\ Exposed(pass)
  /\ pass \in Sweeps => pass \in only
  /\ step' = "bringup" /\ item' = Items(pass) /\ fails' = 0
  /\ confSet' = IF Overrides(pass) = "own" THEN confSet ELSE Overrides(pass)
  /\ UNCHANGED <<target, conf, only, pass, device, rows, failed, past>>

(* Fault: a failed bring-up starts the sweep over. *)
BringupFailedRetried ==
  IF pass \in Sweeps
    THEN /\ fails' = 1 /\ sick' = sick \cup {<<target, pass>>}
         /\ item' = Items(pass) /\ step' = "bringup"
         /\ UNCHANGED pass
    ELSE /\ step' = "end"
         /\ pass' = IF pass \in {1, 2} THEN LastPass + 1 ELSE pass
         /\ UNCHANGED <<fails, item, sick>>

(* Fault: a failed h265 bring-up ends the target as well. *)
BringupFailedEnds ==
  IF pass \in Sweeps
    THEN /\ fails' = fails + 1 /\ sick' = sick \cup {<<target, pass>>}
         /\ item' = item - 1
         /\ step' = IF item = 1 THEN "summary" ELSE "bringup"
         /\ UNCHANGED pass
    ELSE /\ step' = "end"
         /\ pass' = IF pass \in 1 .. 5 THEN LastPass + 1 ELSE pass
         /\ UNCHANGED <<fails, item, sick>>

(* bringup() returned non-zero.  The first two passes end the target, a sweep *)
(* counts a failure and goes on with its next item, the others are over.      *)
AfterBringupFailed ==
  IF pass \in Sweeps
    THEN /\ fails' = fails + 1 /\ sick' = sick \cup {<<target, pass>>}
         /\ item' = item - 1
         /\ step' = IF item = 1 THEN "summary" ELSE "bringup"
         /\ UNCHANGED pass
    ELSE /\ step' = "end"
         /\ pass' = IF pass \in {1, 2} THEN LastPass + 1 ELSE pass
         /\ UNCHANGED <<fails, item, sick>>

(* Not asked for: status 3, which every caller passes over. *)
BringupUnwanted ==
  /\ step = "bringup" /\ pass \notin only
  /\ Record(pass, "skipped")
  /\ step' = "end"
  /\ UNCHANGED <<target, conf, only, pass, item, fails, confSet, device, past>>

(* No DAEMONS_BASE: whatever already runs is tested. *)
BringupUnmanaged ==
  /\ step = "bringup" /\ pass \in only /\ ~conf["base"]
  /\ step' = "test"
  /\ UNCHANGED <<target, conf, only, pass, item, fails, confSet, device, rows, failed, past>>

(* DAEMONS_BASE without SSH or DAEMON_BIN: a message, and status 1. *)
BringupImpossible ==
  /\ step = "bringup" /\ pass \in only
  /\ conf["base"] /\ ~(conf["ssh"] /\ conf["bin"])
  /\ AfterBringupFailed
  /\ UNCHANGED <<target, conf, only, confSet, device, rows, failed, unread>>

BringupFailed ==
  /\ step = "bringup" /\ pass \in only
  /\ conf["base"] /\ conf["ssh"] /\ conf["bin"]
  /\ Record(pass, "BRING-UP FAILED")
  /\ device' = [pass |-> pass, conf |-> confSet, up |-> FALSE]
  /\ AfterBringupFailed
  /\ UNCHANGED <<target, conf, only, confSet, unread>>

BringupReady ==
  /\ step = "bringup" /\ pass \in only
  /\ conf["base"] /\ conf["ssh"] /\ conf["bin"]
  /\ device' = [pass |-> pass, conf |-> confSet, up |-> TRUE]
  /\ step' = "test"
  /\ UNCHANGED <<target, conf, only, pass, item, fails, confSet, rows, failed, past>>

(* run_suite: the last result line decides, and its absence is an error.      *)
RunSuite ==
  /\ step = "test" /\ pass \in {1, 2, 3, 4, 5, 6, 10}
  /\ \E r \in {"passed", "failed", "no result line"} : Record(pass, r)
  /\ step' = "end"
  /\ UNCHANGED <<target, conf, only, pass, item, fails, confSet, device, past>>

(* Fault: the failures are counted anew with each item. *)
CountLast(broken) ==
  fails' = IF broken THEN 1 ELSE 0

(* What the probe of an item that is broken, or cannot be probed, adds.       *)
Count(broken) ==
  fails' = IF broken THEN fails + 1 ELSE fails

(* One probe of a sweep: its item, a codec, a rate control mode or what was   *)
(* recorded, plays or is broken; a probe that gets nothing counts as broken,  *)
(* but for a segment that cannot be fetched, which is passed over.  The row   *)
(* comes at the end.                                                          *)
Probe ==
  /\ step = "test" /\ pass \in Sweeps
  /\ \E broken, got \in BOOLEAN :
       /\ Count(IF pass = 9 THEN broken /\ got ELSE broken \/ ~got)
       /\ sick' = IF broken THEN sick \cup {<<target, pass>>} ELSE sick
       /\ unread' = IF pass = 9 /\ ~got THEN unread \cup {<<target, pass>>} ELSE unread
  /\ item' = item - 1
  /\ step' = IF item = 1 THEN "summary" ELSE "bringup"
  /\ UNCHANGED <<target, conf, only, pass, confSet, device, rows, failed>>

Summary ==
  /\ step = "summary"
  /\ Record(pass, IF fails > 0 THEN "failed" ELSE "passed")
  /\ step' = "end"
  /\ UNCHANGED <<target, conf, only, pass, item, fails, confSet, device, past>>

(* rlatency and drift-leg.sh: a verdict, or a reason there is none.           *)
Measure ==
  /\ step = "test" /\ pass \in {11, 12}
  /\ \E r \in {"passed", "failed", IF pass = 11 THEN "n/a" ELSE "skip"} :
       Record(pass, r)
  /\ step' = "end"
  /\ UNCHANGED <<target, conf, only, pass, item, fails, confSet, device, past>>

EndPass ==
  /\ step = "end" /\ pass <= LastPass
  /\ confSet' = IF Restores(pass) THEN "own" ELSE confSet
  /\ pass' = pass + 1
  /\ step' = IF pass = LastPass THEN "end" ELSE "gate"
  /\ UNCHANGED <<target, conf, only, item, fails, device, rows, failed, past>>

Next ==
  \/ NoSuchTarget \/ ParseError \/ StartTarget \/ NextTarget
  \/ SweepUnwanted \/ NotExposed \/ OpenPass
  \/ BringupUnwanted \/ BringupUnmanaged \/ BringupImpossible
  \/ BringupFailed \/ BringupReady
  \/ RunSuite \/ Probe \/ Summary \/ Measure \/ EndPass

Spec == Init /\ [][Next]_vars

(* The runner is one sequential script whose every command has a time limit.  *)
FairSpec == Spec /\ WF_vars(Next)
------------------------------------------------------------------------------
(* A sweep any item of which was broken fails: its row says so and never says *)
(* passed, and the exit status says so too, whatever the items, the passes and *)
(* the targets behind it do (run-battery:659-694, 720-747, 773-841, 1053-1055).  *)
(* A recorded segment that could not be fetched is passed over (799-800), so    *)
(* of a recording this is claimed where every segment was fetched.             *)
SweepTold ==
  \A s \in sick \ unread :
    /\ "passed" \notin rows[s[1]][s[2]]
    /\ step = "done" => "failed" \in rows[s[1]][s[2]] /\ failed

(* What is tested, where the runner manages the daemons, is what this pass    *)
(* brought up, with this pass's configuration, by a bring-up that succeeded   *)
(* (run-battery:516-523, 574-577, 670-691, 720-744): no earlier pass has left   *)
(* its CONF_SET on (run-battery:570-604, 625-634, 838, 882-1000).              *)
TestedAsBroughtUp ==
  step = "test" /\ conf["base"] =>
    device = [pass |-> pass, conf |-> Overrides(pass), up |-> TRUE]

(* The passes that may end a target without a row: those behind a failed      *)
(* bring-up of the first two, the n/a branches that write none, and all of    *)
(* them when the conf manages daemons it gives no way to reach.  That there   *)
(* are any is not what the head of the script says: see NeverDropped.         *)
Excused(p) ==
  \/ ~conf["exists"] \/ ~conf["parses"]
  \/ conf["base"] /\ ~(conf["ssh"] /\ conf["bin"])
  \/ \E q \in {1, 2} : q < p /\ "BRING-UP FAILED" \in rows[target][q]
  \/ ~Exposed(p) /\ ~RecordsNa(p)

(* When a target is through, every other pass has its row: a pass that fails  *)
(* or is skipped takes none of those behind it out of the matrix.             *)
RowsButForExcused ==
  step = "end" /\ pass > LastPass =>
    \A p \in Passes : rows[target][p] # {} \/ Excused(p)

------------------------------------------------------------------------------
(* What the code's own words say, and it does not do.                         *)

(* "Legs a target does not expose are recorded as n/a, never silently dropped, *)
(* so coverage cannot drift between devices" (run-battery:18-21).              *)
NeverDropped ==
  step = "gate" => \A p \in 1 .. pass - 1 : Exposed(p) \/ rows[target][p] # {}
================================================================================
