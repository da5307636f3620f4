----------------------------- MODULE BatteryProofs -----------------------------
(* What Battery promises for any confs, any --backend arguments, any number of *)
(* targets and sweeps of any length: a broken item of a sweep fails its row    *)
(* and the battery, a suite runs on what was brought up for it under its own   *)
(* CONF_SET, and no row is missing but for the excused ones.                   *)
EXTENDS MCScripts, Integers, Sequences, TLAPS

Row == 1 .. Runner!LastPass \cup {Runner!NoLabel}
ConfSets == {"own", "h265 sub", "h265 main", "signing", "audio codecs", "rc modes",
             "recording", "sr-wallclock"}
Brought == [pass : 0 .. Runner!LastPass, conf : ConfSets, up : BOOLEAN]

RunnerTypes ==
  /\ target \in 1 .. Target /\ conf \in [Runner!Field -> BOOLEAN] /\ only \in Only
  /\ leg \in 1 .. Runner!LastPass + 1
  /\ step \in {"target", "gate", "bringup", "test", "summary", "end", "done"}
  /\ item \in Nat /\ fails \in Nat /\ failed \in BOOLEAN
  /\ confSet \in ConfSets /\ brought \in Brought
  /\ rows \in [1 .. Target -> [Row -> SUBSET Runner!Result]]
  /\ sick \subseteq (1 .. Target) \X Runner!Sweeps
  /\ unread \subseteq (1 .. Target) \X Runner!Sweeps

Inside == step \in {"gate", "bringup", "test", "summary"}

(* Within a pass there is a pass, and a bring-up still to be made is counted.  *)
PlaceInv ==
  /\ step = "target" => leg = 1
  /\ Inside => leg \in Runner!Passes
  /\ step \in {"bringup", "test"} => Runner!Exposed(leg) /\ item >= 1
  /\ step \in {"test", "summary", "bringup"} /\ leg \in Runner!Sweeps => leg \in only
  /\ step = "summary" => leg \in Runner!Sweeps
  /\ step = "done" => leg = Runner!LastPass + 1

(* Between passes CONF_SET is the conf's own, but for the h265 main passes,    *)
(* which share one; within a pass it is the pass's.                            *)
ConfInv ==
  /\ step = "gate" => confSet = "own" \/ (leg = 5 /\ confSet = Runner!Overrides(5))
  /\ step \in {"bringup", "test", "summary"} => confSet = Runner!Overrides(leg)
  /\ step = "end" /\ leg <= Runner!LastPass => confSet \in {"own", Runner!Overrides(leg)}

(* The passes behind the runner have their rows.                               *)
Behind == IF step = "end" THEN 1 .. leg ELSE 1 .. leg - 1
RowInv ==
  Inside \/ step = "end" =>
    \A p \in Behind \cap Runner!Passes : rows[target][p] # {} \/ Runner!Excused(p)

(* A pass not yet begun, and the one whose items are being probed.             *)
Before(t, p) ==
  \/ t > target
  \/ t = target /\ (p > leg \/ (p = leg /\ step \in {"target", "gate"}))
Here(t, p) == t = target /\ p = leg /\ step \in {"bringup", "test", "summary"}

Verdicts == {"passed", "failed"}

(* A sweep has its verdict behind its items; until then a broken item is in    *)
(* its count, and from then on in its row and in OVERALL_FAIL.                 *)
SickInv ==
  \A t \in 1 .. Target, p \in Runner!Sweeps :
    /\ <<t, p>> \in sick => ~Before(t, p)
    /\ Before(t, p) \/ Here(t, p) => rows[t][p] \cap Verdicts = {}
    /\ <<t, p>> \in sick \ unread => IF Here(t, p) THEN fails > 0
                                    ELSE rows[t][p] \cap Verdicts = {"failed"} /\ failed

IInv == RunnerTypes /\ PlaceInv /\ ConfInv /\ SickInv /\ Runner!TestedAsBroughtUp /\ RowInv

--------------------------------------------------------------------------------
(* The overrides of a pass by name: the h265 main passes share them, and those *)
(* that have none work with the conf's own.                                    *)
LEMMA OverridesFacts ==
  /\ \A p \in Runner!Passes : Runner!Overrides(p) \in ConfSets
  /\ Runner!Overrides(5) = Runner!Overrides(4) /\ Runner!Overrides(1) = "own"
  /\ Runner!Overrides(2) = "own"
  /\ Runner!Overrides(12) = "own"
<1>1. ASSUME NEW p \in Runner!Passes
      PROVE  p \in {1, 2, 5, 10, 12} \/ p \in {3, 4, 6, 7, 8, 9, 11}
  <2>1. p \in 1 .. 12
    BY DEF Runner!Passes, Runner!LastPass
  <2> QED
    BY <2>1, SMT
<1>2. /\ Runner!Label[3] = "h265 sub" /\ Runner!Label[4] = "h265 main"
      /\ Runner!Label[6] = "signing"
      /\ Runner!Label[7] = "audio codecs" /\ Runner!Label[8] = "rc modes"
      /\ Runner!Label[9] = "recording"
      /\ Runner!Label[11] = "sr-wallclock"
  BY DEF Runner!Label
<1>3. /\ Runner!Overrides(5) = Runner!Overrides(4) /\ Runner!Overrides(1) = "own"
      /\ Runner!Overrides(2) = "own"
      /\ Runner!Overrides(12) = "own"
  BY DEF Runner!Overrides
<1>4. ASSUME NEW p \in Runner!Passes
      PROVE  Runner!Overrides(p) \in ConfSets
  <2>1. CASE p \in {1, 2, 5, 10, 12}
    BY <2>1, <1>2 DEF Runner!Overrides, ConfSets
  <2>2. CASE p \in {3, 4, 6, 7, 8, 9, 11}
    BY <2>2, <1>2 DEF Runner!Overrides, ConfSets
  <2> QED
    BY <1>1, <2>1, <2>2
<1> QED
  BY <1>3, <1>4

(* The numbers of the passes.                                                  *)
LEMMA PassFacts ==
  /\ Runner!LastPass + 1 = 13 /\ 13 \in 1 .. Runner!LastPass + 1 /\ Runner!Passes = 1 .. 12
  /\ Runner!Passes \subseteq Row /\ Runner!Passes \subseteq 0 .. Runner!LastPass
  /\ Runner!NoLabel \in Row
  /\ Runner!Passes \subseteq 1 .. Runner!LastPass + 1
  /\ Runner!Unmanaged \in Brought
  BY DEF Runner!LastPass, Runner!Passes, Row, Runner!Unmanaged, Brought, ConfSets

(* What a step records is one result more, in the row of the pass.             *)
LEMMA RecordFacts ==
  ASSUME RunnerTypes, NEW p \in Row, NEW r \in Runner!Result, Runner!Record(p, r)
  PROVE  /\ rows' \in [1 .. Target -> [Row -> SUBSET Runner!Result]]
         /\ failed' \in BOOLEAN
         /\ rows'[target][p] = rows[target][p] \cup {r}
         /\ \A q \in Row : rows[target][q] \subseteq rows'[target][q]
         /\ \A t \in 1 .. Target, q \in Row :
              rows'[t][q] # rows[t][q] => t = target /\ q = p
<1>1. rows[target] \in [Row -> SUBSET Runner!Result]
  BY DEF RunnerTypes
<1>2. rows' = [rows EXCEPT ![target] = [rows[target] EXCEPT ![p] = rows[target][p] \cup {r}]]
  BY DEF Runner!Record
<1>3. failed' = (failed \/ r \in Runner!Failures)
  BY DEF Runner!Record
<1> QED
  BY <1>1, <1>2, <1>3 DEF RunnerTypes

LEMMA InitHolds == Runner!Init => IInv
<1> SUFFICES ASSUME Runner!Init
             PROVE  IInv
  OBVIOUS
<1>1. conf \in [Runner!Field -> BOOLEAN] /\ target \in 1 .. Target
  BY ScriptConstants DEF Runner!ConstAssumption, Runner!Init
<1>2. RunnerTypes
  <2>1. brought \in Brought /\ confSet \in ConfSets
    BY DEF Runner!Init, Brought, Runner!Unmanaged, ConfSets, Runner!LastPass
  <2>2. rows \in [1 .. Target -> [Row -> SUBSET Runner!Result]]
    BY DEF Runner!Init, Row, Runner!Passes
  <2>3. leg \in 1 .. Runner!LastPass + 1 /\ item \in Nat
    BY DEF Runner!Init, Runner!LastPass
  <2>4. failed \in BOOLEAN /\ only \in Only /\ fails \in Nat /\ sick = {} /\ unread = {}
    <3>1. failed = FALSE /\ only \in Only /\ fails = 0 /\ sick = {} /\ unread = {}
      BY Zenon DEF Runner!Init
    <3> QED
      BY <3>1
  <2> QED
    BY <1>1, <2>1, <2>2, <2>3, <2>4 DEF Runner!Init, RunnerTypes
<1>3. PlaceInv /\ ConfInv /\ Runner!TestedAsBroughtUp
  BY DEF Runner!Init, PlaceInv, ConfInv, Runner!TestedAsBroughtUp, Inside
<1>4. SickInv /\ RowInv
  BY DEF Runner!Init, SickInv, RowInv, Inside, Runner!Sweeps, Runner!Passes, Runner!LastPass
<1> QED
  BY <1>2, <1>3, <1>4 DEF IInv

(* Where the runner is after a bring-up that failed.                           *)
LEMMA FailedFacts ==
  ASSUME RunnerTypes, PlaceInv, step = "bringup", Runner!AfterBringupFailed
  PROVE  /\ leg' \in 1 .. Runner!LastPass + 1 /\ item' \in Nat /\ fails' \in Nat
         /\ sick' \subseteq (1 .. Target) \X Runner!Sweeps
         /\ leg' # leg => leg \in {1, 2} /\ leg' = Runner!LastPass + 1 /\ step' = "end"
         /\ leg' = leg => step' \in {"bringup", "summary", "end"}
         /\ step' = "bringup" => item' >= 1
         /\ step' \in {"bringup", "summary"} => leg' = leg /\ leg \in Runner!Sweeps
         /\ step' = "end" => leg \notin Runner!Sweeps
<1> USE DEF Runner!AfterBringupFailed, PlaceInv, Inside, RunnerTypes, Runner!LastPass, Runner!Passes
<1>1. CASE leg \in Runner!Sweeps
  BY <1>1
<1>2. CASE leg \notin Runner!Sweeps
  BY <1>2
<1> QED
  BY <1>1, <1>2

LEMMA TypeKeeps == IInv /\ Runner!Next => RunnerTypes'
<1> SUFFICES ASSUME IInv, Runner!Next
             PROVE  RunnerTypes'
  OBVIOUS
<1> USE DEF IInv, RunnerTypes, Runner!past
<1>p. leg \in Runner!Passes => leg \in Row
  BY DEF Runner!Passes, Row
<1>r. Runner!NoLabel \in Row
  BY DEF Row
<1>1. CASE Runner!NoSuchTarget
  BY <1>1 DEF Runner!NoSuchTarget, Runner!LastPass
<1>2. CASE Runner!ParseError
  <2>1. /\ Runner!Record(Runner!NoLabel, "CONF PARSE ERROR")
        /\ "CONF PARSE ERROR" \in Runner!Result
    BY <1>2 DEF Runner!ParseError, Runner!Result, Runner!Failures
  <2>2. rows' \in [1 .. Target -> [Row -> SUBSET Runner!Result]] /\ failed' \in BOOLEAN
    BY <2>1, <1>r, RecordFacts
  <2>3. leg' \in 1 .. Runner!LastPass + 1
    BY <1>2, PassFacts DEF Runner!ParseError
  <2> QED
    BY <1>2, <2>2, <2>3 DEF Runner!ParseError
<1>3. CASE Runner!StartTarget
  BY <1>3 DEF Runner!StartTarget, ConfSets
<1>4. CASE Runner!NextTarget
  <2>1. target' \in 1 .. Target /\ conf' \in [Runner!Field -> BOOLEAN]
    BY <1>4, ScriptConstants DEF Runner!ConstAssumption, Runner!NextTarget
  <2>2. brought' \in Brought
    BY <1>4, PassFacts DEF Runner!NextTarget
  <2>3. leg' \in 1 .. Runner!LastPass + 1
    BY <1>4 DEF Runner!NextTarget, Runner!LastPass
  <2> QED
    BY <1>4, <2>1, <2>2, <2>3 DEF Runner!NextTarget
<1>5. CASE Runner!SweepUnwanted
  <2>1. Runner!Record(leg, "skipped") /\ "skipped" \in Runner!Result /\ leg \in Row
    BY <1>5 DEF Runner!SweepUnwanted, Runner!Result, Runner!Skipped, Runner!Sweeps, Row,
       Runner!LastPass
  <2>2. rows' \in [1 .. Target -> [Row -> SUBSET Runner!Result]] /\ failed' \in BOOLEAN
    BY <2>1, RecordFacts
  <2> QED
    BY <1>5, <2>2 DEF Runner!SweepUnwanted
<1>6. CASE Runner!NotExposed
  <2>1. leg \in Row /\ "n/a" \in Runner!Result
    BY <1>6, <1>p DEF Runner!NotExposed, PlaceInv, Inside, Runner!Result, Runner!Skipped
  <2>2. CASE Runner!Record(leg, "n/a")
    <3>1. rows' \in [1 .. Target -> [Row -> SUBSET Runner!Result]] /\ failed' \in BOOLEAN
      BY <2>1, <2>2, RecordFacts
    <3> QED
      BY <1>6, <3>1 DEF Runner!NotExposed
  <2>3. CASE Runner!NoRow
    BY <1>6, <2>3 DEF Runner!NotExposed, Runner!NoRow
  <2> QED
    BY <1>6, <2>2, <2>3 DEF Runner!NotExposed
<1>7. CASE Runner!OpenPass
  <2>1. leg \in Runner!Passes
    BY <1>7 DEF Runner!OpenPass, PlaceInv, Inside
  <2>2. confSet' \in ConfSets
    BY <1>7, <2>1, OverridesFacts DEF Runner!OpenPass
  <2>3. item' \in Nat
    BY <1>7, ScriptConstants DEF Runner!ConstAssumption, Runner!OpenPass, Runner!Items
  <2> QED
    BY <1>7, <2>2, <2>3 DEF Runner!OpenPass
<1>8. CASE Runner!BringupUnwanted
  <2>1. Runner!Record(leg, "skipped") /\ "skipped" \in Runner!Result /\ leg \in Row
    BY <1>8, <1>p DEF Runner!BringupUnwanted, Runner!Result, Runner!Skipped, PlaceInv,
       Inside
  <2>2. rows' \in [1 .. Target -> [Row -> SUBSET Runner!Result]] /\ failed' \in BOOLEAN
    BY <2>1, RecordFacts
  <2> QED
    BY <1>8, <2>2 DEF Runner!BringupUnwanted
<1>9. CASE Runner!BringupUnmanaged
  BY <1>9 DEF Runner!BringupUnmanaged
<1>10. CASE Runner!BringupImpossible
  BY <1>10, FailedFacts DEF Runner!BringupImpossible, Runner!LastPass
<1>11. CASE Runner!BringupFailed
  <2>0. leg \in Runner!Passes
    BY <1>11 DEF Runner!BringupFailed, PlaceInv, Inside
  <2>1. /\ Runner!Record(leg, "BRING-UP FAILED") /\ "BRING-UP FAILED" \in Runner!Result
        /\ leg \in Row /\ leg \in 0 .. Runner!LastPass
    BY <1>11, <2>0, PassFacts DEF Runner!BringupFailed, Runner!Result, Runner!Failures
  <2>2. rows' \in [1 .. Target -> [Row -> SUBSET Runner!Result]] /\ failed' \in BOOLEAN
    BY <2>1, RecordFacts
  <2>3. brought' \in Brought
    BY <1>11, <2>1 DEF Runner!BringupFailed, Brought
  <2>4. /\ leg' \in 1 .. Runner!LastPass + 1 /\ item' \in Nat /\ fails' \in Nat
        /\ sick' \subseteq (1 .. Target) \X Runner!Sweeps
        /\ step' \in {"bringup", "summary", "end"}
    BY <1>11, FailedFacts DEF Runner!BringupFailed
  <2> QED
    BY <1>11, <2>2, <2>3, <2>4 DEF Runner!BringupFailed
<1>12. CASE Runner!BringupReady
  <2>1. leg \in 0 .. Runner!LastPass
    BY <1>12 DEF Runner!BringupReady, PlaceInv, Inside, Runner!Passes
  <2>2. brought' \in Brought
    BY <1>12, <2>1 DEF Runner!BringupReady, Brought
  <2> QED
    BY <1>12, <2>2 DEF Runner!BringupReady
<1>13. CASE Runner!RunSuite
  <2>1. PICK r \in {"passed", "failed", "no result line"} : Runner!Record(leg, r)
    BY <1>13 DEF Runner!RunSuite
  <2>2. r \in Runner!Result /\ leg \in Row
    BY <1>13, <1>p DEF Runner!RunSuite, Runner!Result, Runner!Failures, PlaceInv, Inside
  <2>3. rows' \in [1 .. Target -> [Row -> SUBSET Runner!Result]] /\ failed' \in BOOLEAN
    BY <2>1, <2>2, RecordFacts
  <2> QED
    BY <1>13, <2>3 DEF Runner!RunSuite
<1>14. CASE Runner!Probe
  <2>1. item' \in Nat
    BY <1>14 DEF Runner!Probe, PlaceInv
  <2>2. step' \in {"summary", "bringup"}
    BY <1>14 DEF Runner!Probe
  <2>3. PICK broken \in BOOLEAN, got \in BOOLEAN :
          /\ Runner!Count(IF leg = 9 THEN broken /\ got ELSE broken \/ ~got)
          /\ sick' = IF broken THEN sick \cup {<<target, leg>>} ELSE sick
          /\ unread' = IF leg = 9 /\ ~got THEN unread \cup {<<target, leg>>} ELSE unread
    BY <1>14 DEF Runner!Probe
  <2>4. <<target, leg>> \in (1 .. Target) \X Runner!Sweeps
    BY <1>14 DEF Runner!Probe
  <2>5. fails' \in Nat
    BY <2>3 DEF Runner!Count
  <2>6. /\ sick' \subseteq (1 .. Target) \X Runner!Sweeps
        /\ unread' \subseteq (1 .. Target) \X Runner!Sweeps
    BY <2>3, <2>4
  <2> QED
    BY <1>14, <2>1, <2>2, <2>5, <2>6 DEF Runner!Probe
<1>15. CASE Runner!Summary
  <2>1. (IF fails > 0 THEN "failed" ELSE "passed") \in Runner!Result /\ leg \in Row
    BY <1>15, <1>p DEF Runner!Summary, Runner!Result, Runner!Failures, PlaceInv, Inside
  <2>2. rows' \in [1 .. Target -> [Row -> SUBSET Runner!Result]] /\ failed' \in BOOLEAN
    BY <1>15, <2>1, RecordFacts DEF Runner!Summary
  <2> QED
    BY <1>15, <2>2 DEF Runner!Summary
<1>16. CASE Runner!Measure
  <2>1. PICK r \in {"passed", "failed", IF leg = 11 THEN "n/a" ELSE "skip"} : Runner!Record(leg, r)
    BY <1>16 DEF Runner!Measure
  <2>2. r \in Runner!Result /\ leg \in Row
    BY <1>16, <1>p DEF Runner!Measure, Runner!Result, Runner!Failures, Runner!Skipped,
       PlaceInv, Inside
  <2>3. rows' \in [1 .. Target -> [Row -> SUBSET Runner!Result]] /\ failed' \in BOOLEAN
    BY <2>1, <2>2, RecordFacts
  <2> QED
    BY <1>16, <2>3 DEF Runner!Measure
<1>17. CASE Runner!EndPass
  <2>1. leg' \in 1 .. Runner!LastPass + 1
    BY <1>17 DEF Runner!EndPass, Runner!LastPass
  <2> QED
    BY <1>17, <2>1 DEF Runner!EndPass, ConfSets
<1> QED
  BY <1>1, <1>2, <1>3, <1>4, <1>5, <1>6, <1>7, <1>8, <1>9, <1>10, <1>11, <1>12,
     <1>13, <1>14, <1>15, <1>16, <1>17 DEF Runner!Next

(* Whether a pass is exposed is the conf's affair.                             *)
LEMMA ExposedStays ==
  ASSUME UNCHANGED <<conf, leg>>
  PROVE  Runner!Exposed(leg)' <=> Runner!Exposed(leg)
  BY DEF Runner!Exposed

(* A target that is through is followed by the next one, or by the matrix.     *)
LEMMA NextTargetFrom ==
  ASSUME Runner!NextTarget
  PROVE  (leg' = 1 /\ step' = "target") \/ (step' = "done" /\ leg' = leg)
<1>1. CASE leg' = 1 /\ step' = "target"
  BY <1>1
<1>2. CASE step' = "done" /\ UNCHANGED <<target, conf, leg, brought>>
  BY <1>2
<1> QED
  BY <1>1, <1>2 DEF Runner!NextTarget

(* The runner is where the steps say it is.                                    *)
LEMMA PlaceKeeps == IInv /\ Runner!Next => PlaceInv'
<1> SUFFICES ASSUME IInv, Runner!Next
             PROVE  PlaceInv'
  OBVIOUS
<1> USE DEF IInv, PlaceInv, Inside
<1>1. CASE Runner!NoSuchTarget
  BY <1>1 DEF Runner!NoSuchTarget
<1>2. CASE Runner!ParseError
  BY <1>2 DEF Runner!ParseError
<1>3. CASE Runner!StartTarget
  <2>1. step' = "gate" /\ leg' = 1 /\ 1 \in Runner!Passes
    BY <1>3, PassFacts DEF Runner!StartTarget
  <2> QED
    BY <2>1
<1>4. CASE Runner!NextTarget
  <2>1. (step' = "target" /\ leg' = 1) \/ (step' = "done" /\ leg' = Runner!LastPass + 1)
    <3>1. leg > Runner!LastPass /\ leg \in 1 .. Runner!LastPass + 1
      BY <1>4 DEF Runner!NextTarget, RunnerTypes
    <3>2. leg = Runner!LastPass + 1
      BY <3>1 DEF Runner!LastPass
    <3> QED
      <4>1. (leg' = 1 /\ step' = "target") \/ (step' = "done" /\ leg' = leg)
        BY <1>4, NextTargetFrom
      <4> QED
        BY <3>2, <4>1
  <2> QED
    BY <2>1
<1>5. CASE Runner!SweepUnwanted
  BY <1>5 DEF Runner!SweepUnwanted
<1>6. CASE Runner!NotExposed
  BY <1>6 DEF Runner!NotExposed
<1>7. CASE Runner!OpenPass
  <2>1. Runner!Exposed(leg)' /\ leg \in Runner!Passes
    BY <1>7, ExposedStays DEF Runner!OpenPass
  <2>2. item' >= 1
    BY <1>7, ScriptConstants DEF Runner!ConstAssumption, Runner!OpenPass, Runner!Items
  <2> QED
    BY <1>7, <2>1, <2>2 DEF Runner!OpenPass
<1>8. CASE Runner!BringupUnwanted
  BY <1>8 DEF Runner!BringupUnwanted
<1>9. CASE Runner!BringupUnmanaged
  <2>1. Runner!Exposed(leg)' /\ leg \in Runner!Passes
    BY <1>9, ExposedStays DEF Runner!BringupUnmanaged
  <2> QED
    BY <1>9, <2>1 DEF Runner!BringupUnmanaged
<1>10. CASE Runner!BringupImpossible
  <2>1. /\ leg' # leg => step' = "end"
        /\ step' \in {"bringup", "summary", "end"}
        /\ step' = "bringup" => item' >= 1
        /\ step' \in {"bringup", "summary"} => leg' = leg /\ leg \in Runner!Sweeps
    BY <1>10, FailedFacts DEF Runner!BringupImpossible
  <2>2. leg' = leg => (Runner!Exposed(leg)' <=> Runner!Exposed(leg))
    BY <1>10, ExposedStays DEF Runner!BringupImpossible
  <2>3. /\ leg \in Runner!Passes /\ Runner!Exposed(leg)
        /\ (leg \in Runner!Sweeps => leg \in only) /\ only' = only
    BY <1>10 DEF Runner!BringupImpossible
  <2> QED
    BY <2>1, <2>2, <2>3
<1>11. CASE Runner!BringupFailed
  <2>1. /\ leg' # leg => step' = "end"
        /\ step' \in {"bringup", "summary", "end"}
        /\ step' = "bringup" => item' >= 1
        /\ step' \in {"bringup", "summary"} => leg' = leg /\ leg \in Runner!Sweeps
    BY <1>11, FailedFacts DEF Runner!BringupFailed
  <2>2. leg' = leg => (Runner!Exposed(leg)' <=> Runner!Exposed(leg))
    BY <1>11, ExposedStays DEF Runner!BringupFailed
  <2>3. /\ leg \in Runner!Passes /\ Runner!Exposed(leg)
        /\ (leg \in Runner!Sweeps => leg \in only) /\ only' = only
    BY <1>11 DEF Runner!BringupFailed
  <2> QED
    BY <2>1, <2>2, <2>3
<1>12. CASE Runner!BringupReady
  <2>1. Runner!Exposed(leg)' /\ leg \in Runner!Passes
    BY <1>12, ExposedStays DEF Runner!BringupReady
  <2> QED
    BY <1>12, <2>1 DEF Runner!BringupReady
<1>13. CASE Runner!RunSuite
  BY <1>13 DEF Runner!RunSuite
<1>14. CASE Runner!Probe
  <2>1. Runner!Exposed(leg)' /\ leg \in Runner!Passes /\ leg \in only
    BY <1>14, ExposedStays DEF Runner!Probe
  <2>2. step' = "bringup" => item' >= 1
    BY <1>14 DEF Runner!Probe, RunnerTypes
  <2> QED
    BY <1>14, <2>1, <2>2 DEF Runner!Probe
<1>15. CASE Runner!Summary
  BY <1>15 DEF Runner!Summary
<1>16. CASE Runner!Measure
  BY <1>16 DEF Runner!Measure
<1>17. CASE Runner!EndPass
  <2>1. leg' \in 1 .. Runner!LastPass + 1 /\ (step' = "gate" => leg' \in Runner!Passes)
    BY <1>17, PassFacts DEF Runner!EndPass, RunnerTypes, Runner!LastPass
  <2>2. step' \in {"end", "gate"}
    BY <1>17 DEF Runner!EndPass
  <2> QED
    BY <2>1, <2>2
<1> QED
  BY <1>1, <1>2, <1>3, <1>4, <1>5, <1>6, <1>7, <1>8, <1>9, <1>10, <1>11, <1>12,
     <1>13, <1>14, <1>15, <1>16, <1>17 DEF Runner!Next

(* The passes that end with CONF_SET not their own leave it to the next one.   *)
LEMMA ConfKeeps == IInv /\ Runner!Next => ConfInv'
<1> SUFFICES ASSUME IInv, Runner!Next
             PROVE  ConfInv'
  OBVIOUS
<1> USE DEF IInv, ConfInv
<1>o. \A p : Runner!Overrides(p)' = Runner!Overrides(p)
  BY DEF Runner!Overrides
<1>1. CASE Runner!NoSuchTarget
  BY <1>1 DEF Runner!NoSuchTarget, Runner!LastPass
<1>2. CASE Runner!ParseError
  <2>1. step' = "end" /\ leg' = Runner!LastPass + 1
    BY <1>2, Zenon DEF Runner!ParseError
  <2> QED
    BY <2>1 DEF Runner!LastPass
<1>3. CASE Runner!StartTarget
  BY <1>3 DEF Runner!StartTarget, PlaceInv
<1>4. CASE Runner!NextTarget
  BY <1>4 DEF Runner!NextTarget
<1>5. CASE Runner!SweepUnwanted
  BY <1>5 DEF Runner!SweepUnwanted
<1>6. CASE Runner!NotExposed
  BY <1>6 DEF Runner!NotExposed
<1>7. CASE Runner!OpenPass
  <2>1. leg \in Runner!Passes
    BY <1>7 DEF Runner!OpenPass, PlaceInv, Inside
  <2>2. confSet' = Runner!Overrides(leg)
    BY <1>7, OverridesFacts DEF Runner!OpenPass
  <2> QED
    BY <1>7, <2>2 DEF Runner!OpenPass
<1>8. CASE Runner!BringupUnwanted
  BY <1>8 DEF Runner!BringupUnwanted
<1>9. CASE Runner!BringupUnmanaged
  BY <1>9 DEF Runner!BringupUnmanaged
<1>10. CASE Runner!BringupImpossible
  <2>1. /\ leg' # leg => step' = "end" /\ leg' = Runner!LastPass + 1
        /\ step' \in {"bringup", "summary", "end"}
    BY <1>10, FailedFacts DEF Runner!BringupImpossible
  <2>2. confSet' = confSet /\ confSet = Runner!Overrides(leg)
    BY <1>10 DEF Runner!BringupImpossible
  <2>3. CASE leg' = leg
    BY <2>1, <2>2, <2>3
  <2>4. CASE leg' # leg
    BY <2>1, <2>4 DEF Runner!LastPass
  <2> QED
    BY <2>3, <2>4
<1>11. CASE Runner!BringupFailed
  <2>1. /\ leg' # leg => step' = "end" /\ leg' = Runner!LastPass + 1
        /\ step' \in {"bringup", "summary", "end"}
    BY <1>11, FailedFacts DEF Runner!BringupFailed
  <2>2. confSet' = confSet /\ confSet = Runner!Overrides(leg)
    BY <1>11 DEF Runner!BringupFailed
  <2>3. CASE leg' = leg
    BY <2>1, <2>2, <2>3
  <2>4. CASE leg' # leg
    BY <2>1, <2>4 DEF Runner!LastPass
  <2> QED
    BY <2>3, <2>4
<1>12. CASE Runner!BringupReady
  BY <1>12 DEF Runner!BringupReady
<1>13. CASE Runner!RunSuite
  BY <1>13 DEF Runner!RunSuite
<1>14. CASE Runner!Probe
  BY <1>14 DEF Runner!Probe
<1>15. CASE Runner!Summary
  BY <1>15 DEF Runner!Summary
<1>16. CASE Runner!Measure
  BY <1>16 DEF Runner!Measure
<1>17. CASE Runner!EndPass
  <2>1. leg \in 1 .. 12 /\ leg' = leg + 1
    BY <1>17 DEF Runner!EndPass, RunnerTypes, Runner!LastPass
  <2>2. leg = 4 \/ confSet' = "own"
    BY <1>17 DEF Runner!EndPass, Runner!Restores
  <2>3. confSet' = "own" \/ (leg = 4 /\ confSet' = Runner!Overrides(5))
    BY <1>17, <2>2, OverridesFacts DEF Runner!EndPass
  <2>4. CASE leg = Runner!LastPass
    BY <1>17, <2>1, <2>3, <2>4 DEF Runner!EndPass, Runner!LastPass
  <2>5. CASE leg # Runner!LastPass
    BY <1>17, <2>1, <2>3, <2>5 DEF Runner!EndPass
  <2> QED
    BY <2>4, <2>5
<1> QED
  BY <1>1, <1>2, <1>3, <1>4, <1>5, <1>6, <1>7, <1>8, <1>9, <1>10, <1>11, <1>12,
     <1>13, <1>14, <1>15, <1>16, <1>17 DEF Runner!Next

(* A step that probes nothing and gives no verdict leaves the sweeps as told,   *)
(* if it begins, ends and leaves none of them in the middle.                   *)
LEMMA SickCarried ==
  ASSUME SickInv, UNCHANGED <<sick, unread>>, failed => failed', fails' = fails,
         \A t \in 1 .. Target, p \in Runner!Sweeps :
           /\ Before(t, p)' => Before(t, p)
           /\ Here(t, p) <=> Here(t, p)'
           /\ rows'[t][p] \cap Verdicts = rows[t][p] \cap Verdicts
  PROVE  SickInv'
  BY DEF SickInv

(* Recording no verdict.                                                       *)
LEMMA NoVerdict ==
  ASSUME RunnerTypes, leg \in Runner!Passes, NEW r \in Runner!Result,
         Runner!Record(leg, r),
         r \notin Verdicts \/ leg \notin Runner!Sweeps
  PROVE  /\ failed => failed'
         /\ \A t \in 1 .. Target, p \in Runner!Sweeps :
              rows'[t][p] \cap Verdicts = rows[t][p] \cap Verdicts
<1>1. /\ rows'[target][leg] = rows[target][leg] \cup {r}
      /\ \A t \in 1 .. Target, q \in Row :
           rows'[t][q] # rows[t][q] => t = target /\ q = leg
  BY PassFacts, RecordFacts
<1>2. failed => failed'
  BY DEF Runner!Record
<1>3. Runner!Sweeps \subseteq Row
  BY DEF Runner!Sweeps, Row, Runner!LastPass
<1> QED
  BY <1>1, <1>2, <1>3

(* A target without a pass has its row; the passes' rows stay as they are.     *)
LEMMA NoPassRow ==
  ASSUME RunnerTypes, NEW r \in Runner!Result, Runner!Record(Runner!NoLabel, r)
  PROVE  /\ failed => failed'
         /\ \A t \in 1 .. Target, p \in Runner!Sweeps : rows'[t][p] = rows[t][p]
<1>1. \A t \in 1 .. Target, q \in Row : rows'[t][q] # rows[t][q] => q = Runner!NoLabel
  <2>1. Runner!NoLabel \in Row
    BY PassFacts
  <2> QED
    BY <2>1, RecordFacts
<1>2. Runner!Sweeps \subseteq Row /\ Runner!NoLabel \notin Runner!Sweeps
  BY DEF Runner!Sweeps, Row, Runner!LastPass, Runner!NoLabel
<1>3. failed => failed'
  BY DEF Runner!Record
<1> QED
  BY <1>1, <1>2, <1>3

(* The suites and the measurements are no sweeps.                              *)
LEMMA SweepFacts == \A p \in {1, 2, 3, 4, 5, 6, 10, 11, 12} : p \notin Runner!Sweeps
  BY DEF Runner!Sweeps

(* A broken item is in the count of its sweep, then in its row.                *)
LEMMA SickKeeps == IInv /\ Runner!Next => SickInv'
<1> SUFFICES ASSUME IInv, Runner!Next
             PROVE  SickInv'
  OBVIOUS
<1> USE DEF IInv, Runner!past
<1>p. Inside => leg \in Runner!Passes
  BY DEF PlaceInv
<1>f. {"skipped", "n/a", "BRING-UP FAILED", "no result line", "skip", "failed", "passed"}
        \subseteq Runner!Result
  BY DEF Runner!Result, Runner!Failures, Runner!Skipped
<1>v. {"skipped", "n/a", "BRING-UP FAILED"} \cap Verdicts = {}
  BY DEF Verdicts
<1>s. /\ Runner!Sweeps \subseteq Runner!Passes /\ Runner!Passes \subseteq Row
      /\ Runner!NoLabel \notin Runner!Sweeps
  BY PassFacts DEF Runner!Sweeps, Runner!NoLabel
<1>1. CASE Runner!NoSuchTarget
  <2>0. target' = target /\ leg' = 13 /\ leg = 1 /\ step' = "end" /\ step = "target"
    BY <1>1 DEF Runner!NoSuchTarget, PlaceInv, Runner!LastPass
  <2>1. \A t \in 1 .. Target, p \in Runner!Sweeps : Before(t, p)' => Before(t, p)
    BY <2>0 DEF Before, Runner!Sweeps
  <2> QED
    BY <1>1, <2>1, SickCarried DEF Runner!NoSuchTarget, Here
<1>2. CASE Runner!ParseError
  <2>0. target' = target /\ leg' = 13 /\ leg = 1 /\ step' = "end" /\ step = "target"
    <3>1. /\ UNCHANGED target /\ leg' = Runner!LastPass + 1 /\ step' = "end" /\ step = "target"
          /\ leg = 1
      BY <1>2, Zenon DEF Runner!ParseError, PlaceInv
    <3> QED
      BY <3>1 DEF Runner!LastPass
  <2>1. \A t \in 1 .. Target, p \in Runner!Sweeps : Before(t, p)' => Before(t, p)
    BY <2>0 DEF Before, Runner!Sweeps
  <2>2. /\ Runner!Record(Runner!NoLabel, "CONF PARSE ERROR")
        /\ "CONF PARSE ERROR" \in Runner!Result
    BY <1>2 DEF Runner!ParseError, Runner!Result, Runner!Failures
  <2>3. /\ failed => failed'
        /\ \A t \in 1 .. Target, p \in Runner!Sweeps : rows'[t][p] = rows[t][p]
    BY <2>2, NoPassRow
  <2> QED
    BY <1>2, <2>1, <2>3, SickCarried DEF Runner!ParseError, Here
<1>3. CASE Runner!StartTarget
  BY <1>3, SickCarried DEF Runner!StartTarget, Before, Here
<1>4. CASE Runner!NextTarget
  <2>1. CASE UNCHANGED <<target, leg>> /\ step' = "done"
    BY <1>4, <2>1, SickCarried DEF Runner!NextTarget, Before, Here
  <2>2. CASE target' = target + 1 /\ leg' = 1 /\ step' = "target"
    <3>1. \A t \in 1 .. Target, p \in Runner!Sweeps : Before(t, p)' => Before(t, p)
      BY <2>2 DEF Before, RunnerTypes
    <3> QED
      BY <1>4, <2>2, <3>1, SickCarried DEF Runner!NextTarget, Here
  <2> QED
    BY <1>4, <2>1, <2>2 DEF Runner!NextTarget
<1>5. CASE Runner!SweepUnwanted
  BY <1>5, <1>p, <1>f, <1>v, NoVerdict, SickCarried DEF Runner!SweepUnwanted, Inside,
     Before, Here
<1>6. CASE Runner!NotExposed
  <2>1. /\ failed => failed'
        /\ \A t \in 1 .. Target, p \in Runner!Sweeps :
             rows'[t][p] \cap Verdicts = rows[t][p] \cap Verdicts
    BY <1>6, <1>p, <1>f, <1>v, NoVerdict DEF Runner!NotExposed, Inside, Runner!NoRow
  <2> QED
    BY <1>6, <2>1, SickCarried DEF Runner!NotExposed, Before, Here
<1>7. CASE Runner!OpenPass
  <2> SUFFICES ASSUME NEW t \in 1 .. Target, NEW p \in Runner!Sweeps
               PROVE  /\ <<t, p>> \in sick => ~Before(t, p)'
                      /\ Before(t, p)' \/ Here(t, p)' => rows[t][p] \cap Verdicts = {}
                      /\ <<t, p>> \in sick \ unread =>
                           IF Here(t, p)' THEN fails' > 0
                           ELSE rows[t][p] \cap Verdicts = {"failed"} /\ failed
    BY <1>7 DEF Runner!OpenPass, SickInv
  <2>1. Before(t, p)' => Before(t, p)
    BY <1>7 DEF Runner!OpenPass, Before
  <2>2. Here(t, p)' => Before(t, p)
    BY <1>7 DEF Runner!OpenPass, Before, Here
  <2>3. ~Here(t, p)
    BY <1>7 DEF Runner!OpenPass, Here
  <2> QED
    BY <2>1, <2>2, <2>3 DEF SickInv
<1>8. CASE Runner!BringupUnwanted
  <2>1. leg \notin Runner!Sweeps
    BY <1>8 DEF Runner!BringupUnwanted, PlaceInv
  <2>2. \A t \in 1 .. Target, p \in Runner!Sweeps : ~Here(t, p) /\ ~Here(t, p)'
    BY <1>8, <2>1 DEF Runner!BringupUnwanted, Here
  <2> QED
    BY <1>8, <2>2, <1>p, <1>f, <1>v, NoVerdict, SickCarried
       DEF Runner!BringupUnwanted, Inside, Before
<1>9. CASE Runner!BringupUnmanaged
  BY <1>9, SickCarried DEF Runner!BringupUnmanaged, Before, Here
<1>a. ASSUME step = "bringup", Runner!AfterBringupFailed, UNCHANGED <<target, unread>>,
             failed => failed',
             \A t \in 1 .. Target, p \in Runner!Sweeps :
               rows'[t][p] \cap Verdicts = rows[t][p] \cap Verdicts
      PROVE  SickInv'
  <2>1. CASE leg \notin Runner!Sweeps
    <3>1. UNCHANGED <<fails, sick>> /\ step' = "end" /\ leg' \in {leg, Runner!LastPass + 1}
      BY <1>a, <2>1 DEF Runner!AfterBringupFailed
    <3>2. \A t \in 1 .. Target, p \in Runner!Sweeps : ~Here(t, p) /\ ~Here(t, p)'
      BY <1>a, <2>1, <3>1 DEF Here
    <3>3. \A t \in 1 .. Target, p \in Runner!Sweeps : Before(t, p)' => Before(t, p)
      BY <1>a, <3>1 DEF Before, Runner!Sweeps, Runner!LastPass, RunnerTypes
    <3> QED
      BY <1>a, <3>1, <3>2, <3>3, SickCarried
  <2>2. CASE leg \in Runner!Sweeps
    <3>1. /\ fails' = fails + 1 /\ sick' = sick \cup {<<target, leg>>} /\ leg' = leg
          /\ step' \in {"bringup", "summary"}
      BY <1>a, <2>2 DEF Runner!AfterBringupFailed
    <3>2. fails' > 0
      BY <3>1 DEF RunnerTypes
    <3> SUFFICES ASSUME NEW t \in 1 .. Target, NEW p \in Runner!Sweeps
                 PROVE  /\ <<t, p>> \in sick' => ~Before(t, p)'
                        /\ Before(t, p)' \/ Here(t, p)' => rows'[t][p] \cap Verdicts = {}
                        /\ <<t, p>> \in sick' \ unread' =>
                             IF Here(t, p)' THEN fails' > 0
                             ELSE rows'[t][p] \cap Verdicts = {"failed"} /\ failed'
      BY DEF SickInv
    <3>3. (Before(t, p)' <=> Before(t, p)) /\ (Here(t, p)' <=> Here(t, p))
      BY <1>a, <3>1 DEF Before, Here
    <3>4. <<t, p>> = <<target, leg>> => Here(t, p) /\ ~Before(t, p)
      BY <1>a DEF Here, Before, RunnerTypes
    <3> QED
      BY <1>a, <3>1, <3>2, <3>3, <3>4 DEF SickInv
  <2> QED
    BY <2>1, <2>2
<1>10. CASE Runner!BringupImpossible
  BY <1>10, <1>a DEF Runner!BringupImpossible
<1>11. CASE Runner!BringupFailed
  <2>1. /\ failed => failed'
        /\ \A t \in 1 .. Target, p \in Runner!Sweeps :
             rows'[t][p] \cap Verdicts = rows[t][p] \cap Verdicts
    BY <1>11, <1>p, <1>f, <1>v, NoVerdict DEF Runner!BringupFailed, Inside
  <2> QED
    BY <1>11, <2>1, <1>a DEF Runner!BringupFailed
<1>12. CASE Runner!BringupReady
  BY <1>12, SickCarried DEF Runner!BringupReady, Before, Here
<1>13. CASE Runner!RunSuite
  <2>1. PICK r \in {"passed", "failed", "no result line"} : Runner!Record(leg, r)
    BY <1>13 DEF Runner!RunSuite
  <2>2. leg \notin Runner!Sweeps /\ leg \in Runner!Passes /\ r \in Runner!Result
    <3>1. leg \in {1, 2, 3, 4, 5, 6, 10}
      BY <1>13, Zenon DEF Runner!RunSuite
    <3>4. leg \notin Runner!Sweeps
      BY <3>1, SweepFacts
    <3>2. leg \in Runner!Passes
      BY <1>13, <1>p DEF Runner!RunSuite, Inside
    <3>3. r \in Runner!Result
      BY <2>1, <1>f
    <3> QED
      BY <3>2, <3>3, <3>4
  <2>3. \A t \in 1 .. Target, p \in Runner!Sweeps : ~Here(t, p) /\ ~Here(t, p)'
    BY <1>13, <2>2 DEF Runner!RunSuite, Here
  <2> QED
    BY <1>13, <2>1, <2>2, <2>3, NoVerdict, SickCarried DEF Runner!RunSuite, Before
<1>14. CASE Runner!Probe
  <2>1. PICK broken \in BOOLEAN, got \in BOOLEAN :
          /\ Runner!Count(IF leg = 9 THEN broken /\ got ELSE broken \/ ~got)
          /\ sick' = IF broken THEN sick \cup {<<target, leg>>} ELSE sick
          /\ unread' = IF leg = 9 /\ ~got THEN unread \cup {<<target, leg>>} ELSE unread
    BY <1>14 DEF Runner!Probe
  <2>2. fails' >= fails /\ fails \in Nat /\ fails' \in Nat
    BY <2>1 DEF Runner!Count, RunnerTypes
  <2>3. broken => fails' > 0 \/ <<target, leg>> \in unread'
    BY <2>1 DEF Runner!Count, RunnerTypes
  <2>4. sick' \subseteq sick \cup {<<target, leg>>} /\ unread \subseteq unread'
    BY <2>1
  <2> SUFFICES ASSUME NEW t \in 1 .. Target, NEW p \in Runner!Sweeps
               PROVE  /\ <<t, p>> \in sick' => ~Before(t, p)'
                      /\ Before(t, p)' \/ Here(t, p)' => rows'[t][p] \cap Verdicts = {}
                      /\ <<t, p>> \in sick' \ unread' =>
                           IF Here(t, p)' THEN fails' > 0
                           ELSE rows'[t][p] \cap Verdicts = {"failed"} /\ failed'
    BY DEF SickInv
  <2>5. (Before(t, p)' <=> Before(t, p)) /\ (Here(t, p)' <=> Here(t, p))
    BY <1>14 DEF Runner!Probe, Before, Here
  <2>6. <<t, p>> = <<target, leg>> => Here(t, p) /\ ~Before(t, p)
    BY <1>14 DEF Runner!Probe, Here, Before, RunnerTypes
  <2>7. rows' = rows /\ failed' = failed
    BY <1>14 DEF Runner!Probe
  <2>8. CASE <<t, p>> \in sick
    BY <2>2, <2>4, <2>5, <2>7, <2>8 DEF SickInv
  <2>9. CASE <<t, p>> \notin sick
    <3>1. <<t, p>> \in sick' => <<t, p>> = <<target, leg>> /\ broken
      BY <2>1, <2>9
    <3> QED
      BY <2>3, <2>5, <2>6, <2>7, <3>1 DEF SickInv
  <2> QED
    BY <2>8, <2>9
<1>15. CASE Runner!Summary
  <2>1. step = "summary" /\ leg \in Runner!Sweeps /\ leg \in Runner!Passes /\ leg \in Row
    BY <1>15, <1>s DEF Runner!Summary, PlaceInv
  <2> DEFINE r == IF fails > 0 THEN "failed" ELSE "passed"
  <2>2. Runner!Record(leg, r) /\ r \in Runner!Result /\ r \in Verdicts
    BY <1>15, <1>f DEF Runner!Summary, Verdicts
  <2> HIDE DEF r
  <2>3. /\ rows'[target][leg] = rows[target][leg] \cup {r}
        /\ \A t \in 1 .. Target, q \in Row :
             rows'[t][q] # rows[t][q] => t = target /\ q = leg
    BY <2>1, <2>2, RecordFacts
  <2>4. failed' = (failed \/ r \in Runner!Failures)
    BY <2>2 DEF Runner!Record
  <2> SUFFICES ASSUME NEW t \in 1 .. Target, NEW p \in Runner!Sweeps
               PROVE  /\ <<t, p>> \in sick => ~Before(t, p)'
                      /\ Before(t, p)' \/ Here(t, p)' => rows'[t][p] \cap Verdicts = {}
                      /\ <<t, p>> \in sick \ unread =>
                           IF Here(t, p)' THEN fails' > 0
                           ELSE rows'[t][p] \cap Verdicts = {"failed"} /\ failed'
    BY <1>15 DEF Runner!Summary, SickInv
  <2>5. (Before(t, p)' <=> Before(t, p)) /\ ~Here(t, p)'
    BY <1>15 DEF Runner!Summary, Before, Here
  <2>6. CASE t = target /\ p = leg
    <3>1. Here(t, p) /\ ~Before(t, p) /\ rows[t][p] \cap Verdicts = {}
      <4>1. Here(t, p)
        BY <2>1, <2>6 DEF Here
      <4>2. ~Before(t, p)
        BY <2>1, <2>6 DEF Before, RunnerTypes
      <4> QED
        BY <4>1, <4>2 DEF SickInv
    <3>2. <<t, p>> \in sick \ unread => r = "failed"
      BY <3>1 DEF SickInv, r
    <3>3. rows'[t][p] \cap Verdicts = {r}
      BY <2>2, <2>3, <2>6, <3>1
    <3> QED
      BY <2>4, <2>5, <3>1, <3>2, <3>3 DEF Runner!Failures
  <2>7. CASE ~(t = target /\ p = leg)
    <3>1. ~Here(t, p) /\ rows'[t][p] = rows[t][p]
      BY <2>3, <2>7, <1>s DEF Here
    <3> QED
      BY <2>4, <2>5, <3>1 DEF SickInv
  <2> QED
    BY <2>6, <2>7
<1>16. CASE Runner!Measure
  <2>1. PICK r \in {"passed", "failed", IF leg = 11 THEN "n/a" ELSE "skip"} : Runner!Record(leg, r)
    BY <1>16 DEF Runner!Measure
  <2>2. leg \notin Runner!Sweeps /\ leg \in Runner!Passes /\ r \in Runner!Result
    <3>1. leg \notin Runner!Sweeps
      BY <1>16 DEF Runner!Measure, Runner!Sweeps
    <3>2. leg \in Runner!Passes
      BY <1>16, <1>p DEF Runner!Measure, Inside
    <3>3. r \in Runner!Result
      BY <2>1, <1>f
    <3> QED
      BY <3>1, <3>2, <3>3
  <2>3. \A t \in 1 .. Target, p \in Runner!Sweeps : ~Here(t, p) /\ ~Here(t, p)'
    BY <1>16, <2>2 DEF Runner!Measure, Here
  <2> QED
    BY <1>16, <2>1, <2>2, <2>3, NoVerdict, SickCarried DEF Runner!Measure, Before
<1>17. CASE Runner!EndPass
  <2>1. leg' = leg + 1 /\ step' \in {"end", "gate"} /\ leg \in Nat
    BY <1>17 DEF Runner!EndPass, RunnerTypes
  <2>2. \A t \in 1 .. Target, p \in Runner!Sweeps : Before(t, p)' => Before(t, p)
    BY <1>17, <2>1 DEF Runner!EndPass, Before, Runner!Sweeps
  <2> QED
    BY <1>17, <2>1, <2>2, SickCarried DEF Runner!EndPass, Here
<1> QED
  BY <1>1, <1>2, <1>3, <1>4, <1>5, <1>6, <1>7, <1>8, <1>9, <1>10, <1>11, <1>12,
     <1>13, <1>14, <1>15, <1>16, <1>17 DEF Runner!Next

(* A pass runs what its own bring-up has put there.                            *)
LEMMA TestedKeeps == IInv /\ Runner!Next => Runner!TestedAsBroughtUp'
<1> SUFFICES ASSUME IInv, Runner!Next
             PROVE  Runner!TestedAsBroughtUp'
  OBVIOUS
<1> USE DEF IInv, Runner!TestedAsBroughtUp
<1>o. \A p : Runner!Overrides(p)' = Runner!Overrides(p)
  BY DEF Runner!Overrides
<1>1. CASE Runner!NoSuchTarget
  BY <1>1 DEF Runner!NoSuchTarget
<1>2. CASE Runner!ParseError
  BY <1>2 DEF Runner!ParseError
<1>3. CASE Runner!StartTarget
  BY <1>3 DEF Runner!StartTarget
<1>4. CASE Runner!NextTarget
  BY <1>4 DEF Runner!NextTarget
<1>5. CASE Runner!SweepUnwanted
  BY <1>5 DEF Runner!SweepUnwanted
<1>6. CASE Runner!NotExposed
  BY <1>6 DEF Runner!NotExposed
<1>7. CASE Runner!OpenPass
  BY <1>7 DEF Runner!OpenPass
<1>8. CASE Runner!BringupUnwanted
  BY <1>8 DEF Runner!BringupUnwanted
<1>9. CASE Runner!BringupUnmanaged
  BY <1>9 DEF Runner!BringupUnmanaged
<1>10. CASE Runner!BringupImpossible
  BY <1>10, FailedFacts DEF Runner!BringupImpossible
<1>11. CASE Runner!BringupFailed
  BY <1>11, FailedFacts DEF Runner!BringupFailed
<1>12. CASE Runner!BringupReady
  <2>1. confSet = Runner!Overrides(leg)
    BY <1>12 DEF Runner!BringupReady, ConfInv
  <2> QED
    BY <1>12, <2>1, <1>o DEF Runner!BringupReady
<1>13. CASE Runner!RunSuite
  BY <1>13 DEF Runner!RunSuite
<1>14. CASE Runner!Probe
  BY <1>14 DEF Runner!Probe
<1>15. CASE Runner!Summary
  BY <1>15 DEF Runner!Summary
<1>16. CASE Runner!Measure
  BY <1>16 DEF Runner!Measure
<1>17. CASE Runner!EndPass
  BY <1>17 DEF Runner!EndPass
<1> QED
  BY <1>1, <1>2, <1>3, <1>4, <1>5, <1>6, <1>7, <1>8, <1>9, <1>10, <1>11, <1>12,
     <1>13, <1>14, <1>15, <1>16, <1>17 DEF Runner!Next

(* An excused pass stays excused while its target lasts.                       *)
LEMMA ExcusedStays ==
  ASSUME RunnerTypes, UNCHANGED <<conf, target>>, NEW p \in Runner!Passes, Runner!Excused(p),
         \A q \in Row : rows[target][q] \subseteq rows'[target][q]
  PROVE  Runner!Excused(p)'
<1>1. Runner!Exposed(p)' <=> Runner!Exposed(p)
  BY DEF Runner!Exposed
<1>2. Runner!RecordsNa(p)' <=> Runner!RecordsNa(p)
  BY DEF Runner!RecordsNa
<1>3. 1 \in Row /\ 2 \in Row
  BY DEF Row, Runner!LastPass
<1> QED
  BY <1>1, <1>2, <1>3 DEF Runner!Excused

(* A step within a pass leaves the rows behind it, and at the end of the pass  *)
(* its own row is one of them.                                                 *)
LEMMA WithinPass ==
  ASSUME RunnerTypes, RowInv, leg \in Runner!Passes, Inside, UNCHANGED <<conf, target, leg>>,
         \A q \in Row : rows[target][q] \subseteq rows'[target][q],
         step' = "end" => rows'[target][leg] # {} \/ Runner!Excused(leg)'
  PROVE  RowInv'
<1> SUFFICES ASSUME NEW p \in Runner!Passes, p \in Behind'
             PROVE  rows'[target][p] # {} \/ Runner!Excused(p)'
  BY DEF RowInv
<1>1. p \in 1 .. leg /\ (p = leg => step' = "end")
  BY PassFacts DEF Behind
<1>2. CASE p = leg
  BY <1>1, <1>2
<1>3. CASE p # leg
  <2>1. p \in Behind /\ p \in Row
    BY <1>1, <1>3, PassFacts DEF Behind, Inside
  <2>2. rows[target][p] # {} \/ Runner!Excused(p)
    BY <2>1 DEF RowInv
  <2> QED
    BY <2>1, <2>2, ExcusedStays
<1> QED
  BY <1>2, <1>3

(* A pass that ends with a result recorded has its row.                        *)
LEMMA WithResult ==
  ASSUME IInv, Inside, UNCHANGED <<conf, target, leg>>, NEW r \in Runner!Result,
         Runner!Record(leg, r)
  PROVE  RowInv'
<1>1. leg \in Runner!Passes /\ leg \in Row
  BY PassFacts DEF IInv, PlaceInv
<1>2. /\ rows'[target][leg] = rows[target][leg] \cup {r}
      /\ \A q \in Row : rows[target][q] \subseteq rows'[target][q]
  BY <1>1, RecordFacts DEF IInv
<1> QED
  BY <1>1, <1>2, WithinPass DEF IInv

(* And so has one whose rows do not change and which does not end.             *)
LEMMA WithoutResult ==
  ASSUME IInv, Inside, UNCHANGED <<conf, target, leg, rows>>,
         step' = "end" => Runner!Excused(leg)'
  PROVE  RowInv'
<1>1. leg \in Runner!Passes
  BY DEF IInv, PlaceInv
<1> QED
  BY <1>1, WithinPass DEF IInv

(* The rows of the passes the runner leaves behind.                            *)
LEMMA RowKeeps == IInv /\ Runner!Next => RowInv'
<1> SUFFICES ASSUME IInv, Runner!Next
             PROVE  RowInv'
  OBVIOUS
<1>f. {"CONF PARSE ERROR", "skipped", "n/a", "BRING-UP FAILED", "passed", "failed",
       "no result line", "skip"} \subseteq Runner!Result
  BY DEF Runner!Result, Runner!Failures, Runner!Skipped
<1>1. CASE Runner!NoSuchTarget
  <2>1. \A p : Runner!Excused(p)'
    BY <1>1 DEF Runner!NoSuchTarget, Runner!Excused
  <2> QED
    BY <2>1 DEF RowInv
<1>2. CASE Runner!ParseError
  <2>1. \A p : Runner!Excused(p)'
    BY <1>2 DEF Runner!ParseError, Runner!Excused
  <2> QED
    BY <2>1 DEF RowInv
<1>3. CASE Runner!StartTarget
  <2>1. Behind' = {}
    BY <1>3 DEF Runner!StartTarget, Behind, IInv, PlaceInv
  <2> QED
    BY <2>1 DEF RowInv
<1>4. CASE Runner!NextTarget
  BY <1>4, NextTargetFrom DEF RowInv, Inside
<1>5. CASE Runner!SweepUnwanted
  BY <1>5, WithResult, <1>f DEF Runner!SweepUnwanted, Inside
<1>6. CASE Runner!NotExposed
  <2>1. CASE Runner!RecordsNa(leg)
    BY <1>6, <2>1, WithResult, <1>f DEF Runner!NotExposed, Inside
  <2>2. CASE ~Runner!RecordsNa(leg)
    <3>1. Runner!Excused(leg)
      BY <1>6, <2>2 DEF Runner!NotExposed, Runner!Excused
    <3>2. leg \in Runner!Passes
      BY <1>6 DEF Runner!NotExposed, IInv, PlaceInv, Inside
    <3>3. UNCHANGED <<conf, target, leg, rows>>
      BY <1>6, <2>2 DEF Runner!NotExposed, Runner!NoRow
    <3>4. Runner!Excused(leg)'
      BY <3>1, <3>2, <3>3, ExcusedStays DEF IInv
    <3> QED
      BY <1>6, <3>3, <3>4, WithoutResult DEF Runner!NotExposed, Inside
  <2> QED
    BY <2>1, <2>2
<1>7. CASE Runner!OpenPass
  BY <1>7, WithoutResult DEF Runner!OpenPass, Inside
<1>8. CASE Runner!BringupUnwanted
  BY <1>8, WithResult, <1>f DEF Runner!BringupUnwanted, Inside
<1>9. CASE Runner!BringupUnmanaged
  BY <1>9, WithoutResult DEF Runner!BringupUnmanaged, Inside
<1>10. CASE Runner!BringupImpossible
  <2>1. \A p : Runner!Excused(p)'
    BY <1>10 DEF Runner!BringupImpossible, Runner!Excused
  <2> QED
    BY <2>1 DEF RowInv
<1>11. CASE Runner!BringupFailed
  <2>1. CASE leg' = leg
    BY <1>11, <2>1, WithResult, <1>f DEF Runner!BringupFailed, Inside
  <2>2. CASE leg' # leg
    <3>0. step = "bringup" /\ RunnerTypes /\ PlaceInv /\ Runner!AfterBringupFailed
      BY <1>11 DEF Runner!BringupFailed, IInv
    <3>1. leg \in {1, 2} /\ step' = "end" /\ leg \in Row
      <4>1. leg \in {1, 2} /\ step' = "end"
        BY <2>2, <3>0, FailedFacts
      <4> QED
        BY <4>1 DEF Row, Runner!LastPass
    <3>2. Runner!Record(leg, "BRING-UP FAILED") /\ UNCHANGED <<conf, target>>
      BY <1>11 DEF Runner!BringupFailed
    <3>3. /\ "BRING-UP FAILED" \in rows'[target][leg]
          /\ \A q \in Row : rows[target][q] \subseteq rows'[target][q]
      <4>1. "BRING-UP FAILED" \in Runner!Result
        BY DEF Runner!Result, Runner!Failures
      <4>2. RunnerTypes /\ leg \in Row /\ Runner!Record(leg, "BRING-UP FAILED")
        BY <3>0, <3>1, <3>2
      <4>3. rows'[target][leg] = rows[target][leg] \cup {"BRING-UP FAILED"}
        BY <4>1, <4>2, RecordFacts
      <4>4. \A q \in Row : rows[target][q] \subseteq rows'[target][q]
        BY <4>1, <4>2, RecordFacts
      <4> QED
        BY <4>3, <4>4
    <3>4. ASSUME NEW p \in Runner!Passes
          PROVE  rows'[target][p] # {} \/ Runner!Excused(p)'
      <4>1. CASE p < leg
        <5>1. p \in Behind /\ p \in Row
          BY <3>0, <3>1, <4>1, PassFacts DEF Behind
        <5>2. rows[target][p] # {} \/ Runner!Excused(p)
          BY <1>11, <5>1 DEF Runner!BringupFailed, IInv, RowInv, Inside
        <5> QED
          BY <3>2, <3>3, <5>1, <5>2, ExcusedStays DEF IInv
      <4>2. CASE p = leg
        BY <3>3, <4>2
      <4>3. CASE leg < p
        BY <3>1, <3>2, <3>3, <4>3 DEF Runner!Excused
      <4> QED
        BY <3>1, <4>1, <4>2, <4>3, PassFacts
    <3> QED
      BY <3>2, <3>4 DEF RowInv
  <2> QED
    BY <2>1, <2>2
<1>12. CASE Runner!BringupReady
  BY <1>12, WithoutResult DEF Runner!BringupReady, Inside
<1>13. CASE Runner!RunSuite
  <2>1. PICK r \in {"passed", "failed", "no result line"} : Runner!Record(leg, r)
    BY <1>13 DEF Runner!RunSuite
  <2> QED
    BY <1>13, <2>1, WithResult, <1>f DEF Runner!RunSuite, Inside
<1>14. CASE Runner!Probe
  BY <1>14, WithoutResult DEF Runner!Probe, Inside
<1>15. CASE Runner!Summary
  BY <1>15, WithResult, <1>f DEF Runner!Summary, Inside
<1>16. CASE Runner!Measure
  <2>1. PICK r \in {"passed", "failed", IF leg = 11 THEN "n/a" ELSE "skip"} : Runner!Record(leg, r)
    BY <1>16 DEF Runner!Measure
  <2> QED
    BY <1>16, <2>1, WithResult, <1>f DEF Runner!Measure, Inside
<1>17. CASE Runner!EndPass
  <2>1. leg \in Runner!Passes /\ UNCHANGED <<conf, target, rows>>
    BY <1>17, PassFacts DEF Runner!EndPass, IInv, RunnerTypes, Runner!LastPass
  <2>2. ASSUME NEW p \in Runner!Passes, p \in Behind'
        PROVE  p \in Behind
    BY <1>17, <2>1, <2>2, PassFacts DEF Runner!EndPass, Behind, Runner!LastPass
  <2>3. \A p \in Runner!Passes : Runner!Excused(p) => Runner!Excused(p)'
    BY <2>1, ExcusedStays DEF IInv
  <2> QED
    BY <1>17, <2>1, <2>2, <2>3 DEF Runner!EndPass, IInv, RowInv
<1> QED
  BY <1>1, <1>2, <1>3, <1>4, <1>5, <1>6, <1>7, <1>8, <1>9, <1>10, <1>11, <1>12,
     <1>13, <1>14, <1>15, <1>16, <1>17 DEF Runner!Next

(* A step of the runner keeps them all.                                        *)
LEMMA StepKeeps == IInv /\ [Runner!Next]_(Runner!vars) => IInv'
<1> SUFFICES ASSUME IInv, [Runner!Next]_(Runner!vars)
             PROVE  IInv'
  OBVIOUS
<1>1. CASE Runner!Next
  BY <1>1, TypeKeeps, PlaceKeeps, ConfKeeps, SickKeeps, TestedKeeps, RowKeeps DEF IInv
<1>2. CASE UNCHANGED Runner!vars
  <2>1. RunnerTypes' /\ SickInv'
    BY <1>2 DEF Runner!vars, Runner!past, IInv, RunnerTypes, SickInv, Before, Here
  <2>2. PlaceInv'
    BY <1>2, ExposedStays DEF Runner!vars, IInv, PlaceInv, Inside
  <2>3. ConfInv' /\ Runner!TestedAsBroughtUp'
    BY <1>2 DEF Runner!vars, IInv, ConfInv, Runner!TestedAsBroughtUp, Runner!Overrides
  <2>4. \A p \in Runner!Passes : Runner!Excused(p) => Runner!Excused(p)'
    BY <1>2, ExcusedStays DEF Runner!vars, IInv
  <2>5. RowInv'
    BY <1>2, <2>4 DEF Runner!vars, IInv, RowInv, Behind, Inside
  <2> QED
    BY <2>1, <2>2, <2>3, <2>5 DEF IInv
<1> QED
  BY <1>1, <1>2

(* The place of the runner, its CONF_SET, what it has brought up, its count    *)
(* and its rows belong together.                                               *)
RunnerInv == part = "battery" => IInv

THEOREM Invariance == ScriptsSpec => []RunnerInv
<1>1. ScriptsInit => RunnerInv
  BY InitHolds DEF ScriptsInit, RunnerInv
<1>2. RunnerInv /\ [ScriptsNext]_all => RunnerInv'
  <2> SUFFICES ASSUME RunnerInv, [ScriptsNext]_all, part' = "battery"
               PROVE  IInv'
    BY DEF RunnerInv
  <2>1. part = "battery" /\ [Runner!Next]_(Runner!vars)
    BY DEF ScriptsNext, all, runnerVars, Runner!vars, Runner!past
  <2> QED
    BY <2>1, StepKeeps DEF RunnerInv
<1> QED
  BY <1>1, <1>2, PTL DEF ScriptsSpec

(* Types of the runner's variables, for any confs and targets.                 *)
THEOREM TypeCorrect == ScriptsSpec => [](part = "battery" => RunnerTypes)
<1>1. RunnerInv => (part = "battery" => RunnerTypes)
  BY DEF RunnerInv, IInv
<1> QED
  BY <1>1, Invariance, PTL

(* A sweep with a broken item fails, in its row and in the exit status.        *)
THEOREM SweepCorrect == ScriptsSpec => []SweepTold
<1>1. RunnerInv => SweepTold
  <2> SUFFICES ASSUME IInv, NEW s \in sick \ unread
               PROVE  /\ "passed" \notin rows[s[1]][s[2]]
                      /\ step = "done" => "failed" \in rows[s[1]][s[2]] /\ failed
    BY DEF RunnerInv, SweepTold, Runner!SweepTold
  <2>1. PICK t \in 1 .. Target, p \in Runner!Sweeps : s = <<t, p>>
    BY DEF IInv, RunnerTypes
  <2>2. /\ Here(t, p) => rows[t][p] \cap Verdicts = {} /\ step # "done"
        /\ ~Here(t, p) => rows[t][p] \cap Verdicts = {"failed"} /\ failed
    BY <2>1 DEF IInv, SickInv, Here
  <2> QED
    BY <2>1, <2>2 DEF Verdicts
<1> QED
  BY <1>1, Invariance, PTL

(* No suite, probe or measurement meets what another pass brought up, or the   *)
(* CONF_SET of another pass.                                                   *)
THEOREM TestedCorrect == ScriptsSpec => []TestedAsBroughtUp
<1>1. RunnerInv => TestedAsBroughtUp
  BY DEF RunnerInv, IInv, TestedAsBroughtUp
<1> QED
  BY <1>1, Invariance, PTL

(* Every pass of a target that is through has its row, or is excused.          *)
THEOREM RowsCorrect == ScriptsSpec => []RowsButForExcused
<1>1. RunnerInv => RowsButForExcused
  <2> SUFFICES ASSUME IInv, step = "end", leg > Runner!LastPass, NEW p \in Runner!Passes
               PROVE  rows[target][p] # {} \/ Runner!Excused(p)
    BY DEF RunnerInv, RowsButForExcused, Runner!RowsButForExcused
  <2>1. p \in Behind
    BY PassFacts DEF Behind, IInv, RunnerTypes, Runner!LastPass
  <2> QED
    BY <2>1 DEF IInv, RowInv
<1> QED
  BY <1>1, Invariance, PTL

================================================================================
