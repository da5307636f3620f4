----------------------------- MODULE MCLateLegs -----------------------------
(* late_legs for TLC: its legs do not meet, each finds the device as it is,   *)
(* so a behaviour here is one of either the clock step, against every server  *)
(* design and with a dropped session that can linger for two of the three     *)
(* tries, or the restart of the producer with the resolution flips.           *)
EXTENDS RestartLegs

CONSTANTS Server, Linger, Tries

VARIABLES
  leg,                                        \* "clock" or "restart"
  csPc, csPolls, csVerdict, csOld,            \* ClockStep's pc, polls, verdict, old
  ntpdWas, stopped, forward, back, idle, tries, rearm, report,
  clock, ntpd, ntpdHad, script, server, session, moved, anchor

ClockLeg == INSTANCE ClockStep
              WITH pc <- csPc, polls <- csPolls, verdict <- csVerdict, old <- csOld

ASSUME ClockConstants == ClockLeg!ConstAssumption

MCServers == [{"rtpFollows", "srFollows", "keepsAnchor"} -> BOOLEAN]

clockVars == <<csPc, csPolls, csVerdict, csOld, ntpdWas, stopped, forward, back, idle, tries,
               rearm, report, clock, ntpd, ntpdHad, script, server, session, moved, anchor>>
LateVars == <<leg, vars, clockVars>>

LateInit ==
  /\ leg \in {"clock", "restart"}
  /\ Init /\ (leg = "clock" => kind = "rvd")
  /\ ClockLeg!Init
  /\ leg = "restart" =>
       csOld = 0 /\ ntpdHad /\ script /\ server = [d \in ClockLeg!Design |-> TRUE]

LateNext ==
  \/ leg = "clock" /\ ClockLeg!Next /\ UNCHANGED <<leg, vars>>
  \/ leg = "restart" /\ Next /\ UNCHANGED <<leg, clockVars>>

\* The fairness of the two specifications.
LateSpec ==
  /\ LateInit /\ [][LateNext]_LateVars
  /\ leg = "clock" => WF_clockVars(ClockLeg!Leg) /\ WF_clockVars(ClockLeg!StepForward)
  /\ leg = "restart" => WF_vars(Legs) /\ WF_vars(OldExits) /\ WF_vars(RiderEnds)

\* The clock is put back, and no step of it is still to come.
ClockRestored == ClockLeg!ClockRestored

\* ntpd that was lost is reported, and a stale anchor blamed on nobody else's
\* session.
ClockVerdicts == ClockLeg!NtpdLossReported /\ ClockLeg!StaleBlameSound

\* Either leg comes to its end, whatever the device does: every loop of theirs
\* that polls it has a bound (raptor-test:783-823, 913-945, 979-992).
LateLegsEnd == <>(pc = "done" \/ csPc = "done")
=============================================================================
