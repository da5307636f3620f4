------------------------------- MODULE ClockStep -------------------------------
(* The wall-clock step leg of late_legs (raptor-test:757-888): the device's    *)
(* clock is put STEP seconds forward under a live RTSP session, the session    *)
(* is watched by probes/clock_step.py, a fresh session is asked for its wall   *)
(* clock, and the clock and ntpd are put back.  Three parties act at once: the *)
(* leg, its background stepper, and the device with its ntpd and RTSP server.  *)
(* Time is counted in STEPs from true time.  A remote call may not run, or run *)
(* and lose its answer.                                                        *)
EXTENDS Integers

CONSTANTS
  Server,    \* the servers under test, records of the fields in Design
  Linger,    \* bound: 15s waits a dropped session can outlive its client count
  Polls,     \* bound: polls for an idle server (30 in the code)
  Tries      \* fresh sessions asked for their clock (3 in the code)

Design == {"rtpFollows",   \* RTP timestamps are derived from the wall clock
           "srFollows",    \* so is the NTP time of sender reports
           "keepsAnchor"}  \* the NTP anchor outlives the sessions it is for

ConstAssumption ==
  /\ Server \subseteq [Design -> BOOLEAN]
  /\ Server # {}
  /\ Linger \in Nat /\ Polls \in Nat \ {0} /\ Tries \in Nat
  /\ Linger < Tries

VARIABLES
  pc,        \* where the leg is
  ntpdWas,   \* NTPD_WAS
  stopped,   \* the call that stops ntpd ran
  forward,   \* the stepper: waiting, or its call ran, or was lost
  back,      \* the same of the call that puts the clock back
  polls,     \* polls for an idle server made
  idle,      \* IDLE
  tries,     \* CS_TRIES
  rearm,     \* CS_REARM: the clock the last fresh session reported
  report,    \* what the probe's summary says of the RTP timeline
  verdict,   \* the checks recorded
  clock,     \* the device's clock
  ntpd,      \* ntpd runs
  ntpdHad,   \* it ran when the leg began
  script,    \* the device has /etc/init.d/S49ntpd
  server,    \* the server under test
  old,       \* the sessions of earlier legs: Live, then waits left, then 0
  session,   \* the probe has its session
  moved,     \* the clock moved under it
  anchor     \* the clock the server anchored its NTP time on, or Free

legVars    == <<pc, ntpdWas, stopped, forward, back, polls, idle, tries, rearm,
                report, verdict>>
deviceVars == <<clock, ntpd, ntpdHad, script, server, old, session, moved, anchor>>
vars == <<legVars, deviceVars>>

Live == Linger + 1
Free == 9
NoSr == 9

Check == {"ntpd", "rtp", "anchor"}

Init ==
  /\ pc = "ask" /\ ntpdWas = "" /\ stopped = FALSE
  /\ forward = "waiting" /\ back = "waiting"
  /\ polls = 0 /\ idle = FALSE /\ tries = 0 /\ rearm = NoSr /\ report = "none"
  /\ verdict = [c \in Check |-> "none"]
  /\ clock = 0 /\ ntpdHad \in BOOLEAN /\ ntpd = ntpdHad /\ script \in BOOLEAN
  /\ server \in Server /\ old \in {0, Live}
  /\ anchor = IF old = 0 THEN Free ELSE 0
  /\ session = FALSE /\ moved = FALSE

------------------------------------------------------------------------------
(* The device.                                                                *)

(* The clock is set; what the probe's session saw of it.                      *)
SetClock(c) ==
  /\ clock' = c
  /\ moved' = (moved \/ (session /\ c # clock))

(* A session opened now has its sender reports anchored.                      *)
Anchored == IF anchor = Free THEN clock ELSE anchor

(* The anchor once only `left` of the earlier sessions remain.                *)
Released(left) ==
  IF left = 0 /\ ~session /\ ~server["keepsAnchor"] THEN Free ELSE anchor

(* ntpd undoes a step it sees. *)
NtpSync ==
  /\ ntpd /\ clock # 0
  /\ SetClock(0)
  /\ UNCHANGED <<legVars, ntpd, ntpdHad, script, server, old, session, anchor>>

(* The clients of earlier legs are gone from the server's count, ...          *)
OldLeave ==
  /\ old = Live
  /\ old' = Linger /\ anchor' = Released(Linger)
  /\ UNCHANGED <<legVars, clock, ntpd, ntpdHad, script, server, session, moved>>

(* ... and their sessions from the server.                                    *)
OldReaped ==
  /\ old \in 1 .. Linger
  /\ old' = 0 /\ anchor' = Released(0)
  /\ UNCHANGED <<legVars, clock, ntpd, ntpdHad, script, server, session, moved>>

------------------------------------------------------------------------------
(* The stepper: sleep 6, then one call, in a background shell.                *)

StepForward ==
  /\ forward = "waiting" /\ pc \notin {"ask", "stop"}
  /\ \/ forward' = "ran"  /\ SetClock(clock + 1)
     \/ forward' = "lost" /\ UNCHANGED <<clock, moved>>
  /\ UNCHANGED <<pc, ntpdWas, stopped, back, polls, idle, tries, rearm, report,
                 verdict, ntpd, ntpdHad, script, server, old, session, anchor>>

------------------------------------------------------------------------------
(* The leg.                                                                   *)

AskNtpd ==
  /\ pc = "ask" /\ pc' = "stop"
  /\ ntpdWas' \in {"", IF ntpd THEN "yes" ELSE "no"}
  /\ UNCHANGED <<stopped, forward, back, polls, idle, tries, rearm, report,
                 verdict, deviceVars>>

(* The init script and killall; the stepper is started whatever came of it.   *)
StopNtpd ==
  /\ pc = "stop" /\ pc' = "probe"
  /\ stopped' \in BOOLEAN
  /\ ntpd' = (ntpd /\ ~stopped')
  /\ UNCHANGED <<ntpdWas, forward, back, polls, idle, tries, rearm, report,
                 verdict, clock, ntpdHad, script, server, old, session, moved, anchor>>

ProbeOpen ==
  /\ pc = "probe" /\ ~session /\ report = "none"
  /\ session' = TRUE /\ moved' = FALSE /\ anchor' = Anchored
  /\ UNCHANGED <<legVars, clock, ntpd, ntpdHad, script, server, old>>

(* The summary: the largest RTP gap is that of a step the timestamps follow,  *)
(* if there were frames to see it in.                                         *)
ProbeEnd ==
  /\ pc = "probe" /\ session
  /\ \E frames \in BOOLEAN :
       report' = IF frames /\ moved /\ server["rtpFollows"] THEN "gap" ELSE "no gap"
  /\ session' = FALSE
  /\ anchor' = IF old = 0 /\ ~server["keepsAnchor"] THEN Free ELSE anchor
  /\ pc' = "wait"
  /\ UNCHANGED <<ntpdWas, stopped, forward, back, polls, idle, tries, rearm,
                 verdict, clock, ntpd, ntpdHad, script, server, old, moved>>

(* An exception or the 60s timeout: no summary.                               *)
ProbeFails ==
  /\ pc = "probe"
  /\ session' = FALSE
  /\ anchor' = IF old = 0 /\ ~server["keepsAnchor"] THEN Free ELSE anchor
  /\ pc' = "wait"
  /\ UNCHANGED <<ntpdWas, stopped, forward, back, polls, idle, tries, rearm, report,
                 verdict, clock, ntpd, ntpdHad, script, server, old, moved>>

(* Fault: the stepper is not waited for. *)
WaitStepperNot ==
  /\ pc = "wait"
  /\ pc' = "idle"
  /\ UNCHANGED <<ntpdWas, stopped, forward, back, polls, idle, tries, rearm,
                 report, verdict, deviceVars>>

WaitStepper ==
  /\ pc = "wait" /\ forward # "waiting"
  /\ pc' = "idle"
  /\ UNCHANGED <<ntpdWas, stopped, forward, back, polls, idle, tries, rearm,
                 report, verdict, deviceVars>>

(* Fault: the server is polled until it is idle. *)
PollIdleForever ==
  /\ pc = "idle"
  /\ \/ old # Live /\ idle' = TRUE /\ pc' = "rearm"
     \/ idle' = FALSE /\ pc' = "idle"
  /\ UNCHANGED <<ntpdWas, stopped, forward, back, polls, tries, rearm, report,
                 verdict, deviceVars>>

(* One poll of the server's client count; a lost one is a busy server.        *)
PollIdle ==
  /\ pc = "idle"
  /\ polls' = polls + 1
  /\ \/ old # Live /\ idle' = TRUE /\ pc' = "rearm"
     \/ idle' = FALSE /\ pc' = IF polls + 1 < Polls THEN "idle" ELSE "back"
  /\ UNCHANGED <<ntpdWas, stopped, forward, back, tries, rearm, report, verdict,
                 deviceVars>>

(* A fresh session, its first sender report if one comes in 8s, and 15s more  *)
(* before the next one if that is not of the stepped clock.                   *)
Rearm ==
  /\ pc = "rearm"
  /\ tries' = tries + 1
  /\ rearm' \in {NoSr, IF server["srFollows"] THEN clock ELSE Anchored}
  /\ IF rearm' = 1 \/ tries' = Tries
       THEN pc' = "back" /\ UNCHANGED old
       ELSE pc' = "rearm" /\ old' = IF old \in 1 .. Linger THEN old - 1 ELSE old
  /\ anchor' = IF old' = 0 THEN IF server["keepsAnchor"] THEN Anchored ELSE Free
                           ELSE anchor
  /\ UNCHANGED <<ntpdWas, stopped, forward, back, polls, idle, report, verdict,
                 clock, ntpd, ntpdHad, script, server, session, moved>>

StepBack ==
  /\ pc = "back"
  /\ \/ back' = "ran"  /\ SetClock(clock - 1)
     \/ back' = "lost" /\ UNCHANGED <<clock, moved>>
  /\ pc' = IF ntpdWas = "yes" THEN "start" ELSE "verdict"
  /\ UNCHANGED <<ntpdWas, stopped, forward, polls, idle, tries, rearm, report,
                 verdict, ntpd, ntpdHad, script, server, old, session, anchor>>

(* Through the init script, where there is one.                               *)
StartNtpd ==
  /\ pc = "start" /\ pc' = "check"
  /\ ntpd' \in {ntpd, ntpd \/ script}
  /\ UNCHANGED <<ntpdWas, stopped, forward, back, polls, idle, tries, rearm, report,
                 verdict, clock, ntpdHad, script, server, old, session, moved, anchor>>

(* Fault: the start is taken at its word. *)
CheckNtpdNot ==
  /\ pc = "check" /\ pc' = "verdict"
  /\ verdict' = [verdict EXCEPT !["ntpd"] = "pass"]
  /\ UNCHANGED <<ntpdWas, stopped, forward, back, polls, idle, tries, rearm, report,
                 deviceVars>>

CheckNtpd ==
  /\ pc = "check" /\ pc' = "verdict"
  /\ \E r \in {"fail", IF ntpd THEN "pass" ELSE "fail"} :
       verdict' = [verdict EXCEPT !["ntpd"] = r]
  /\ UNCHANGED <<ntpdWas, stopped, forward, back, polls, idle, tries, rearm, report,
                 deviceVars>>

(* The checks: without a summary one failure stands for them all.  The one of *)
(* the sender reports' own time accepts both designs, and is left out.        *)
Verdict ==
  /\ pc = "verdict" /\ pc' = "done"
  /\ verdict' =
       IF report = "none"
         THEN [verdict EXCEPT !["rtp"] = "fail"]
         ELSE [verdict EXCEPT
                !["rtp"] = IF report = "gap" THEN "fail" ELSE "pass",
                !["anchor"] = IF ~idle THEN "skip"
                              ELSE IF rearm = NoSr THEN "fail"
                              ELSE IF rearm = 1 THEN "pass" ELSE "stale"]
  /\ UNCHANGED <<ntpdWas, stopped, forward, back, polls, idle, tries, rearm, report,
                 deviceVars>>

Leg ==
  \/ AskNtpd \/ StopNtpd \/ ProbeOpen \/ ProbeEnd \/ ProbeFails \/ WaitStepper
  \/ PollIdle \/ Rearm \/ StepBack \/ StartNtpd \/ CheckNtpd \/ Verdict

Next == Leg \/ StepForward \/ NtpSync \/ OldLeave \/ OldReaped

Spec == Init /\ [][Next]_vars

------------------------------------------------------------------------------
(* With its three clock and ntpd calls carried out, the leg leaves the device *)
(* on true time, and no step is still to come                                 *)
(* (raptor-test:765-776, 824-825).                                            *)
ClockRestored ==
  pc = "done" =>
    /\ forward # "waiting"
    /\ stopped /\ forward = "ran" /\ back = "ran" => clock = 0

(* ntpd seen running and not running at the end is a recorded failure         *)
(* (raptor-test:826-838).                                                     *)
NtpdLossReported ==
  pc = "done" /\ ntpdWas = "yes" /\ ~ntpd => verdict["ntpd"] = "fail"

(* A server is blamed for a stale anchor only if it keeps one: no session     *)
(* lingering from earlier legs is mistaken for it                             *)
(* (raptor-test:777-823, 875-884).                                            *)
StaleBlameSound ==
  verdict["anchor"] = "stale" /\ stopped /\ forward = "ran" =>
    server["keepsAnchor"] /\ ~server["srFollows"]

================================================================================
