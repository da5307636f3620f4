-------------------------------- MODULE DriftLeg --------------------------------
(* tools/drift-leg.sh: a rate error is injected into the clock of the device      *)
(* (tools/freqadj.c), the skew of its sender reports is measured under it, and    *)
(* the rate and ntpd are put back, by the end of the script or by its trap.  A    *)
(* call over ssh may not run, or run and lose its answer; an interrupt runs the   *)
(* trap between any two commands, and the script goes on behind it.  Rates are    *)
(* counted in units of PASS_PPM.                                                  *)
EXTENDS Integers

CONSTANTS
  Own,        \* the rates ntpd has given the device's clock
  Ppm,        \* the rate injected, 0 for a run without injection
  MaxHit      \* bound: interrupts

ASSUME ConstAssumption ==
  /\ Own \subseteq -5 .. 5 /\ Own # {}       \* freqadj's range, 500 ppm
  /\ Ppm \in Int /\ \A r \in Own : r + Ppm \in -5 .. 5
  /\ MaxHit \in Nat

VARIABLES
  pc,         \* where the script is
  add,        \* what freqadj add printed: nothing, a word, or a rate
  oldRaw,     \* OLD_RAW: the rate to restore, or Unset
  probe,      \* how the probe ended, and the skew it measured
  exit,       \* none, or the script's exit status
  freq, own,  \* the rate of the device's clock, and the one it began with
  ntpd,       \* ntpd runs
  frozen,     \* the server holds on to the clock's rate at its start
  hits,       \* interrupts so far
  lost        \* a call to freqadj has not run, or its answer was lost

script == <<pc, add, oldRaw, probe, exit>>
device == <<freq, own, ntpd, frozen>>
vars == <<script, device, hits, lost>>

Unset == 8
Noise == 9

Init ==
  /\ pc = IF Ppm # 0 THEN "stage" ELSE "probe"
  /\ add = Unset /\ oldRaw = Unset /\ exit = "none"
  /\ probe = [ok |-> FALSE, skew |-> 0]
  /\ own \in Own /\ freq = own
  /\ ntpd = TRUE /\ frozen \in BOOLEAN
  /\ hits = 0 /\ lost = FALSE

Leave(code) == pc' = "done" /\ exit' = code

(* freqadj add, which reads the rate first, and freqadj setraw; either drops what *)
(* a stopped ntpd left in the kernel's loop, which would bend the rate.           *)
SetFreq(raw) == freq' = raw
AddFreq == SetFreq(freq + Ppm)

------------------------------------------------------------------------------
(* The commands of the script.                                                    *)

Stage ==
  /\ pc = "stage"
  /\ \/ pc' = "stop" /\ UNCHANGED exit
     \/ Leave("skip")
  /\ UNCHANGED <<add, oldRaw, probe, device, hits, lost>>

StopNtpd ==
  /\ pc = "stop" /\ pc' = "add"
  /\ ntpd' \in {ntpd, FALSE}
  /\ UNCHANGED <<add, oldRaw, probe, exit, freq, own, frozen, hits, lost>>

(* Fault: the exit status of freqadj is lost. *)
AddIgnored ==
  /\ pc = "add" /\ pc' = "probe"
  /\ \/ AddFreq /\ add' = freq /\ oldRaw' = freq
     \/ UNCHANGED <<freq, add, oldRaw>>
  /\ UNCHANGED <<probe, exit, own, ntpd, frozen, hits, lost>>

(* freqadj add: it ran and answered, with its line or another one; it failed;     *)
(* or the call broke before or behind it.                                         *)
Add ==
  /\ pc = "add"
  /\ \/ /\ AddFreq /\ add' = freq /\ pc' = "parse"
        /\ UNCHANGED <<exit, lost>>
     \/ /\ AddFreq \/ UNCHANGED freq
        /\ add' = Noise /\ pc' = "parse" /\ lost' = TRUE
        /\ UNCHANGED exit
     \/ /\ Leave("skip")
        /\ UNCHANGED <<freq, add, lost>>
     \/ /\ AddFreq /\ Leave("skip") /\ lost' = TRUE
        /\ UNCHANGED add
  /\ UNCHANGED <<oldRaw, probe, own, ntpd, frozen, hits>>

(* OLD_RAW, and the wait for the rate to take hold.                               *)
Parse ==
  /\ pc = "parse"
  /\ IF add = Noise THEN Leave("skip") /\ UNCHANGED oldRaw
     ELSE oldRaw' = add /\ pc' = "probe" /\ UNCHANGED exit
  /\ UNCHANGED <<add, probe, device, hits, lost>>

(* sr_drift.py: a frozen server drifts by the rate the clock has now.             *)
Probe ==
  /\ pc = "probe" /\ pc' = "restore"
  /\ probe' \in {[ok |-> TRUE, skew |-> IF frozen THEN freq ELSE 0],
                 [ok |-> FALSE, skew |-> 0]}
  /\ UNCHANGED <<add, oldRaw, exit, device, hits, lost>>

(* Fault: ntpd is left to be started by somebody else. *)
PutBackRate ==
  \/ freq' = oldRaw /\ UNCHANGED <<own, ntpd, frozen, lost>>
  \/ UNCHANGED device /\ lost' = TRUE

(* The one call of restore(): the old rate, and ntpd, one way or the other.       *)
PutBack ==
  \/ SetFreq(oldRaw) /\ ntpd' = TRUE /\ UNCHANGED <<own, frozen, lost>>
  \/ UNCHANGED device /\ lost' = TRUE

(* restore() is idle without a rate to restore.                                   *)
RestoreCall ==
  /\ pc = "restore"
  /\ IF oldRaw = Unset THEN pc' = "verdict" /\ UNCHANGED <<device, lost>>
     ELSE PutBack /\ pc' = "forget"
  /\ UNCHANGED <<add, oldRaw, probe, exit, hits>>

Forget ==
  /\ pc = "forget" /\ pc' = "verdict"
  /\ oldRaw' = Unset
  /\ UNCHANGED <<add, probe, exit, device, hits, lost>>

(* The trap is gone.  Too few pairs of sender reports give no verdict.            *)
Verdict ==
  /\ pc = "verdict"
  /\ IF ~probe.ok THEN Leave("fail")
     ELSE \/ Leave(IF probe.skew = 0 THEN "ok" ELSE "fail")
          \/ Leave("skip")
  /\ UNCHANGED <<add, oldRaw, probe, device, hits, lost>>

Script ==
  \/ Stage \/ StopNtpd \/ Add \/ Parse \/ Probe \/ RestoreCall \/ Forget \/ Verdict

(* INT or TERM: the trap's restore(), and the script goes on where it was; the    *)
(* command it broke fails, as it may anyway.                                      *)
Interrupt ==
  /\ hits < MaxHit /\ pc \notin {"verdict", "done"}
  /\ hits' = hits + 1
  /\ IF oldRaw = Unset THEN UNCHANGED <<device, lost>> ELSE PutBack
  /\ oldRaw' = Unset
  /\ UNCHANGED <<pc, add, probe, exit>>

Next == Script \/ Interrupt

Spec == Init /\ [][Next]_vars

------------------------------------------------------------------------------
(* The types of the variables; a rate to restore is only ever the clock's own     *)
(* (drift-leg.sh:49, 31-35).                                                      *)
TypeOK ==
  /\ pc \in {"stage", "stop", "add", "parse", "probe", "restore", "forget",
             "verdict", "done"}
  /\ add \in {Unset, Noise, own} /\ oldRaw \in {Unset, own}
  /\ probe \in [ok : BOOLEAN, skew : {0, own, own + Ppm}]
  /\ exit \in {"none", "ok", "fail", "skip"}
  /\ own \in Own /\ freq \in {own, own + Ppm}
  /\ ntpd \in BOOLEAN /\ frozen \in BOOLEAN
  /\ hits \in 0 .. MaxHit /\ lost \in BOOLEAN

(* The leg leaves the device's clock at the rate it found, whichever command      *)
(* failed and wherever it was interrupted, and whoever had a rate to restore has  *)
(* ntpd running again, unless a call to freqadj was lost (drift-leg.sh:30-36,     *)
(* 62-65).                                                                        *)
DeviceRestored ==
  exit # "none" /\ ~lost => freq = own /\ (add = own => ntpd)

(* A server that holds on to the clock's rate does not pass a run that was let    *)
(* run, on a clock whose own rate does not cancel the injected one                *)
(* (drift-leg.sh:45-48, 84-88).                                                   *)
FrozenCaught ==
  exit = "ok" /\ frozen /\ Ppm # 0 => own + Ppm = 0 \/ hits > 0
================================================================================
