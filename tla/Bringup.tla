-------------------------------- MODULE Bringup --------------------------------
(* The bring-up of one pass of the battery: bringup() of run-battery and the  *)
(* shell script it pipes to the device.  The script takes down every known     *)
(* daemon (SIGTERM, a grace period, SIGKILL), removes the frame rings, then    *)
(* launches the wanted daemons one by one in canonical order, waiting for each *)
(* to exist, for the rings of a producer, and at the end for the listen port.  *)
(*                                                                             *)
(* The script runs against processes it does not control: they crash, ignore   *)
(* signals, are still inside execve under the shell's name, or refuse to start *)
(* because an older instance holds the pidfile.  An instance is a daemon and   *)
(* the number of the bring-up that launched it; 0 is what ran before.          *)
EXTENDS Naturals, FiniteSets

CONSTANTS
  Daemon,      \* the daemons of CANON_ORDER
  Rank,        \* the place of each daemon in CANON_ORDER
  Producer,    \* the daemons whose rings gate readiness (rvd, rfs)
  Gated,       \* the daemons with an enabled key (RVD and RFS have none)
  Ring,        \* the frame rings under /dev/shm
  Pass,        \* the passes: [want, port, rings]; port is a daemon or NoPort
  NoPort,      \* bringup's "-": do not wait for a port
  NoRing,      \* the ring file does not exist
  MaxRun       \* bound: the number of bring-ups

ASSUME ConstAssumption ==
  /\ Producer \subseteq Daemon
  /\ Gated \subseteq Daemon \ Producer
  /\ Rank \in [Daemon -> Nat]
  /\ \A d, e \in Daemon : Rank[d] = Rank[e] => d = e
  /\ \A d \in Daemon, p \in Producer : d \notin Producer => Rank[p] < Rank[d]
  /\ Pass \subseteq [want : SUBSET Daemon, port : Daemon \cup {NoPort},
                     rings : SUBSET Ring]
  /\ Pass # {}
  /\ NoPort \notin Daemon
  /\ MaxRun \in Nat \ {0}
  /\ NoRing \notin Nat

Run == 0 .. MaxRun
Instance == Daemon \X Run

VARIABLES
  pc,        \* where the script is
  run,       \* the number of this bring-up
  pass,      \* the pass it is for
  off,       \* the daemons its configuration switches off
  todo,      \* the wanted daemons the launch loop has still to finish
  toRing,    \* the rings still to wait for behind the current producer
  accepted,  \* the daemons the script took for started ("seen") or "disabled"
  life,      \* what each instance is doing
  sig,       \* the strongest signal each instance has had
  ring,      \* the bring-up whose producer made the ring file, or NoRing
  frames,    \* the rings whose write sequence is past 0
  log,       \* what the daemon's own log says: /tmp/$d.log
  syslog,    \* daemons named "disabled in config" in the recent syslog
  unseen     \* instances killall could not name: they were inside execve

script == <<pc, run, pass, off, todo, toRing, accepted>>
device == <<life, sig, ring, frames, log, syslog>>
vars   == <<script, device, unseen>>

Idle    == {"idle", "ready", "failed"}
Working == {"term", "grace", "kill", "clean", "launch", "verify", "ring", "port"}
Life    == {"none", "exec", "up", "serving", "gone"}
Verdict == {"no", "seen", "disabled"}

(* A process under its own name, which is what pidof, killall and /proc see. *)
Running(d, g) == life[d][g] \in {"up", "serving"}
Pidof(d)      == \E g \in Run : Running(d, g)

(* The daemon the launch loop is at: the first of what is left. *)
IsNext(d) == /\ d \in todo
             /\ \A e \in todo : Rank[d] <= Rank[e]

Init ==
  /\ pc = "idle" /\ run = 0
  /\ pass = CHOOSE p \in Pass : TRUE
  /\ off = {}
  /\ todo = {} /\ toRing = {}
  /\ accepted = [d \in Daemon |-> "no"]
  /\ \E before \in SUBSET Daemon :
       life = [d \in Daemon |-> [g \in Run |->
                 IF g = 0 /\ d \in before THEN "serving" ELSE "none"]]
  /\ sig = [d \in Daemon |-> [g \in Run |-> "none"]]
  /\ ring = [r \in Ring |-> NoRing]
  /\ frames = {}
  /\ log = [d \in Daemon |-> "empty"]
  /\ syslog \in SUBSET Gated
  /\ unseen = {}

------------------------------------------------------------------------------
(* The host side: the next pass calls bringup().                              *)

StartBringup ==
  /\ pc \in Idle /\ run < MaxRun
  /\ run' = run + 1
  /\ pass' \in Pass
  /\ off' \in SUBSET Gated
  /\ todo' = {} /\ toRing' = {}
  /\ accepted' = [d \in Daemon |-> "no"]
  /\ pc' = "term"
  /\ UNCHANGED <<device, unseen>>

(* The exits that depend on nothing modelled: no configuration, or no way to  *)
(* push it; an unresolved library; a missing binary; the ssh session breaks.  *)
(* The device stays as it is.                                                 *)
GiveUp ==
  /\ pc \in Working
  /\ pc' = "failed"
  /\ UNCHANGED <<run, pass, off, todo, toRing, accepted, device, unseen>>

------------------------------------------------------------------------------
(* The script: take everything down.                                          *)

(* Signal s reaches every process killall can name. *)
Signal(s) ==
  sig' = [d \in Daemon |-> [g \in Run |->
            IF Running(d, g) THEN s ELSE sig[d][g]]]

KillallTerm ==
  /\ pc = "term" /\ pc' = "grace"
  /\ Signal("term")
  /\ unseen' = {i \in Instance : life[i[1]][i[2]] = "exec"}
  /\ UNCHANGED <<run, pass, off, todo, toRing, accepted, life, ring, frames,
                 log, syslog>>

(* Fault: what outlives the grace period is left alone. *)
GracePollOnly ==
  /\ pc = "grace" /\ pc' = "clean"
  /\ UNCHANGED <<run, pass, off, todo, toRing, accepted, device, unseen>>

(* 40 polls half a second apart; whatever is left then is killed. *)
GracePoll ==
  /\ pc = "grace"
  /\ pc' = IF \E d \in Daemon : Pidof(d) THEN "kill" ELSE "clean"
  /\ UNCHANGED <<run, pass, off, todo, toRing, accepted, device, unseen>>

(* Nobody looks again: the script sleeps two seconds and goes on. *)
KillallKill ==
  /\ pc = "kill" /\ pc' = "clean"
  /\ Signal("kill")
  /\ UNCHANGED <<run, pass, off, todo, toRing, accepted, life, ring, frames,
                 log, syslog, unseen>>

(* Rings removed, fresh configuration, libraries checked, pages pre-faulted.  *)
Clean ==
  /\ pc = "clean" /\ pc' = "launch"
  /\ ring' = [r \in Ring |-> NoRing]
  /\ frames' = {}
  /\ todo' = pass.want
  /\ UNCHANGED <<run, pass, off, toRing, accepted, life, sig, log, syslog,
                 unseen>>

------------------------------------------------------------------------------
(* The script: the launch loop.                                               *)

Launch(d) ==
  /\ pc = "launch" /\ IsNext(d)
  /\ pc' = "verify"
  /\ life' = [life EXCEPT ![d][run] = "exec"]
  /\ log' = [log EXCEPT ![d] = "empty"]
  /\ UNCHANGED <<run, pass, off, todo, toRing, accepted, sig, ring, frames,
                 syslog, unseen>>

(* The script has its answer v about d: wait for the rings of a producer, or  *)
(* go on with the next daemon.                                                *)
Accept(d, v) ==
  /\ accepted' = [accepted EXCEPT ![d] = v]
  /\ IF d \in Producer
       THEN pc' = "ring" /\ toRing' = pass.rings /\ UNCHANGED todo
       ELSE pc' = "launch" /\ todo' = todo \ {d} /\ UNCHANGED toRing
  /\ UNCHANGED <<run, pass, off, device, unseen>>

(* Fault: a launcher that is still alive counts as a daemon. *)
VerifyLauncher(d) ==
  /\ pc = "verify" /\ IsNext(d)
  /\ Pidof(d) \/ life[d][run] = "exec"
  /\ Accept(d, "seen")

(* pidof or /proc names a process called d. *)
VerifySeen(d) ==
  /\ pc = "verify" /\ IsNext(d)
  /\ Pidof(d)
  /\ Accept(d, "seen")

(* No process called d after the last try, and one of the two logs says why.  *)
VerifyDisabled(d) ==
  /\ pc = "verify" /\ IsNext(d)
  /\ ~Pidof(d)
  /\ log[d] = "disabled" \/ d \in syslog
  /\ Accept(d, "disabled")

(* No process called d, and nothing in the log that excuses it ("disabled" in *)
(* the syslog may have scrolled out of the lines the script reads).           *)
VerifyFailed(d) ==
  /\ pc = "verify" /\ IsNext(d)
  /\ ~Pidof(d)
  /\ log[d] # "disabled"
  /\ pc' = "failed"
  /\ UNCHANGED <<run, pass, off, todo, toRing, accepted, device, unseen>>

(* Fault: the wait for frames has no end. *)
RingWaitForever(r) ==
  /\ pc = "ring" /\ r \in toRing
  /\ r \in frames
  /\ toRing' = toRing \ {r}
  /\ UNCHANGED <<pc, run, pass, off, todo, accepted, device, unseen>>

RingWait(r) ==
  /\ pc = "ring" /\ r \in toRing
  /\ ring[r] # NoRing          \* with or without frames: the poll runs out
  /\ toRing' = toRing \ {r}
  /\ UNCHANGED <<pc, run, pass, off, todo, accepted, device, unseen>>

(* Fault: the missing ring is not looked for when the poll runs out. *)
RingIgnored(r) ==
  /\ pc = "ring" /\ r \in toRing
  /\ ring[r] = NoRing
  /\ toRing' = toRing \ {r}
  /\ UNCHANGED <<pc, run, pass, off, todo, accepted, device, unseen>>

RingFailed(r) ==
  /\ pc = "ring" /\ r \in toRing
  /\ ring[r] = NoRing
  /\ pc' = "failed"
  /\ UNCHANGED <<run, pass, off, todo, toRing, accepted, device, unseen>>

RingsDone(d) ==
  /\ pc = "ring" /\ toRing = {} /\ IsNext(d)
  /\ pc' = "launch"
  /\ todo' = todo \ {d}
  /\ UNCHANGED <<run, pass, off, toRing, accepted, device, unseen>>

LaunchDone ==
  /\ pc = "launch" /\ todo = {}
  /\ pc' = "port"
  /\ UNCHANGED <<run, pass, off, todo, toRing, accepted, device, unseen>>

Listening(d) == \E g \in Run : life[d][g] = "serving"

PortReady ==
  /\ pc = "port"
  /\ pass.port # NoPort => Listening(pass.port)
  /\ pc' = "ready"
  /\ UNCHANGED <<run, pass, off, todo, toRing, accepted, device, unseen>>

PortFailed ==
  /\ pc = "port"
  /\ pass.port # NoPort /\ ~Listening(pass.port)
  /\ pc' = "failed"
  /\ UNCHANGED <<run, pass, off, todo, toRing, accepted, device, unseen>>

------------------------------------------------------------------------------
(* The processes on the device, as the script's comments and checks describe  *)
(* them: the daemons are another repository's code.                           *)

Exit(d, g) == life' = [life EXCEPT ![d][g] = "gone"]

(* execve completes. *)
Start(d, g) ==
  /\ life[d][g] = "exec"
  /\ IF d \in off
       THEN /\ Exit(d, g)
            /\ log' = [log EXCEPT ![d] = "disabled"]
            /\ syslog' = syslog \cup {d}
       ELSE IF Pidof(d)                       \* the pidfile is held
         THEN /\ Exit(d, g)
              /\ log' = [log EXCEPT ![d] = "already running"]
              /\ UNCHANGED syslog
         ELSE /\ life' = [life EXCEPT ![d][g] = "up"]
              /\ UNCHANGED <<log, syslog>>
  /\ UNCHANGED <<script, sig, ring, frames, unseen>>

(* A producer maps rings, a server binds its port. *)
Serve(d, g) ==
  /\ life[d][g] = "up"
  /\ life' = [life EXCEPT ![d][g] = "serving"]
  /\ IF d \in Producer
       THEN \E R \in SUBSET Ring :
              /\ ring' = [r \in Ring |-> IF r \in R THEN g ELSE ring[r]]
              /\ frames' = frames \ R
       ELSE UNCHANGED <<ring, frames>>
  /\ UNCHANGED <<script, sig, log, syslog, unseen>>

FirstFrame(r) ==
  /\ r \notin frames
  /\ \E d \in Producer, g \in Run : ring[r] = g /\ life[d][g] = "serving"
  /\ frames' = frames \cup {r}
  /\ UNCHANGED <<script, life, sig, ring, log, syslog, unseen>>

(* A process ends: on a signal, sooner or later, or by crashing. *)
Die(d, g) ==
  /\ life[d][g] \in {"exec", "up", "serving"}
  /\ Exit(d, g)
  /\ UNCHANGED <<script, sig, ring, frames, log, syslog, unseen>>

------------------------------------------------------------------------------
Script ==
  \/ KillallTerm \/ GracePoll \/ KillallKill \/ Clean
  \/ \E d \in Daemon : \/ Launch(d)
                       \/ VerifySeen(d) \/ VerifyDisabled(d) \/ VerifyFailed(d)
                       \/ RingsDone(d)
  \/ \E r \in Ring : RingWait(r) \/ RingFailed(r)
  \/ LaunchDone \/ PortReady \/ PortFailed

Process ==
  \/ \E d \in Daemon, g \in Run : Start(d, g) \/ Serve(d, g) \/ Die(d, g)
  \/ \E r \in Ring : FirstFrame(r)

Next == StartBringup \/ GiveUp \/ Script \/ Process

Spec == Init /\ [][Next]_vars

(* The script runs on: no wait in it is without a bound.  Nothing is assumed  *)
(* of the processes.                                                          *)
FairSpec == Spec /\ WF_vars(Script)
------------------------------------------------------------------------------
(* Type correctness of the script's and the device's state. *)
TypeOK ==
  /\ pc \in Idle \cup Working
  /\ run \in Run
  /\ pass \in Pass
  /\ off \subseteq Daemon
  /\ todo \subseteq Daemon
  /\ toRing \subseteq Ring
  /\ accepted \in [Daemon -> Verdict]
  /\ life \in [Daemon -> [Run -> Life]]
  /\ sig \in [Daemon -> [Run -> {"none", "term", "kill"}]]
  /\ ring \in [Ring -> Run \cup {NoRing}]
  /\ frames \subseteq Ring
  /\ log \in [Daemon -> {"empty", "disabled", "already running"}]
  /\ syslog \subseteq Daemon
  /\ unseen \subseteq Instance

(* The teardown is over and this bring-up has not failed. *)
Swept == pc \in {"clean", "launch", "verify", "ring", "port", "ready"}

(* An older instance the teardown could not end: it took the SIGKILL and is   *)
(* still there, or had no name yet when killall looked.                       *)
Survivor(d, g) == g < run /\ (sig[d][g] = "kill" \/ <<d, g>> \in unseen)

(* After the teardown nothing of an earlier bring-up runs, except survivors:  *)
(* the pass is tested on its own processes unless one outlived SIGKILL or was *)
(* still in execve when killall looked (run-battery:174-185).                 *)
OnlySurvivors ==
  Swept => \A d \in Daemon, g \in Run :
             g < run /\ Running(d, g) => Survivor(d, g)

(* A daemon the script took for started was started by this very bring-up,    *)
(* or a survivor of the same name answered the scan in its place              *)
(* (run-battery:248-289).                                                     *)
SeenIsOurs ==
  Swept => \A d \in Daemon :
    accepted[d] = "seen" =>
      \/ life[d][run] \in {"up", "serving", "gone"} /\ log[d] = "empty"
      \/ \E g \in Run : Survivor(d, g)

(* Only wanted daemons are launched, in canonical order, each one after all   *)
(* the wanted ones before it were accepted (run-battery:127-131, 235-289).    *)
LaunchInOrder ==
  pc \notin {"term", "grace", "kill", "clean"} =>
    \A d \in Daemon :
      run > 0 /\ life[d][run] # "none" =>
        /\ d \in pass.want
        /\ \A e \in pass.want : Rank[e] < Rank[d] => accepted[e] # "no"

(* In a pass with a producer every gating ring exists before any consumer is  *)
(* launched, and stays: "a consumer racing rvd gets a video-less SDP"         *)
(* (run-battery:157-158, 290-310).                                            *)
RingBeforeConsumer ==
  Swept /\ pass.want \cap Producer # {} =>
    \A d \in Daemon \ Producer :
      run > 0 /\ life[d][run] # "none" => \A r \in pass.rings : ring[r] # NoRing

(* SIGKILL comes only after SIGTERM and its grace period, except to a process *)
(* that was still in execve when SIGTERM went out (run-battery:168-185).      *)
KillAfterTerm ==
  [][\A d \in Daemon, g \in Run :
       sig'[d][g] = "kill" /\ sig[d][g] = "none" => <<d, g>> \in unseen]_vars

(* Every bring-up ends: each wait of the script is bounded, whatever the      *)
(* processes do (run-battery:163-325).                                        *)
BringupEnds == pc \in Working ~> pc \in {"ready", "failed"}
================================================================================
