----------------------------- MODULE BringupProofs -----------------------------
(* Proofs about Bringup, for any daemons, rings, passes and number of          *)
(* bring-ups.  The invariants of Bringup are inductive only together with what *)
(* the script knows at each of its stages; those facts come first.             *)
EXTENDS Bringup, TLAPS

Teardown  == {"term", "grace", "kill", "clean"}
Launching == {"launch", "verify", "ring", "port", "ready"}

(* No instance of a bring-up that has not begun, or of this one before its    *)
(* launch loop.                                                               *)
Fresh ==
  \A d \in Daemon, g \in Run :
    g > run \/ (g = run /\ pc \in Teardown) =>
      life[d][g] = "none" /\ sig[d][g] = "none"

(* Nothing is accepted before the launch loop, and the first bring-up is 1.   *)
Begun ==
  /\ pc = "idle" => run = 0
  /\ pc \in Working \cup {"ready"} => run > 0
  /\ pc \in Teardown => \A d \in Daemon : accepted[d] = "no"

(* From the first killall on, what is still in execve was noted as unseen, or *)
(* was launched by this bring-up.                                             *)
ExecUnseen ==
  pc \in {"grace", "kill"} \/ Swept =>
    \A d \in Daemon, g \in Run :
      life[d][g] = "exec" => <<d, g>> \in unseen \/ (g = run /\ pc \in Launching)

(* Between the two killalls every named process has had its SIGTERM.          *)
Termed ==
  pc \in {"grace", "kill"} =>
    \A d \in Daemon, g \in Run :
      Running(d, g) => sig[d][g] # "none" \/ <<d, g>> \in unseen

(* The launch loop's progress: what has left todo was accepted, what is left  *)
(* was not, but for the producer whose rings are waited for.                  *)
Progress ==
  pc \in Launching =>
    /\ todo \subseteq pass.want
    /\ \A d \in pass.want \ todo : accepted[d] # "no"
    /\ \A d \in todo : accepted[d] = "no" \/ (pc = "ring" /\ IsNext(d))
    /\ pc = "ring" => \A d \in todo : IsNext(d) => accepted[d] # "no"
    /\ pc = "verify" => todo # {}

(* The gating rings exist once a producer is done; while its rings are waited *)
(* for, those not waited for any more do.                                     *)
RingsUp ==
  pc \in Launching =>
    /\ \A p \in Producer \cap (pass.want \ todo) :
         \A r \in pass.rings : ring[r] # NoRing
    /\ pc = "ring" => \A r \in pass.rings \ toRing : ring[r] # NoRing

(* A log with a reason in it belongs to a launch that has ended, or a         *)
(* survivor wrote it.                                                         *)
LogOurs ==
  pc \in Launching =>
    \A d \in Daemon :
      log[d] # "empty" /\ life[d][run] \in {"exec", "up", "serving"} =>
        \E g \in Run : Survivor(d, g)

IInv == /\ TypeOK /\ Fresh /\ Begun /\ ExecUnseen /\ Termed
        /\ Progress /\ RingsUp /\ LogOurs
        /\ OnlySurvivors /\ SeenIsOurs /\ LaunchInOrder /\ RingBeforeConsumer
(* There is a next bring-up number below the bound. *)
LEMMA NextRun == ASSUME run \in Run, run < MaxRun PROVE run + 1 \in Run
BY ConstAssumption DEF Run

(* Every step keeps the types. *)
LEMMA TypeStep == IInv /\ [Next]_vars => TypeOK'
<1> SUFFICES ASSUME IInv, [Next]_vars PROVE TypeOK'
  OBVIOUS
<1> USE DEF script, device, IInv, TypeOK, Idle, Working, Verdict, Life, Instance
<1>1. CASE StartBringup
  <2>1. run' \in Run
    BY <1>1, NextRun DEF StartBringup
  <2>2. off' \subseteq Daemon
    BY <1>1, ConstAssumption DEF StartBringup
  <2>3. accepted' \in [Daemon -> Verdict] /\ todo' \subseteq Daemon /\ toRing' \subseteq Ring
    BY <1>1 DEF StartBringup
  <2> QED
    BY <1>1, <2>1, <2>2, <2>3 DEF StartBringup
<1>2. CASE GiveUp
  BY <1>2 DEF GiveUp
<1>3. CASE KillallTerm
  BY <1>3 DEF KillallTerm, Signal
<1>4. CASE GracePoll
  BY <1>4 DEF GracePoll
<1>5. CASE KillallKill
  BY <1>5 DEF KillallKill, Signal
<1>6. CASE Clean
  <2>1. pass.want \subseteq Daemon
    BY ConstAssumption
  <2> QED
    BY <1>6, <2>1 DEF Clean
<1>7. ASSUME NEW d \in Daemon, Launch(d) PROVE TypeOK'
  BY <1>7 DEF Launch
<1>8. ASSUME NEW d \in Daemon, VerifySeen(d) PROVE TypeOK'
  <2>1. pass.rings \subseteq Ring
    BY ConstAssumption
  <2> QED
    BY <1>8, <2>1 DEF VerifySeen, Accept
<1>9. ASSUME NEW d \in Daemon, VerifyDisabled(d) PROVE TypeOK'
  <2>1. pass.rings \subseteq Ring
    BY ConstAssumption
  <2> QED
    BY <1>9, <2>1 DEF VerifyDisabled, Accept
<1>10. ASSUME NEW d \in Daemon, VerifyFailed(d) PROVE TypeOK'
  BY <1>10 DEF VerifyFailed
<1>11. ASSUME NEW r \in Ring, RingWait(r) PROVE TypeOK'
  BY <1>11 DEF RingWait
<1>12. ASSUME NEW r \in Ring, RingFailed(r) PROVE TypeOK'
  BY <1>12 DEF RingFailed
<1>13. ASSUME NEW d \in Daemon, RingsDone(d) PROVE TypeOK'
  BY <1>13 DEF RingsDone
<1>14. CASE LaunchDone
  BY <1>14 DEF LaunchDone
<1>15. CASE PortReady
  BY <1>15 DEF PortReady
<1>16. CASE PortFailed
  BY <1>16 DEF PortFailed
<1>17. ASSUME NEW d \in Daemon, NEW g \in Run, Start(d, g) PROVE TypeOK'
  <2>1. PICK l \in Life : life' = [life EXCEPT ![d][g] = l]
    BY <1>17, Zenon DEF Start, Exit
  <2>2. log' \in [Daemon -> {"empty", "disabled", "already running"}]
    BY <1>17 DEF Start
  <2>3. syslog' = syslog \/ syslog' = syslog \cup {d}
    BY <1>17 DEF Start
  <2>4. UNCHANGED <<script, sig, ring, frames, unseen>>
    BY <1>17 DEF Start
  <2>5. life' \in [Daemon -> [Run -> Life]]
    BY <2>1
  <2>6. syslog' \subseteq Daemon
    BY <2>3
  <2> QED
    BY <2>2, <2>4, <2>5, <2>6
<1>18. ASSUME NEW d \in Daemon, NEW g \in Run, Serve(d, g) PROVE TypeOK'
  <2>1. life' \in [Daemon -> [Run -> Life]]
    BY <1>18 DEF Serve
  <2>2. ring' \in [Ring -> Run \cup {NoRing}] /\ frames' \subseteq Ring
    <3>1. CASE d \in Producer
      <4>1. PICK R \in SUBSET Ring :
              /\ ring' = [r \in Ring |-> IF r \in R THEN g ELSE ring[r]]
              /\ frames' = frames \ R
        BY <1>18, <3>1 DEF Serve
      <4> QED
        BY <4>1
    <3>2. CASE d \notin Producer
      BY <1>18, <3>2 DEF Serve
    <3> QED
      BY <3>1, <3>2
  <2> QED
    BY <1>18, <2>1, <2>2 DEF Serve
<1>19. ASSUME NEW r \in Ring, FirstFrame(r) PROVE TypeOK'
  BY <1>19 DEF FirstFrame
<1>20. ASSUME NEW d \in Daemon, NEW g \in Run, Die(d, g) PROVE TypeOK'
  BY <1>20 DEF Die, Exit
<1>21. CASE UNCHANGED vars
  BY <1>21 DEF vars, script, device
<1> QED
  BY <1>1, <1>2, <1>3, <1>4, <1>5, <1>6, <1>7, <1>8, <1>9, <1>10, <1>11, <1>12, <1>13, <1>14, <1>15, <1>16, <1>17, <1>18, <1>19, <1>20, <1>21 DEF Next, Script, Process

(* What a pass names are daemons and rings. *)
LEMMA PassTypes ==
  ASSUME pass \in Pass
  PROVE  pass.want \subseteq Daemon /\ pass.rings \subseteq Ring
BY ConstAssumption

(* The launch loop is at one daemon at a time. *)
LEMMA NextUnique ==
  ASSUME todo \subseteq Daemon, NEW d, IsNext(d)
  PROVE  \A e : IsNext(e) <=> e = d
BY ConstAssumption DEF IsNext

(* Nothing that is left ranks before the daemon the loop is at. *)
LEMMA NextFirst ==
  ASSUME todo \subseteq Daemon, NEW d \in Daemon, IsNext(d)
  PROVE  \A e \in todo : ~(Rank[e] < Rank[d])
<1> SUFFICES ASSUME NEW e \in todo PROVE ~(Rank[e] < Rank[d])
  OBVIOUS
<1>1. Rank[d] \in Nat /\ Rank[e] \in Nat
  BY ConstAssumption
<1> QED
  BY <1>1 DEF IsNext

(* The current bring-up has a number. *)
LEMMA RunTyped == TypeOK => run \in Run
BY DEF TypeOK

(* Bring-up numbers are naturals, and compare as such. *)
LEMMA RunIsNat ==
  \A g, h \in Run : g \in Nat /\ h \in Nat /\ g + 1 > 0
                    /\ (g > h + 1 \/ g = h + 1 => g > h) /\ ~(h > h)
                    /\ (g < h \/ g = h \/ g > h)
BY ConstAssumption DEF Run

(* An instance that starts comes up or ends. *)
LEMMA StartLife ==
  ASSUME NEW d \in Daemon, NEW g \in Run, Start(d, g)
  PROVE  /\ life[d][g] = "exec"
         /\ \E l \in {"up", "gone"} : life' = [life EXCEPT ![d][g] = l]
         /\ UNCHANGED <<script, sig, ring, frames, unseen>>
BY Zenon DEF Start, Exit

(* An instance that starts changes the log of its own daemon only, and only   *)
(* when it ends.                                                              *)
LEMMA StartLog ==
  ASSUME TypeOK, NEW d \in Daemon, NEW g \in Run, Start(d, g)
  PROVE  /\ life[d][g] = "exec"
         /\ \A e \in Daemon :
              log'[e] # log[e] => e = d /\ life' = [life EXCEPT ![d][g] = "gone"]
BY DEF Start, Exit, TypeOK

(* A step of a process launches nothing, leaves the script alone, and removes *)
(* no ring.                                                                   *)
LEMMA ProcessLife ==
  ASSUME TypeOK, NEW d \in Daemon, NEW g \in Run,
         Start(d, g) \/ Serve(d, g) \/ Die(d, g)
  PROVE  /\ \A e \in Daemon, h \in Run :
              /\ life'[e][h] # "none" <=> life[e][h] # "none"
              /\ life[e][h] \in {"up", "serving", "gone"} =>
                   life'[e][h] \in {"up", "serving", "gone"}
         /\ \A r \in Ring : ring[r] # NoRing => ring'[r] # NoRing
         /\ UNCHANGED <<pc, run, pass, off, todo, toRing, accepted, sig, unseen>>
<1>1. PICK l \in {"up", "serving", "gone"} : life' = [life EXCEPT ![d][g] = l]
  BY Zenon DEF Start, Serve, Die, Exit
<1>2. life[d][g] \in {"exec", "up", "serving"}
  BY DEF Start, Serve, Die
<1>3. UNCHANGED <<pc, run, pass, off, todo, toRing, accepted, sig, unseen>>
  BY DEF Start, Serve, Die, script
<1>4. \A r \in Ring : ring[r] # NoRing => ring'[r] # NoRing
  <2>1. g # NoRing
    BY RunIsNat, ConstAssumption
  <2>2. CASE Start(d, g) \/ Die(d, g)
    BY <2>2 DEF Start, Die
  <2>3. CASE Serve(d, g)
    BY <2>1, <2>3 DEF Serve
  <2> QED
    BY <2>2, <2>3
<1> QED
  BY <1>1, <1>2, <1>3, <1>4 DEF TypeOK

(* Every step keeps the future fresh. *)
LEMMA FreshStep == TypeOK /\ Fresh /\ [Next]_vars => Fresh'
<1> SUFFICES ASSUME TypeOK, Fresh, [Next]_vars PROVE Fresh'
  OBVIOUS
<1> USE DEF script, device, TypeOK, Fresh, Running, Teardown, Life
<1>1. CASE StartBringup
  <2>1. /\ run \in Run /\ run < MaxRun /\ run' = run + 1 /\ run' \in Run
        /\ UNCHANGED <<life, sig>>
    BY <1>1, NextRun DEF StartBringup
  <2> SUFFICES ASSUME NEW d \in Daemon, NEW g \in Run, g > run' \/ g = run'
               PROVE  life[d][g] = "none" /\ sig[d][g] = "none"
    BY <2>1
  <2>2. g > run
    BY <2>1, RunIsNat
  <2> QED
    BY <2>2
<1>2. CASE GiveUp
  BY <1>2 DEF GiveUp
<1>3. CASE KillallTerm
  BY <1>3 DEF KillallTerm, Signal
<1>4. CASE GracePoll
  BY <1>4 DEF GracePoll
<1>5. CASE KillallKill
  BY <1>5 DEF KillallKill, Signal
<1>6. CASE Clean
  BY <1>6 DEF Clean
<1>7. ASSUME NEW d \in Daemon, Launch(d) PROVE Fresh'
  <2> SUFFICES ASSUME NEW e \in Daemon, NEW g \in Run, g > run
               PROVE  life'[e][g] = "none" /\ sig[e][g] = "none"
    BY <1>7 DEF Launch
  <2>1. g # run
    BY RunIsNat
  <2> QED
    BY <1>7, <2>1 DEF Launch
<1>8. ASSUME NEW d \in Daemon, VerifySeen(d) PROVE Fresh'
  BY <1>8 DEF VerifySeen, Accept
<1>9. ASSUME NEW d \in Daemon, VerifyDisabled(d) PROVE Fresh'
  BY <1>9 DEF VerifyDisabled, Accept
<1>10. ASSUME NEW d \in Daemon, VerifyFailed(d) PROVE Fresh'
  BY <1>10 DEF VerifyFailed
<1>11. ASSUME NEW r \in Ring, RingWait(r) PROVE Fresh'
  BY <1>11 DEF RingWait
<1>12. ASSUME NEW r \in Ring, RingFailed(r) PROVE Fresh'
  BY <1>12 DEF RingFailed
<1>13. ASSUME NEW d \in Daemon, RingsDone(d) PROVE Fresh'
  BY <1>13 DEF RingsDone
<1>14. CASE LaunchDone
  BY <1>14 DEF LaunchDone
<1>15. CASE PortReady
  BY <1>15 DEF PortReady
<1>16. CASE PortFailed
  BY <1>16 DEF PortFailed
<1>17. ASSUME NEW d \in Daemon, NEW g \in Run, Start(d, g) PROVE Fresh'
  <2>1. PICK l \in {"up", "gone"} : life' = [life EXCEPT ![d][g] = l]
    BY <1>17, StartLife
  <2>2. life[d][g] = "exec" /\ UNCHANGED <<script, sig, ring, frames, unseen>>
    BY <1>17, StartLife
  <2> QED
    BY <2>1, <2>2
<1>18. ASSUME NEW d \in Daemon, NEW g \in Run, Serve(d, g) PROVE Fresh'
  BY <1>18 DEF Serve
<1>19. ASSUME NEW r \in Ring, FirstFrame(r) PROVE Fresh'
  BY <1>19 DEF FirstFrame
<1>20. ASSUME NEW d \in Daemon, NEW g \in Run, Die(d, g) PROVE Fresh'
  BY <1>20 DEF Die, Exit
<1>21. CASE UNCHANGED vars
  BY <1>21 DEF vars
<1> QED
  BY <1>1, <1>2, <1>3, <1>4, <1>5, <1>6, <1>7, <1>8, <1>9, <1>10, <1>11, <1>12, <1>13, <1>14, <1>15, <1>16, <1>17, <1>18, <1>19, <1>20, <1>21 DEF Next, Script, Process

(* Nothing is accepted before the launch loop. *)
LEMMA BegunStep == TypeOK /\ Begun /\ [Next]_vars => Begun'
<1> SUFFICES ASSUME TypeOK, Begun, [Next]_vars PROVE Begun'
  OBVIOUS
<1> USE DEF script, device, TypeOK, Begun, Idle, Working, Teardown
<1>1. CASE StartBringup
  BY <1>1, RunIsNat DEF StartBringup
<1>2. CASE GiveUp
  BY <1>2 DEF GiveUp
<1>3. CASE KillallTerm
  BY <1>3 DEF KillallTerm, Signal
<1>4. CASE GracePoll
  BY <1>4 DEF GracePoll
<1>5. CASE KillallKill
  BY <1>5 DEF KillallKill, Signal
<1>6. CASE Clean
  BY <1>6 DEF Clean
<1>7. ASSUME NEW d \in Daemon, Launch(d) PROVE Begun'
  BY <1>7 DEF Launch
<1>8. ASSUME NEW d \in Daemon, VerifySeen(d) PROVE Begun'
  BY <1>8 DEF VerifySeen, Accept
<1>9. ASSUME NEW d \in Daemon, VerifyDisabled(d) PROVE Begun'
  BY <1>9 DEF VerifyDisabled, Accept
<1>10. ASSUME NEW d \in Daemon, VerifyFailed(d) PROVE Begun'
  BY <1>10 DEF VerifyFailed
<1>11. ASSUME NEW r \in Ring, RingWait(r) PROVE Begun'
  BY <1>11 DEF RingWait
<1>12. ASSUME NEW r \in Ring, RingFailed(r) PROVE Begun'
  BY <1>12 DEF RingFailed
<1>13. ASSUME NEW d \in Daemon, RingsDone(d) PROVE Begun'
  BY <1>13 DEF RingsDone
<1>14. CASE LaunchDone
  BY <1>14 DEF LaunchDone
<1>15. CASE PortReady
  BY <1>15 DEF PortReady
<1>16. CASE PortFailed
  BY <1>16 DEF PortFailed
<1>17. ASSUME NEW d \in Daemon, NEW g \in Run, Start(d, g) PROVE Begun'
  BY <1>17, StartLife
<1>18. ASSUME NEW d \in Daemon, NEW g \in Run, Serve(d, g) PROVE Begun'
  BY <1>18 DEF Serve
<1>19. ASSUME NEW r \in Ring, FirstFrame(r) PROVE Begun'
  BY <1>19 DEF FirstFrame
<1>20. ASSUME NEW d \in Daemon, NEW g \in Run, Die(d, g) PROVE Begun'
  BY <1>20 DEF Die, Exit
<1>21. CASE UNCHANGED vars
  BY <1>21 DEF vars
<1> QED
  BY <1>1, <1>2, <1>3, <1>4, <1>5, <1>6, <1>7, <1>8, <1>9, <1>10, <1>11, <1>12, <1>13, <1>14, <1>15, <1>16, <1>17, <1>18, <1>19, <1>20, <1>21 DEF Next, Script, Process

(* What is in execve was noted, or is ours. *)
LEMMA ExecUnseenStep == TypeOK /\ Fresh /\ Begun /\ ExecUnseen /\ [Next]_vars => ExecUnseen'
<1> SUFFICES ASSUME TypeOK, Fresh, Begun, ExecUnseen, [Next]_vars PROVE ExecUnseen'
  OBVIOUS
<1> USE DEF script, device, TypeOK, Fresh, ExecUnseen, Swept, Launching, Teardown, Instance, Life
<1>1. CASE StartBringup
  BY <1>1 DEF StartBringup
<1>2. CASE GiveUp
  BY <1>2 DEF GiveUp
<1>3. CASE KillallTerm
  BY <1>3 DEF KillallTerm, Signal
<1>4. CASE GracePoll
  BY <1>4 DEF GracePoll
<1>5. CASE KillallKill
  BY <1>5 DEF KillallKill, Signal
<1>6. CASE Clean
  BY <1>6 DEF Clean
<1>7. ASSUME NEW d \in Daemon, Launch(d) PROVE ExecUnseen'
  BY <1>7, ZenonT(30) DEF Launch
<1>8. ASSUME NEW d \in Daemon, VerifySeen(d) PROVE ExecUnseen'
  BY <1>8 DEF VerifySeen, Accept
<1>9. ASSUME NEW d \in Daemon, VerifyDisabled(d) PROVE ExecUnseen'
  BY <1>9 DEF VerifyDisabled, Accept
<1>10. ASSUME NEW d \in Daemon, VerifyFailed(d) PROVE ExecUnseen'
  BY <1>10 DEF VerifyFailed
<1>11. ASSUME NEW r \in Ring, RingWait(r) PROVE ExecUnseen'
  BY <1>11 DEF RingWait
<1>12. ASSUME NEW r \in Ring, RingFailed(r) PROVE ExecUnseen'
  BY <1>12 DEF RingFailed
<1>13. ASSUME NEW d \in Daemon, RingsDone(d) PROVE ExecUnseen'
  BY <1>13 DEF RingsDone
<1>14. CASE LaunchDone
  BY <1>14 DEF LaunchDone
<1>15. CASE PortReady
  BY <1>15 DEF PortReady
<1>16. CASE PortFailed
  BY <1>16 DEF PortFailed
<1>17. ASSUME NEW d \in Daemon, NEW g \in Run, Start(d, g) PROVE ExecUnseen'
  <2>1. PICK l \in {"up", "gone"} : life' = [life EXCEPT ![d][g] = l]
    BY <1>17, StartLife
  <2>2. life[d][g] = "exec" /\ UNCHANGED <<script, sig, ring, frames, unseen>>
    BY <1>17, StartLife
  <2> QED
    BY <2>1, <2>2, ZenonT(30)
<1>18. ASSUME NEW d \in Daemon, NEW g \in Run, Serve(d, g) PROVE ExecUnseen'
  BY <1>18, ZenonT(30) DEF Serve
<1>19. ASSUME NEW r \in Ring, FirstFrame(r) PROVE ExecUnseen'
  BY <1>19 DEF FirstFrame
<1>20. ASSUME NEW d \in Daemon, NEW g \in Run, Die(d, g) PROVE ExecUnseen'
  BY <1>20, ZenonT(30) DEF Die, Exit
<1>21. CASE UNCHANGED vars
  BY <1>21 DEF vars
<1> QED
  BY <1>1, <1>2, <1>3, <1>4, <1>5, <1>6, <1>7, <1>8, <1>9, <1>10, <1>11, <1>12, <1>13, <1>14, <1>15, <1>16, <1>17, <1>18, <1>19, <1>20, <1>21 DEF Next, Script, Process

(* Every named process gets its SIGTERM. *)
LEMMA TermedStep == TypeOK /\ ExecUnseen /\ Termed /\ [Next]_vars => Termed'
<1> SUFFICES ASSUME TypeOK, ExecUnseen, Termed, [Next]_vars PROVE Termed'
  OBVIOUS
<1> USE DEF script, device, TypeOK, ExecUnseen, Termed, Running, Launching, Instance
<1>1. CASE StartBringup
  BY <1>1 DEF StartBringup
<1>2. CASE GiveUp
  BY <1>2 DEF GiveUp
<1>3. CASE KillallTerm
  BY <1>3 DEF KillallTerm, Signal
<1>4. CASE GracePoll
  BY <1>4 DEF GracePoll
<1>5. CASE KillallKill
  BY <1>5 DEF KillallKill, Signal
<1>6. CASE Clean
  BY <1>6 DEF Clean
<1>7. ASSUME NEW d \in Daemon, Launch(d) PROVE Termed'
  BY <1>7 DEF Launch
<1>8. ASSUME NEW d \in Daemon, VerifySeen(d) PROVE Termed'
  BY <1>8 DEF VerifySeen, Accept
<1>9. ASSUME NEW d \in Daemon, VerifyDisabled(d) PROVE Termed'
  BY <1>9 DEF VerifyDisabled, Accept
<1>10. ASSUME NEW d \in Daemon, VerifyFailed(d) PROVE Termed'
  BY <1>10 DEF VerifyFailed
<1>11. ASSUME NEW r \in Ring, RingWait(r) PROVE Termed'
  BY <1>11 DEF RingWait
<1>12. ASSUME NEW r \in Ring, RingFailed(r) PROVE Termed'
  BY <1>12 DEF RingFailed
<1>13. ASSUME NEW d \in Daemon, RingsDone(d) PROVE Termed'
  BY <1>13 DEF RingsDone
<1>14. CASE LaunchDone
  BY <1>14 DEF LaunchDone
<1>15. CASE PortReady
  BY <1>15 DEF PortReady
<1>16. CASE PortFailed
  BY <1>16 DEF PortFailed
<1>17. ASSUME NEW d \in Daemon, NEW g \in Run, Start(d, g) PROVE Termed'
  <2>1. PICK l \in {"up", "gone"} : life' = [life EXCEPT ![d][g] = l]
    BY <1>17, StartLife
  <2>2. life[d][g] = "exec" /\ UNCHANGED <<script, sig, ring, frames, unseen>>
    BY <1>17, StartLife
  <2> QED
    BY <2>1, <2>2
<1>18. ASSUME NEW d \in Daemon, NEW g \in Run, Serve(d, g) PROVE Termed'
  BY <1>18 DEF Serve
<1>19. ASSUME NEW r \in Ring, FirstFrame(r) PROVE Termed'
  BY <1>19 DEF FirstFrame
<1>20. ASSUME NEW d \in Daemon, NEW g \in Run, Die(d, g) PROVE Termed'
  BY <1>20 DEF Die, Exit
<1>21. CASE UNCHANGED vars
  BY <1>21 DEF vars
<1> QED
  BY <1>1, <1>2, <1>3, <1>4, <1>5, <1>6, <1>7, <1>8, <1>9, <1>10, <1>11, <1>12, <1>13, <1>14, <1>15, <1>16, <1>17, <1>18, <1>19, <1>20, <1>21 DEF Next, Script, Process

(* Every step keeps the pass free of all but survivors. *)
LEMMA OnlySurvivorsStep == TypeOK /\ Fresh /\ Begun /\ ExecUnseen /\ OnlySurvivors /\ [Next]_vars => OnlySurvivors'
<1> SUFFICES ASSUME TypeOK, Fresh, Begun, ExecUnseen, OnlySurvivors, [Next]_vars PROVE OnlySurvivors'
  OBVIOUS
<1> USE DEF script, device, TypeOK, ExecUnseen, OnlySurvivors, Swept, Survivor, Running, Launching, Pidof, Instance
<1>1. CASE StartBringup
  BY <1>1 DEF StartBringup
<1>2. CASE GiveUp
  BY <1>2 DEF GiveUp
<1>3. CASE KillallTerm
  BY <1>3 DEF KillallTerm, Signal
<1>4. CASE GracePoll
  BY <1>4 DEF GracePoll
<1>5. CASE KillallKill
  BY <1>5 DEF KillallKill, Signal
<1>6. CASE Clean
  BY <1>6 DEF Clean
<1>7. ASSUME NEW d \in Daemon, Launch(d) PROVE OnlySurvivors'
  BY <1>7, RunIsNat, ZenonT(30) DEF Launch
<1>8. ASSUME NEW d \in Daemon, VerifySeen(d) PROVE OnlySurvivors'
  BY <1>8 DEF VerifySeen, Accept
<1>9. ASSUME NEW d \in Daemon, VerifyDisabled(d) PROVE OnlySurvivors'
  BY <1>9 DEF VerifyDisabled, Accept
<1>10. ASSUME NEW d \in Daemon, VerifyFailed(d) PROVE OnlySurvivors'
  BY <1>10 DEF VerifyFailed
<1>11. ASSUME NEW r \in Ring, RingWait(r) PROVE OnlySurvivors'
  BY <1>11 DEF RingWait
<1>12. ASSUME NEW r \in Ring, RingFailed(r) PROVE OnlySurvivors'
  BY <1>12 DEF RingFailed
<1>13. ASSUME NEW d \in Daemon, RingsDone(d) PROVE OnlySurvivors'
  BY <1>13 DEF RingsDone
<1>14. CASE LaunchDone
  BY <1>14 DEF LaunchDone
<1>15. CASE PortReady
  BY <1>15 DEF PortReady
<1>16. CASE PortFailed
  BY <1>16 DEF PortFailed
<1>17. ASSUME NEW d \in Daemon, NEW g \in Run, Start(d, g) PROVE OnlySurvivors'
  <2>1. PICK l \in {"up", "gone"} : life' = [life EXCEPT ![d][g] = l]
    BY <1>17, StartLife
  <2>2. life[d][g] = "exec" /\ UNCHANGED <<script, sig, ring, frames, unseen>>
    BY <1>17, StartLife
  <2> QED
    <3> SUFFICES ASSUME NEW e \in Daemon, NEW h \in Run, Swept, h < run,
                        life'[e][h] \in {"up", "serving"}
                 PROVE  sig[e][h] = "kill" \/ <<e, h>> \in unseen
      BY <2>2
    <3>1. CASE e = d /\ h = g
      BY <2>2, <3>1, RunIsNat, ZenonT(30)
    <3>2. CASE ~(e = d /\ h = g)
      BY <2>1, <2>2, <3>2
    <3> QED
      BY <3>1, <3>2
<1>18. ASSUME NEW d \in Daemon, NEW g \in Run, Serve(d, g) PROVE OnlySurvivors'
  BY <1>18 DEF Serve
<1>19. ASSUME NEW r \in Ring, FirstFrame(r) PROVE OnlySurvivors'
  BY <1>19 DEF FirstFrame
<1>20. ASSUME NEW d \in Daemon, NEW g \in Run, Die(d, g) PROVE OnlySurvivors'
  BY <1>20 DEF Die, Exit
<1>21. CASE UNCHANGED vars
  BY <1>21 DEF vars
<1> QED
  BY <1>1, <1>2, <1>3, <1>4, <1>5, <1>6, <1>7, <1>8, <1>9, <1>10, <1>11, <1>12, <1>13, <1>14, <1>15, <1>16, <1>17, <1>18, <1>19, <1>20, <1>21 DEF Next, Script, Process

(* Every step keeps the launch loop's accounts. *)
LEMMA ProgressStep == TypeOK /\ Begun /\ Progress /\ [Next]_vars => Progress'
<1> SUFFICES ASSUME TypeOK, Begun, Progress, [Next]_vars PROVE Progress'
  OBVIOUS
<1> USE DEF script, device, TypeOK, Begun, Progress, Launching, Teardown, IsNext, Idle, Working
<1>1. CASE StartBringup
  BY <1>1 DEF StartBringup
<1>2. CASE GiveUp
  BY <1>2 DEF GiveUp
<1>3. CASE KillallTerm
  BY <1>3 DEF KillallTerm, Signal
<1>4. CASE GracePoll
  BY <1>4 DEF GracePoll
<1>5. CASE KillallKill
  BY <1>5 DEF KillallKill, Signal
<1>6. CASE Clean
  BY <1>6, PassTypes DEF Clean
<1>7. ASSUME NEW d \in Daemon, Launch(d) PROVE Progress'
  BY <1>7 DEF Launch
<1>8. ASSUME NEW d \in Daemon, VerifySeen(d) PROVE Progress'
  <2>1. /\ pc = "verify" /\ d \in todo /\ IsNext(d)
        /\ accepted' = [accepted EXCEPT ![d] = "seen"] /\ pass' = pass
    BY <1>8 DEF VerifySeen, Accept
  <2>2. CASE d \in Producer
    <3>1. pc' = "ring" /\ todo' = todo
      BY <1>8, <2>2 DEF VerifySeen, Accept
    <3>2. \A e \in todo' : IsNext(e)' <=> e = d
      BY <2>1, <3>1, NextUnique
    <3> HIDE DEF IsNext
    <3>3. \A e \in todo' : accepted'[e] = "no" \/ (pc' = "ring" /\ IsNext(e)')
      BY <2>1, <3>1, <3>2
    <3>4. todo' \subseteq pass'.want /\ \A e \in pass'.want \ todo' : accepted'[e] # "no"
      BY <2>1, <3>1, PassTypes
    <3>5. \A e \in todo' : IsNext(e)' => accepted'[e] # "no"
      BY <2>1, <3>1, <3>2
    <3> QED
      BY <3>1, <3>3, <3>4, <3>5
  <2>3. CASE d \notin Producer
    <3> HIDE DEF IsNext
    <3>1. pc' = "launch" /\ todo' = todo \ {d}
      BY <1>8, <2>3 DEF VerifySeen, Accept
    <3>4. todo' \subseteq pass'.want /\ \A e \in pass'.want \ todo' : accepted'[e] # "no"
      BY <2>1, <3>1, PassTypes
    <3>5. \A e \in todo' : accepted'[e] = "no"
      BY <2>1, <3>1, NextUnique
    <3> QED
      BY <3>1, <3>4, <3>5
  <2> QED
    BY <2>2, <2>3
<1>9. ASSUME NEW d \in Daemon, VerifyDisabled(d) PROVE Progress'
  <2>1. /\ pc = "verify" /\ d \in todo /\ IsNext(d)
        /\ accepted' = [accepted EXCEPT ![d] = "disabled"] /\ pass' = pass
    BY <1>9 DEF VerifyDisabled, Accept
  <2>2. CASE d \in Producer
    <3>1. pc' = "ring" /\ todo' = todo
      BY <1>9, <2>2 DEF VerifyDisabled, Accept
    <3>2. \A e \in todo' : IsNext(e)' <=> e = d
      BY <2>1, <3>1, NextUnique
    <3> HIDE DEF IsNext
    <3>3. \A e \in todo' : accepted'[e] = "no" \/ (pc' = "ring" /\ IsNext(e)')
      BY <2>1, <3>1, <3>2
    <3>4. todo' \subseteq pass'.want /\ \A e \in pass'.want \ todo' : accepted'[e] # "no"
      BY <2>1, <3>1, PassTypes
    <3>5. \A e \in todo' : IsNext(e)' => accepted'[e] # "no"
      BY <2>1, <3>1, <3>2
    <3> QED
      BY <3>1, <3>3, <3>4, <3>5
  <2>3. CASE d \notin Producer
    <3> HIDE DEF IsNext
    <3>1. pc' = "launch" /\ todo' = todo \ {d}
      BY <1>9, <2>3 DEF VerifyDisabled, Accept
    <3>4. todo' \subseteq pass'.want /\ \A e \in pass'.want \ todo' : accepted'[e] # "no"
      BY <2>1, <3>1, PassTypes
    <3>5. \A e \in todo' : accepted'[e] = "no"
      BY <2>1, <3>1, NextUnique
    <3> QED
      BY <3>1, <3>4, <3>5
  <2> QED
    BY <2>2, <2>3
<1>10. ASSUME NEW d \in Daemon, VerifyFailed(d) PROVE Progress'
  BY <1>10 DEF VerifyFailed
<1>11. ASSUME NEW r \in Ring, RingWait(r) PROVE Progress'
  BY <1>11 DEF RingWait
<1>12. ASSUME NEW r \in Ring, RingFailed(r) PROVE Progress'
  BY <1>12 DEF RingFailed
<1>13. ASSUME NEW d \in Daemon, RingsDone(d) PROVE Progress'
  <2>1. \A e \in todo : e # d => accepted[e] = "no"
    BY <1>13, NextUnique DEF RingsDone
  <2> QED
    BY <1>13, <2>1 DEF RingsDone
<1>14. CASE LaunchDone
  BY <1>14 DEF LaunchDone
<1>15. CASE PortReady
  BY <1>15 DEF PortReady
<1>16. CASE PortFailed
  BY <1>16 DEF PortFailed
<1>17. ASSUME NEW d \in Daemon, NEW g \in Run, Start(d, g) PROVE Progress'
  <2>1. PICK l \in {"up", "gone"} : life' = [life EXCEPT ![d][g] = l]
    BY <1>17, StartLife
  <2>2. life[d][g] = "exec" /\ UNCHANGED <<script, sig, ring, frames, unseen>>
    BY <1>17, StartLife
  <2> QED
    BY <2>1, <2>2
<1>18. ASSUME NEW d \in Daemon, NEW g \in Run, Serve(d, g) PROVE Progress'
  BY <1>18 DEF Serve
<1>19. ASSUME NEW r \in Ring, FirstFrame(r) PROVE Progress'
  BY <1>19 DEF FirstFrame
<1>20. ASSUME NEW d \in Daemon, NEW g \in Run, Die(d, g) PROVE Progress'
  BY <1>20 DEF Die, Exit
<1>21. CASE UNCHANGED vars
  BY <1>21 DEF vars
<1> QED
  BY <1>1, <1>2, <1>3, <1>4, <1>5, <1>6, <1>7, <1>8, <1>9, <1>10, <1>11, <1>12, <1>13, <1>14, <1>15, <1>16, <1>17, <1>18, <1>19, <1>20, <1>21 DEF Next, Script, Process

(* Every step keeps the gating rings. *)
LEMMA RingsUpStep == TypeOK /\ Progress /\ RingsUp /\ [Next]_vars => RingsUp'
<1> SUFFICES ASSUME TypeOK, Progress, RingsUp, [Next]_vars PROVE RingsUp'
  OBVIOUS
<1> USE DEF script, device, TypeOK, Progress, RingsUp, Launching, IsNext
<1>1. CASE StartBringup
  BY <1>1 DEF StartBringup
<1>2. CASE GiveUp
  BY <1>2 DEF GiveUp
<1>3. CASE KillallTerm
  BY <1>3 DEF KillallTerm, Signal
<1>4. CASE GracePoll
  BY <1>4 DEF GracePoll
<1>5. CASE KillallKill
  BY <1>5 DEF KillallKill, Signal
<1>6. CASE Clean
  BY <1>6 DEF Clean
<1>7. ASSUME NEW d \in Daemon, Launch(d) PROVE RingsUp'
  BY <1>7 DEF Launch
<1>8. ASSUME NEW d \in Daemon, VerifySeen(d) PROVE RingsUp'
  BY <1>8 DEF VerifySeen, Accept
<1>9. ASSUME NEW d \in Daemon, VerifyDisabled(d) PROVE RingsUp'
  BY <1>9 DEF VerifyDisabled, Accept
<1>10. ASSUME NEW d \in Daemon, VerifyFailed(d) PROVE RingsUp'
  BY <1>10 DEF VerifyFailed
<1>11. ASSUME NEW r \in Ring, RingWait(r) PROVE RingsUp'
  BY <1>11 DEF RingWait
<1>12. ASSUME NEW r \in Ring, RingFailed(r) PROVE RingsUp'
  BY <1>12 DEF RingFailed
<1>13. ASSUME NEW d \in Daemon, RingsDone(d) PROVE RingsUp'
  BY <1>13 DEF RingsDone
<1>14. CASE LaunchDone
  BY <1>14 DEF LaunchDone
<1>15. CASE PortReady
  BY <1>15 DEF PortReady
<1>16. CASE PortFailed
  BY <1>16 DEF PortFailed
<1>17. ASSUME NEW d \in Daemon, NEW g \in Run, Start(d, g) PROVE RingsUp'
  <2>1. PICK l \in {"up", "gone"} : life' = [life EXCEPT ![d][g] = l]
    BY <1>17, StartLife
  <2>2. life[d][g] = "exec" /\ UNCHANGED <<script, sig, ring, frames, unseen>>
    BY <1>17, StartLife
  <2> QED
    BY <2>1, <2>2
<1>18. ASSUME NEW d \in Daemon, NEW g \in Run, Serve(d, g) PROVE RingsUp'
  <2>1. \A r \in Ring : ring'[r] = ring[r] \/ ring'[r] = g
    BY <1>18 DEF Serve
  <2>2. g # NoRing
    BY RunIsNat, ConstAssumption, ZenonT(30)
  <2>3. UNCHANGED script
    BY <1>18 DEF Serve
  <2> QED
    BY <2>1, <2>2, <2>3, PassTypes
<1>19. ASSUME NEW r \in Ring, FirstFrame(r) PROVE RingsUp'
  BY <1>19 DEF FirstFrame
<1>20. ASSUME NEW d \in Daemon, NEW g \in Run, Die(d, g) PROVE RingsUp'
  BY <1>20 DEF Die, Exit
<1>21. CASE UNCHANGED vars
  BY <1>21 DEF vars
<1> QED
  BY <1>1, <1>2, <1>3, <1>4, <1>5, <1>6, <1>7, <1>8, <1>9, <1>10, <1>11, <1>12, <1>13, <1>14, <1>15, <1>16, <1>17, <1>18, <1>19, <1>20, <1>21 DEF Next, Script, Process

(* What is still in execve during the launch loop, and is not this bring-up's *)
(* own, is a survivor.                                                        *)
LEMMA ExecSurvives ==
  ASSUME TypeOK, Fresh, ExecUnseen, pc \in Launching,
         NEW d \in Daemon, NEW g \in Run, life[d][g] = "exec", g # run
  PROVE  Survivor(d, g)
<1>1. <<d, g>> \in unseen
  BY DEF ExecUnseen, Swept, Launching
<1>2. ~(g > run)
  BY DEF Fresh
<1>3. g < run
  BY <1>2, RunIsNat, RunTyped
<1> QED
  BY <1>1, <1>3 DEF Survivor

(* Every step keeps a reason in a log tied to a launch that ended. *)
LEMMA LogOursStep == TypeOK /\ Fresh /\ Begun /\ ExecUnseen /\ LogOurs /\ [Next]_vars => LogOurs'
<1> SUFFICES ASSUME TypeOK, Fresh, Begun, ExecUnseen, LogOurs, [Next]_vars PROVE LogOurs'
  OBVIOUS
<1> USE DEF script, device, TypeOK, Fresh, ExecUnseen, LogOurs, Swept, Survivor, Launching, Teardown, Instance
<1>1. CASE StartBringup
  BY <1>1 DEF StartBringup
<1>2. CASE GiveUp
  BY <1>2 DEF GiveUp
<1>3. CASE KillallTerm
  BY <1>3 DEF KillallTerm, Signal
<1>4. CASE GracePoll
  BY <1>4 DEF GracePoll
<1>5. CASE KillallKill
  BY <1>5 DEF KillallKill, Signal
<1>6. CASE Clean
  BY <1>6 DEF Clean
<1>7. ASSUME NEW d \in Daemon, Launch(d) PROVE LogOurs'
  BY <1>7 DEF Launch
<1>8. ASSUME NEW d \in Daemon, VerifySeen(d) PROVE LogOurs'
  BY <1>8 DEF VerifySeen, Accept
<1>9. ASSUME NEW d \in Daemon, VerifyDisabled(d) PROVE LogOurs'
  BY <1>9 DEF VerifyDisabled, Accept
<1>10. ASSUME NEW d \in Daemon, VerifyFailed(d) PROVE LogOurs'
  BY <1>10 DEF VerifyFailed
<1>11. ASSUME NEW r \in Ring, RingWait(r) PROVE LogOurs'
  BY <1>11 DEF RingWait
<1>12. ASSUME NEW r \in Ring, RingFailed(r) PROVE LogOurs'
  BY <1>12 DEF RingFailed
<1>13. ASSUME NEW d \in Daemon, RingsDone(d) PROVE LogOurs'
  BY <1>13 DEF RingsDone
<1>14. CASE LaunchDone
  BY <1>14 DEF LaunchDone
<1>15. CASE PortReady
  BY <1>15 DEF PortReady
<1>16. CASE PortFailed
  BY <1>16 DEF PortFailed
<1>17. ASSUME NEW d \in Daemon, NEW g \in Run, Start(d, g) PROVE LogOurs'
  <2>1. /\ UNCHANGED <<pc, run, sig, unseen>>
        /\ \E l \in {"up", "gone"} : life' = [life EXCEPT ![d][g] = l]
        /\ life[d][g] = "exec" /\ run \in Run
    BY <1>17, StartLife
  <2>2. SUFFICES ASSUME NEW e \in Daemon, pc \in Launching, log'[e] # "empty",
                        life'[e][run] \in {"exec", "up", "serving"}
                 PROVE  \E h \in Run : Survivor(e, h)
    BY <2>1
  <2>3. CASE log'[e] = log[e]
    <3>1. life[e][run] \in {"exec", "up", "serving"}
      <4>1. PICK l \in {"up", "gone"} : life' = [life EXCEPT ![d][g] = l]
        BY <2>1
      <4> QED
        BY <2>1, <2>2, <4>1
    <3> QED
      BY <2>2, <2>3, <3>1
  <2>4. CASE log'[e] # log[e]
    <3> HIDE DEF TypeOK
    <3>1. e = d /\ life' = [life EXCEPT ![d][g] = "gone"]
      BY <1>17, <2>2, <2>4, StartLog
    <3> USE DEF TypeOK
    <3>2. g # run
      BY <2>1, <2>2, <3>1
    <3>3. Survivor(d, g)
      BY <2>1, <2>2, <3>2, ExecSurvives
    <3> QED
      BY <3>1, <3>3
  <2> QED
    BY <2>3, <2>4
<1>18. ASSUME NEW d \in Daemon, NEW g \in Run, Serve(d, g) PROVE LogOurs'
  BY <1>18 DEF Serve
<1>19. ASSUME NEW r \in Ring, FirstFrame(r) PROVE LogOurs'
  BY <1>19 DEF FirstFrame
<1>20. ASSUME NEW d \in Daemon, NEW g \in Run, Die(d, g) PROVE LogOurs'
  BY <1>20 DEF Die, Exit
<1>21. CASE UNCHANGED vars
  BY <1>21 DEF vars
<1> QED
  BY <1>1, <1>2, <1>3, <1>4, <1>5, <1>6, <1>7, <1>8, <1>9, <1>10, <1>11, <1>12, <1>13, <1>14, <1>15, <1>16, <1>17, <1>18, <1>19, <1>20, <1>21 DEF Next, Script, Process

(* Every step keeps what was seen ours. *)
LEMMA SeenIsOursStep == TypeOK /\ Fresh /\ Begun /\ ExecUnseen /\ Progress /\ LogOurs /\ OnlySurvivors /\ SeenIsOurs /\ [Next]_vars => SeenIsOurs'
<1> SUFFICES ASSUME TypeOK, Fresh, Begun, ExecUnseen, Progress, LogOurs, OnlySurvivors, SeenIsOurs, [Next]_vars PROVE SeenIsOurs'
  OBVIOUS
<1> USE DEF script, device, SeenIsOurs, Swept
<1>1. CASE StartBringup
  BY <1>1 DEF Survivor, StartBringup
<1>2. CASE GiveUp
  BY <1>2 DEF Survivor, GiveUp
<1>3. CASE KillallTerm
  BY <1>3 DEF Survivor, KillallTerm, Signal
<1>4. CASE GracePoll
  BY <1>4 DEF Begun, Teardown, Survivor, GracePoll
<1>5. CASE KillallKill
  BY <1>5 DEF Begun, Teardown, Survivor, KillallKill, Signal
<1>6. CASE Clean
  BY <1>6 DEF Begun, Teardown, Survivor, Clean
<1>7. ASSUME NEW d \in Daemon, Launch(d) PROVE SeenIsOurs'
  <2>1. /\ accepted[d] = "no" /\ Swept
        /\ UNCHANGED <<run, accepted, sig, unseen>>
    BY <1>7 DEF Launch, Progress, Launching, IsNext
  <2>2. \A e \in Daemon : e # d => life'[e] = life[e] /\ log'[e] = log[e]
    BY <1>7 DEF Launch, TypeOK
  <2> QED
    BY <2>1, <2>2 DEF Survivor
<1>8. ASSUME NEW d \in Daemon, VerifySeen(d) PROVE SeenIsOurs'
  <2>1. PICK g \in Run : Running(d, g)
    BY <1>8 DEF VerifySeen, Pidof
  <2>2. pc = "verify" /\ run \in Run
    BY <1>8 DEF VerifySeen, TypeOK
  <2>3. \/ life[d][run] \in {"up", "serving", "gone"} /\ log[d] = "empty"
        \/ \E h \in Run : Survivor(d, h)
    <3>1. CASE g = run
      BY <2>1, <2>2, <3>1 DEF LogOurs, Launching, Running
    <3>2. CASE g > run
      BY <2>1, <3>2 DEF Fresh, Running
    <3>3. CASE g < run
      BY <2>1, <2>2, <3>3 DEF OnlySurvivors
    <3> QED
      BY <2>2, <3>1, <3>2, <3>3, RunIsNat
  <2>4. \A e \in Daemon : accepted'[e] = "seen" => e = d \/ accepted[e] = "seen"
    BY <1>8 DEF VerifySeen, Accept, TypeOK
  <2> QED
    BY <1>8, <2>3, <2>4 DEF VerifySeen, Accept, Survivor
<1>9. ASSUME NEW d \in Daemon, VerifyDisabled(d) PROVE SeenIsOurs'
  <2>1. \A e \in Daemon : accepted'[e] = "seen" => accepted[e] = "seen"
    BY <1>9 DEF VerifyDisabled, Accept, TypeOK
  <2> QED
    BY <1>9, <2>1 DEF VerifyDisabled, Accept, Survivor
<1>10. ASSUME NEW d \in Daemon, VerifyFailed(d) PROVE SeenIsOurs'
  BY <1>10 DEF Survivor, VerifyFailed
<1>11. ASSUME NEW r \in Ring, RingWait(r) PROVE SeenIsOurs'
  BY <1>11 DEF Survivor, RingWait
<1>12. ASSUME NEW r \in Ring, RingFailed(r) PROVE SeenIsOurs'
  BY <1>12 DEF Survivor, RingFailed
<1>13. ASSUME NEW d \in Daemon, RingsDone(d) PROVE SeenIsOurs'
  BY <1>13 DEF Survivor, RingsDone
<1>14. CASE LaunchDone
  BY <1>14 DEF Survivor, LaunchDone
<1>15. CASE PortReady
  BY <1>15 DEF Survivor, PortReady
<1>16. CASE PortFailed
  BY <1>16 DEF Survivor, PortFailed
<1>17. ASSUME NEW d \in Daemon, NEW g \in Run, Start(d, g) PROVE SeenIsOurs'
  <2>1. /\ UNCHANGED <<pc, run, accepted, sig, unseen>>
        /\ life[d][g] = "exec"
    BY <1>17, StartLife
  <2>2. SUFFICES ASSUME NEW e \in Daemon, Swept, accepted[e] = "seen",
                        ~\E h \in Run : Survivor(e, h)
                 PROVE  /\ life'[e][run] \in {"up", "serving", "gone"}
                        /\ log'[e] = "empty"
    BY <2>1 DEF Survivor
  <2>3. life[e][run] \in {"up", "serving", "gone"} /\ log[e] = "empty"
    BY <2>2
  <2>4. life'[e][run] \in {"up", "serving", "gone"}
    BY <1>17, <2>3, ProcessLife, RunTyped
  <2>5. log'[e] = log[e]
    <3>1. CASE e = d
      <4>1. g # run
        BY <2>1, <2>3, <3>1
      <4>2. pc \in Launching
        BY <2>2 DEF Begun, Teardown, Swept, Launching
      <4> QED
        BY <2>1, <2>2, <3>1, <4>1, <4>2, ExecSurvives
    <3>2. CASE e # d
      BY <1>17, <3>2, StartLog
    <3> QED
      BY <3>1, <3>2
  <2> QED
    BY <2>3, <2>4, <2>5
<1>18. ASSUME NEW d \in Daemon, NEW g \in Run, Serve(d, g) PROVE SeenIsOurs'
  <2>1. UNCHANGED <<pc, run, accepted, sig, unseen, log>>
    BY <1>18 DEF Serve
  <2> QED
    BY <1>18, <2>1, ProcessLife, RunTyped DEF Survivor
<1>19. ASSUME NEW r \in Ring, FirstFrame(r) PROVE SeenIsOurs'
  BY <1>19 DEF Survivor, FirstFrame
<1>20. ASSUME NEW d \in Daemon, NEW g \in Run, Die(d, g) PROVE SeenIsOurs'
  <2>1. UNCHANGED <<pc, run, accepted, sig, unseen, log>>
    BY <1>20 DEF Die
  <2> QED
    BY <1>20, <2>1, ProcessLife, RunTyped DEF Survivor
<1>21. CASE UNCHANGED vars
  BY <1>21 DEF Survivor, vars
<1> QED
  BY <1>1, <1>2, <1>3, <1>4, <1>5, <1>6, <1>7, <1>8, <1>9, <1>10, <1>11, <1>12, <1>13, <1>14, <1>15, <1>16, <1>17, <1>18, <1>19, <1>20, <1>21 DEF Next, Script, Process

(* Every step keeps the launch order. *)
LEMMA LaunchInOrderStep == TypeOK /\ Fresh /\ Begun /\ Progress /\ LaunchInOrder /\ [Next]_vars => LaunchInOrder'
<1> SUFFICES ASSUME TypeOK, Fresh, Begun, Progress, LaunchInOrder, [Next]_vars PROVE LaunchInOrder'
  OBVIOUS
<1> USE DEF script, device, LaunchInOrder
<1>1. CASE StartBringup
  BY <1>1 DEF StartBringup
<1>2. CASE GiveUp
  BY <1>2 DEF Fresh, Teardown, TypeOK, GiveUp
<1>3. CASE KillallTerm
  BY <1>3 DEF KillallTerm, Signal
<1>4. CASE GracePoll
  BY <1>4 DEF GracePoll
<1>5. CASE KillallKill
  BY <1>5 DEF KillallKill, Signal
<1>6. CASE Clean
  BY <1>6 DEF Fresh, Teardown, TypeOK, Clean
<1>7. ASSUME NEW d \in Daemon, Launch(d) PROVE LaunchInOrder'
  <2>1. /\ pc = "launch" /\ IsNext(d) /\ pc' = "verify"
        /\ life' = [life EXCEPT ![d][run] = "exec"]
        /\ UNCHANGED <<run, pass, todo, accepted>>
    BY <1>7 DEF Launch
  <2>2. \A e \in Daemon : e # d => life'[e][run] = life[e][run]
    BY <2>1 DEF TypeOK
  <2>3. /\ d \in todo /\ todo \subseteq pass.want
        /\ \A e \in pass.want \ todo : accepted[e] # "no"
    BY <2>1 DEF Progress, Launching, IsNext
  <2>4. \A e \in pass.want : Rank[e] < Rank[d] => e \notin todo
    BY <2>1, NextFirst DEF TypeOK
  <2> QED
    BY <2>1, <2>2, <2>3, <2>4
<1>8. ASSUME NEW d \in Daemon, VerifySeen(d) PROVE LaunchInOrder'
  BY <1>8, PassTypes DEF VerifySeen, Accept
<1>9. ASSUME NEW d \in Daemon, VerifyDisabled(d) PROVE LaunchInOrder'
  BY <1>9, PassTypes DEF VerifyDisabled, Accept
<1>10. ASSUME NEW d \in Daemon, VerifyFailed(d) PROVE LaunchInOrder'
  BY <1>10 DEF VerifyFailed
<1>11. ASSUME NEW r \in Ring, RingWait(r) PROVE LaunchInOrder'
  BY <1>11 DEF RingWait
<1>12. ASSUME NEW r \in Ring, RingFailed(r) PROVE LaunchInOrder'
  BY <1>12 DEF RingFailed
<1>13. ASSUME NEW d \in Daemon, RingsDone(d) PROVE LaunchInOrder'
  BY <1>13 DEF RingsDone
<1>14. CASE LaunchDone
  BY <1>14 DEF LaunchDone
<1>15. CASE PortReady
  BY <1>15 DEF PortReady
<1>16. CASE PortFailed
  BY <1>16 DEF PortFailed
<1>17. ASSUME NEW d \in Daemon, NEW g \in Run, Start(d, g) PROVE LaunchInOrder'
  BY <1>17, ProcessLife, RunTyped
<1>18. ASSUME NEW d \in Daemon, NEW g \in Run, Serve(d, g) PROVE LaunchInOrder'
  BY <1>18, ProcessLife, RunTyped
<1>19. ASSUME NEW r \in Ring, FirstFrame(r) PROVE LaunchInOrder'
  BY <1>19 DEF FirstFrame
<1>20. ASSUME NEW d \in Daemon, NEW g \in Run, Die(d, g) PROVE LaunchInOrder'
  BY <1>20, ProcessLife, RunTyped
<1>21. CASE UNCHANGED vars
  BY <1>21 DEF vars
<1> QED
  BY <1>1, <1>2, <1>3, <1>4, <1>5, <1>6, <1>7, <1>8, <1>9, <1>10, <1>11, <1>12, <1>13, <1>14, <1>15, <1>16, <1>17, <1>18, <1>19, <1>20, <1>21 DEF Next, Script, Process

(* Every step keeps the rings before their consumers. *)
LEMMA RingBeforeConsumerStep == TypeOK /\ Fresh /\ Begun /\ Progress /\ RingsUp /\ RingBeforeConsumer /\ [Next]_vars => RingBeforeConsumer'
<1> SUFFICES ASSUME TypeOK, Fresh, Begun, Progress, RingsUp, RingBeforeConsumer, [Next]_vars PROVE RingBeforeConsumer'
  OBVIOUS
<1> USE DEF script, device, RingBeforeConsumer, Swept
<1>1. CASE StartBringup
  BY <1>1 DEF StartBringup
<1>2. CASE GiveUp
  BY <1>2 DEF GiveUp
<1>3. CASE KillallTerm
  BY <1>3 DEF KillallTerm, Signal
<1>4. CASE GracePoll
  BY <1>4 DEF Fresh, Teardown, TypeOK, GracePoll
<1>5. CASE KillallKill
  BY <1>5 DEF Fresh, Teardown, TypeOK, KillallKill, Signal
<1>6. CASE Clean
  BY <1>6 DEF Fresh, Teardown, TypeOK, Clean
<1>7. ASSUME NEW d \in Daemon, Launch(d) PROVE RingBeforeConsumer'
  <2>1. /\ pc = "launch" /\ IsNext(d) /\ pc' = "verify"
        /\ life' = [life EXCEPT ![d][run] = "exec"]
        /\ UNCHANGED <<run, pass, todo, ring>>
    BY <1>7 DEF Launch
  <2>2. \A e \in Daemon : e # d => life'[e][run] = life[e][run]
    BY <2>1 DEF TypeOK
  <2>3. d \notin Producer => \A p \in Producer \cap pass.want : p \notin todo
    BY <2>1, NextFirst, ConstAssumption DEF TypeOK
  <2>4. \A p \in Producer \cap (pass.want \ todo) :
          \A r \in pass.rings : ring[r] # NoRing
    BY <2>1 DEF RingsUp, Launching
  <2> QED
    BY <2>1, <2>2, <2>3, <2>4
<1>8. ASSUME NEW d \in Daemon, VerifySeen(d) PROVE RingBeforeConsumer'
  BY <1>8 DEF VerifySeen, Accept
<1>9. ASSUME NEW d \in Daemon, VerifyDisabled(d) PROVE RingBeforeConsumer'
  BY <1>9 DEF VerifyDisabled, Accept
<1>10. ASSUME NEW d \in Daemon, VerifyFailed(d) PROVE RingBeforeConsumer'
  BY <1>10 DEF VerifyFailed
<1>11. ASSUME NEW r \in Ring, RingWait(r) PROVE RingBeforeConsumer'
  BY <1>11 DEF RingWait
<1>12. ASSUME NEW r \in Ring, RingFailed(r) PROVE RingBeforeConsumer'
  BY <1>12 DEF RingFailed
<1>13. ASSUME NEW d \in Daemon, RingsDone(d) PROVE RingBeforeConsumer'
  BY <1>13 DEF RingsDone
<1>14. CASE LaunchDone
  BY <1>14 DEF LaunchDone
<1>15. CASE PortReady
  BY <1>15 DEF PortReady
<1>16. CASE PortFailed
  BY <1>16 DEF PortFailed
<1>17. ASSUME NEW d \in Daemon, NEW g \in Run, Start(d, g) PROVE RingBeforeConsumer'
  BY <1>17, ProcessLife, PassTypes DEF TypeOK
<1>18. ASSUME NEW d \in Daemon, NEW g \in Run, Serve(d, g) PROVE RingBeforeConsumer'
  BY <1>18, ProcessLife, PassTypes DEF TypeOK
<1>19. ASSUME NEW r \in Ring, FirstFrame(r) PROVE RingBeforeConsumer'
  BY <1>19 DEF FirstFrame
<1>20. ASSUME NEW d \in Daemon, NEW g \in Run, Die(d, g) PROVE RingBeforeConsumer'
  BY <1>20, ProcessLife, PassTypes DEF TypeOK
<1>21. CASE UNCHANGED vars
  BY <1>21 DEF vars
<1> QED
  BY <1>1, <1>2, <1>3, <1>4, <1>5, <1>6, <1>7, <1>8, <1>9, <1>10, <1>11, <1>12, <1>13, <1>14, <1>15, <1>16, <1>17, <1>18, <1>19, <1>20, <1>21 DEF Next, Script, Process

(* The invariant holds at the start ... *)
LEMMA InitIInv == Init => IInv
<1> SUFFICES ASSUME Init PROVE IInv
  OBVIOUS
<1>1. TypeOK
  BY ConstAssumption DEF Init, TypeOK, Idle, Working, Verdict, Life, Run, Instance
<1>2. run = 0 /\ 0 \in Run /\ pc = "idle"
  BY ConstAssumption DEF Init, Run
<1>3. Fresh
  BY <1>2, RunIsNat DEF Init, Fresh, Teardown
<1>4. /\ Begun /\ ExecUnseen /\ Termed /\ Progress /\ RingsUp /\ LogOurs
      /\ OnlySurvivors /\ SeenIsOurs /\ RingBeforeConsumer
  BY <1>2 DEF Begun, ExecUnseen, Termed, Progress, RingsUp, LogOurs, OnlySurvivors,
     SeenIsOurs, RingBeforeConsumer, Swept, Launching, Teardown, Working
<1>5. LaunchInOrder
  BY <1>2 DEF LaunchInOrder
<1> QED
  BY <1>1, <1>3, <1>4, <1>5 DEF IInv

(* ... and every step keeps it. *)
LEMMA NextIInv == IInv /\ [Next]_vars => IInv'
BY TypeStep, FreshStep, BegunStep, ExecUnseenStep, TermedStep, ProgressStep,
   RingsUpStep, LogOursStep, OnlySurvivorsStep, SeenIsOursStep,
   LaunchInOrderStep, RingBeforeConsumerStep DEF IInv

(* The inductive invariant of Bringup. *)
THEOREM Invariance == Spec => []IInv
BY InitIInv, NextIInv, PTL DEF Spec

(* The script's and the device's state are well typed. *)
THEOREM TypeCorrect == Spec => []TypeOK
BY Invariance, PTL DEF IInv

(* After the teardown nothing of an earlier bring-up runs but what outlived    *)
(* SIGKILL or had no name yet when killall looked.                             *)
THEOREM TeardownCorrect == Spec => []OnlySurvivors
BY Invariance, PTL DEF IInv

(* What the script took for started is this bring-up's own, or a survivor.     *)
THEOREM SeenCorrect == Spec => []SeenIsOurs
BY Invariance, PTL DEF IInv

(* Only wanted daemons are launched, each after all the wanted ones before it. *)
THEOREM OrderCorrect == Spec => []LaunchInOrder
BY Invariance, PTL DEF IInv

(* No consumer is launched before the gating rings exist.                      *)
THEOREM RingsCorrect == Spec => []RingBeforeConsumer
BY Invariance, PTL DEF IInv

(* SIGKILL goes only to processes that had their SIGTERM, or had no name then. *)
THEOREM SignalsCorrect == Spec => KillAfterTerm
<1> DEFINE A == \A d \in Daemon, g \in Run :
                  sig'[d][g] = "kill" /\ sig[d][g] = "none" => <<d, g>> \in unseen
<1>1. IInv /\ [Next]_vars => [A]_vars
  <2> SUFFICES ASSUME IInv, Next PROVE A
    OBVIOUS
  <2> USE DEF script, device
  <2>1. CASE KillallKill
    BY <2>1 DEF KillallKill, Signal, IInv, Termed, TypeOK
  <2>2. CASE KillallTerm
    BY <2>2 DEF KillallTerm, Signal, IInv, TypeOK
  <2>3. CASE ~KillallKill /\ ~KillallTerm
    <3>1. sig' = sig
      BY <2>3 DEF Next, Script, Process, StartBringup, GiveUp, GracePoll, Clean,
         Launch, VerifySeen, VerifyDisabled, VerifyFailed, Accept, RingWait,
         RingFailed, RingsDone, LaunchDone, PortReady, PortFailed, Start, Serve,
         FirstFrame, Die
    <3> QED
      BY <3>1
  <2> QED
    BY <2>1, <2>2, <2>3
<1> QED
  BY <1>1, Invariance, PTL DEF Spec, KillAfterTerm
================================================================================
