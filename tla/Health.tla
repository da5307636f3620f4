--------------------------------- MODULE Health ---------------------------------
(* What the suite concludes about the device from two looks at it: the baselines  *)
(* taken before any traffic (raptor-test:365-380) and the device health section   *)
(* (raptor-test:2577-2656), with the concurrent clients in between                *)
(* (raptor-test:2457-2510), whose judgement uses the first baseline too.          *)
(* Meanwhile external viewers come and go, the server refuses, starves or leaks   *)
(* sessions, and the daemons log into a ring of bounded length.  Any answer to a  *)
(* command over ssh may be lost.  Left out: the CPU, the counters of dropped      *)
(* frames, and the capture over IPv6, which compare one number each.              *)
EXTENDS Naturals, Sequences

CONSTANTS
  Viewers,   \* bound: external viewers at a time
  Clients,   \* the clients of the concurrency ladder (2, 3 and 4 in the code)
  RingLen,   \* the lines the log ring holds
  LogMax     \* bound: lines logged during the run

ConstAssumption ==
  /\ Viewers \in Nat /\ Clients \in Nat \ {0} /\ RingLen \in Nat \ {0} /\ LogMax \in Nat

VARIABLES
  pc,        \* where the suite is: base, ladder, health, done
  external,  \* EXTERNAL_SESSIONS
  logBase,   \* LOG_BASE: a number of lines, or Lost
  verdict,   \* the checks recorded
  lost,      \* the checks of the health section an answer to which was lost
  viewers,   \* external viewers connected now
  guests,    \* those connected when the baseline was taken
  left,      \* one has left since
  leaked,    \* sessions of the suite's own clients the server never closed
  refused,   \* clients of the ladder it refused
  starved,   \* clients it admitted and sent nothing
  ring,      \* the log, oldest line first: error or info
  logged,    \* the lines logged since the baseline
  errors     \* an error line has been among them

suiteVars == <<pc, external, logBase, verdict, lost>>
device == <<viewers, guests, left, leaked, refused, starved>>
log == <<ring, logged, errors>>
vars == <<suiteVars, device, log>>

Check == {"ladder", "leak", "log"}
Line == {"error", "info"}
Lost == RingLen + 1
Record(v) == verdict' = [c \in Check |-> IF c \in DOMAIN v THEN v[c] ELSE verdict[c]]

Init ==
  /\ pc = "base" /\ external = 0 /\ logBase = Lost /\ lost = {}
  /\ verdict = [c \in Check |-> "none"]
  /\ viewers \in 0 .. Viewers /\ guests = 0 /\ left = FALSE
  /\ leaked = 0 /\ refused = 0 /\ starved = 0
  /\ \E n \in 0 .. RingLen : ring \in [1 .. n -> Line]
  /\ logged = 0 /\ errors = FALSE

------------------------------------------------------------------------------
(* The device, until the run ends.                                                *)

ViewerJoins ==
  /\ pc # "done" /\ viewers < Viewers /\ viewers' = viewers + 1
  /\ UNCHANGED <<suiteVars, guests, left, leaked, refused, starved, log>>

ViewerLeaves ==
  /\ pc # "done" /\ viewers > 0 /\ viewers' = viewers - 1
  /\ left' = (left \/ pc # "base")
  /\ UNCHANGED <<suiteVars, guests, leaked, refused, starved, log>>

(* A line of the daemons' log.  A full ring loses its oldest line to it, or its   *)
(* oldest two: the ring is bounded in bytes, and lines differ in length.          *)
LogLine(kind) ==
  /\ pc \in {"ladder", "health"} /\ logged < LogMax
  /\ \E k \in 0 .. 2 :
       /\ k <= Len(ring) /\ (k = 0) = (Len(ring) < RingLen)
       /\ ring' = Append(SubSeq(ring, k + 1, Len(ring)), kind)
  /\ logged' = logged + 1
  /\ errors' = (errors \/ kind = "error")
  /\ UNCHANGED <<suiteVars, device>>

------------------------------------------------------------------------------
(* The baselines: the sessions, with 0 for a lost answer, and the log's length.   *)
Baseline ==
  /\ pc = "base" /\ pc' = "ladder"
  /\ guests' = viewers
  /\ external' \in {viewers, 0}
  /\ logBase' \in {Len(ring), Lost}
  /\ UNCHANGED <<verdict, lost, viewers, left, leaked, refused, starved, log>>

(* concurrent_check, of r clients refused and an error line in some client's log. *)
LadderVerdict(dirty, r) ==
  IF ~dirty /\ r = 0 THEN "pass"
  ELSE IF ~dirty /\ r < Clients /\ external > 0 THEN "skip" ELSE "fail"

(* The clients run together and are waited for; r of them are refused, s are      *)
(* admitted and get no frame, which leaves no line in a client's log.             *)
Ladder ==
  /\ pc = "ladder" /\ pc' = "health"
  /\ \E r, s \in 0 .. Clients, k \in 0 .. 1, dirty \in BOOLEAN :
       /\ r + s <= Clients
       /\ refused' = r /\ starved' = s /\ leaked' = k
       /\ Record([ladder |-> LadderVerdict(dirty, r)])
  /\ UNCHANGED <<external, logBase, lost, viewers, guests, left, log>>

(* Fault: a lost answer counts for no connection. *)
LeakVerdictZero(answered) ==
  IF (IF answered THEN viewers + leaked ELSE 0) <= external THEN "pass" ELSE "fail"

(* NCONN against the baseline; no answer counts for one connection.               *)
LeakVerdict(answered) ==
  IF (IF answered THEN viewers + leaked ELSE 1) <= external THEN "pass" ELSE "fail"

(* tail -n +LOG_BASE+1: the lines of the log behind its first LOG_BASE ones.      *)
NewLines == {ring[i] : i \in {j \in DOMAIN ring : j > logBase}}

(* The log's length is asked for first, then its lines: a log without an answer,  *)
(* or shorter than it was, is skipped, and lines without an answer hold no error. *)
LogVerdict(length, lines) ==
  IF logBase = Lost THEN "none"
  ELSE IF ~length \/ Len(ring) < logBase THEN "skip"
  ELSE IF lines /\ "error" \in NewLines THEN "fail" ELSE "pass"

HealthSection ==
  /\ pc = "health" /\ pc' = "done"
  /\ \E conns, length, lines \in BOOLEAN :
       /\ Record([leak |-> LeakVerdict(conns), log |-> LogVerdict(length, lines)])
       /\ lost' = {c \in {"leak", "log"} : CASE c = "leak" -> ~conns
                                             [] c = "log" -> ~(length /\ lines)}
  /\ UNCHANGED <<external, logBase, device, log>>

Next ==
  \/ ViewerJoins \/ ViewerLeaves \/ \E kind \in Line : LogLine(kind)
  \/ Baseline \/ Ladder \/ HealthSection

Spec == Init /\ [][Next]_vars

------------------------------------------------------------------------------
(* A refused client is charged to the server unless somebody else was connected   *)
(* when the run began, whatever has been answered since (raptor-test:2498-2504).  *)
RefusalsCharged ==
  refused > 0 /\ verdict["ladder"] # "fail" => guests > 0

(* A session the server leaks never passes the section on a bench nobody else     *)
(* watched from the baseline on or left since, even if the baseline or the count  *)
(* at the end went unanswered (raptor-test:2592-2600, the default of 1).          *)
LeakSound ==
  verdict["leak"] = "pass" /\ leaked > 0 => guests > 0 /\ (left \/ "leak" \in lost)

(* An error the daemons logged before the run is never charged to the run, not    *)
(* even once the ring has lost lines and been filled again; and as long as it has *)
(* lost none and both its answers have come, a pass means that no error was       *)
(* logged (raptor-test:2601-2613).  The log stops with the run here, since an     *)
(* error behind the sweep is none of the run's.                                   *)
LogSound ==
  /\ verdict["log"] = "fail" => errors
  /\ verdict["log"] = "pass" /\ errors => logBase + logged > RingLen \/ "log" \in lost
================================================================================
