---------------------------- MODULE ProbesProofs ----------------------------
(* The probes of one protocol each: what each says is the server's doing, for *)
(* any timeouts, windows and batches that meet the assumptions of the probes. *)
EXTENDS MCProbes, Integers, Sequences, TLAPS

all == <<probe, leg, server, step, t, line, buffer, rfcVars, coldVars, abuseVars, backVars>>

--------------------------------------------------------------------------------
(* The session lifecycle probe.                                                   *)

(* A leg has its own steps, and the servers it is tried against.                  *)
SessionLegs ==
  /\ server \in Sess!Servers /\ leg \in {"reap", "switch"}
  /\ step \in {"setup", "silence", "drain", "count", "control", "resetup", "tcp", "done", "killed"}
  /\ step \in {"silence", "drain", "count", "control"} => leg = "reap"
  /\ step \in {"resetup", "tcp"} => leg = "switch"

SessionLines == line \in [Sess!Checks -> {"", "OK", "FAIL"}]

(* What gathered in the buffer is drained before it is counted; behind the        *)
(* re-SETUP it holds what was under way, and what came by TCP.                    *)
Gathered ==
  /\ buffer \in Nat
  /\ step = "count" => buffer = 0
  /\ step = "resetup" => buffer <= Few
  /\ step = "tcp" /\ server.moves \notin {"tcp", "both"} => buffer <= Few

(* Each line, by itself, of a server that sends.                                  *)
SessionTold ==
  /\ server.flows /\ line["stops"] # "" => (line["stops"] = "OK" <=> ~server.keeps)
  /\ line["torn"] # "" => (line["torn"] = "OK" <=> server.control # "live")
  /\ server.flows /\ line["follows"] # "" =>
       (line["follows"] = "OK" <=> server.moves \in {"udp", "both"})
  /\ server.flows /\ line["quiesced"] # "" =>
       (line["quiesced"] = "OK" <=> server.moves \notin {"tcp", "both"})

SessionInv == SessionLegs /\ SessionLines /\ Gathered /\ SessionTold

LEMMA SessionConstants == Many \in Nat /\ Many > 10 /\ Few \in Nat /\ Few < 10
  BY ProbeConstants DEF Sess!ConstAssumption

LEMMA SessionInit == Sess!Init => SessionInv
<1> SUFFICES ASSUME Sess!Init
             PROVE  SessionInv
  OBVIOUS
<1> USE DEF Sess!Init
<1>1. SessionLegs /\ SessionLines /\ Gathered
  BY DEF SessionLegs, SessionLines, Gathered, Sess!Checks
<1>2. line["stops"] = "" /\ line["torn"] = "" /\ line["follows"] = "" /\ line["quiesced"] = ""
  BY DEF Sess!Checks
<1> QED
  BY <1>1, <1>2 DEF SessionInv, SessionTold

(* A step that says at most one line leaves the others as they are.               *)
LEMMA SessionSay ==
  ASSUME SessionLines, NEW c \in Sess!Checks, NEW v \in {"OK", "FAIL"},
         line' = [line EXCEPT ![c] = v]
  PROVE  /\ SessionLines'
         /\ line'[c] = v
         /\ \A d \in Sess!Checks : d # c => line'[d] = line[d]
  BY DEF SessionLines

LEMMA SessionGo ==
  ASSUME NEW next, NEW secs, Sess!Go(next, secs)
  PROVE  step' \in {next, "killed"}
  BY DEF Sess!Go

LEMMA SessionStep == SessionInv /\ [Sess!Next]_(Sess!sess) => SessionInv'
<1> SUFFICES ASSUME SessionInv, [Sess!Next]_(Sess!sess)
             PROVE  SessionInv'
  OBVIOUS
<1>0. SessionLegs /\ SessionLines /\ Gathered /\ SessionTold
  BY DEF SessionInv
<1>c. /\ "flows" \in Sess!Checks /\ "stops" \in Sess!Checks /\ "torn" \in Sess!Checks
      /\ "before" \in Sess!Checks /\ "refused" \in Sess!Checks
      /\ "follows" \in Sess!Checks /\ "quiesced" \in Sess!Checks
  BY DEF Sess!Checks
<1>b. /\ server.flows \in BOOLEAN /\ server.keeps \in BOOLEAN /\ server.dense \in BOOLEAN
  BY <1>0 DEF SessionLegs, Sess!Servers
<1>1. CASE UNCHANGED Sess!sess
  BY <1>0, <1>1, ZenonT(30) DEF Sess!sess, SessionInv, SessionLegs, SessionLines, Gathered, SessionTold
<1>2. CASE Sess!Flows
  <2>1. /\ leg' = leg /\ server' = server /\ leg = "reap" /\ buffer' = buffer
        /\ step' \in {"done", "silence", "killed"}
    BY <1>2, SessionGo DEF Sess!Flows, Sess!Silent
  <2>2. line' = [line EXCEPT !["flows"] = IF Sess!Counted(server.flows) > 10 THEN "OK" ELSE "FAIL"]
    BY <1>2 DEF Sess!Flows, Sess!Say
  <2>3. /\ SessionLines'
        /\ \A d \in {"stops", "torn", "follows", "quiesced"} : line'[d] = line[d]
    BY <1>0, <1>c, <2>2, SessionSay, ZenonT(30)
  <2> QED
    BY <1>0, <2>1, <2>3 DEF SessionInv, SessionLegs, Gathered, SessionTold
<1>3. CASE Sess!Silence
  <2>1. /\ leg' = leg /\ server' = server /\ leg = "reap" /\ line' = line
        /\ step' \in {"drain", "killed"} /\ buffer' \in {Many, 0}
    BY <1>3, SessionGo DEF Sess!Silence, Sess!Silent
  <2>2. Gathered'
    BY <2>1, SessionConstants DEF Gathered
  <2> QED
    BY <1>0, <2>1, <2>2 DEF SessionInv, SessionLegs, SessionLines, SessionTold
<1>4. CASE Sess!Drain
  <2>1. /\ leg' = leg /\ server' = server /\ leg = "reap" /\ line' = line
        /\ step' \in {"drain", "count", "killed"} /\ buffer' = 0
    BY <1>4, SessionGo DEF Sess!Drain, Sess!Silent
  <2> QED
    BY <1>0, <2>1 DEF SessionInv, SessionLegs, SessionLines, Gathered, SessionTold
<1>5. CASE Sess!Count
  <2>1. /\ leg' = leg /\ server' = server /\ leg = "reap" /\ buffer' = buffer
        /\ step = "count" /\ step' \in {"control", "killed"}
        /\ line' = line \/ line' = [line EXCEPT !["stops"] = IF Sess!Counted(Sess!Sending) = 0 THEN "OK" ELSE "FAIL"]
    BY <1>5, SessionGo DEF Sess!Count, Sess!Silent, Sess!Say
  <2>2. CASE line' = line
    BY <1>0, <2>1, <2>2 DEF SessionInv, SessionLegs, SessionLines, Gathered, SessionTold
  <2>3. CASE line' = [line EXCEPT !["stops"] = IF Sess!Counted(Sess!Sending) = 0 THEN "OK" ELSE "FAIL"]
    <3>1. buffer = 0
      BY <1>0, <2>1 DEF Gathered
    <3>2. Sess!Counted(Sess!Sending) = 0 <=> ~(server.flows /\ server.keeps)
      BY <3>1, SessionConstants DEF Sess!Counted, Sess!Sending
    <3>3. /\ SessionLines'
          /\ line'["stops"] = IF Sess!Counted(Sess!Sending) = 0 THEN "OK" ELSE "FAIL"
          /\ \A d \in {"torn", "follows", "quiesced"} : line'[d] = line[d]
      BY <1>0, <1>c, <2>3, SessionSay, ZenonT(30)
    <3>4. server.flows => (line'["stops"] = "OK" <=> ~server.keeps)
      BY <3>2, <3>3
    <3> QED
      BY <1>0, <2>1, <3>3, <3>4 DEF SessionInv, SessionLegs, Gathered, SessionTold
  <2> QED
    BY <2>1, <2>2, <2>3
<1>6. CASE Sess!Control
  <2>1. /\ leg' = leg /\ server' = server /\ leg = "reap" /\ buffer' = buffer
        /\ step' \in {"done", "killed"}
        /\ line' = line \/ line' = [line EXCEPT !["torn"] = IF server.control # "live" THEN "OK" ELSE "FAIL"]
    BY <1>6, SessionGo DEF Sess!Control, Sess!Silent, Sess!Say
  <2>2. CASE line' = line
    BY <1>0, <2>1, <2>2 DEF SessionInv, SessionLegs, SessionLines, Gathered, SessionTold
  <2>3. CASE line' = [line EXCEPT !["torn"] = IF server.control # "live" THEN "OK" ELSE "FAIL"]
    <3>1. /\ SessionLines'
          /\ line'["torn"] = IF server.control # "live" THEN "OK" ELSE "FAIL"
          /\ \A d \in {"stops", "follows", "quiesced"} : line'[d] = line[d]
      BY <1>0, <1>c, <2>3, SessionSay, ZenonT(30)
    <3> QED
      BY <1>0, <2>1, <3>1 DEF SessionInv, SessionLegs, Gathered, SessionTold
  <2> QED
    BY <2>1, <2>2, <2>3
<1>7. CASE Sess!Before
  <2>1. /\ leg' = leg /\ server' = server /\ leg = "switch" /\ buffer' \in {Few, 0}
        /\ step' \in {"resetup", "killed"}
    BY <1>7, SessionGo DEF Sess!Before, Sess!Moving
  <2>2. line' = [line EXCEPT !["before"] = IF Sess!Counted(server.flows) > 10 THEN "OK" ELSE "FAIL"]
    BY <1>7 DEF Sess!Before, Sess!Say
  <2>3. /\ SessionLines'
        /\ \A d \in {"stops", "torn", "follows", "quiesced"} : line'[d] = line[d]
    BY <1>0, <1>c, <2>2, SessionSay, ZenonT(30)
  <2>4. Gathered'
    BY <2>1, SessionConstants DEF Gathered
  <2> QED
    BY <1>0, <2>1, <2>3, <2>4 DEF SessionInv, SessionLegs, SessionTold
<1>8. CASE Sess!Refusal
  <2>1. /\ leg' = leg /\ server' = server /\ leg = "switch" /\ buffer' = buffer
        /\ step' \in {"done", "killed"}
    BY <1>8, SessionGo DEF Sess!Refusal, Sess!Moving
  <2>2. line' = [line EXCEPT !["refused"] = IF server.moves = "refused" THEN "OK" ELSE "FAIL"]
    BY <1>8 DEF Sess!Refusal, Sess!Say
  <2>3. /\ SessionLines'
        /\ \A d \in {"stops", "torn", "follows", "quiesced"} : line'[d] = line[d]
    BY <1>0, <1>c, <2>2, SessionSay, ZenonT(30)
  <2> QED
    BY <1>0, <2>1, <2>3 DEF SessionInv, SessionLegs, Gathered, SessionTold
<1>9. CASE Sess!Follows
  <2> DEFINE came == IF server.flows /\ server.moves \in {"udp", "both"} THEN Many ELSE 0
  <2>1. /\ leg' = leg /\ server' = server /\ leg = "switch" /\ step = "resetup"
        /\ step' \in {"tcp", "killed"}
        /\ buffer' = buffer + (IF server.flows /\ server.moves \in {"tcp", "both"} THEN Many ELSE 0)
    BY <1>9, SessionGo DEF Sess!Follows, Sess!Moving
  <2>2. line' = [line EXCEPT !["follows"] = IF came > 10 THEN "OK" ELSE "FAIL"]
    BY <1>9 DEF Sess!Follows, Sess!Say
  <2>3. came > 10 <=> server.flows /\ server.moves \in {"udp", "both"}
    BY SessionConstants
  <2>4. /\ SessionLines'
        /\ line'["follows"] = IF came > 10 THEN "OK" ELSE "FAIL"
        /\ \A d \in {"stops", "torn", "quiesced"} : line'[d] = line[d]
    BY <1>0, <1>c, <2>2, SessionSay, ZenonT(30)
  <2>5. server.flows => (line'["follows"] = "OK" <=> server.moves \in {"udp", "both"})
    BY <2>3, <2>4
  <2>6. Gathered'
    BY <1>0, <2>1, SessionConstants DEF Gathered
  <2> QED
    BY <1>0, <2>1, <2>4, <2>5, <2>6 DEF SessionInv, SessionLegs, SessionTold
<1>10. CASE Sess!Quiesced
  <2> DEFINE counted == Sess!Counted(server.flows /\ server.moves \in {"tcp", "both"})
  <2>1. /\ leg' = leg /\ server' = server /\ leg = "switch" /\ step = "tcp" /\ buffer' = buffer
        /\ step' \in {"done", "killed"}
    BY <1>10, SessionGo DEF Sess!Quiesced, Sess!Moving
  <2>2. line' = [line EXCEPT !["quiesced"] = IF counted < 10 THEN "OK" ELSE "FAIL"]
    BY <1>10 DEF Sess!Quiesced, Sess!Say
  <2>3. server.flows => (counted < 10 <=> server.moves \notin {"tcp", "both"})
    BY <1>0, <2>1, SessionConstants DEF Gathered, Sess!Counted
  <2>4. /\ SessionLines'
        /\ line'["quiesced"] = IF counted < 10 THEN "OK" ELSE "FAIL"
        /\ \A d \in {"stops", "torn", "follows"} : line'[d] = line[d]
    BY <1>0, <1>c, <2>2, SessionSay, ZenonT(30)
  <2>5. server.flows => (line'["quiesced"] = "OK" <=> server.moves \notin {"tcp", "both"})
    BY <2>3, <2>4
  <2> QED
    BY <1>0, <2>1, <2>4, <2>5 DEF SessionInv, SessionLegs, Gathered, SessionTold
<1>11. CASE Sess!Ended
  BY <1>0, <1>11 DEF Sess!Ended, Sess!sess, SessionInv, SessionLegs, SessionLines, Gathered, SessionTold
<1> QED
  BY <1>1, <1>2, <1>3, <1>4, <1>5, <1>6, <1>7, <1>8, <1>9, <1>10, <1>11 DEF Sess!Next

(* The lines of the session probe are about the server: what gathered while it    *)
(* slept is not held against a server that has stopped, and a stream that goes on *)
(* where it should have ended is never passed (session_probe.py:77-150).          *)
THEOREM SessionCorrect == ProbesSpec => []SessionSound
<1> DEFINE Inv == probe = "session" => SessionInv
<1>1. ProbesInit => Inv
  BY SessionInit DEF ProbesInit
<1>2. Inv /\ [ProbesNext]_all => Inv'
  <2> SUFFICES ASSUME Inv, [ProbesNext]_all, probe' = "session"
               PROVE  SessionInv'
    OBVIOUS
  <2>1. probe = "session" /\ [Sess!Next]_(Sess!sess)
    BY DEF ProbesNext, all, Sess!sess
  <2> QED
    BY <2>1, SessionStep
<1>3. Inv => SessionSound
  <2> SUFFICES ASSUME SessionInv
               PROVE  Sess!SessionSound
    BY DEF SessionSound
  <2>1. line["stops"] \in {"", "OK", "FAIL"} /\ line["torn"] \in {"", "OK", "FAIL"}
    BY DEF SessionInv, SessionLines, Sess!Checks
  <2>2. line["follows"] \in {"", "OK", "FAIL"} /\ line["quiesced"] \in {"", "OK", "FAIL"}
    BY DEF SessionInv, SessionLines, Sess!Checks
  <2> QED
    BY <2>1, <2>2 DEF SessionInv, SessionLegs, SessionTold, Sess!SessionSound, Sess!Servers
<1> QED
  BY <1>1, <1>2, <1>3, PTL DEF ProbesSpec, all

--------------------------------------------------------------------------------
(* The fuzzer and the slow readers.                                               *)

AbuseTypes ==
  /\ leg \in {"fuzz", "slow"} /\ server \in {"up", "late", "down"}
  /\ step \in {"start", "mutate", "check", "readers", "hold", "join", "done"}
  /\ hurt \in BOOLEAN /\ late \in BOOLEAN /\ blocks \in BOOLEAN
  /\ line \in [Mistreat!Checks -> {"", "OK", "FAIL"}]

AbuseCounts ==
  /\ ill \in Nat /\ worstIll \in Nat /\ sent \in Nat /\ checks \in Nat /\ alive \in Nat
  /\ alive <= checks

(* A server that is up is not ill; as long as every check was answered in time    *)
(* the server has not been ill for more than the batch that is under way.         *)
Batched ==
  /\ server = "up" => ill = 0
  /\ leg = "fuzz" /\ alive = checks /\ ~late /\ step # "done" =>
       /\ worstIll <= Batch
       /\ ill <= IF step = "check" THEN Batch ELSE sent % Batch

(* A server that never was anything but up is up, and was never found otherwise.  *)
Unhurt == ~hurt => server = "up" /\ alive = checks /\ ~late

(* A leg has its steps; before the first one nobody holds a session, and no line  *)
(* was blocked before it is asked for.                                            *)
AbuseLegs ==
  /\ step \in {"mutate", "check"} => leg = "fuzz"
  /\ step \in {"readers", "hold", "join"} => leg = "slow"
  /\ step = "start" => \A r \in Readers : reader[r] = "off"
  /\ step \in {"start", "readers"} => "served" \notin blocked
  /\ step # "done" => "healthy" \notin blocked

AbuseInv ==
  /\ AbuseTypes /\ AbuseCounts /\ Batched /\ Unhurt /\ AbuseLegs
  /\ line["survived"] = "OK" => step = "done"
  /\ Mistreat!AbuseTells

LEMMA BatchConstant == Batch \in Nat \ {0}
  BY ProbeConstants DEF Mistreat!ConstAssumption

LEMMA SmallRest ==
  ASSUME NEW W \in Nat \ {0}
  PROVE  0 % W = 0
  OBVIOUS

LEMMA NextRest ==
  ASSUME NEW W \in Nat \ {0}, NEW q \in Int, NEW r \in 0 .. W - 2
  PROVE  (W * q + (r + 1)) % W = r + 1
  OBVIOUS

LEMMA RestOf ==
  ASSUME NEW W \in Nat \ {0}, NEW a \in Nat
  PROVE  a % W \in 0 .. W - 1 /\ a \div W \in Int /\ a = W * (a \div W) + (a % W)
  OBVIOUS

LEMMA AbuseInit == Mistreat!Init => AbuseInv
<1> SUFFICES ASSUME Mistreat!Init
             PROVE  AbuseInv
  OBVIOUS
<1> USE DEF Mistreat!Init
<1>1. AbuseTypes
  BY DEF AbuseTypes, Mistreat!Checks
<1>a. ill = 0 /\ worstIll = 0 /\ sent = 0 /\ checks = 0 /\ alive = 0 /\ step = "start"
  OBVIOUS
<1>b. 0 % Batch = 0 /\ Batch \in Nat
  BY BatchConstant, SmallRest
<1> HIDE DEF Mistreat!Init
<1>2. AbuseCounts
  BY <1>a DEF AbuseCounts
<1>4. Batched
  BY <1>a, <1>b DEF Batched
<1> USE DEF Mistreat!Init
<1>5. Unhurt /\ AbuseLegs
  BY DEF Unhurt, AbuseLegs
<1>6. /\ line["survived"] = "" /\ line["healthy"] = "" /\ line["baseline"] = ""
      /\ line["served"] = ""
  BY DEF Mistreat!Checks
<1> QED
  BY <1>1, <1>2, <1>4, <1>5, <1>6 DEF AbuseInv, Mistreat!AbuseTells

LEMMA AbuseSay ==
  ASSUME AbuseTypes, NEW c \in Mistreat!Checks, NEW v \in {"OK", "FAIL"},
         line' = [line EXCEPT ![c] = v]
  PROVE  /\ line' \in [Mistreat!Checks -> {"", "OK", "FAIL"}]
         /\ line'[c] = v
         /\ \A d \in Mistreat!Checks : d # c => line'[d] = line[d]
  BY DEF AbuseTypes

(* The number of one more malformed request in its batch.                         *)
LEMMA NextInBatch ==
  ASSUME NEW n \in Nat
  PROVE  /\ n % Batch \in 0 .. Batch - 1
         /\ n % Batch # Batch - 1 => (n + 1) % Batch = (n % Batch) + 1
<1> DEFINE q == n \div Batch  r == n % Batch
<1>1. r \in 0 .. Batch - 1 /\ q \in Int /\ n = Batch * q + r
  BY BatchConstant, RestOf
<1> HIDE DEF q, r
<1>2. ASSUME r # Batch - 1
      PROVE  (n + 1) % Batch = r + 1
  <2>1. r \in 0 .. Batch - 2
    BY <1>1, <1>2, BatchConstant
  <2>2. (Batch * q + (r + 1)) % Batch = r + 1
    BY <1>1, <2>1, BatchConstant, NextRest
  <2>3. n + 1 = Batch * q + (r + 1)
    BY <1>1, BatchConstant
  <2> QED
    BY <2>2, <2>3
<1> QED
  BY <1>1, <1>2 DEF r

LEMMA MutateStep ==
  ASSUME AbuseInv, Mistreat!Mutate
  PROVE  AbuseInv'
<1>1. /\ leg = "fuzz" /\ step = "mutate" /\ leg' = leg /\ sent' = sent + 1
      /\ ill' = IF server = "up" THEN 0 ELSE ill + 1
      /\ worstIll' = IF ill' > worstIll THEN ill' ELSE worstIll
      /\ step' = IF sent % Batch = Batch - 1 THEN "check" ELSE "mutate"
  BY DEF Mistreat!Mutate, Mistreat!Fuzzing
<1>2. /\ server' = server /\ hurt' = hurt /\ checks' = checks /\ alive' = alive /\ late' = late
      /\ line' = line /\ blocks' = blocks /\ reader' = reader /\ blocked' = blocked
  BY Zenon DEF Mistreat!Mutate, Mistreat!Fuzzing, Mistreat!slow
<1>3. AbuseTypes' /\ AbuseLegs'
  BY <1>1, <1>2 DEF AbuseInv, AbuseTypes, AbuseLegs
<1>4. AbuseCounts' /\ ill' <= ill + 1
  BY <1>1, <1>2 DEF AbuseInv, AbuseCounts
<1>5. ASSUME alive = checks, ~late
      PROVE  worstIll' <= Batch /\ ill' <= IF step' = "check" THEN Batch ELSE sent' % Batch
  <2>1. worstIll <= Batch /\ ill <= sent % Batch
    BY <1>1, <1>5 DEF AbuseInv, Batched
  <2>2. /\ sent % Batch \in 0 .. Batch - 1
        /\ sent % Batch # Batch - 1 => (sent + 1) % Batch = (sent % Batch) + 1
    BY NextInBatch DEF AbuseInv, AbuseCounts
  <2>3. ill' <= (sent % Batch) + 1
    BY <1>4, <2>1, <2>2 DEF AbuseInv, AbuseCounts
  <2>4. ill' <= Batch /\ worstIll' <= Batch
    BY <1>1, <1>4, <2>1, <2>2, <2>3, BatchConstant DEF AbuseInv, AbuseCounts
  <2> QED
    BY <1>1, <2>2, <2>3, <2>4
<1>6. server' = "up" => ill' = 0
  BY <1>1, <1>2
<1>7. Batched'
  BY <1>1, <1>2, <1>5, <1>6, Zenon DEF Batched
<1>8. Unhurt'
  BY <1>2 DEF AbuseInv, Unhurt
<1>9. line["survived"] # "OK"
  BY <1>1 DEF AbuseInv
<1>10. Mistreat!AbuseTells'
  BY <1>2, <1>9 DEF AbuseInv, Mistreat!AbuseTells
<1> QED
  BY <1>2, <1>3, <1>4, <1>7, <1>8, <1>9, <1>10 DEF AbuseInv

(* A check: an answer in time is one of a server that is up.                      *)
LEMMA AliveCounts ==
  ASSUME AbuseInv, Mistreat!Alive
  PROVE  /\ server' = server /\ hurt' = hurt /\ ill' = ill /\ worstIll' = worstIll /\ sent' = sent
         /\ AbuseCounts' /\ late' \in BOOLEAN
         /\ alive' = checks' /\ ~late' => server = "up" /\ alive = checks /\ ~late
         /\ ~hurt => alive' = checks' /\ ~late'
<1>1. /\ checks' = checks + 1
      /\ alive' = IF server = "down" THEN alive ELSE alive + 1
      /\ server' = server /\ hurt' = hurt /\ ill' = ill /\ worstIll' = worstIll /\ sent' = sent
  BY DEF Mistreat!Alive, Mistreat!health
<1>2. late' = (late \/ server = "late")
  BY DEF Mistreat!Alive
<1>3. late' \in BOOLEAN /\ (~late' => ~late /\ server # "late")
  BY <1>2 DEF AbuseInv, AbuseTypes
<1>4. AbuseCounts'
  BY <1>1 DEF AbuseInv, AbuseCounts
<1>5. alive' = checks' => server # "down" /\ alive = checks
  BY <1>1 DEF AbuseInv, AbuseCounts
<1>6. ~hurt => server = "up" /\ alive = checks /\ ~late
  BY DEF AbuseInv, Unhurt
<1>7. ~hurt => alive' = checks'
  BY <1>1, <1>6 DEF AbuseInv, AbuseCounts
<1>8. ~hurt => ~late'
  BY <1>2, <1>6
<1>9. server \in {"up", "late", "down"}
  BY DEF AbuseInv, AbuseTypes
<1> QED
  BY <1>1, <1>3, <1>4, <1>5, <1>7, <1>8, <1>9

LEMMA FuzzEndStep ==
  ASSUME AbuseInv, Mistreat!FuzzEnd
  PROVE  AbuseInv'
<1> DEFINE good == alive' = checks' /\ ~late'
<1>1. /\ leg = "fuzz" /\ leg' = leg /\ step = "mutate" /\ step' = "done"
      /\ line' = [line EXCEPT !["survived"] = IF good THEN "OK" ELSE "FAIL"]
  BY DEF Mistreat!FuzzEnd, Mistreat!Fuzzing, Mistreat!Say
<1>2. blocks' = blocks /\ reader' = reader /\ blocked' = blocked
  BY DEF Mistreat!FuzzEnd, Mistreat!Fuzzing, Mistreat!slow
<1>3. /\ server' = server /\ hurt' = hurt /\ ill' = ill /\ worstIll' = worstIll /\ sent' = sent
      /\ AbuseCounts' /\ late' \in BOOLEAN
      /\ good => server = "up" /\ alive = checks /\ ~late
      /\ ~hurt => good
  BY AliveCounts DEF Mistreat!FuzzEnd
<1>4. /\ line' \in [Mistreat!Checks -> {"", "OK", "FAIL"}]
      /\ line'["survived"] = IF good THEN "OK" ELSE "FAIL"
      /\ \A d \in {"baseline", "served", "healthy"} : line'[d] = line[d]
  BY <1>1, AbuseSay DEF AbuseInv, Mistreat!Checks
<1>5. AbuseTypes' /\ AbuseLegs'
  BY <1>1, <1>2, <1>3, <1>4 DEF AbuseInv, AbuseTypes, AbuseLegs
<1>6. Batched' /\ Unhurt'
  BY <1>1, <1>3 DEF AbuseInv, Batched, Unhurt
<1>7. good => ill = 0 /\ worstIll <= Batch
  BY <1>1, <1>3 DEF AbuseInv, Batched
<1>8. Mistreat!AbuseTells'
  BY <1>2, <1>3, <1>4, <1>7 DEF AbuseInv, Mistreat!AbuseTells
<1> QED
  BY <1>1, <1>3, <1>5, <1>6, <1>8 DEF AbuseInv

(* The steps of the slow readers leave the fuzzer's state alone.                  *)
LEMMA SlowKeeps ==
  ASSUME AbuseInv, Mistreat!Slowly, UNCHANGED Mistreat!health
  PROVE  /\ leg = "slow" /\ leg' = leg /\ blocks' = blocks /\ hurt' = hurt /\ server' = server
         /\ AbuseCounts' /\ Batched' /\ Unhurt' /\ ill' = ill /\ worstIll' = worstIll
         /\ late' \in BOOLEAN
<1>1. leg = "slow" /\ leg' = leg /\ blocks' = blocks
  BY DEF Mistreat!Slowly
<1>2. UNCHANGED <<server, hurt, ill, worstIll, sent, checks, alive, late>>
  BY DEF Mistreat!Slowly, Mistreat!fuzz, Mistreat!health
<1>3. AbuseCounts' /\ Unhurt' /\ Batched'
  BY <1>1, <1>2 DEF AbuseInv, AbuseCounts, Unhurt, Batched
<1>4. late' \in BOOLEAN
  BY <1>2 DEF AbuseInv, AbuseTypes
<1> QED
  BY <1>1, <1>2, <1>3, <1>4

(* A line of the slow readers: whether the server serves at that moment.          *)
LEMMA SlowSays ==
  ASSUME AbuseInv, NEW c \in {"baseline", "served", "healthy"},
         Mistreat!Say(c, Mistreat!Serves)
  PROVE  /\ line' \in [Mistreat!Checks -> {"", "OK", "FAIL"}]
         /\ line'[c] = IF Mistreat!Serves THEN "OK" ELSE "FAIL"
         /\ \A d \in {"survived", "baseline", "served", "healthy"} : d # c => line'[d] = line[d]
<1>1. line' = [line EXCEPT ![c] = IF Mistreat!Serves THEN "OK" ELSE "FAIL"]
  BY DEF Mistreat!Say
<1> QED
  BY <1>1, AbuseSay DEF AbuseInv, Mistreat!Checks

(* A client beside or behind the slow readers: its line, and whether one of them  *)
(* held the server.                                                               *)
LEMMA SlowAsks ==
  ASSUME AbuseInv, leg = "slow", NEW c \in {"served", "healthy"} \ blocked, hurt' = hurt,
         Mistreat!Asks(c)
  PROVE  /\ line' \in [Mistreat!Checks -> {"", "OK", "FAIL"}]
         /\ line'["survived"] = line["survived"] /\ line'["baseline"] = line["baseline"]
         /\ \A d \in {"served", "healthy"} :
              /\ d # c => (d \in blocked' <=> d \in blocked)
              /\ line'[d] = "OK" => d \notin blocked'
              /\ ~hurt' /\ line'[d] = "FAIL" => d \in blocked'
<1>1. /\ line' \in [Mistreat!Checks -> {"", "OK", "FAIL"}]
      /\ line'[c] = IF Mistreat!Serves THEN "OK" ELSE "FAIL"
      /\ \A d \in {"survived", "baseline", "served", "healthy"} : d # c => line'[d] = line[d]
  BY SlowSays DEF Mistreat!Asks
<1>2. blocked' = IF blocks /\ Mistreat!Holding THEN blocked \cup {c} ELSE blocked
  BY DEF Mistreat!Asks
<1>3. ASSUME NEW d \in {"served", "healthy"}
      PROVE  /\ d # c => (d \in blocked' <=> d \in blocked)
             /\ line'[d] = "OK" => d \notin blocked'
             /\ ~hurt' /\ line'[d] = "FAIL" => d \in blocked'
  <2>1. CASE d = c
    BY <1>1, <1>2, <2>1 DEF AbuseInv, Unhurt, Mistreat!Serves
  <2>2. CASE d # c
    BY <1>1, <1>2, <2>2 DEF AbuseInv, Mistreat!AbuseTells
  <2> QED
    BY <2>1, <2>2
<1> QED
  BY <1>1, <1>3

LEMMA AbuseStep == AbuseInv /\ [Mistreat!Next]_(Mistreat!vars) => AbuseInv'
<1> SUFFICES ASSUME AbuseInv, [Mistreat!Next]_(Mistreat!vars)
             PROVE  AbuseInv'
  OBVIOUS
<1>1. CASE UNCHANGED Mistreat!vars
  <2>1. /\ UNCHANGED <<leg, step, server, hurt, ill, worstIll, sent, checks, alive, late>>
        /\ UNCHANGED <<blocks, reader, stop, blocked, line>>
    BY <1>1 DEF Mistreat!vars, Mistreat!health, Mistreat!fuzz, Mistreat!slow
  <2>2. AbuseTypes' /\ AbuseCounts' /\ Batched' /\ Unhurt' /\ AbuseLegs'
    BY <2>1 DEF AbuseInv, AbuseTypes, AbuseCounts, Batched, Unhurt, AbuseLegs
  <2> QED
    BY <2>1, <2>2 DEF AbuseInv, Mistreat!AbuseTells
<1>2. CASE Mistreat!Ail
  <2>1. /\ server = "up" /\ step \notin {"start", "done"} /\ server' \in {"late", "down"} /\ hurt' = TRUE
        /\ UNCHANGED <<leg, step, ill, worstIll, sent, checks, alive, late>>
        /\ UNCHANGED <<blocks, reader, blocked, line>>
    BY <1>2 DEF Mistreat!Ail, Mistreat!fuzz, Mistreat!slow
  <2>2. AbuseTypes' /\ AbuseCounts' /\ Batched' /\ Unhurt' /\ AbuseLegs'
    BY <2>1 DEF AbuseInv, AbuseTypes, AbuseCounts, Batched, Unhurt, AbuseLegs
  <2> QED
    BY <2>1, <2>2 DEF AbuseInv, Mistreat!AbuseTells
<1>3. CASE Mistreat!Recover
  <2>1. /\ server # "up" /\ server' = "up" /\ ill' = 0 /\ step # "start"
        /\ UNCHANGED <<leg, step, hurt, worstIll, sent, checks, alive, late>>
        /\ UNCHANGED <<blocks, reader, blocked, line>>
    BY <1>3 DEF Mistreat!Recover, Mistreat!fuzz, Mistreat!slow
  <2>2. AbuseTypes' /\ AbuseCounts' /\ Unhurt' /\ AbuseLegs'
    BY <2>1 DEF AbuseInv, AbuseTypes, AbuseCounts, Unhurt, AbuseLegs
  <2>3. 0 <= Batch /\ 0 <= sent % Batch
    BY NextInBatch, BatchConstant DEF AbuseInv, AbuseCounts
  <2>4. Batched'
    BY <2>1, <2>3 DEF AbuseInv, Batched
  <2> QED
    BY <2>1, <2>2, <2>4 DEF AbuseInv, Mistreat!AbuseTells
<1>4. CASE Mistreat!FuzzStart
  <2>1. /\ leg = "fuzz" /\ leg' = leg /\ step = "start"
        /\ UNCHANGED <<server, hurt, ill, worstIll, sent, checks, alive, late>>
        /\ UNCHANGED <<blocks, reader, blocked>>
    BY <1>4 DEF Mistreat!FuzzStart, Mistreat!Fuzzing, Mistreat!health, Mistreat!fuzz, Mistreat!slow
  <2>2. AbuseCounts' /\ Unhurt'
    BY <2>1 DEF AbuseInv, AbuseCounts, Unhurt
  <2>3. CASE server = "down"
    <3>1. step' = "done" /\ line' = [line EXCEPT !["survived"] = "FAIL"]
      BY <1>4, <2>3 DEF Mistreat!FuzzStart, Mistreat!Say
    <3>2. /\ line' \in [Mistreat!Checks -> {"", "OK", "FAIL"}] /\ line'["survived"] = "FAIL"
          /\ \A d \in {"baseline", "served", "healthy"} : line'[d] = line[d]
      BY <3>1, AbuseSay DEF AbuseInv, Mistreat!Checks
    <3>3. hurt
      BY <2>3 DEF AbuseInv, Unhurt
    <3>4. AbuseTypes' /\ Batched' /\ AbuseLegs'
      BY <2>1, <3>1, <3>2 DEF AbuseInv, AbuseTypes, Batched, AbuseLegs
    <3> QED
      BY <2>1, <2>2, <3>1, <3>2, <3>3, <3>4 DEF AbuseInv, Mistreat!AbuseTells
  <2>4. CASE server # "down"
    <3>1. step' = "mutate" /\ line' = line
      BY <1>4, <2>4 DEF Mistreat!FuzzStart
    <3>2. AbuseTypes' /\ Batched' /\ AbuseLegs'
      BY <2>1, <3>1 DEF AbuseInv, AbuseTypes, Batched, AbuseLegs
    <3>3. line["survived"] # "OK"
      BY <2>1 DEF AbuseInv
    <3> QED
      BY <2>1, <2>2, <3>1, <3>2, <3>3 DEF AbuseInv, Mistreat!AbuseTells
  <2> QED
    BY <2>3, <2>4
<1>5. CASE Mistreat!Mutate
  BY <1>5, MutateStep
<1>6. CASE Mistreat!Probe
  <2>1. /\ leg = "fuzz" /\ leg' = leg /\ step = "check" /\ step' = "mutate" /\ line' = line
        /\ Mistreat!Alive
        /\ UNCHANGED <<blocks, reader, blocked>>
    BY <1>6 DEF Mistreat!Probe, Mistreat!Fuzzing, Mistreat!slow
  <2>2. /\ server' = server /\ hurt' = hurt /\ ill' = ill /\ worstIll' = worstIll /\ sent' = sent
        /\ AbuseCounts' /\ late' \in BOOLEAN
        /\ alive' = checks' /\ ~late' => server = "up" /\ alive = checks /\ ~late
        /\ ~hurt => alive' = checks' /\ ~late'
    BY <2>1, AliveCounts
  <2>3. AbuseTypes' /\ AbuseLegs' /\ Unhurt'
    BY <2>1, <2>2 DEF AbuseInv, AbuseTypes, AbuseLegs, Unhurt
  <2>4. 0 <= sent % Batch
    BY NextInBatch DEF AbuseInv, AbuseCounts
  <2>5. Batched'
    BY <2>1, <2>2, <2>4 DEF AbuseInv, Batched
  <2>6. line["survived"] # "OK"
    BY <2>1 DEF AbuseInv
  <2> QED
    BY <2>1, <2>2, <2>3, <2>5, <2>6 DEF AbuseInv, Mistreat!AbuseTells
<1>7. CASE Mistreat!FuzzEnd
  BY <1>7, FuzzEndStep
<1>8. CASE Mistreat!Baseline
  <2>1. /\ Mistreat!Slowly /\ UNCHANGED Mistreat!health /\ step = "start" /\ step' = "readers"
        /\ blocked' = blocked /\ Mistreat!Say("baseline", Mistreat!Serves)
    BY <1>8 DEF Mistreat!Baseline
  <2>2. /\ leg = "slow" /\ leg' = leg /\ blocks' = blocks /\ hurt' = hurt /\ server' = server
        /\ AbuseCounts' /\ Batched' /\ Unhurt' /\ ill' = ill /\ worstIll' = worstIll
        /\ late' \in BOOLEAN
    BY <2>1, SlowKeeps
  <2>3. /\ line' \in [Mistreat!Checks -> {"", "OK", "FAIL"}]
        /\ line'["baseline"] = IF Mistreat!Serves THEN "OK" ELSE "FAIL"
        /\ line'["survived"] = line["survived"] /\ line'["served"] = line["served"]
        /\ line'["healthy"] = line["healthy"]
    BY <2>1, SlowSays
  <2>4. ~hurt => Mistreat!Serves
    BY <2>1 DEF AbuseInv, Unhurt, AbuseLegs, Mistreat!Serves, Mistreat!Holding
  <2>5. AbuseTypes' /\ AbuseLegs'
    BY <2>1, <2>2, <2>3 DEF AbuseInv, AbuseTypes, AbuseLegs
  <2>6. line["survived"] # "OK"
    BY <2>1 DEF AbuseInv
  <2> QED
    BY <2>1, <2>2, <2>3, <2>4, <2>5, <2>6 DEF AbuseInv, Mistreat!AbuseTells
<1>9. ASSUME NEW r \in Readers, Mistreat!Hold(r) \/ Mistreat!Leave(r)
      PROVE  AbuseInv'
  <2>1. /\ Mistreat!Slowly /\ UNCHANGED Mistreat!health
        /\ step' = step /\ line' = line /\ blocked' = blocked /\ step # "start"
    BY <1>9 DEF Mistreat!Hold, Mistreat!Leave, AbuseInv, AbuseLegs
  <2>2. /\ leg = "slow" /\ leg' = leg /\ blocks' = blocks /\ hurt' = hurt /\ server' = server
        /\ AbuseCounts' /\ Batched' /\ Unhurt' /\ ill' = ill /\ worstIll' = worstIll
        /\ late' \in BOOLEAN
    BY <2>1, SlowKeeps
  <2>3. AbuseTypes' /\ AbuseLegs'
    BY <2>1, <2>2 DEF AbuseInv, AbuseTypes, AbuseLegs
  <2> QED
    BY <2>1, <2>2, <2>3 DEF AbuseInv, Mistreat!AbuseTells
<1>10. CASE Mistreat!Served
  <2>1. /\ Mistreat!Slowly /\ UNCHANGED Mistreat!health /\ step = "readers" /\ step' = "hold"
        /\ reader' = reader /\ Mistreat!Asks("served")
    BY <1>10 DEF Mistreat!Served
  <2>2. /\ leg = "slow" /\ leg' = leg /\ blocks' = blocks /\ hurt' = hurt /\ server' = server
        /\ AbuseCounts' /\ Batched' /\ Unhurt' /\ ill' = ill /\ worstIll' = worstIll
        /\ late' \in BOOLEAN
    BY <2>1, SlowKeeps
  <2>3. "served" \in {"served", "healthy"} \ blocked
    BY <2>1 DEF AbuseInv, AbuseLegs
  <2>4. /\ line' \in [Mistreat!Checks -> {"", "OK", "FAIL"}]
        /\ line'["survived"] = line["survived"] /\ line'["baseline"] = line["baseline"]
        /\ \A d \in {"served", "healthy"} :
             /\ d # "served" => (d \in blocked' <=> d \in blocked)
             /\ line'[d] = "OK" => d \notin blocked'
             /\ ~hurt' /\ line'[d] = "FAIL" => d \in blocked'
    BY <2>1, <2>2, <2>3, SlowAsks
  <2>5. AbuseTypes' /\ AbuseLegs'
    BY <2>1, <2>2, <2>4 DEF AbuseInv, AbuseTypes, AbuseLegs
  <2>6. line["survived"] # "OK"
    BY <2>1 DEF AbuseInv
  <2> QED
    BY <2>1, <2>2, <2>4, <2>5, <2>6 DEF AbuseInv, Mistreat!AbuseTells
<1>11. CASE Mistreat!Stop
  <2>1. /\ Mistreat!Slowly /\ UNCHANGED Mistreat!health /\ step = "hold" /\ step' = "join"
        /\ line' = line /\ blocked' = blocked
    BY <1>11 DEF Mistreat!Stop
  <2>2. /\ leg = "slow" /\ leg' = leg /\ blocks' = blocks /\ hurt' = hurt /\ server' = server
        /\ AbuseCounts' /\ Batched' /\ Unhurt' /\ ill' = ill /\ worstIll' = worstIll
        /\ late' \in BOOLEAN
    BY <2>1, SlowKeeps
  <2>3. AbuseTypes' /\ AbuseLegs'
    BY <2>1, <2>2 DEF AbuseInv, AbuseTypes, AbuseLegs
  <2>4. line["survived"] # "OK"
    BY <2>1 DEF AbuseInv
  <2> QED
    BY <2>1, <2>2, <2>3, <2>4 DEF AbuseInv, Mistreat!AbuseTells
<1>12. CASE Mistreat!Healthy
  <2>1. /\ Mistreat!Slowly /\ UNCHANGED Mistreat!health /\ step = "join" /\ step' = "done"
        /\ reader' = reader /\ Mistreat!Asks("healthy")
    BY <1>12 DEF Mistreat!Healthy
  <2>2. /\ leg = "slow" /\ leg' = leg /\ blocks' = blocks /\ hurt' = hurt /\ server' = server
        /\ AbuseCounts' /\ Batched' /\ Unhurt' /\ ill' = ill /\ worstIll' = worstIll
        /\ late' \in BOOLEAN
    BY <2>1, SlowKeeps
  <2>3. "healthy" \in {"served", "healthy"} \ blocked
    BY <2>1 DEF AbuseInv, AbuseLegs
  <2>4. /\ line' \in [Mistreat!Checks -> {"", "OK", "FAIL"}]
        /\ line'["survived"] = line["survived"] /\ line'["baseline"] = line["baseline"]
        /\ \A d \in {"served", "healthy"} :
             /\ d # "healthy" => (d \in blocked' <=> d \in blocked)
             /\ line'[d] = "OK" => d \notin blocked'
             /\ ~hurt' /\ line'[d] = "FAIL" => d \in blocked'
    BY <2>1, <2>2, <2>3, SlowAsks
  <2>5. AbuseTypes' /\ AbuseLegs'
    BY <2>1, <2>2, <2>4 DEF AbuseInv, AbuseTypes, AbuseLegs
  <2>6. line["survived"] # "OK"
    BY <2>1 DEF AbuseInv
  <2> QED
    BY <2>1, <2>2, <2>4, <2>5, <2>6 DEF AbuseInv, Mistreat!AbuseTells
<1>13. CASE Mistreat!Done
  BY <1>1, <1>13 DEF Mistreat!Done
<1> QED
  BY <1>1, <1>2, <1>3, <1>4, <1>5, <1>6, <1>7, <1>8, <1>9, <1>10, <1>11, <1>12, <1>13
     DEF Mistreat!Next

(* A server that is down or late for more than a batch of malformed requests, or  *)
(* still behind the last of them, fails, whatever the batch; one that never was   *)
(* passes; and a client beside the slow readers, or behind them, is kept waiting   *)
(* by one that holds the server, and by nothing else a server that never was ill  *)
(* does (fuzz_rtsp.py:73-130, slow_client.py:43-160).                             *)
THEOREM AbuseCorrect == ProbesSpec => []AbuseTells
<1> DEFINE Inv == probe = "abuse" => AbuseInv
<1>1. ProbesInit => Inv
  BY AbuseInit DEF ProbesInit
<1>2. Inv /\ [ProbesNext]_all => Inv'
  <2> SUFFICES ASSUME Inv, [ProbesNext]_all, probe' = "abuse"
               PROVE  AbuseInv'
    OBVIOUS
  <2>1. probe = "abuse" /\ [Mistreat!Next]_(Mistreat!vars)
    BY DEF ProbesNext, all, abuseVars, Mistreat!vars, Mistreat!health, Mistreat!fuzz, Mistreat!slow
  <2> QED
    BY <2>1, AbuseStep
<1>3. Inv => AbuseTells
  BY DEF AbuseInv, AbuseTells
<1> QED
  BY <1>1, <1>2, <1>3, PTL DEF ProbesSpec, all

--------------------------------------------------------------------------------
(* The backchannel leg.                                                           *)

Opened == {"describe", "sendonly", "setup", "play"}
Shortest == Send + BackHold - Early       \* when the hold ends behind a report
Got == Speaker!HasToken("sent")

LastLook == Speaker!Sight

BackTypes ==
  /\ server \in Speaker!Servers /\ t \in Nat /\ since \in Nat /\ looks \in Nat /\ missed \in Nat
  /\ step \in Opened \cup {"send", "hold", "alive", "exit", "killed"}
  /\ caller \in {"sent", "look", "pause", "wait", "done"}
  /\ BCRING \in {"unchecked", "no", "yes"} /\ slow \in BOOLEAN
  /\ caller = "done" => Speaker!Gone
  /\ caller # "done" => line = [c \in Speaker!Checks |-> ""]

(* The exchanges take no time, the audio that is taken Send seconds; without      *)
(* media the session ends before the last frame is sent.                          *)
All == server.takes = "all"
BackTimes ==
  /\ ~Speaker!Gone => t <= Limit
  /\ step \in Opened => t = 0 /\ since = 0
  /\ step = "sendonly" => server.refuses # "describe"
  /\ step = "setup" => server.refuses \notin {"describe", "sendonly"}
  /\ step = "play" => server.refuses \notin {"describe", "sendonly", "setup"}
  /\ step = "send" => since = 0 /\ server.refuses \notin Opened
  /\ step = "send" /\ All /\ server.flows => t <= Send
  /\ step \in {"hold", "alive"} => server.refuses \notin Opened
  /\ step = "hold" /\ All => server.flows /\ since = Send /\ t >= Send
  /\ step = "alive" /\ All => server.flows /\ t >= Shortest

(* What the tokens stand for.                                                     *)
BackTokens ==
  /\ file \subseteq out
  /\ \A v \in {"200", "no", "yes", "60", "half", "few"} : <<"sent", v>> \in out => <<"sent", v>> \in file
  /\ <<"sent", "60">> \in out \/ <<"sent", "half">> \in out =>
       server.takes # "few" /\ server.refuses \notin Opened
  /\ <<"alive", "yes">> \in out => server.refuses # "alive"
  /\ \A v \in {"200", "no", "yes", "60", "half", "few"} : <<"sent", v>> \in out =>
       /\ step \in {"hold", "alive", "exit", "killed"}
       /\ All => server.flows /\ t >= Send /\ (step = "hold" \/ t >= Shortest)
  /\ step \in {"hold", "alive"} /\ All => <<"sent", "60">> \in out
  /\ step = "exit" /\ All /\ server.refuses = "nothing" =>
       <<"sent", "60">> \in file /\ <<"alive", "yes">> \in file

(* A ring that comes is there when its time has come, until the session ends.     *)
BackRing ==
  /\ ring \in BOOLEAN /\ (ring => server.lag # 99)
  /\ server.lag # 99 /\ step \in {"send", "hold"} => ring \/ t <= server.lag

(* With a camera that takes the audio and looks that take a second, the looks     *)
(* begin with the hold and go on, a second apart; from the first one that has to  *)
(* find a ring that comes, all of them are missed, to the end of the shortest     *)
(* hold.                                                                          *)
Owed == server.lag # 99 /\ All /\ ~slow
MissedTo(time) == missed + LastLook >= time \/ missed + LastLook >= Shortest
BackLooks ==
  /\ caller = "sent" => BCRING = "unchecked" /\ looks = 0 /\ missed = 0
  /\ caller = "sent" /\ Got /\ All => step = "hold" /\ t = Send
  /\ caller \in {"look", "pause"} => BCRING = "no" /\ Got
  /\ caller = "look" /\ Owed => looks = t - Send /\ MissedTo(t)
  /\ caller = "pause" /\ Owed => looks = t - Send + 1 /\ MissedTo(t + 1)
  /\ caller \in {"wait", "done"} /\ BCRING = "no" /\ Owed => missed + LastLook >= Shortest
  /\ BCRING = "yes" => server.lag # 99

BackInv ==
  BackTypes /\ BackTimes /\ BackTokens /\ BackRing /\ BackLooks /\ Speaker!BackchannelSound

LEMMA BackConstants ==
  /\ Limit \in Nat /\ Limit < 99 /\ Send \in Nat /\ BackHold \in Nat /\ Early \in Nat /\ Polls \in Nat
  /\ Early < BackHold /\ Send + BackHold < Limit /\ BackHold - Early <= Polls
  /\ Shortest \in Nat /\ Send < Shortest /\ Shortest < Limit /\ Shortest <= Send + Polls
<1>1. /\ Limit \in Nat /\ Limit < 99 /\ Send \in Nat /\ BackHold \in Nat /\ Early \in Nat /\ Polls \in Nat
      /\ Early < BackHold /\ Send + BackHold < Limit /\ BackHold - Early <= Polls
  BY ProbeConstants DEF Speaker!ConstAssumption
<1> QED
  BY <1>1 DEF Shortest

LEMMA LookBounds ==
  ASSUME BackTypes, server.lag # 99
  PROVE  server.lag \in Nat /\ LastLook \in Nat /\ server.lag < LastLook /\ Send <= LastLook
<1>1. server.lag \in Lags
  BY DEF BackTypes, Speaker!Servers
<1>2. server.lag \in Nat
  BY <1>1, ProbeConstants DEF Speaker!ConstAssumption
<1> QED
  BY <1>2, BackConstants DEF LastLook, Speaker!Sight

(* Until the caller has read the tokens there are no lines.                       *)
LEMMA Unread == BackTypes /\ caller # "done" => Speaker!BackchannelSound
<1> SUFFICES ASSUME BackTypes, caller # "done"
             PROVE  Speaker!BackchannelSound
  OBVIOUS
<1>1. line["ring"] = "" /\ line["send"] = ""
  BY DEF BackTypes, Speaker!Checks
<1> QED
  BY <1>1 DEF Speaker!BackchannelSound

LEMMA GotTokens ==
  Got <=> \E v \in {"200", "no", "60", "half", "few", "yes"} : <<"sent", v>> \in file
  BY DEF Got, Speaker!HasToken

LEMMA BackInit == Speaker!Init => BackInv
<1> SUFFICES ASSUME Speaker!Init
             PROVE  BackInv
  OBVIOUS
<1>1. /\ server \in Speaker!Servers /\ t = 0 /\ step = "describe" /\ since = 0
      /\ out = {} /\ file = {} /\ rr = FALSE /\ ring = FALSE
      /\ caller = "sent" /\ looks = 0 /\ BCRING = "unchecked" /\ missed = 0 /\ slow = FALSE
      /\ line = [c \in Speaker!Checks |-> ""]
  BY DEF Speaker!Init
<1>2. BackTypes
  BY <1>1 DEF BackTypes, Opened, Speaker!Gone
<1>3. BackTimes
  <2>1. 0 <= Limit
    BY BackConstants
  <2> QED
    BY <1>1, <2>1 DEF BackTimes, Opened
<1>4. BackTokens
  BY <1>1 DEF BackTokens
<1>5. BackRing
  BY <1>1 DEF BackRing
<1>6. BackLooks
  BY <1>1, GotTokens DEF BackLooks
<1> QED
  BY <1>1, <1>2, <1>3, <1>4, <1>5, <1>6, Unread DEF BackInv

(* Where the caller leaves off: a step of the probe does not end its looking      *)
(* before it has begun.                                                           *)
LEMMA LooksKept ==
  ASSUME BackInv, UNCHANGED <<server, t, caller, Speaker!found>>, Got' <=> Got,
         caller = "sent" /\ Got /\ All => step' = "hold"
  PROVE  BackLooks'
<1>1. BackLooks /\ UNCHANGED <<server, t, caller, looks, BCRING, missed, slow>>
  BY DEF BackInv, Speaker!found
<1>2. /\ LastLook' = LastLook /\ (Owed' <=> Owed) /\ (All' <=> All)
      /\ MissedTo(t)' <=> MissedTo(t)
      /\ MissedTo(t + 1)' <=> MissedTo(t + 1)
  BY <1>1 DEF LastLook, Speaker!Sight, Owed, All, MissedTo
<1>3. caller = "sent" /\ Got' /\ All => step' = "hold" /\ t = Send
  BY <1>1 DEF BackLooks
<1>4. caller \in {"look", "pause"} => BCRING = "no" /\ Got'
  BY <1>1 DEF BackLooks
<1> HIDE DEF Got
<1> QED
  BY <1>1, <1>2, <1>3, <1>4 DEF BackLooks

(* What a step of the probe leaves alone; a caller that has read the tokens is    *)
(* behind the last of them.                                                       *)
LEMMA ProbeFrame ==
  ASSUME BackInv, Speaker!Probe, step \notin {"exit", "killed"},
         step' \in Opened \cup {"send", "hold", "alive", "exit", "killed"}, since' \in Nat
  PROVE  /\ UNCHANGED <<server, t, caller, Speaker!found, line>>
         /\ UNCHANGED <<looks, BCRING, missed, slow>>
         /\ BackTypes' /\ caller # "done" /\ Speaker!BackchannelSound'
<1>1. /\ UNCHANGED <<server, t, caller, Speaker!found, line>>
      /\ UNCHANGED <<looks, BCRING, missed, slow>>
  BY DEF Speaker!Probe, Speaker!found
<1>2. caller # "done"
  BY DEF BackInv, BackTypes, Speaker!Gone
<1>3. BackTypes'
  BY <1>1, <1>2 DEF BackInv, BackTypes
<1>4. line["ring"] = "" /\ line["send"] = ""
  BY <1>2 DEF BackInv, BackTypes, Speaker!Checks
<1>5. Speaker!BackchannelSound'
  BY <1>1, <1>4 DEF Speaker!BackchannelSound
<1> QED
  BY <1>1, <1>2, <1>3, <1>5

(* The exchanges ahead of the audio.                                              *)
LEMMA AheadStep ==
  ASSUME BackInv, NEW stage, NEW next,
         \/ stage = "describe" /\ next = "sendonly"
         \/ stage = "sendonly" /\ next = "setup"
         \/ stage = "setup" /\ next = "play"
         \/ stage = "play" /\ next = "send",
         Speaker!Ahead(stage, next)
  PROVE  BackInv'
<1>0. stage \in Opened /\ next \in Opened \cup {"send"}
  BY DEF Opened
<1>1. /\ step = stage /\ since' = t /\ ring' = ring /\ Speaker!Probe
      /\ server.refuses = stage =>
           step' = "exit" /\ out' = out \cup {<<stage, "no">>} /\ file' = out'
      /\ server.refuses # stage =>
           step' = next /\ out' = out \cup {<<stage, "200">>} /\ file' = file
  BY DEF Speaker!Ahead, Speaker!Note
<1>2. t = 0 /\ since = 0
  BY <1>0, <1>1 DEF BackInv, BackTimes
<1>3. /\ UNCHANGED <<server, t, caller, Speaker!found, line>>
      /\ BackTypes' /\ caller # "done" /\ Speaker!BackchannelSound'
  <2>1. step \notin {"exit", "killed"} /\ step' \in Opened \cup {"send", "hold", "alive", "exit", "killed"}
    BY <1>0, <1>1 DEF Opened
  <2>2. since' \in Nat
    BY <1>1, <1>2
  <2> QED
    BY <1>1, <2>1, <2>2, ProbeFrame
<1>4. \A v \in {"200", "no", "yes", "60", "half", "few"} : <<"sent", v>> \notin out
  <2>1. step \notin {"hold", "alive", "exit", "killed"}
    BY <1>0, <1>1 DEF Opened
  <2> QED
    BY <2>1 DEF BackInv, BackTokens
<1>5. /\ \A v \in {"200", "no", "yes", "60", "half", "few"} : <<"sent", v>> \notin out'
      /\ <<"alive", "yes">> \in out' => <<"alive", "yes">> \in out
      /\ file \subseteq out /\ file' \subseteq out'
  BY <1>0, <1>1, <1>4 DEF BackInv, BackTokens, Opened
<1>6. ~Got /\ ~Got'
  <2>1. \A v \in {"200", "no", "60", "half", "few", "yes"} : <<"sent", v>> \notin file /\ <<"sent", v>> \notin file'
    BY <1>4, <1>5
  <2> QED
    BY <2>1 DEF Got, Speaker!HasToken
<1>7. BackTimes'
  BY <1>1, <1>2, <1>3, BackConstants DEF BackInv, BackTimes, Opened, Speaker!Gone, All
<1>8. BackTokens'
  <2>1. step' \in {"hold", "alive"} => FALSE
    BY <1>0, <1>1 DEF Opened
  <2>2. step' = "exit" => server.refuses # "nothing"
    BY <1>0, <1>1 DEF Opened
  <2> QED
    BY <1>1, <1>3, <1>5, <2>1, <2>2 DEF BackInv, BackTokens, All
<1>9. BackRing'
  <2>1. server.lag # 99 => server.lag \in Nat
    BY LookBounds DEF BackInv
  <2> QED
    BY <1>0, <1>1, <1>2, <1>3, <2>1 DEF BackInv, BackRing, Opened
<1>10. BackLooks'
  BY <1>3, <1>6, LooksKept
<1> QED
  BY <1>3, <1>7, <1>8, <1>9, <1>10 DEF BackInv

LEMMA SentStep ==
  ASSUME BackInv, Speaker!Sent
  PROVE  BackInv'
<1>1. /\ step = "send" /\ step' = "hold" /\ since' = t /\ ring' = ring /\ Speaker!Probe
      /\ Speaker!SendOver \/ ~All
      /\ out' = out \cup {<<"sent", Speaker!Frames>>} /\ file' = out'
  BY DEF Speaker!Sent, Speaker!Note, All
<1>2. t \in Nat /\ t <= Limit /\ since = 0 /\ server.refuses \notin Opened
  BY <1>1 DEF BackInv, BackTypes, BackTimes, Speaker!Gone
<1>3. All => server.flows /\ t = Send
  <2>1. All /\ server.flows => t <= Send
    BY <1>1 DEF BackInv, BackTimes
  <2> QED
    BY <1>1, <1>2, <2>1, BackConstants DEF Speaker!Sending, Speaker!SendOver
<1>4. /\ UNCHANGED <<server, t, caller, Speaker!found, line>>
      /\ UNCHANGED <<looks, BCRING, missed, slow>>
      /\ BackTypes' /\ caller # "done" /\ Speaker!BackchannelSound'
  <2>1. step \notin {"exit", "killed"} /\ step' \in Opened \cup {"send", "hold", "alive", "exit", "killed"}
    BY <1>1
  <2>2. since' \in Nat
    BY <1>1, <1>2
  <2> QED
    BY <1>1, <2>1, <2>2, ProbeFrame
<1>5. \A v \in {"200", "no", "yes", "60", "half", "few"} : <<"sent", v>> \notin out
  BY <1>1 DEF BackInv, BackTokens
<1>6. ~Got
  BY <1>5 DEF BackInv, BackTokens, Got, Speaker!HasToken
<1>7. BackTimes'
  BY <1>1, <1>2, <1>3, <1>4, BackConstants DEF BackTimes, Speaker!Gone, Opened, All
<1>8. BackTokens'
  <2>1. /\ Speaker!Frames \in {"60", "half", "few"}
        /\ Speaker!Frames \in {"60", "half"} => server.takes # "few"
        /\ All => Speaker!Frames = "60"
    <3>1. server.takes \in {"all", "half", "few"}
      BY DEF BackInv, BackTypes, Speaker!Servers
    <3> QED
      BY <3>1 DEF Speaker!Frames, All
  <2>2. <<"sent", "60">> \in out' \/ <<"sent", "half">> \in out' => server.takes # "few"
    BY <1>1, <1>5, <2>1
  <2>3. <<"alive", "yes">> \in out' => <<"alive", "yes">> \in out
    BY <1>1
  <2>4. All => <<"sent", "60">> \in out' /\ server.flows /\ t >= Send
    BY <1>1, <1>3, <2>1, BackConstants
  <2>5. All' <=> All
    BY <1>4 DEF All
  <2> QED
    BY <1>1, <1>2, <1>4, <2>2, <2>3, <2>4, <2>5 DEF BackInv, BackTokens
<1>9. BackRing'
  BY <1>1, <1>4 DEF BackInv, BackRing
<1>10. BackLooks'
  <2>1. caller \in {"sent", "wait"}
    BY <1>4, <1>6 DEF BackInv, BackLooks, BackTypes
  <2>2. /\ caller = "sent" => BCRING = "unchecked" /\ looks = 0 /\ missed = 0
        /\ caller = "wait" /\ BCRING = "no" /\ Owed => missed + LastLook >= Shortest
        /\ BCRING = "yes" => server.lag # 99
    BY DEF BackInv, BackLooks
  <2>3. LastLook' = LastLook /\ (Owed' <=> Owed) /\ (All' <=> All)
    BY <1>4 DEF LastLook, Speaker!Sight, Owed, All
  <2> QED
    BY <1>1, <1>3, <1>4, <2>1, <2>2, <2>3 DEF BackLooks
<1> QED
  BY <1>4, <1>7, <1>8, <1>9, <1>10 DEF BackInv

(* A camera that breaks the sending off, or the request behind it.                *)
LEMMA BrokenStep ==
  ASSUME BackInv, Speaker!Broken
  PROVE  BackInv'
<1>1. /\ step = "send" /\ step' = "exit" /\ since' = t /\ ring' = FALSE /\ Speaker!Probe
      /\ ~All /\ out' = out /\ file' = out
  BY DEF Speaker!Broken, All
<1>2. t \in Nat
  BY DEF BackInv, BackTypes
<1>3. /\ UNCHANGED <<server, t, caller, Speaker!found, line>>
      /\ UNCHANGED <<looks, BCRING, missed, slow>>
      /\ BackTypes' /\ caller # "done" /\ Speaker!BackchannelSound'
  <2>1. step \notin {"exit", "killed"} /\ step' \in Opened \cup {"send", "hold", "alive", "exit", "killed"}
    BY <1>1
  <2> QED
    BY <1>1, <1>2, <2>1, ProbeFrame
<1>4. ~All'
  BY <1>1, <1>3 DEF All
<1>5. BackTimes' /\ BackRing'
  BY <1>1, <1>3 DEF BackTimes, BackRing, Speaker!Gone, Opened
<1>6. BackTokens'
  BY <1>1, <1>3, <1>4 DEF BackInv, BackTokens
<1>7. BackLooks'
  <2>1. \A v \in {"200", "no", "60", "half", "few", "yes"} : <<"sent", v>> \in file' <=> <<"sent", v>> \in file
    BY <1>1 DEF BackInv, BackTokens
  <2>2. Got' <=> Got
    BY <2>1 DEF Got, Speaker!HasToken
  <2> QED
    BY <1>1, <1>3, <2>2, LooksKept
<1> QED
  BY <1>3, <1>5, <1>6, <1>7 DEF BackInv

LEMMA HeldStep ==
  ASSUME BackInv, Speaker!Held
  PROVE  BackInv'
<1> DEFINE tok == IF rr THEN "yes" ELSE "no"
<1>1. /\ step = "hold" /\ step' = "alive" /\ since' = t /\ ring' = ring /\ Speaker!Probe
      /\ Speaker!HoldOver
      /\ out' = out \cup {<<"rr", tok>>} /\ file' = file
  BY DEF Speaker!Held, Speaker!Note
<1>2. t \in Nat /\ t <= Limit /\ server.refuses \notin Opened
  BY <1>1 DEF BackInv, BackTypes, BackTimes, Speaker!Gone
<1>3. All => server.flows /\ t >= Shortest
  <2>1. t >= since + BackHold \/ t >= since + BackHold - Early
    BY <1>1 DEF Speaker!HoldOver
  <2>2. All => server.flows /\ since = Send
    BY <1>1 DEF BackInv, BackTimes
  <2> QED
    BY <1>2, <2>1, <2>2, BackConstants DEF Shortest
<1>4. /\ UNCHANGED <<server, t, caller, Speaker!found, line>>
      /\ UNCHANGED <<looks, BCRING, missed, slow>>
      /\ BackTypes' /\ caller # "done" /\ Speaker!BackchannelSound'
  <2>1. step \notin {"exit", "killed"} /\ step' \in Opened \cup {"send", "hold", "alive", "exit", "killed"}
    BY <1>1
  <2> QED
    BY <1>1, <1>2, <2>1, ProbeFrame
<1>a. All' <=> All
  BY <1>4 DEF All
<1>5. BackTimes'
  BY <1>1, <1>2, <1>3, <1>4, <1>a, BackConstants DEF BackTimes, Speaker!Gone, Opened
<1>6. BackTokens'
  <2>1. \A v \in {"200", "no", "yes", "60", "half", "few"} : <<"sent", v>> \in out' <=> <<"sent", v>> \in out
    BY <1>1
  <2>2. <<"alive", "yes">> \in out' => <<"alive", "yes">> \in out
    BY <1>1
  <2>3. file' \subseteq out'
    BY <1>1 DEF BackInv, BackTokens
  <2>4. All => t >= Send
    BY <1>2, <1>3, BackConstants
  <2>5. All => <<"sent", "60">> \in out'
    BY <1>1 DEF BackInv, BackTokens
  <2> QED
    BY <1>1, <1>2, <1>3, <1>4, <1>a, <2>1, <2>2, <2>3, <2>4, <2>5 DEF BackInv, BackTokens
<1>7. BackRing'
  BY <1>1, <1>4 DEF BackInv, BackRing
<1>8. BackLooks'
  <2>1. Got' <=> Got
    BY <1>1 DEF Got, Speaker!HasToken
  <2>2. ~(caller = "sent" /\ Got /\ All)
    <3>1. All => t # Send
      BY <1>2, <1>3, BackConstants
    <3> QED
      BY <3>1 DEF BackInv, BackLooks
  <2> QED
    BY <1>4, <2>1, <2>2, LooksKept
<1> QED
  BY <1>4, <1>5, <1>6, <1>7, <1>8 DEF BackInv

LEMMA AliveStep ==
  ASSUME BackInv, Speaker!Alive
  PROVE  BackInv'
<1>0. PICK v \in (IF server.refuses = "alive" THEN {"no"}
                 ELSE IF server.takes = "all" THEN {"yes"} ELSE {"yes", "no"}) :
        out' = out \cup {<<"alive", v>>}
  BY DEF Speaker!Alive
<1>1. /\ step = "alive" /\ step' = "exit" /\ since' = t /\ ring' = FALSE /\ Speaker!Probe
      /\ file' = out'
      /\ v = "yes" => server.refuses # "alive"
      /\ All /\ server.refuses = "nothing" => v = "yes"
  BY <1>0 DEF Speaker!Alive, All
<1>2. t \in Nat /\ server.refuses \notin Opened /\ (All => server.flows /\ t >= Shortest)
  BY <1>1 DEF BackInv, BackTypes, BackTimes
<1>3. /\ UNCHANGED <<server, t, caller, Speaker!found, line>>
      /\ UNCHANGED <<looks, BCRING, missed, slow>>
      /\ BackTypes' /\ caller # "done" /\ Speaker!BackchannelSound'
  <2>1. step \notin {"exit", "killed"} /\ step' \in Opened \cup {"send", "hold", "alive", "exit", "killed"}
    BY <1>1
  <2> QED
    BY <1>1, <1>2, <2>1, ProbeFrame
<1>a. All' <=> All
  BY <1>3 DEF All
<1>4. BackTimes'
  BY <1>1, <1>3 DEF BackTimes, Speaker!Gone, Opened
<1>5. BackTokens'
  <2>1. \A w \in {"200", "no", "yes", "60", "half", "few"} : <<"sent", w>> \in out' <=> <<"sent", w>> \in out
    BY <1>0
  <2>2. <<"alive", "yes">> \in out' => server.refuses # "alive"
    BY <1>0, <1>1 DEF BackInv, BackTokens
  <2>3. All => <<"sent", "60">> \in out'
    BY <1>0, <1>1 DEF BackInv, BackTokens
  <2>4. All /\ server.refuses = "nothing" => <<"alive", "yes">> \in out'
    BY <1>0, <1>1
  <2> QED
    BY <1>1, <1>2, <1>3, <1>a, <2>1, <2>2, <2>3, <2>4 DEF BackInv, BackTokens
<1>6. BackRing'
  BY <1>1, <1>3 DEF BackRing
<1>7. BackLooks'
  <2>1. \A w \in {"200", "no", "60", "half", "few", "yes"} : <<"sent", w>> \in file' <=> <<"sent", w>> \in file
    BY <1>0, <1>1 DEF BackInv, BackTokens
  <2>2. Got' <=> Got
    BY <2>1 DEF Got, Speaker!HasToken
  <2>3. ~(caller = "sent" /\ Got /\ All)
    BY <1>1 DEF BackInv, BackLooks
  <2> QED
    BY <1>3, <2>2, <2>3, LooksKept
<1> QED
  BY <1>3, <1>4, <1>5, <1>6, <1>7 DEF BackInv

LEMMA KillStep ==
  ASSUME BackInv, Speaker!Kill
  PROVE  BackInv'
<1>1. /\ step \notin {"exit", "killed"} /\ step' = "killed" /\ ring' = FALSE /\ t >= Limit
      /\ UNCHANGED <<server, t, since, out, file, rr, caller, Speaker!found, line>>
  BY DEF Speaker!Kill, Speaker!Gone
<1>t. t \in Nat /\ since \in Nat
  BY DEF BackInv, BackTypes
<1>2. t >= Shortest /\ t # Send
  BY <1>1, <1>t, BackConstants
<1>3. /\ BackTypes' /\ caller # "done" /\ Speaker!BackchannelSound'
  BY <1>1, <1>t, ProbeFrame DEF Speaker!Probe
<1>4. BackTimes'
  BY <1>1 DEF BackTimes, Speaker!Gone, Opened
<1>5. BackTokens'
  BY <1>1, <1>t, <1>2 DEF BackInv, BackTokens, All, Speaker!found
<1>6. BackRing'
  BY <1>1 DEF BackRing
<1>7. BackLooks'
  <2>1. Got' <=> Got
    BY <1>1 DEF Got, Speaker!HasToken
  <2>2. ~(caller = "sent" /\ Got /\ All)
    BY <1>2 DEF BackInv, BackLooks
  <2> QED
    BY <1>1, <2>1, <2>2, LooksKept
<1> QED
  BY <1>3, <1>4, <1>5, <1>6, <1>7 DEF BackInv

(* A report, or the ring that comes.                                              *)
LEMMA BesideStep ==
  ASSUME BackInv, Speaker!Report \/ Speaker!RingUp
  PROVE  BackInv'
<1>1. /\ step \in {"send", "hold"} /\ step' = step
      /\ UNCHANGED <<server, t, since, out, file, caller, Speaker!found, line>>
  BY DEF Speaker!Report, Speaker!RingUp, Speaker!RingDue, Speaker!Probe
<1>2. /\ BackTypes' /\ caller # "done" /\ Speaker!BackchannelSound'
  BY <1>1, ProbeFrame DEF BackInv, BackTypes, Speaker!Probe
<1>3. BackTimes' /\ BackTokens'
  BY <1>1 DEF BackInv, BackTimes, BackTokens, Speaker!Gone, All
<1>4. BackRing'
  <2>1. CASE Speaker!Report
    <3>1. ring' = ring
      BY <2>1 DEF Speaker!Report
    <3> QED
      BY <1>1, <3>1 DEF BackInv, BackRing
  <2>2. CASE Speaker!RingUp
    <3>1. ring' = TRUE /\ t >= server.lag
      BY <2>2 DEF Speaker!RingUp, Speaker!RingDue
    <3>2. t \in Nat /\ t <= Limit
      BY <1>1 DEF BackInv, BackTypes, BackTimes, Speaker!Gone
    <3>5. server.lag # 99
      BY <3>1, <3>2, BackConstants
    <3> QED
      BY <1>1, <3>1, <3>5 DEF BackRing
  <2> QED
    BY <2>1, <2>2
<1>5. BackLooks'
  <2>1. Got' <=> Got
    BY <1>1 DEF Got, Speaker!HasToken
  <2>2. caller = "sent" /\ Got /\ All => step = "hold"
    BY DEF BackInv, BackLooks
  <2> QED
    BY <1>1, <2>1, <2>2, LooksKept
<1> QED
  BY <1>2, <1>3, <1>4, <1>5 DEF BackInv

--------------------------------------------------------------------------------
(* The caller, and the clock.                                                     *)

LEMMA CallerFrame ==
  ASSUME BackInv, Speaker!Calls, UNCHANGED t
  PROVE  /\ UNCHANGED <<server, step, since, out, file, ring, t>>
         /\ LastLook' = LastLook /\ (All' <=> All)
         /\ BackTimes' /\ BackTokens' /\ BackRing' /\ (Got' <=> Got)
<1>1. UNCHANGED <<server, step, since, out, file, ring, t>>
  BY DEF Speaker!Calls
<1>2. (Got' <=> Got) /\ LastLook' = LastLook /\ (All' <=> All)
  BY <1>1 DEF Got, Speaker!HasToken, LastLook, Speaker!Sight, All
<1>3. BackTimes' /\ BackTokens' /\ BackRing'
  BY <1>1 DEF BackInv, BackTimes, BackTokens, BackRing, Speaker!Gone, All
<1> QED
  BY <1>1, <1>2, <1>3

LEMMA AwaitStep ==
  ASSUME BackInv, Speaker!AwaitSent
  PROVE  BackInv'
<1>1. /\ caller = "sent" /\ UNCHANGED <<t, looks, missed, slow, line>>
      /\ Got => caller' = "look" /\ BCRING' = "no"
      /\ ~Got => caller' = "wait" /\ BCRING' = BCRING
  BY DEF Speaker!AwaitSent, Got
<1>2. /\ UNCHANGED <<server, step, since, out, file, ring, t>>
      /\ LastLook' = LastLook /\ (All' <=> All)
      /\ BackTimes' /\ BackTokens' /\ BackRing' /\ (Got' <=> Got)
  BY <1>1, CallerFrame DEF Speaker!AwaitSent
<1>3. BackTypes'
  BY <1>1, <1>2 DEF BackInv, BackTypes
<1>4. Speaker!BackchannelSound'
  <2>2. line["ring"] = "" /\ line["send"] = ""
    BY <1>1 DEF BackInv, BackTypes, Speaker!Checks
  <2> QED
    BY <1>1, <2>2 DEF Speaker!BackchannelSound
<1>5. BackLooks'
  <2>1. BCRING = "unchecked" /\ looks = 0 /\ missed = 0 /\ (Got /\ All => t = Send)
    BY <1>1 DEF BackInv, BackLooks
  <2>2. CASE Got
    <3>1. caller' = "look" /\ BCRING' = "no" /\ looks' = 0 /\ missed' = 0 /\ Got'
      BY <1>1, <1>2, <2>1, <2>2
    <3>2. Owed' => looks' = t' - Send /\ MissedTo(t)'
      <4>1. Owed' => Owed
        BY <1>1, <1>2 DEF Owed
      <4>2. Owed => t = Send /\ LastLook \in Nat /\ Send <= LastLook
        BY <2>1, <2>2, LookBounds DEF BackInv, Owed
      <4> QED
        BY <1>2, <3>1, <4>1, <4>2, BackConstants DEF MissedTo
    <3> HIDE DEF Got
    <3> QED
      BY <1>2, <3>1, <3>2 DEF BackLooks
  <2>3. CASE ~Got
    BY <1>1, <1>2, <2>1, <2>3 DEF BackLooks
  <2> QED
    BY <2>2, <2>3
<1> QED
  BY <1>2, <1>3, <1>4, <1>5 DEF BackInv

(* A look that does not find a ring that has come is missed.                      *)
LEMMA LookStep ==
  ASSUME BackInv, Speaker!Look
  PROVE  BackInv'
<1>1. /\ caller = "look" /\ looks' = looks + 1 /\ UNCHANGED <<t, slow, line>>
      /\ \/ ring /\ BCRING' = "yes" /\ caller' = "wait" /\ missed' = missed
         \/ /\ caller' = "pause" /\ BCRING' = BCRING
            /\ missed' = missed + (IF ring THEN 1 ELSE 0)
  BY DEF Speaker!Look
<1>2. /\ UNCHANGED <<server, step, since, out, file, ring, t>>
      /\ LastLook' = LastLook /\ (All' <=> All)
      /\ BackTimes' /\ BackTokens' /\ BackRing' /\ (Got' <=> Got)
  BY CallerFrame, <1>1 DEF Speaker!Look
<1>b. BCRING = "no" /\ Got
  BY <1>1 DEF BackInv, BackLooks
<1>n. looks \in Nat /\ t \in Nat /\ missed \in Nat /\ ring \in BOOLEAN
  BY DEF BackInv, BackTypes, BackRing
<1>3. BackTypes'
  <2>1. looks' \in Nat /\ missed' \in Nat /\ caller' \in {"wait", "pause"} /\ BCRING' \in {"yes", "no"}
    BY <1>1, <1>b, <1>n
  <2> QED
    BY <1>1, <1>2, <2>1 DEF BackInv, BackTypes
<1>4. Speaker!BackchannelSound'
  <2>1. line["ring"] = "" /\ line["send"] = ""
    BY <1>1 DEF BackInv, BackTypes, Speaker!Checks
  <2> QED
    BY <1>1, <2>1 DEF Speaker!BackchannelSound
<1>5. BackLooks'
  <2>1. CASE ring /\ BCRING' = "yes" /\ caller' = "wait"
    <3>1. server.lag # 99
      BY <2>1 DEF BackInv, BackRing
    <3> QED
      BY <1>2, <2>1, <3>1 DEF BackLooks
  <2>2. CASE /\ caller' = "pause" /\ BCRING' = BCRING
             /\ missed' = missed + (IF ring THEN 1 ELSE 0)
    <3>1. Owed' => Owed
      BY <1>1, <1>2 DEF Owed, All
    <3>2. ASSUME Owed
          PROVE  looks' = t' - Send + 1 /\ MissedTo(t + 1)'
      <4>1. LastLook \in Nat /\ server.lag \in Nat /\ server.lag < LastLook
        BY <3>2, LookBounds DEF BackInv, Owed
      <4>2. looks = t - Send /\ MissedTo(t)
        BY <1>1, <3>2 DEF BackInv, BackLooks
      <4>3. CASE ring
        BY <1>1, <1>2, <1>n, <2>2, <4>1, <4>2, <4>3, BackConstants DEF MissedTo
      <4>4. CASE ~ring /\ step = "hold"
        <5>1. t <= server.lag
          BY <3>2, <4>4 DEF BackInv, BackRing, Owed
        <5> QED
          BY <1>1, <1>2, <1>n, <2>2, <4>1, <4>2, <4>4, <5>1, BackConstants DEF MissedTo
      <4>5. CASE ~ring /\ step # "hold"
        <5>1. t >= Shortest
          BY <1>b, <3>2, <4>5 DEF BackInv, BackTokens, Got, Speaker!HasToken, Owed
        <5> QED
          BY <1>1, <1>2, <1>n, <2>2, <4>1, <4>2, <4>5, <5>1, BackConstants DEF MissedTo
      <4> QED
        BY <1>n, <4>3, <4>4, <4>5
    <3> HIDE DEF Got
    <3> QED
      BY <1>1, <1>2, <1>b, <2>2, <3>1, <3>2 DEF BackLooks
  <2> QED
    BY <1>1, <2>1, <2>2
<1> QED
  BY <1>2, <1>3, <1>4, <1>5 DEF BackInv

LEMMA ReadStep ==
  ASSUME BackInv, Speaker!Read
  PROVE  BackInv'
<1> DEFINE passed == <<"alive", "yes">> \in file /\ \E v \in {"60", "half"} : <<"sent", v>> \in file
<1>1. /\ caller = "wait" /\ caller' = "done" /\ UNCHANGED <<t, Speaker!found>> /\ Speaker!Gone
      /\ UNCHANGED <<looks, BCRING, missed, slow>>
  BY DEF Speaker!Read, Speaker!found
<1>2. /\ UNCHANGED <<server, step, since, out, file, ring, t>>
      /\ LastLook' = LastLook /\ (All' <=> All)
      /\ BackTimes' /\ BackTokens' /\ BackRing' /\ (Got' <=> Got)
  BY CallerFrame, <1>1 DEF Speaker!Read
<1>3. BackTypes'
  BY <1>1, <1>2 DEF BackInv, BackTypes, Speaker!Gone
<1>4. BackLooks'
  BY <1>1, <1>2 DEF BackInv, BackLooks, Owed
<1>5. line = [c \in Speaker!Checks |-> ""]
  BY <1>1 DEF BackInv, BackTypes
<1>6. \/ line'["ring"] = "" /\ line'["send"] = ""
      \/ /\ line'["send"] = IF passed THEN "OK" ELSE "FAIL"
         /\ line'["ring"] = CASE BCRING = "yes" -> "OK" [] BCRING = "no" -> "FAIL" [] OTHER -> ""
  BY <1>5 DEF Speaker!Read, Speaker!Verdict, Speaker!Checks
<1>7. passed => server.takes # "few" /\ server.refuses = "nothing"
  <2>1. ASSUME passed
        PROVE  server.takes # "few" /\ server.refuses \notin Opened /\ server.refuses # "alive"
    <3>1. <<"alive", "yes">> \in out /\ (<<"sent", "60">> \in out \/ <<"sent", "half">> \in out)
      BY <2>1 DEF BackInv, BackTokens
    <3> QED
      BY <3>1 DEF BackInv, BackTokens
  <2>2. server.refuses \in Opened \cup {"alive", "nothing"}
    BY DEF BackInv, BackTypes, Speaker!Servers, Speaker!Stage, Opened
  <2> QED
    BY <2>1, <2>2
<1>8. ~passed => server.takes # "all" \/ server.refuses # "nothing" \/ step = "killed"
  BY <1>1 DEF BackInv, BackTokens, Speaker!Gone, All
<1>9. /\ BCRING \in {"yes", "no", "unchecked"} /\ (BCRING = "yes" => server.lag # 99)
      /\ BCRING = "no" => server.lag = 99 \/ server.takes # "all" \/ slow \/ missed >= Speaker!Chances
  <2>1. ASSUME BCRING = "no", Owed
        PROVE  missed >= Speaker!Chances
    <3>1. missed + LastLook >= Shortest
      BY <1>1, <2>1 DEF BackInv, BackLooks
    <3>2. missed \in Nat /\ LastLook \in Nat
      BY <2>1, LookBounds DEF BackInv, BackTypes, Owed
    <3>3. Speaker!Chances = Shortest - LastLook
      <4>1. Speaker!Chances = Send + BackHold - Early - LastLook /\ Shortest = Send + BackHold - Early
        BY DEF Speaker!Chances, Shortest, LastLook
      <4> QED
        BY <3>2, <4>1, BackConstants
    <3> QED
      BY <3>1, <3>2, <3>3, BackConstants
  <2> QED
    BY <1>1, <2>1 DEF BackInv, BackLooks, BackTypes, Owed, All
<1>c. Speaker!Chances' = Speaker!Chances
  BY <1>2 DEF Speaker!Chances, Speaker!Sight
<1> HIDE DEF passed
<1>10. Speaker!BackchannelSound'
  BY <1>1, <1>2, <1>6, <1>7, <1>8, <1>9, <1>c DEF Speaker!BackchannelSound
<1> QED
  BY <1>2, <1>3, <1>4, <1>10 DEF BackInv

(* Time does not pass over a ring that is due, a look, or the end of the hold.    *)
LEMMA BackTick ==
  ASSUME BackInv, Speaker!Tick
  PROVE  BackInv'
<1>1. /\ ~Speaker!Urgent /\ caller # "done" /\ t' = t + 1
      /\ caller' \in Speaker!Onward /\ slow' = (slow \/ (caller = "pause" /\ caller' = "pause"))
      /\ UNCHANGED <<server, step, since, out, file, ring, looks, BCRING, missed, line>>
  BY DEF Speaker!Tick
<1>2. /\ step \notin Speaker!Stage
      /\ step = "send" => ~Speaker!SendOver
      /\ step = "hold" => ~(t >= since + BackHold)
      /\ ~Speaker!RingDue
      /\ caller # "look" /\ (caller = "sent" => ~Got /\ ~Speaker!Gone)
      /\ ~Speaker!Gone => ~(t >= Limit)
  BY <1>1 DEF Speaker!Urgent, Speaker!HoldOver, Got
<1>n. t \in Nat /\ since \in Nat /\ looks \in Nat /\ missed \in Nat
  BY DEF BackInv, BackTypes
<1>s. step \in {"send", "hold", "exit", "killed"}
  BY <1>2 DEF BackInv, BackTypes, Opened, Speaker!Stage
<1>3. BackTypes'
  <2>1. t' \in Nat
    BY <1>1, <1>n
  <2>2. caller' \in {"sent", "look", "pause", "wait"}
    BY <1>1 DEF BackInv, BackTypes, Speaker!Onward, Speaker!NextLook
  <2>3. slow' \in BOOLEAN
    BY <1>1
  <2> QED
    BY <1>1, <2>1, <2>2, <2>3 DEF BackInv, BackTypes
<1>4. Speaker!BackchannelSound'
  <2>1. line["ring"] = "" /\ line["send"] = ""
    BY <1>1 DEF BackInv, BackTypes, Speaker!Checks
  <2> QED
    BY <1>1, <2>1 DEF Speaker!BackchannelSound
<1>5. BackTimes'
  <2>1. /\ step = "hold" => server.refuses \notin Opened
        /\ step = "hold" /\ All => server.flows /\ since = Send /\ t >= Send
    BY DEF BackInv, BackTimes
  <2>2. step = "send" => since = 0 /\ server.refuses \notin Opened
    BY DEF BackInv, BackTimes
  <2>3. step = "send" /\ server.flows => t + 1 <= Send
    BY <1>2, <1>n, <2>2, BackConstants DEF Speaker!Sending, Speaker!SendOver
  <2>4. ~Speaker!Gone => t + 1 <= Limit
    BY <1>2, <1>n, BackConstants
  <2>5. t + 1 >= Send \/ ~(t >= Send)
    BY <1>n, BackConstants
  <2>6. All' <=> All
    BY <1>1 DEF All
  <2> QED
    BY <1>1, <1>s, <2>1, <2>2, <2>3, <2>4, <2>5, <2>6 DEF BackTimes, Speaker!Gone, Opened
<1>6. BackTokens'
  <2>1. (t >= Send => t' >= Send) /\ (t >= Shortest => t' >= Shortest)
    BY <1>1, <1>n, BackConstants
  <2>2. All' <=> All
    BY <1>1 DEF All
  <2> QED
    BY <1>1, <2>1, <2>2 DEF BackInv, BackTokens
<1>7. BackRing'
  <2>1. ASSUME server.lag # 99, step \in {"send", "hold"}, ~ring
        PROVE  t + 1 <= server.lag
    <3>1. server.lag \in Nat
      BY <2>1, LookBounds DEF BackInv
    <3>2. ~(t >= server.lag)
      BY <1>2, <2>1 DEF Speaker!RingDue
    <3> QED
      BY <1>n, <3>1, <3>2
  <2>2. ring \in BOOLEAN /\ (ring => server.lag # 99)
    BY DEF BackInv, BackRing
  <2> QED
    BY <1>1, <2>1, <2>2 DEF BackRing
<1>8. BackLooks'
  <2>1. (Got' <=> Got) /\ LastLook' = LastLook /\ (All' <=> All) /\ (Owed' => Owed)
    BY <1>1 DEF Got, Speaker!HasToken, LastLook, Speaker!Sight, All, Owed
  <2>2. CASE caller = "pause"
    <3>1. BCRING = "no" /\ Got
      BY <2>2 DEF BackInv, BackLooks
    <3>2. Owed => looks = t - Send + 1 /\ MissedTo(t + 1)
      BY <2>2 DEF BackInv, BackLooks
    <3>3. Owed => LastLook \in Nat
      BY LookBounds DEF BackInv, Owed
    <3>4. caller' = "pause" => ~Owed'
      BY <1>1, <2>2 DEF Owed
    <3>5. CASE caller' = "pause"
      <4> HIDE DEF Got
      <4> QED
        BY <1>1, <2>1, <3>1, <3>4, <3>5 DEF BackLooks
    <3>6. CASE caller' = "look"
      <4>1. Owed => looks' = t' - Send /\ MissedTo(t)'
        BY <1>1, <1>n, <2>1, <3>2, <3>3, BackConstants DEF MissedTo
      <4> HIDE DEF Got
      <4> QED
        BY <1>1, <2>1, <3>1, <3>6, <4>1 DEF BackLooks
    <3>7. CASE caller' = "wait"
      <4>1. Speaker!Gone \/ looks = Polls
        BY <1>1, <2>2, <3>7 DEF Speaker!Onward, Speaker!NextLook
      <4>2. ASSUME Owed
            PROVE  t + 1 >= Shortest
        <5>1. CASE Speaker!Gone
          <6>1. t >= Shortest
            BY <3>1, <4>2, <5>1 DEF BackInv, BackTokens, Got, Speaker!HasToken, Owed, Speaker!Gone
          <6> QED
            BY <1>n, <6>1, BackConstants
        <5>2. CASE looks = Polls
          BY <1>n, <3>2, <4>2, <5>2, BackConstants
        <5> QED
          BY <4>1, <5>1, <5>2
      <4>3. Owed => missed + LastLook >= Shortest
        BY <1>n, <3>2, <3>3, <4>2, BackConstants DEF MissedTo
      <4> QED
        BY <1>1, <2>1, <3>1, <3>7, <4>3 DEF BackLooks
    <3> QED
      BY <1>1, <2>2, <3>5, <3>6, <3>7 DEF Speaker!Onward, Speaker!NextLook
  <2>3. CASE caller # "pause"
    <3>1. caller' = caller /\ caller \in {"sent", "wait"}
      BY <1>1, <1>2, <2>3 DEF BackInv, BackTypes, Speaker!Onward
    <3>2. caller = "sent" => BCRING = "unchecked" /\ looks = 0 /\ missed = 0 /\ ~Got'
      BY <1>2, <2>1 DEF BackInv, BackLooks
    <3>3. /\ caller = "wait" /\ BCRING = "no" /\ Owed => missed + LastLook >= Shortest
          /\ BCRING = "yes" => server.lag # 99
      BY DEF BackInv, BackLooks
    <3> HIDE DEF Got
    <3> QED
      BY <1>1, <2>1, <3>1, <3>2, <3>3 DEF BackLooks
  <2> QED
    BY <2>2, <2>3
<1> QED
  BY <1>3, <1>4, <1>5, <1>6, <1>7, <1>8 DEF BackInv

LEMMA BackStep == BackInv /\ [Speaker!Next]_(Speaker!vars) => BackInv'
<1> SUFFICES ASSUME BackInv, [Speaker!Next]_(Speaker!vars)
             PROVE  BackInv'
  OBVIOUS
<1>1. CASE UNCHANGED Speaker!vars
  <2>1. UNCHANGED <<server, t, step, since, out, file, rr, ring, caller, looks, BCRING, missed,
                    slow, line>>
    BY <1>1 DEF Speaker!vars, Speaker!found
  <2>2. /\ (Got' <=> Got) /\ LastLook' = LastLook /\ (All' <=> All) /\ (Owed' <=> Owed)
        /\ Speaker!Chances' = Speaker!Chances
    BY <2>1 DEF Got, Speaker!HasToken, LastLook, Speaker!Sight, Speaker!Chances, All, Owed
  <2>t. BackTypes'
    BY <2>1 DEF BackInv, BackTypes, Speaker!Gone
  <2>3. BackTimes' /\ BackTokens' /\ BackRing'
    BY <2>1, <2>2 DEF BackInv, BackTimes, BackTokens, BackRing, Speaker!Gone
  <2>4. BackLooks'
    <3> HIDE DEF Got, LastLook
    <3> QED
      BY <2>1, <2>2 DEF BackInv, BackLooks, MissedTo
  <2> QED
    BY <2>1, <2>2, <2>t, <2>3, <2>4 DEF BackInv, Speaker!BackchannelSound
<1>2. CASE Speaker!Opening
  <2>1. /\ Speaker!Ahead("describe", "sendonly") => BackInv'
        /\ Speaker!Ahead("sendonly", "setup") => BackInv'
        /\ Speaker!Ahead("setup", "play") => BackInv'
        /\ Speaker!Ahead("play", "send") => BackInv'
    BY AheadStep
  <2> QED
    BY <1>2, <2>1 DEF Speaker!Opening
<1> QED
  BY <1>1, <1>2, SentStep, BrokenStep, HeldStep, AliveStep, KillStep, BesideStep, AwaitStep, LookStep,
     ReadStep, BackTick DEF Speaker!Next, Speaker!Done

(* A ring that comes in the time the shortest hold leaves is seen, unless a look  *)
(* is slow, or every look of that time fails, with a camera that takes the audio; *)
(* audio is passed when half of it was taken and the session answered afterwards: *)
(* for any lengths of the hold, the sending and the looks that fit into one       *)
(* another (backchannel.py:108-218, raptor-test:2949-2990).                       *)
THEOREM BackchannelCorrect == ProbesSpec => []BackchannelSound
<1> DEFINE Inv == probe = "back" => BackInv
<1>1. ProbesInit => Inv
  BY BackInit DEF ProbesInit
<1>2. Inv /\ [ProbesNext]_all => Inv'
  <2> SUFFICES ASSUME Inv, [ProbesNext]_all, probe' = "back"
               PROVE  BackInv'
    OBVIOUS
  <2>1. probe = "back" /\ [Speaker!Next]_(Speaker!vars)
    BY DEF ProbesNext, all, backVars, Speaker!vars, Speaker!found
  <2> QED
    BY <2>1, BackStep
<1>3. Inv => BackchannelSound
  BY DEF BackInv, BackchannelSound
<1> QED
  BY <1>1, <1>2, <1>3, PTL DEF ProbesSpec, all

--------------------------------------------------------------------------------
(* The cold-start probe.                                                          *)

Queues == {<<>>, <<0>>, <<1>>, <<0, 1>>, <<1, 0>>}
Waits(s) == queue \in {<<s>>, <<s, 1 - s>>, <<1 - s, s>>}

ColdTypes ==
  /\ inline \in BOOLEAN /\ start \in [Cold!Stream -> Starts] /\ up \subseteq Cold!Stream
  /\ step \in {"idle", "cold", "warm", "idle2", "pair", "done"}
  /\ clock \in 0 .. Patience /\ queue \in Queues
  /\ left \in [Cold!Stream -> Nat] /\ el \in [Cold!Stream -> Nat \cup {-1}]
  /\ line \in [Cold!Checks -> {"", "OK", "FAIL"}]
  /\ step \in {"idle", "idle2", "done"} => queue = <<>>
  /\ step \in {"cold", "warm"} => queue \in {<<>>, <<0>>}

(* A request that is done took as long as the encoder, or all the patience.       *)
Took(s) == el[s] = start[s] \/ (el[s] = -1 /\ start[s] > Patience)

(* One request alone: to a cold encoder, then to one that runs.                   *)
AloneInv ==
  /\ step = "cold" /\ queue = <<0>> => left[0] = start[0] - clock
  /\ step = "cold" /\ queue = <<>> => 0 \in up /\ Took(0)
  /\ step = "warm" => 0 \in up
  /\ step = "warm" /\ queue = <<0>> => left[0] = 0
  /\ step = "warm" /\ queue = <<>> => el[0] # -1

(* Two at once, of a daemon that serves them so: each is at work on its own       *)
(* encoder, and the clock ends with the slower one.                               *)
PairInv ==
  step = "pair" /\ ~inline /\ (\A s \in Cold!Stream : start[s] <= Patience) =>
    /\ \A s \in Cold!Stream : IF Waits(s) THEN left[s] = start[s] - clock
                              ELSE el[s] = start[s] /\ start[s] <= clock
    /\ queue = <<>> => clock = start[0] \/ clock = start[1]

ColdLines ==
  /\ line["cold"] # "" => (line["cold"] = "OK" <=> start[0] < Budget)
  /\ line["warm"] # "FAIL"
  /\ ~inline /\ (\A s \in Cold!Stream : start[s] <= Patience) => line["concurrent"] # "FAIL"

ColdInv == ColdTypes /\ AloneInv /\ PairInv /\ ColdLines

LEMMA ColdConstants ==
  /\ Starts \subseteq Nat \ {0} /\ Budget \in Nat /\ Patience \in Nat /\ Budget <= Patience
  BY ProbeConstants DEF Cold!ConstAssumption

(* The sequences that can be queued.                                              *)
LEMMA Queued ==
  ASSUME queue \in Queues, NEW s \in Cold!Stream
  PROVE  /\ (\E i \in DOMAIN queue : queue[i] = s) <=> Waits(s)
         /\ queue = <<>> => ~Waits(s)
  BY DEF Queues, Waits, Cold!Stream

LEMMA AtWork ==
  ASSUME queue \in Queues, queue # <<>>, NEW s \in Cold!Stream
  PROVE  /\ ~inline => (s \in Cold!Served <=> Waits(s))
         /\ queue = <<0>> => (s \in Cold!Served <=> s = 0)
         /\ s \in Cold!Served => Waits(s)
  BY DEF Queues, Waits, Cold!Stream, Cold!Served

LEMMA Removed ==
  ASSUME queue \in Queues, NEW s \in Cold!Stream, Waits(s), queue' = Cold!Without(s)
  PROVE  /\ queue' \in Queues
         /\ queue' = <<>> \/ queue' = <<1 - s>>
         /\ ~Waits(s)' /\ (queue = <<s>> => queue' = <<>>)
         /\ \A r \in Cold!Stream \ {s} : Waits(r)' <=> Waits(r)
         /\ queue = <<>> \/ queue = <<s>> \/ queue' = <<1 - s>>
<1>1. CASE queue = <<s>>
  <2>1. queue' = <<>>
    BY <1>1 DEF Cold!Without
  <2> QED
    BY <1>1, <2>1 DEF Queues, Waits, Cold!Stream
<1>2. CASE queue = <<s, 1 - s>>
  <2>1. queue' = <<1 - s>>
    BY <1>2 DEF Cold!Without
  <2> QED
    BY <1>2, <2>1 DEF Queues, Waits, Cold!Stream
<1>3. CASE queue = <<1 - s, s>>
  <2>1. queue' = <<1 - s>>
    BY <1>3 DEF Cold!Without, Cold!Stream
  <2> QED
    BY <1>3, <2>1 DEF Queues, Waits, Cold!Stream
<1> QED
  BY <1>1, <1>2, <1>3 DEF Waits

LEMMA StartTimes ==
  ASSUME ColdTypes, NEW s \in Cold!Stream
  PROVE  start[s] \in Nat /\ start[s] > 0 /\ clock \in Nat /\ clock <= Patience /\ left[s] \in Nat
<1>1. start[s] \in Starts /\ left[s] \in Nat /\ clock \in 0 .. Patience
  BY DEF ColdTypes
<1>2. start[s] \in Nat \ {0}
  BY <1>1, ColdConstants
<1>3. clock \in Nat /\ clock <= Patience
  BY <1>1, ColdConstants
<1> QED
  BY <1>1, <1>2, <1>3

LEMMA ColdInit == Cold!Init => ColdInv
<1> SUFFICES ASSUME Cold!Init
             PROVE  ColdInv
  OBVIOUS
<1>1. /\ inline \in BOOLEAN /\ start \in [Cold!Stream -> Starts] /\ up \in SUBSET Cold!Stream
      /\ step = "idle" /\ clock = 0 /\ queue = <<>>
      /\ left = [s \in Cold!Stream |-> 0] /\ el = [s \in Cold!Stream |-> 0]
      /\ line = [c \in Cold!Checks |-> ""]
  BY DEF Cold!Init
<1>2. ColdTypes
  <2>1. 0 \in 0 .. Patience
    BY ColdConstants
  <2>2. left \in [Cold!Stream -> Nat] /\ el \in [Cold!Stream -> Nat \cup {-1}]
    BY <1>1
  <2>3. line \in [Cold!Checks -> {"", "OK", "FAIL"}]
    BY <1>1
  <2> QED
    BY <1>1, <2>1, <2>2, <2>3 DEF ColdTypes, Queues
<1>3. AloneInv /\ PairInv
  BY <1>1 DEF AloneInv, PairInv
<1>4. line["cold"] = "" /\ line["warm"] = "" /\ line["concurrent"] = ""
  BY <1>1 DEF Cold!Checks
<1> QED
  BY <1>2, <1>3, <1>4 DEF ColdInv, ColdLines

(* The requests of a leg are sent.                                                *)
LEMMA Asked ==
  ASSUME ColdTypes, NEW orders, Cold!Ask(orders), UNCHANGED start, up' \subseteq Cold!Stream
  PROVE  /\ clock' = 0 /\ clock' \in 0 .. Patience /\ queue' \in orders
         /\ left' \in [Cold!Stream -> Nat]
         /\ \A s \in Cold!Stream : left'[s] = IF s \in up' THEN 0 ELSE start[s]
<1>1. /\ clock' = 0 /\ queue' \in orders
      /\ left' = [s \in Cold!Stream |-> IF s \in up' THEN 0 ELSE start[s]]
  BY DEF Cold!Ask
<1>2. \A s \in Cold!Stream : start[s] \in Nat
  BY StartTimes
<1> QED
  BY <1>1, <1>2, ColdConstants

LEMMA IdleAlone ==
  ASSUME ColdInv, Cold!Idle("idle", "cold", Cold!Alone)
  PROVE  ColdInv'
<1>1. /\ step = "idle" /\ step' = "cold" /\ up' = {} /\ Cold!Ask(Cold!Alone)
      /\ UNCHANGED <<inline, start, el, line>>
  BY DEF Cold!Idle, Cold!Rest
<1>2. /\ clock' = 0 /\ clock' \in 0 .. Patience /\ queue' = <<0>>
      /\ left' \in [Cold!Stream -> Nat] /\ left'[0] = start[0] /\ start[0] \in Nat
  BY <1>1, Asked, StartTimes DEF ColdInv, Cold!Alone, Cold!Stream
<1>3. ColdTypes'
  BY <1>1, <1>2 DEF ColdInv, ColdTypes, Queues
<1>4. AloneInv' /\ PairInv'
  BY <1>1, <1>2 DEF AloneInv, PairInv
<1> QED
  BY <1>1, <1>3, <1>4 DEF ColdInv, ColdLines

LEMMA IdleBoth ==
  ASSUME ColdInv, Cold!Idle("idle2", "pair", Cold!Both)
  PROVE  ColdInv'
<1>1. /\ step = "idle2" /\ step' = "pair" /\ up' = {} /\ Cold!Ask(Cold!Both)
      /\ UNCHANGED <<inline, start, el, line>>
  BY DEF Cold!Idle, Cold!Rest
<1>2. /\ clock' = 0 /\ clock' \in 0 .. Patience /\ queue' \in {<<0, 1>>, <<1, 0>>}
      /\ left' \in [Cold!Stream -> Nat]
      /\ \A s \in Cold!Stream : left'[s] = start[s] /\ start[s] \in Nat
  BY <1>1, Asked, StartTimes DEF ColdInv, Cold!Both
<1>3. ColdTypes'
  BY <1>1, <1>2 DEF ColdInv, ColdTypes, Queues
<1>4. AloneInv'
  BY <1>1 DEF AloneInv
<1>5. PairInv'
  <2>1. \A s \in Cold!Stream : Waits(s)'
    BY <1>2 DEF Waits, Cold!Stream
  <2>2. queue' # <<>>
    BY <1>2
  <2>3. \A s \in Cold!Stream : left'[s] = start'[s] - clock'
    BY <1>1, <1>2
  <2> QED
    BY <2>1, <2>2, <2>3 DEF PairInv
<1> QED
  BY <1>1, <1>3, <1>4, <1>5 DEF ColdInv, ColdLines

LEMMA ColdTick ==
  ASSUME ColdInv, Cold!Tick
  PROVE  ColdInv'
<1>1. /\ queue # <<>> /\ (\A s \in Cold!Served : left[s] > 0)
      /\ clock < Patience /\ clock' = clock + 1
      /\ left' = [s \in Cold!Stream |-> IF s \in Cold!Served THEN left[s] - 1 ELSE left[s]]
      /\ UNCHANGED <<inline, start, up, step, queue, el, line>>
  BY DEF Cold!Tick
<1>q. queue \in Queues
  BY DEF ColdInv, ColdTypes
<1>s. 0 \in Cold!Stream /\ 1 \in Cold!Stream
  BY DEF Cold!Stream
<1>2. /\ clock \in Nat /\ clock' \in 0 .. Patience
      /\ \A s \in Cold!Stream : start[s] \in Nat /\ left[s] \in Nat
  <2>1. /\ clock \in Nat
        /\ \A s \in Cold!Stream : start[s] \in Nat /\ left[s] \in Nat
    BY <1>s, StartTimes DEF ColdInv
  <2> QED
    BY <1>1, <2>1, ColdConstants
<1>3. \A s \in Cold!Stream : left'[s] = IF s \in Cold!Served THEN left[s] - 1 ELSE left[s]
  BY <1>1
<1>4. ColdTypes'
  <2>1. left' \in [Cold!Stream -> Nat]
    BY <1>1, <1>2
  <2> QED
    BY <1>1, <1>2, <2>1 DEF ColdInv, ColdTypes
<1>5. AloneInv'
  <2>1. queue = <<0>> => 0 \in Cold!Served
    BY <1>1, <1>q, <1>s, AtWork
  <2>2. step = "cold" /\ queue = <<0>> => left'[0] = start[0] - clock'
    BY <1>1, <1>2, <1>3, <1>s, <2>1 DEF ColdInv, AloneInv
  <2>3. ~(step = "warm" /\ queue = <<0>>)
    BY <1>1, <2>1 DEF ColdInv, AloneInv
  <2> QED
    BY <1>1, <2>2, <2>3 DEF ColdInv, AloneInv
<1>6. PairInv'
  <2> SUFFICES ASSUME step = "pair", ~inline, \A s \in Cold!Stream : start[s] <= Patience,
                      NEW s \in Cold!Stream
               PROVE  IF Waits(s) THEN left'[s] = start[s] - clock'
                      ELSE el[s] = start[s] /\ start[s] <= clock'
    BY <1>1 DEF PairInv, Waits
  <2>1. IF Waits(s) THEN left[s] = start[s] - clock ELSE el[s] = start[s] /\ start[s] <= clock
    BY DEF ColdInv, PairInv
  <2>2. s \in Cold!Served <=> Waits(s)
    BY <1>1, <1>q, AtWork
  <2> HIDE DEF Waits
  <2> QED
    BY <1>1, <1>2, <1>3, <2>1, <2>2
<1> QED
  BY <1>1, <1>4, <1>5, <1>6 DEF ColdInv, ColdLines

LEMMA ReplyStep ==
  ASSUME ColdInv, NEW s \in Cold!Stream, Cold!Reply(s)
  PROVE  ColdInv'
<1> DEFINE done == left[s] = 0 /\ s \in Cold!Served
<1>0. queue \in Queues /\ Waits(s) /\ queue # <<>>
  BY Queued DEF Cold!Reply, ColdInv, ColdTypes
<1>1. /\ ~done => clock = Patience
      /\ el' = [el EXCEPT ![s] = IF done THEN clock ELSE -1]
      /\ up' = up \cup {s} /\ queue' = Cold!Without(s)
      /\ UNCHANGED <<inline, start, step, clock, left, line>>
  BY DEF Cold!Reply
<1>2. /\ clock \in Nat /\ clock <= Patience /\ Patience \in Nat
      /\ \A r \in Cold!Stream : start[r] \in Nat /\ left[r] \in Nat
  BY StartTimes, ColdConstants DEF ColdInv
<1>3. /\ queue' \in Queues
      /\ queue' = <<>> \/ queue' = <<1 - s>>
      /\ ~Waits(s)' /\ (queue = <<s>> => queue' = <<>>)
      /\ \A r \in Cold!Stream \ {s} : Waits(r)' <=> Waits(r)
      /\ queue = <<>> \/ queue = <<s>> \/ queue' = <<1 - s>>
  BY <1>0, <1>1, Removed
<1>4. step \in {"cold", "warm"} => s = 0 /\ queue = <<0>> /\ queue' = <<>>
  <2>1. step \in {"cold", "warm"} => queue = <<0>>
    BY <1>0 DEF ColdInv, ColdTypes
  <2>2. queue = <<0>> => s = 0
    BY <1>0 DEF Waits, Cold!Stream
  <2> QED
    BY <1>3, <2>1, <2>2
<1>w. queue = <<0>> => (s \in Cold!Served <=> s = 0)
  BY <1>0, AtWork
<1>p. ~inline => s \in Cold!Served
  BY <1>0, AtWork
<1>e. /\ el'[s] = IF done THEN clock ELSE -1
      /\ \A r \in Cold!Stream \ {s} : el'[r] = el[r]
  BY <1>1 DEF ColdInv, ColdTypes
<1>5. ColdTypes'
  <2>1. el' \in [Cold!Stream -> Nat \cup {-1}]
    BY <1>1, <1>2 DEF ColdInv, ColdTypes
  <2>2. up' \subseteq Cold!Stream
    BY <1>1 DEF ColdInv, ColdTypes
  <2>3. step \notin {"idle", "idle2", "done"}
    BY <1>0 DEF ColdInv, ColdTypes
  <2> QED
    BY <1>1, <1>3, <1>4, <2>1, <2>2, <2>3 DEF ColdInv, ColdTypes
<1>6. AloneInv'
  <2>1. CASE step = "cold"
    <3>1. s = 0 /\ queue = <<0>> /\ queue' = <<>> /\ s \in Cold!Served
      BY <1>4, <1>w, <2>1
    <3>2. left[0] = start[0] - clock
      BY <2>1, <3>1 DEF ColdInv, AloneInv
    <3>3. el'[0] = start[0] \/ (el'[0] = -1 /\ start[0] > Patience)
      BY <1>1, <1>2, <1>e, <3>1, <3>2 DEF Cold!Stream
    <3>4. 0 \in up' /\ Took(0)'
      BY <1>1, <3>1, <3>3 DEF Took
    <3> QED
      BY <1>1, <2>1, <3>1, <3>4 DEF AloneInv
  <2>2. CASE step = "warm"
    <3>1. s = 0 /\ queue = <<0>> /\ queue' = <<>> /\ s \in Cold!Served
      BY <1>4, <1>w, <2>2
    <3>2. left[0] = 0
      BY <2>2, <3>1 DEF ColdInv, AloneInv
    <3>3. el'[0] # -1
      BY <1>2, <1>e, <3>1, <3>2
    <3>4. 0 \in up'
      BY <1>1, <3>1
    <3> QED
      BY <1>1, <2>2, <3>1, <3>3, <3>4, SMTT(30) DEF AloneInv
  <2>3. CASE step \notin {"cold", "warm"}
    BY <1>1, <2>3 DEF AloneInv
  <2> QED
    BY <2>1, <2>2, <2>3
<1>7. PairInv'
  <2> SUFFICES ASSUME step = "pair", ~inline, \A r \in Cold!Stream : start[r] <= Patience
               PROVE  /\ \A r \in Cold!Stream : IF Waits(r)' THEN left[r] = start[r] - clock
                                                ELSE el'[r] = start[r] /\ start[r] <= clock
                      /\ queue' = <<>> => clock = start[0] \/ clock = start[1]
    BY <1>1 DEF PairInv
  <2>1. \A r \in Cold!Stream : IF Waits(r) THEN left[r] = start[r] - clock
                               ELSE el[r] = start[r] /\ start[r] <= clock
    BY DEF ColdInv, PairInv
  <2>2. left[s] = start[s] - clock
    BY <1>0, <2>1
  <2>3. left[s] = 0
    BY <1>1, <1>2, <2>2
  <2>4. el'[s] = start[s] /\ start[s] = clock
    BY <1>2, <1>e, <1>p, <2>2, <2>3
  <2>5. s = 0 \/ s = 1
    BY DEF Cold!Stream
  <2> HIDE DEF Waits
  <2>6. \A r \in Cold!Stream : IF Waits(r)' THEN left[r] = start[r] - clock
                                ELSE el'[r] = start[r] /\ start[r] <= clock
    BY <1>2, <1>3, <1>e, <2>1, <2>4
  <2> QED
    BY <2>4, <2>5, <2>6
<1> QED
  BY <1>1, <1>5, <1>6, <1>7 DEF ColdInv, ColdLines

(* A line, and where the probe goes from there.                                   *)
LEMMA ColdSays ==
  ASSUME ColdTypes, NEW c \in Cold!Checks, NEW v \in {"OK", "FAIL"},
         line' = [line EXCEPT ![c] = v]
  PROVE  /\ line' \in [Cold!Checks -> {"", "OK", "FAIL"}] /\ line'[c] = v
         /\ \A d \in Cold!Checks : d # c => line'[d] = line[d]
  BY DEF ColdTypes

LEMMA ColdDoneStep ==
  ASSUME ColdInv, Cold!ColdDone
  PROVE  ColdInv'
<1> DEFINE ok == el[0] # -1 /\ el[0] < Budget
<1>1. /\ step = "cold" /\ queue = <<>> /\ step' = "warm" /\ up' = up
      /\ line' = [line EXCEPT !["cold"] = IF ok THEN "OK" ELSE "FAIL"]
      /\ Cold!Ask(Cold!Alone) /\ UNCHANGED <<inline, start, el>>
  BY DEF Cold!ColdDone, Cold!Verdict, Cold!Answered
<1>2. 0 \in up /\ Took(0) /\ 0 \in Cold!Stream
  BY <1>1 DEF ColdInv, AloneInv, Cold!Stream
<1>3. /\ clock' = 0 /\ clock' \in 0 .. Patience /\ queue' = <<0>>
      /\ left' \in [Cold!Stream -> Nat] /\ left'[0] = 0
  <2>1. up' \subseteq Cold!Stream
    BY <1>1 DEF ColdInv, ColdTypes
  <2> QED
    BY <1>1, <1>2, <2>1, Asked DEF ColdInv, Cold!Alone
<1>4. ok <=> start[0] < Budget
  BY <1>2, StartTimes, ColdConstants DEF ColdInv, Took
<1>5. /\ line' \in [Cold!Checks -> {"", "OK", "FAIL"}]
      /\ line'["cold"] = IF ok THEN "OK" ELSE "FAIL"
      /\ line'["warm"] = line["warm"] /\ line'["concurrent"] = line["concurrent"]
  BY <1>1, ColdSays DEF ColdInv, Cold!Checks
<1>6. ColdTypes'
  BY <1>1, <1>3, <1>5 DEF ColdInv, ColdTypes, Queues
<1>7. AloneInv' /\ PairInv'
  BY <1>1, <1>2, <1>3 DEF AloneInv, PairInv
<1>8. ColdLines'
  <2>1. line'["cold"] = "OK" <=> start[0] < Budget
    BY <1>4, <1>5
  <2> QED
    BY <1>1, <1>5, <2>1 DEF ColdInv, ColdLines
<1> QED
  BY <1>6, <1>7, <1>8 DEF ColdInv

LEMMA WarmDoneStep ==
  ASSUME ColdInv, Cold!WarmDone
  PROVE  ColdInv'
<1>1. /\ step = "warm" /\ queue = <<>> /\ step' = "idle2"
      /\ line' = [line EXCEPT !["warm"] = IF el[0] # -1 THEN "OK" ELSE "FAIL"]
      /\ UNCHANGED <<inline, start, up, clock, queue, left, el>>
  BY DEF Cold!WarmDone, Cold!Verdict, Cold!Answered
<1>2. el[0] # -1
  BY <1>1 DEF ColdInv, AloneInv
<1>3. /\ line' \in [Cold!Checks -> {"", "OK", "FAIL"}] /\ line'["warm"] = "OK"
      /\ line'["cold"] = line["cold"] /\ line'["concurrent"] = line["concurrent"]
  BY <1>1, <1>2, ColdSays DEF ColdInv, Cold!Checks
<1>4. ColdTypes'
  BY <1>1, <1>3 DEF ColdInv, ColdTypes
<1> QED
  BY <1>1, <1>3, <1>4 DEF ColdInv, AloneInv, PairInv, ColdLines

(* Of two numbers, the larger.                                                    *)
LEMMA SlowestIs ==
  ASSUME NEW a \in Int, NEW b \in Int, el[0] = a, el[1] = b
  PROVE  Cold!Slowest = IF a >= b THEN a ELSE b
<1> DEFINE S == {el[s] : s \in Cold!Stream}  m == IF a >= b THEN a ELSE b
<1>1. S = {a, b}
  BY DEF Cold!Stream
<1>2. m \in S /\ \A y \in S : m >= y
  BY <1>1
<1>3. \A x \in S : (\A y \in S : x >= y) => x = m
  BY <1>1
<1> HIDE DEF S, m
<1>4. (CHOOSE x \in S : \A y \in S : x >= y) = m
  BY <1>2, <1>3
<1> QED
  BY <1>4 DEF S, m, Cold!Slowest, Cold!Max

LEMMA PairDoneStep ==
  ASSUME ColdInv, Cold!PairDone
  PROVE  ColdInv'
<1> DEFINE both == el[0] # -1 /\ el[1] # -1
           fast == both /\ 2 * clock < Cold!Slowest + Cold!Total
<1>1. /\ step = "pair" /\ queue = <<>> /\ step' = "done"
      /\ line' = [line EXCEPT !["both"] = IF both THEN "OK" ELSE "FAIL",
                              !["concurrent"] = IF fast THEN "OK" ELSE "FAIL"]
      /\ UNCHANGED <<inline, start, up, clock, queue, left, el>>
  BY DEF Cold!PairDone, Cold!Verdict, Cold!Answered
<1>2. /\ line' \in [Cold!Checks -> {"", "OK", "FAIL"}]
      /\ line'["concurrent"] = IF fast THEN "OK" ELSE "FAIL"
      /\ line'["cold"] = line["cold"] /\ line'["warm"] = line["warm"]
  BY <1>1 DEF ColdInv, ColdTypes, Cold!Checks
<1>3. ASSUME ~inline, \A s \in Cold!Stream : start[s] <= Patience
      PROVE  fast
  <2>1. /\ start[0] \in Nat /\ start[0] > 0 /\ start[1] \in Nat /\ start[1] > 0 /\ clock \in Nat
    BY StartTimes DEF ColdInv, Cold!Stream
  <2>2. \A s \in Cold!Stream : ~Waits(s)
    BY <1>1, Queued DEF ColdInv, ColdTypes
  <2>3. /\ \A s \in Cold!Stream : el[s] = start[s] /\ start[s] <= clock
        /\ clock = start[0] \/ clock = start[1]
    BY <1>1, <1>3, <2>2 DEF ColdInv, PairInv
  <2>4. el[0] = start[0] /\ el[1] = start[1] /\ start[0] <= clock /\ start[1] <= clock
    BY <2>3 DEF Cold!Stream
  <2>5. Cold!Slowest = IF start[0] >= start[1] THEN start[0] ELSE start[1]
    BY <2>1, <2>4, SlowestIs
  <2>6. Cold!Total = start[0] + start[1]
    BY <2>4 DEF Cold!Total
  <2>7. 2 * clock < Cold!Slowest + Cold!Total
    BY <2>1, <2>3, <2>4, <2>5, <2>6
  <2> QED
    BY <2>1, <2>4, <2>7
<1> HIDE DEF fast
<1>4. ColdTypes'
  BY <1>1, <1>2 DEF ColdInv, ColdTypes
<1>5. AloneInv' /\ PairInv'
  BY <1>1 DEF AloneInv, PairInv
<1>6. ColdLines'
  <2>1. ~inline /\ (\A s \in Cold!Stream : start[s] <= Patience) => line'["concurrent"] # "FAIL"
    BY <1>2, <1>3
  <2> QED
    BY <1>1, <1>2, <2>1 DEF ColdInv, ColdLines
<1> QED
  BY <1>4, <1>5, <1>6 DEF ColdInv

LEMMA ColdStep == ColdInv /\ [Cold!Next]_(Cold!vars) => ColdInv'
<1> SUFFICES ASSUME ColdInv, [Cold!Next]_(Cold!vars)
             PROVE  ColdInv'
  OBVIOUS
<1>1. CASE UNCHANGED Cold!vars
  <2>1. UNCHANGED <<inline, start, up, step, clock, queue, left, el, line>>
    BY <1>1 DEF Cold!vars
  <2>2. ColdTypes'
    BY <2>1 DEF ColdInv, ColdTypes
  <2>3. AloneInv' /\ PairInv' /\ ColdLines'
    BY <2>1 DEF ColdInv, AloneInv, PairInv, ColdLines, Took, Waits
  <2> QED
    BY <2>2, <2>3 DEF ColdInv
<1> QED
  BY <1>1, IdleAlone, IdleBoth, ColdTick, ReplyStep, ColdDoneStep, WarmDoneStep, PairDoneStep
     DEF Cold!Next, Cold!Done

(* The cold line fails exactly when the start of the encoder takes more than the  *)
(* budget, and a daemon that serves two requests at once is never said to hold    *)
(* one behind the other: for any starts, and any budget within the patience       *)
(* (rhd_cold.py:45-109).                                                          *)
THEOREM ColdCorrect == ProbesSpec => []ColdSound
<1> DEFINE Inv == probe = "cold" => ColdInv
<1>1. ProbesInit => Inv
  BY ColdInit DEF ProbesInit
<1>2. Inv /\ [ProbesNext]_all => Inv'
  <2> SUFFICES ASSUME Inv, [ProbesNext]_all, probe' = "cold"
               PROVE  ColdInv'
    OBVIOUS
  <2>1. probe = "cold" /\ [Cold!Next]_(Cold!vars)
    BY DEF ProbesNext, all, coldVars, Cold!vars
  <2> QED
    BY <2>1, ColdStep
<1>3. Inv => ColdSound
  BY DEF ColdInv, ColdLines, ColdSound, Cold!ColdSound
<1> QED
  BY <1>1, <1>2, <1>3, PTL DEF ProbesSpec, all

--------------------------------------------------------------------------------
(* The conformance probe: where it is, and on which connection.                   *)

OfRfc == <<at, end, said, sock, cseq, asked, link, faults, saved, tmo,
           media, flight, obeyed, lost, glued, declared, bye, pre, paused>>

Lines == {"", "OK", "FAIL", "SKIP"}
Opening == {"options", "require", "keepalive", "describe", "connect1"}
Side1 == {"side1", "gone1", "back1"}
Side2 == {"side2", "gone2", "back2"}
OnMain == {"setup", "audio", "play", "collect", "param", "pre", "pause", "drain", "paused",
           "resume", "resumed", "teardown", "bye", "battery"}
OnRob1 == {"bogus", "garbage", "session", "again"}

(* How far it has come, and how far it is when a check has its line.              *)
Reached(a) ==
  CASE a = "options" -> 0 [] a = "require" -> 1 [] a = "keepalive" -> 2 [] a = "describe" -> 3
    [] a \in {"connect1", "side1", "gone1"} -> 4
    [] a \in {"back1", "connect2", "side2", "gone2"} -> 5
    [] a \in {"back2", "setup"} -> 6
    [] a \in {"audio", "play"} -> 7 [] a = "collect" -> 8 [] a = "param" -> 9
    [] a \in {"pre", "pause", "drain", "paused", "resume", "resumed", "teardown"} -> 10
    [] a = "bye" -> 11 [] a \in {"battery", "bogus"} -> 12
    [] a = "garbage" -> 13 [] a = "session" -> 14 [] OTHER -> 15
Due(c) ==
  CASE c = "options" -> 1 [] c = "require" -> 2 [] c = "keepalive" -> 3 [] c = "describe" -> 4
    [] c = "side1" -> 5 [] c = "side2" -> 6 [] c = "setup" -> 7 [] c = "play" -> 8
    [] c = "sr" -> 9 [] c = "param" -> 10 [] c = "teardown" -> 11 [] c = "bye" -> 12
    [] c = "bogus" -> 13 [] c = "garbage" -> 14 [] c = "session" -> 15 [] OTHER -> 16
InTurn == Rfc!Body \cup Rfc!Battery

(* The connections it may be on, and those not yet opened.                        *)
Socks(a) ==
  CASE a \in {"side1", "gone1"} -> {"side1"} [] a = "back1" -> {"main", "side1"}
    [] a \in {"side2", "gone2"} -> {"side2"} [] a = "back2" -> {"main", "side2"}
    [] a \in OnRob1 -> {"rob1"} [] a = "healthy" -> {"rob2"} [] OTHER -> {"main"}
Fresh(a) ==
  CASE a \in Opening -> {"side1", "side2", "rob1", "rob2"}
    [] a \in Side1 \cup {"connect2"} -> {"side2", "rob1", "rob2"}
    [] a \in OnRob1 -> {"rob2"} [] a = "healthy" -> {} [] OTHER -> {"rob1", "rob2"}

(* On every connection as many requests as numbers; beside it, the session's own  *)
(* connection and number are put by.                                              *)
ConnInv ==
  /\ link \in [Rfc!Conn -> {"none", "open", "closed", "shut"}]
  /\ asked \in [Rfc!Conn -> Nat]
  /\ sock \in Rfc!Conn /\ sock \in Socks(at) /\ cseq = asked[sock]
  /\ \A c \in Fresh(at) : asked[c] = 0
  /\ at \in Side1 \cup Side2 => saved = <<"main", asked["main"]>>
  /\ end = "died" => sock = "main"

(* Every check that is behind it has its line; the two of PAUSE, or the one that  *)
(* stands for them.                                                               *)
Behind == {"teardown", "bye", "battery", "healthy"} \cup OnRob1
LinesInv ==
  /\ said \in [Rfc!Check -> Lines]
  /\ \A c \in InTurn : Due(c) <= Reached(at) => said[c] # ""
  /\ at \in Behind => said["pause"] # "" \/ \A c \in Rfc!Pause : said[c] # ""
  /\ end = "exit" => \/ at = "setup" /\ said["setup"] = "FAIL"
                     \/ /\ at \in {"battery", "healthy"} \cup OnRob1
                        /\ said["battery"] # "" \/ (at = "healthy" /\ said["healthy"] # "")

(* The windows around PAUSE.  Frames flowed ahead of it when the server sends on  *)
(* an open connection, which a good answer of PAUSE leaves open; nothing is in    *)
(* flight when a window is counted.                                               *)
AtPause == {"drain", "paused", "resume", "resumed"}
WindowInv ==
  /\ at \notin Behind \cup AtPause => flight = 0
  /\ at \in AtPause \cup {"pause"} => pre \in {0, Many}
  /\ at = "pause" /\ pre # 0 => media
  /\ at \in {"drain", "paused"} =>
       /\ link["main"] = "open"
       /\ obeyed => ~media
       /\ pre # 0 /\ ~obeyed => media
  /\ at = "paused" => flight = 0
  /\ at \in {"resume", "resumed"} =>
       /\ obeyed => paused = 0
       /\ pre # 0 /\ ~obeyed => paused = Many

(* Lines about delivery come when there is something to say.                      *)
ToldInv ==
  /\ at \notin Behind => said["halts"] = ""
  /\ Reached(at) <= 8 => said["anchor"] = ""
  /\ Reached(at) <= 11 => said["bye"] = ""
  /\ Rfc!DeliverySound

RfcInv == ConnInv /\ LinesInv /\ WindowInv /\ ToldInv

(* What a step from one place to the next leaves alone: it keeps to its           *)
(* connection, opens none, and goes at most one line further, with that line.     *)
Along(a, b) ==
  /\ Socks(a) \subseteq Socks(b) /\ Fresh(b) \subseteq Fresh(a)
  /\ b \in Side1 \cup Side2 => a \in Side1 \cup Side2
Further(a, b, c) ==
  /\ b \in Behind => a \in Behind \/ c = "pause"
  /\ a \in Behind => b \in Behind
  /\ Reached(b) = Reached(a) \/ (c \in InTurn /\ Reached(b) = Reached(a) + 1 /\ Due(c) = Reached(b))

(* The ways a step leaves a place: with a line, without one, for good.            *)
Words == {"OK", "FAIL", "SKIP"}
Plain == Rfc!Check \ {"halts", "anchor", "bye"}
Moved(a, b, c) ==
  /\ at = a /\ end = "running" /\ at' = b /\ end' = end
  /\ \E v \in Words : said' = [said EXCEPT ![c] = v]
Passed(a, b) == at = a /\ end = "running" /\ at' = b /\ end' = end /\ said' = said
Stopped(a) == at = a /\ end = "running" /\ at' = at /\ end' \in {"died", "stuck"} /\ said' = said
Left(a, c, V) ==
  /\ at = a /\ end = "running" /\ at' = at /\ end' = "exit"
  /\ \E v \in V : said' = [said EXCEPT ![c] = v]
Ends(a, c, V) ==
  \/ a = "setup" /\ c = "setup" /\ V = {"FAIL"}
  \/ a \in {"battery", "healthy"} \cup OnRob1 /\ c = "battery" /\ V = {"FAIL"}
  \/ a = "healthy" /\ c = "healthy" /\ V = {"OK", "FAIL"}
Goes(a) ==
  \/ \E b : \E c \in Plain : Further(a, b, c) /\ Moved(a, b, c)
  \/ \E b : Further(a, b, "none") /\ Passed(a, b)
  \/ Stopped(a)
  \/ \E c, V : Ends(a, c, V) /\ Left(a, c, V)

(* A request on the current connection.                                           *)
Requested ==
  /\ cseq' = cseq + 1 /\ sock' = sock /\ saved' = saved
  /\ asked' = [asked EXCEPT ![sock] = @ + 1]
  /\ link' = link \/ link' = [link EXCEPT ![sock] = "shut"]

--------------------------------------------------------------------------------
(* Connections.                                                                   *)

LEMMA Apart ==
  ASSUME NEW a, NEW s \in Socks(a)
  PROVE  /\ s \notin Fresh(a)
         /\ a \in (Side1 \cup Side2) \ {"back1", "back2"} => s # "main"
  BY DEF Socks, Fresh, Side1, Side2, Opening, OnRob1

LEMMA RequestConn ==
  ASSUME ConnInv, Requested, Along(at, at'), at \notin {"back1", "back2"},
         end' = "died" => Socks(at) = {"main"}
  PROVE  ConnInv'
<1>1. /\ sock \notin Fresh(at)
      /\ at \in Side1 \cup Side2 => sock # "main"
  BY Apart DEF ConnInv
<1>2. /\ link' \in [Rfc!Conn -> {"none", "open", "closed", "shut"}]
      /\ asked' \in [Rfc!Conn -> Nat] /\ sock' = sock /\ saved' = saved
      /\ cseq' = asked'[sock]
      /\ \A c \in Rfc!Conn : c # sock => asked'[c] = asked[c]
  BY DEF ConnInv, Requested
<1>3. sock' \in Socks(at') /\ (end' = "died" => sock' = "main")
  BY <1>2 DEF ConnInv, Along
<1>4. \A c \in Fresh(at') : c \in Rfc!Conn /\ c # sock /\ asked[c] = 0
  <2>1. \A c \in Fresh(at') : c \in Fresh(at)
    BY DEF Along
  <2>2. \A c \in Fresh(at) : c \in Rfc!Conn
    BY DEF Fresh, Rfc!Conn
  <2> QED
    BY <1>1, <2>1, <2>2 DEF ConnInv
<1>5. at' \in Side1 \cup Side2 => saved' = <<"main", asked'["main"]>>
  <2> SUFFICES ASSUME at' \in Side1 \cup Side2
               PROVE  saved' = <<"main", asked'["main"]>>
    OBVIOUS
  <2>1. at \in Side1 \cup Side2 /\ sock # "main"
    BY <1>1 DEF Along
  <2>2. asked'["main"] = asked["main"]
    BY <1>2, <2>1 DEF Rfc!Conn
  <2> QED
    BY <1>2, <2>1, <2>2 DEF ConnInv
<1> QED
  BY <1>2, <1>3, <1>4, <1>5 DEF ConnInv

(* A connection of its own, for which the session's is put by.                    *)
LEMMA OpenConn ==
  ASSUME ConnInv, NEW c \in Fresh(at), link' = [link EXCEPT ![c] = "open"],
         sock' = c, cseq' = 0, saved' = <<sock, cseq>>, asked' = asked,
         c \in Socks(at'), Fresh(at') \subseteq Fresh(at),
         at' \in Side1 \cup Side2 => Socks(at) = {"main"}, end' # "died"
  PROVE  ConnInv'
<1>1. c \in Rfc!Conn
  BY DEF Fresh, Rfc!Conn
<1> QED
  BY <1>1 DEF ConnInv

LEMMA RefusedConn ==
  ASSUME ConnInv, link' = link, sock' = sock, cseq' = cseq, saved' = <<sock, cseq>>,
         asked' = asked, Socks(at) \subseteq Socks(at'), Fresh(at') \subseteq Fresh(at),
         at' \in Side1 \cup Side2 => Socks(at) = {"main"}, end' # "died"
  PROVE  ConnInv'
  BY DEF ConnInv

LEMMA BackConn ==
  ASSUME ConnInv, NEW c \in Rfc!Conn, link' = [link EXCEPT ![c] = "closed"],
         sock' = saved[1], cseq' = saved[2], saved' = saved, asked' = asked,
         at \in Side1 \cup Side2, at' \notin Side1 \cup Side2, Socks(at') = {"main"},
         Fresh(at') \subseteq Fresh(at), end' # "died"
  PROVE  ConnInv'
  BY DEF ConnInv, Rfc!Conn

LEMMA StillConn ==
  ASSUME ConnInv, link' \in [Rfc!Conn -> {"none", "open", "closed", "shut"}],
         UNCHANGED <<sock, cseq, saved, asked>>, Along(at, at'),
         end' = "died" => Socks(at) = {"main"}
  PROVE  ConnInv'
  BY DEF ConnInv, Along

--------------------------------------------------------------------------------
(* Lines.                                                                         *)

LEMMA Numbers == \A a : Reached(a) \in Nat /\ Due(a) \in Nat
  BY DEF Reached, Due

LEMMA DueApart == \A c \in InTurn : \A d \in InTurn : Due(c) = Due(d) => c = d
  BY DEF InTurn, Due, Rfc!Body, Rfc!Battery

LEMMA Spoken ==
  ASSUME said \in [Rfc!Check -> Lines], NEW c \in Rfc!Check, NEW v \in Words,
         said' = [said EXCEPT ![c] = v]
  PROVE  /\ said' \in [Rfc!Check -> Lines]
         /\ said'[c] = v /\ v # ""
         /\ \A d \in Rfc!Check : d # c => said'[d] = said[d]
         /\ \A d \in Rfc!Check : said[d] # "" => said'[d] # ""
  BY DEF Lines, Words

LEMMA Parts == InTurn \subseteq Rfc!Check /\ Rfc!Pause \subseteq Rfc!Check /\ "pause" \in Rfc!Check
  BY DEF InTurn, Rfc!Check, Rfc!Body, Rfc!Battery, Rfc!Pause

LEMMA MovedLines ==
  ASSUME LinesInv, NEW a, NEW b, NEW c \in Rfc!Check, Further(a, b, c), Moved(a, b, c)
  PROVE  LinesInv'
<1>2. PICK v \in Words : said' = [said EXCEPT ![c] = v]
  BY DEF Moved
<1>3. /\ said' \in [Rfc!Check -> Lines] /\ said'[c] # ""
      /\ \A d \in Rfc!Check : said[d] # "" => said'[d] # ""
  BY <1>2, Spoken DEF LinesInv
<1>4. at = a /\ at' = b /\ end' = "running"
  BY DEF Moved
<1>5. ASSUME NEW d \in InTurn, Due(d) <= Reached(b)
      PROVE  said'[d] # ""
  <2>1. Reached(a) \in Nat /\ Reached(b) \in Nat /\ Due(d) \in Nat /\ Due(c) \in Nat
    BY Numbers
  <2>2. \/ Due(d) <= Reached(a)
        \/ c \in InTurn /\ Due(d) = Due(c)
    BY <1>5, <2>1 DEF Further
  <2> QED
    BY <1>3, <1>4, <2>2, DueApart, Parts DEF LinesInv
<1>6. b \in Behind => said'["pause"] # "" \/ \A d \in Rfc!Pause : said'[d] # ""
  BY <1>3, <1>4, Parts DEF Further, LinesInv
<1> QED
  BY <1>3, <1>4, <1>5, <1>6 DEF LinesInv

LEMMA PassedLines ==
  ASSUME LinesInv, NEW a, NEW b, Further(a, b, "none"), Passed(a, b)
  PROVE  LinesInv'
<1>1. at = a /\ at' = b /\ said' = said /\ end' = "running"
  BY DEF Passed
<1>2. Reached(b) = Reached(a) /\ (b \in Behind => a \in Behind)
  BY DEF Further, InTurn, Rfc!Body, Rfc!Battery
<1> QED
  BY <1>1, <1>2 DEF LinesInv

LEMMA LeftLines ==
  ASSUME LinesInv, NEW a, NEW c, NEW V, Ends(a, c, V), Left(a, c, V)
  PROVE  LinesInv'
<1>1. PICK v \in V : said' = [said EXCEPT ![c] = v]
  BY DEF Left
<1>2. at = a /\ at' = a /\ end' = "exit"
  BY DEF Left
<1>3. c \in Rfc!Check /\ v \in Words
  BY <1>1 DEF Ends, Words, Rfc!Check, Rfc!Body, Rfc!Battery
<1>4. /\ said' \in [Rfc!Check -> Lines] /\ said'[c] = v /\ v # ""
      /\ \A d \in Rfc!Check : said[d] # "" => said'[d] # ""
  BY <1>1, <1>3, Spoken DEF LinesInv
<1>5. \/ a = "setup" /\ said'["setup"] = "FAIL"
      \/ /\ a \in {"battery", "healthy"} \cup OnRob1
         /\ said'["battery"] # "" \/ (a = "healthy" /\ said'["healthy"] # "")
  BY <1>1, <1>4 DEF Ends
<1>6. /\ \A d \in InTurn : Due(d) <= Reached(a) => said'[d] # ""
      /\ a \in Behind => said'["pause"] # "" \/ \A d \in Rfc!Pause : said'[d] # ""
  BY <1>2, <1>4, Parts DEF LinesInv
<1> QED
  BY <1>2, <1>4, <1>5, <1>6 DEF LinesInv

LEMMA GoesLines ==
  ASSUME LinesInv, NEW a, Goes(a)
  PROVE  LinesInv'
<1>1. CASE Stopped(a)
  BY <1>1 DEF Stopped, LinesInv
<1> QED
  BY <1>1, MovedLines, PassedLines, LeftLines DEF Goes, Plain

LEMMA ToldAt ==
  ASSUME ToldInv, NEW a, at = a
  PROVE  /\ a \notin Behind => said["halts"] = ""
         /\ Reached(a) <= 8 => said["anchor"] = ""
         /\ Reached(a) <= 11 => said["bye"] = ""
  BY DEF ToldInv

LEMMA ToldThen ==
  ASSUME NEW b, at' = b, Rfc!DeliverySound',
         b \notin Behind => said'["halts"] = "",
         Reached(b) <= 8 => said'["anchor"] = "",
         Reached(b) <= 11 => said'["bye"] = ""
  PROVE  ToldInv'
  BY DEF ToldInv

(* A line that is not about delivery, and none of them taken back.                *)
LEMMA GoesTold ==
  ASSUME LinesInv, ToldInv, NEW a, Goes(a),
         a \in Behind => UNCHANGED <<obeyed, pre>>,
         Reached(a) > 8 => UNCHANGED <<lost, declared>>,
         Reached(a) > 11 => UNCHANGED bye
  PROVE  ToldInv'
<1>1. said'["halts"] = said["halts"] /\ said'["anchor"] = said["anchor"] /\ said'["bye"] = said["bye"]
  <2>1. {"halts", "anchor", "bye"} \subseteq Rfc!Check
    BY DEF Rfc!Check, Rfc!Body, Rfc!Pause
  <2>2. ASSUME NEW c \in Rfc!Check \ {"halts", "anchor", "bye"}, NEW v,
               said' = [said EXCEPT ![c] = v]
        PROVE  /\ said'["halts"] = said["halts"] /\ said'["anchor"] = said["anchor"]
               /\ said'["bye"] = said["bye"]
    BY <2>1, <2>2 DEF LinesInv
  <2>3. ASSUME NEW c, NEW V, Ends(a, c, V)
        PROVE  c \in Rfc!Check \ {"halts", "anchor", "bye"}
    BY <2>3 DEF Ends, Rfc!Check, Rfc!Body, Rfc!Battery
  <2> QED
    BY <2>2, <2>3 DEF Goes, Moved, Passed, Stopped, Left, Plain
<1>2. PICK b : /\ at = a /\ at' = b
               /\ b = a \/ \E c : Further(a, b, c)
  BY DEF Goes, Moved, Passed, Stopped, Left
<1>3. /\ a \in Behind => b \in Behind
      /\ Reached(b) \in Nat /\ Reached(a) \in Nat /\ Reached(b) >= Reached(a)
  BY <1>2, Numbers DEF Further
<1>4. /\ a \notin Behind => said["halts"] = ""
      /\ Reached(a) <= 8 => said["anchor"] = ""
      /\ Reached(a) <= 11 => said["bye"] = ""
  BY <1>2 DEF ToldInv
<1>5. /\ said["halts"] # "" => obeyed' = obeyed /\ pre' = pre
      /\ said["anchor"] # "" => lost' = lost /\ declared' = declared
      /\ said["bye"] # "" => bye' = bye
  <2>1. said["halts"] # "" => obeyed' = obeyed /\ pre' = pre
    BY <1>4
  <2>2. said["anchor"] # "" => ~(Reached(a) <= 8)
    BY <1>4
  <2>3. said["bye"] # "" => ~(Reached(a) <= 11)
    BY <1>4
  <2>4. (~(Reached(a) <= 8) => Reached(a) > 8) /\ (~(Reached(a) <= 11) => Reached(a) > 11)
    BY <1>3
  <2>5. said["anchor"] # "" => lost' = lost /\ declared' = declared
    BY <2>2, <2>4
  <2>6. said["bye"] # "" => bye' = bye
    BY <2>3, <2>4
  <2> QED
    BY <2>1, <2>5, <2>6
<1>6. /\ b \notin Behind => said'["halts"] = ""
      /\ Reached(b) <= 8 => said'["anchor"] = ""
      /\ Reached(b) <= 11 => said'["bye"] = ""
  <2>1. b \notin Behind => said'["halts"] = ""
    BY <1>1, <1>3, <1>4
  <2>2. (Reached(b) <= 8 => Reached(a) <= 8) /\ (Reached(b) <= 11 => Reached(a) <= 11)
    BY <1>3
  <2> QED
    BY <1>1, <1>4, <2>1, <2>2
<1>7. Rfc!DeliverySound'
  <2>1. /\ said["halts"] = "OK" => obeyed
        /\ said["halts"] = "FAIL" => ~obeyed \/ pre <= 10
        /\ lost = 0 /\ said["anchor"] # "" => (said["anchor"] = "OK" <=> declared = 1)
        /\ bye \in {"ahead", "behind"} => said["bye"] # "SKIP"
        /\ bye \in {"late", "none"} => said["bye"] # "OK"
    BY DEF ToldInv, Rfc!DeliverySound
  <2>2. /\ said'["halts"] = "OK" => obeyed'
        /\ said'["halts"] = "FAIL" => ~obeyed' \/ pre' <= 10
    <3>1. said["halts"] # "" => (pre <= 10 => pre' <= 10)
      BY <1>5
    <3>2. /\ said'["halts"] = "OK" => said["halts"] = "OK" /\ said["halts"] # ""
          /\ said'["halts"] = "FAIL" => said["halts"] = "FAIL" /\ said["halts"] # ""
      BY <1>1
    <3>3. said["halts"] # "" => obeyed' = obeyed
      BY <1>5
    <3>4. said'["halts"] = "OK" => obeyed'
      BY <2>1, <3>2, <3>3, Zenon
    <3>5. said'["halts"] = "FAIL" => ~obeyed' \/ pre' <= 10
      BY <2>1, <3>1, <3>2, <3>3, Zenon
    <3> QED
      BY <3>4, <3>5
  <2>3. lost' = 0 /\ said'["anchor"] # "" => (said'["anchor"] = "OK" <=> declared' = 1)
    BY <1>1, <1>5, <2>1
  <2>4. /\ bye' \in {"ahead", "behind"} => said'["bye"] # "SKIP"
        /\ bye' \in {"late", "none"} => said'["bye"] # "OK"
    BY <1>1, <1>5, <2>1
  <2> QED
    BY <2>2, <2>3, <2>4 DEF Rfc!DeliverySound
<1> QED
  BY <1>2, <1>6, <1>7 DEF ToldInv

(* Elsewhere than around PAUSE only the frames in flight count.                   *)
LEMMA FarWindow ==
  ASSUME WindowInv, at' \notin AtPause \cup {"pause"}, flight' = flight,
         at' \notin Behind => at \notin Behind \cup AtPause
  PROVE  WindowInv'
  BY DEF WindowInv, AtPause

LEMMA StayWindow ==
  ASSUME WindowInv, at' = at, at \notin {"drain", "paused"},
         UNCHANGED <<flight, pre, paused, media, obeyed>>
  PROVE  WindowInv'
  BY DEF WindowInv

--------------------------------------------------------------------------------
(* Requests.                                                                      *)

LEMMA Takes ==
  ASSUME NEW a, NEW c, NEW l, Rfc!Take(Rfc!To(a, c, l))
  PROVE  /\ a \in Rfc!Final => end' = a /\ at' = at
         /\ a \notin Rfc!Final => at' = a /\ end' = end
         /\ said' = IF l = "" THEN said ELSE [said EXCEPT ![c] = l]
  BY DEF Rfc!Take, Rfc!To

LEMMA Asks ==
  ASSUME NEW step_, NEW good, NEW bad, NEW raised, Rfc!Ask(step_, good, bad, raised),
         link \in [Rfc!Conn -> {"none", "open", "closed", "shut"}], sock \in Rfc!Conn
  PROVE  /\ at = step_ /\ end = "running" /\ Requested
         /\ \/ Rfc!Take(good) /\ link' = link /\ link[sock] = "open"
            \/ Rfc!Take(bad) \/ Rfc!Take(raised)
            \/ Rfc!Take(Rfc!To("stuck", "none", ""))
<1>1. PICK o \in Rfc!Outcome :
        /\ Rfc!Now(step_) /\ Rfc!Request(o)
        /\ Rfc!Take(CASE Rfc!Result(o) = "good" -> good [] Rfc!Result(o) = "bad" -> bad
                      [] Rfc!Result(o) = "raises" -> raised
                      [] Rfc!Result(o) = "stuck" -> Rfc!Go("stuck"))
        /\ UNCHANGED saved
  BY DEF Rfc!Ask
<1>2. Rfc!Result(o) \in {"good", "bad", "raises", "stuck"}
  BY DEF Rfc!Result
<1>3. Rfc!Result(o) = "good" => o \in {"good", "slow", "late", "none"}
  BY <1>1 DEF Rfc!Result, Rfc!Outcome
<1>4. Requested
  BY <1>1 DEF Rfc!Request, Requested
<1>5. Rfc!Result(o) = "good" => link' = link /\ link[sock] = "open"
  BY <1>1, <1>3 DEF Rfc!Request
<1>6. /\ Rfc!Result(o) = "good" => Rfc!Take(good)
      /\ Rfc!Result(o) = "bad" => Rfc!Take(bad)
      /\ Rfc!Result(o) = "raises" => Rfc!Take(raised)
      /\ Rfc!Result(o) = "stuck" => Rfc!Take(Rfc!To("stuck", "none", ""))
  BY <1>1 DEF Rfc!Go
<1> QED
  BY <1>1, <1>2, <1>4, <1>5, <1>6 DEF Rfc!Now

LEMMA Checks ==
  ASSUME NEW step_, NEW poor \in {"FAIL", "SKIP"}, NEW next, next \notin Rfc!Final,
         Rfc!Checked(step_, poor, next),
         link \in [Rfc!Conn -> {"none", "open", "closed", "shut"}], sock \in Rfc!Conn
  PROVE  Requested /\ (Moved(step_, next, step_) \/ Stopped(step_))
<1>1. /\ at = step_ /\ end = "running" /\ Requested
      /\ \/ Rfc!Take(Rfc!To(next, step_, "OK"))
         \/ Rfc!Take(Rfc!To(next, step_, poor))
         \/ Rfc!Take(Rfc!To("died", "none", ""))
         \/ Rfc!Take(Rfc!To("stuck", "none", ""))
  BY Asks DEF Rfc!Checked, Rfc!Dies, Rfc!Go
<1>2. "died" \in Rfc!Final /\ "stuck" \in Rfc!Final /\ poor # "" /\ poor \in Words /\ "OK" \in Words
  BY DEF Rfc!Final, Words
<1> QED
  BY <1>1, <1>2, Takes DEF Moved, Stopped

(* What of the rest a request may touch.                                          *)
Beside(a) ==
  /\ a \notin {"back1", "back2", "drain", "paused"}
  /\ flight' = flight
  /\ a \in Behind => UNCHANGED <<obeyed, pre>>
  /\ Reached(a) > 8 => UNCHANGED <<lost, declared>>
  /\ Reached(a) > 11 => UNCHANGED bye
  /\ at' = a => UNCHANGED <<pre, paused, media, obeyed>>

(* A step from a to b that is not one of those around PAUSE.                      *)
Plainly(a, b) ==
  /\ Along(a, b) /\ b \notin AtPause \cup {"pause"}
  /\ b \notin Behind => a \notin Behind \cup AtPause

LEMMA AskKept ==
  ASSUME RfcInv, NEW a, Goes(a), Requested, Beside(a), at' = a \/ Plainly(a, at'),
         end' = "died" => Socks(a) = {"main"}
  PROVE  RfcInv'
<1>1. at = a
  BY DEF Goes, Moved, Passed, Stopped, Left
<1>2. Along(at, at')
  BY <1>1 DEF Plainly, Along
<1>3. ConnInv'
  BY <1>1, <1>2, RequestConn DEF RfcInv, Beside
<1>4. LinesInv' /\ ToldInv'
  BY GoesLines, GoesTold DEF RfcInv, Beside
<1>5. WindowInv'
  <2>1. CASE at' = a
    BY <1>1, <2>1, StayWindow DEF RfcInv, Beside
  <2>2. CASE Plainly(a, at')
    BY <1>1, <2>2, FarWindow DEF RfcInv, Beside, Plainly
  <2> QED
    BY <2>1, <2>2
<1> QED
  BY <1>3, <1>4, <1>5 DEF RfcInv

LEMMA CheckKept ==
  ASSUME RfcInv, NEW a \in Plain, NEW poor \in {"FAIL", "SKIP"}, NEW b, b \notin Rfc!Final,
         Rfc!Checked(a, poor, b), Further(a, b, a), Plainly(a, b), Socks(a) = {"main"}, Beside(a)
  PROVE  RfcInv'
<1>1. Requested /\ (Moved(a, b, a) \/ Stopped(a))
  BY Checks DEF RfcInv, ConnInv
<1>2. Goes(a) /\ (at' = a \/ at' = b)
  BY <1>1 DEF Goes, Moved, Stopped
<1> QED
  BY <1>1, <1>2, AskKept

LEMMA QuietBeside ==
  ASSUME NEW a, a \notin {"back1", "back2", "drain", "paused"}, Rfc!Quiet
  PROVE  Beside(a)
  BY DEF Beside, Rfc!Quiet, Rfc!stream, Rfc!counts

LEMMA LeadStep ==
  ASSUME RfcInv, Rfc!Lead
  PROVE  RfcInv'
<1>1. /\ Further("options", "require", "options") /\ Further("require", "keepalive", "require")
      /\ Further("keepalive", "describe", "keepalive")
      /\ Further("describe", "connect1", "describe")
  BY DEF Further, Reached, Due, Behind, OnRob1, InTurn, Rfc!Body
<1>2. /\ Plainly("options", "require") /\ Plainly("require", "keepalive")
      /\ Plainly("keepalive", "describe") /\ Plainly("describe", "connect1")
  BY DEF Plainly, Along, Socks, Fresh, Opening, Side1, Side2, OnRob1, AtPause, Behind
<1>3. ASSUME NEW a \in {"options", "require", "keepalive", "describe"}
      PROVE  a \in Plain /\ Socks(a) = {"main"} /\ a \notin {"back1", "back2", "drain", "paused"}
  BY DEF Plain, Rfc!Check, Rfc!Body, Socks, OnRob1
<1>4. {"require", "keepalive", "describe", "connect1"} \cap Rfc!Final = {}
  BY DEF Rfc!Final
<1>5. Beside("options") /\ Beside("require") /\ Beside("keepalive") /\ Beside("describe")
  BY QuietBeside DEF Rfc!Lead
<1>6. CASE Rfc!Checked("options", "FAIL", "require")
  BY <1>1, <1>2, <1>3, <1>4, <1>5, <1>6, CheckKept
<1>7. CASE Rfc!Checked("require", "SKIP", "keepalive")
  BY <1>1, <1>2, <1>3, <1>4, <1>5, <1>7, CheckKept
<1>8. CASE Rfc!Checked("keepalive", "SKIP", "describe")
  BY <1>1, <1>2, <1>3, <1>4, <1>5, <1>8, CheckKept
<1>9. CASE Rfc!Checked("describe", "FAIL", "connect1")
  BY <1>1, <1>2, <1>3, <1>4, <1>5, <1>9, CheckKept
<1> QED
  BY <1>6, <1>7, <1>8, <1>9 DEF Rfc!Lead

LEMMA ParamStep ==
  ASSUME RfcInv, Rfc!Param
  PROVE  RfcInv'
<1>1. Further("param", "pre", "param")
  BY DEF Further, Reached, Due, Behind, OnRob1, InTurn, Rfc!Body
<1>2. Plainly("param", "pre")
  BY DEF Plainly, Along, Socks, Fresh, Opening, Side1, Side2, OnRob1, AtPause, Behind
<1>3. "param" \in Plain /\ Socks("param") = {"main"} /\ "pre" \notin Rfc!Final
  BY DEF Plain, Rfc!Check, Rfc!Body, Socks, OnRob1, Rfc!Final
<1> QED
  BY <1>1, <1>2, <1>3, QuietBeside, CheckKept DEF Rfc!Param

LEMMA TeardownStep ==
  ASSUME RfcInv, Rfc!Teardown
  PROVE  RfcInv'
<1>1. Further("teardown", "bye", "teardown")
  BY DEF Further, Reached, Due, Behind, OnRob1, InTurn, Rfc!Body
<1>2. Plainly("teardown", "bye")
  BY DEF Plainly, Along, Socks, Fresh, Opening, Side1, Side2, OnRob1, AtPause, Behind
<1>3. "teardown" \in Plain /\ Socks("teardown") = {"main"} /\ "bye" \notin Rfc!Final
  BY DEF Plain, Rfc!Check, Rfc!Body, Socks, OnRob1, Rfc!Final
<1>4. Beside("teardown")
  <2>1. Reached("teardown") = 10
    BY DEF Reached
  <2> QED
    BY <2>1 DEF Beside, Rfc!Teardown, Rfc!counts
<1> QED
  BY <1>1, <1>2, <1>3, <1>4, CheckKept DEF Rfc!Teardown

--------------------------------------------------------------------------------
(* Connections at the side and behind the session.                                *)

(* A step from a to b that may be on another connection, or open one.             *)
Roomy(a, b) ==
  /\ Fresh(b) \subseteq Fresh(a)
  /\ b \in Side1 \cup Side2 => Socks(a) = {"main"}
  /\ b \notin AtPause \cup {"pause"}
  /\ b \notin Behind => a \notin Behind \cup AtPause

LEMMA ConnectKept ==
  ASSUME RfcInv, NEW a, NEW c, NEW b, NEW refused, Rfc!Connect(a, c, b, refused),
         a \notin {"back1", "back2", "drain", "paused"},
         c \in Fresh(a), c \in Socks(b), Roomy(a, b), b \notin Rfc!Final, Further(a, b, "none"),
         Rfc!Now(a) /\ Rfc!Take(refused) =>
           Goes(a) /\ end' # "died" /\ Socks(a) \subseteq Socks(at') /\ Roomy(a, at')
  PROVE  RfcInv'
<1>1. /\ Rfc!Now(a) /\ at = a /\ end = "running"
      /\ saved' = <<sock, cseq>> /\ asked' = asked /\ Rfc!Quiet
      /\ \/ /\ link' = [link EXCEPT ![c] = "open"]
            /\ sock' = c /\ cseq' = 0 /\ Rfc!Take(Rfc!To(b, "none", ""))
         \/ Rfc!Take(refused) /\ link' = link /\ sock' = sock /\ cseq' = cseq
  BY DEF Rfc!Connect, Rfc!Now, Rfc!Go
<1>2. Beside(a)
  BY <1>1, QuietBeside
<1>3. ASSUME Goes(a), Roomy(a, at')
      PROVE  LinesInv' /\ ToldInv' /\ WindowInv'
  <2>1. LinesInv' /\ ToldInv'
    BY <1>2, <1>3, GoesLines, GoesTold DEF RfcInv, Beside
  <2>2. WindowInv'
    BY <1>1, <1>2, <1>3, FarWindow DEF RfcInv, Beside, Roomy
  <2> QED
    BY <2>1, <2>2
<1>4. CASE /\ link' = [link EXCEPT ![c] = "open"]
           /\ sock' = c /\ cseq' = 0 /\ Rfc!Take(Rfc!To(b, "none", ""))
  <2>1. Passed(a, b)
    BY <1>1, <1>4, Takes DEF Passed
  <2>2. Goes(a) /\ at' = b /\ end' = "running"
    BY <2>1 DEF Goes, Passed
  <2>3. ConnInv'
    BY <1>1, <1>4, <2>2, OpenConn DEF RfcInv, Roomy
  <2> QED
    BY <1>3, <2>2, <2>3 DEF RfcInv
<1>5. CASE Rfc!Take(refused) /\ link' = link /\ sock' = sock /\ cseq' = cseq
  <2>1. Goes(a) /\ end' # "died" /\ Socks(a) \subseteq Socks(at') /\ Roomy(a, at')
    BY <1>1, <1>5
  <2>2. ConnInv'
    BY <1>1, <1>5, <2>1, RefusedConn DEF RfcInv, Roomy
  <2> QED
    BY <1>3, <2>1, <2>2 DEF RfcInv
<1> QED
  BY <1>1, <1>4, <1>5

(* The places of a side probe.                                                    *)
Path(c, connect, gone, back, next) ==
  \/ c = "side1" /\ connect = "connect1" /\ gone = "gone1" /\ back = "back1" /\ next = "connect2"
  \/ c = "side2" /\ connect = "connect2" /\ gone = "gone2" /\ back = "back2" /\ next = "setup"

LEMMA PathFurther ==
  ASSUME NEW c, NEW connect, NEW gone, NEW back, NEW next, Path(c, connect, gone, back, next)
  PROVE  /\ Further(connect, c, "none") /\ Further(connect, back, c) /\ Further(c, gone, "none")
         /\ Further(c, back, c) /\ Further(gone, back, c) /\ Further(back, next, "none")
  BY DEF Path, Further, Reached, Due, Behind, OnRob1, InTurn, Rfc!Body

LEMMA PathPlainly ==
  ASSUME NEW c, NEW connect, NEW gone, NEW back, NEW next, Path(c, connect, gone, back, next)
  PROVE  /\ Plainly(c, gone) /\ Plainly(c, back) /\ Plainly(gone, back)
         /\ Roomy(connect, c) /\ Roomy(connect, back) /\ c \in Fresh(connect) /\ c \in Socks(c)
         /\ Socks(connect) = {"main"} /\ Socks(connect) \subseteq Socks(back)
         /\ Socks(next) = {"main"} /\ Fresh(next) \subseteq Fresh(back)
         /\ back \in Side1 \cup Side2 /\ next \notin Side1 \cup Side2
  BY DEF Path, Plainly, Roomy, Along, Socks, Fresh, Opening, Side1, Side2, OnRob1, AtPause,
         Behind, Rfc!Conn

LEMMA PathNames ==
  ASSUME NEW c, NEW connect, NEW gone, NEW back, NEW next, Path(c, connect, gone, back, next)
  PROVE  /\ c \in Plain /\ c \in Rfc!Conn
         /\ {c, connect, gone, back, next} \cap Rfc!Final = {}
         /\ {c, connect, gone} \cap {"back1", "back2", "drain", "paused"} = {}
         /\ {back, next} \cap (AtPause \cup Behind \cup {"pause"}) = {}
  BY DEF Path, Plain, Rfc!Check, Rfc!Body, Rfc!Conn, Rfc!Final, AtPause, Behind, OnRob1

LEMMA SideStep ==
  ASSUME RfcInv, NEW c, NEW connect, NEW gone, NEW back, NEW next,
         Path(c, connect, gone, back, next), Rfc!Side(c, connect, gone, back, next)
  PROVE  RfcInv'
<1>1. ASSUME Rfc!Connect(connect, c, c, Rfc!To(back, c, "FAIL"))
      PROVE  RfcInv'
  <2>1. ASSUME Rfc!Now(connect), Rfc!Take(Rfc!To(back, c, "FAIL"))
        PROVE  Goes(connect) /\ end' # "died" /\ at' = back
    <3>1. Moved(connect, back, c) /\ end' = "running"
      BY <2>1, Takes, PathNames DEF Moved, Rfc!Now, Words
    <3> QED
      BY <3>1, PathFurther, PathNames DEF Goes, Moved
  <2>2. /\ connect \notin {"back1", "back2", "drain", "paused"} /\ c \notin Rfc!Final
        /\ c \in Fresh(connect) /\ c \in Socks(c) /\ Roomy(connect, c) /\ Roomy(connect, back)
        /\ Socks(connect) \subseteq Socks(back) /\ Further(connect, c, "none")
    BY PathFurther, PathPlainly, PathNames
  <2>3. Rfc!Now(connect) /\ Rfc!Take(Rfc!To(back, c, "FAIL")) =>
          /\ Goes(connect) /\ end' # "died"
          /\ Socks(connect) \subseteq Socks(at') /\ Roomy(connect, at')
    BY <2>1, <2>2
  <2> QED
    BY <1>1, <2>2, <2>3, ConnectKept
<1>2. ASSUME NEW a \in {c, gone}, NEW good, NEW bad, NEW poor, Rfc!Quiet,
             Rfc!Ask(a, good, bad, poor),
             \A l \in {good, bad, poor} : \/ l = Rfc!To(back, c, "OK") \/ l = Rfc!To(back, c, "FAIL")
                                          \/ a = c /\ l = Rfc!Go(gone)
      PROVE  RfcInv'
  <2>1. /\ at = a /\ end = "running" /\ Requested
        /\ \/ Rfc!Take(Rfc!To(back, c, "OK")) \/ Rfc!Take(Rfc!To(back, c, "FAIL"))
           \/ a = c /\ Rfc!Take(Rfc!To(gone, "none", ""))
           \/ Rfc!Take(Rfc!To("stuck", "none", ""))
    BY <1>2, Asks DEF RfcInv, ConnInv, Rfc!Go
  <2>2. \/ Moved(a, back, c) \/ (a = c /\ Passed(a, gone)) \/ (Stopped(a) /\ end' # "died")
    <3>1. back \notin Rfc!Final /\ gone \notin Rfc!Final /\ "stuck" \in Rfc!Final
      BY PathNames DEF Rfc!Final
    <3>2. CASE Rfc!Take(Rfc!To(back, c, "OK"))
      BY <2>1, <3>1, <3>2, Takes DEF Moved, Words
    <3>3. CASE Rfc!Take(Rfc!To(back, c, "FAIL"))
      BY <2>1, <3>1, <3>3, Takes DEF Moved, Words
    <3>4. CASE a = c /\ Rfc!Take(Rfc!To(gone, "none", ""))
      BY <2>1, <3>1, <3>4, Takes DEF Passed
    <3>5. CASE Rfc!Take(Rfc!To("stuck", "none", ""))
      BY <2>1, <3>1, <3>5, Takes DEF Stopped
    <3> QED
      BY <2>1, <3>2, <3>3, <3>4, <3>5
  <2>3. Goes(a) /\ (at' = a \/ at' = back \/ (a = c /\ at' = gone)) /\ end' # "died"
    BY <2>2, PathFurther, PathNames DEF Goes, Moved, Passed, Stopped
  <2>4. at' = a \/ Plainly(a, at')
    BY <2>3, PathPlainly
  <2> QED
    BY <1>2, <2>1, <2>3, <2>4, AskKept, QuietBeside, PathNames
<1>3. ASSUME Rfc!Back(back, c, next)
      PROVE  RfcInv'
  <2>1. /\ at = back /\ end = "running" /\ Rfc!Take(Rfc!To(next, "none", ""))
        /\ link' = [link EXCEPT ![c] = "closed"]
        /\ sock' = saved[1] /\ cseq' = saved[2] /\ asked' = asked /\ saved' = saved /\ Rfc!Quiet
    BY <1>3 DEF Rfc!Back, Rfc!Now, Rfc!Go
  <2>2. Passed(back, next) /\ at' = next /\ end' = "running"
    BY <2>1, Takes, PathNames DEF Passed
  <2>3. Goes(back)
    BY <2>2, PathFurther DEF Goes
  <2>4. ConnInv'
    BY <2>1, <2>2, BackConn, PathPlainly, PathNames DEF RfcInv
  <2>5. UNCHANGED <<obeyed, pre, lost, declared, bye, flight>>
    BY <2>1 DEF Rfc!Quiet, Rfc!stream, Rfc!counts
  <2>6. LinesInv' /\ ToldInv'
    BY <2>3, <2>5, GoesLines, GoesTold DEF RfcInv
  <2>7. WindowInv'
    BY <2>1, <2>2, <2>5, FarWindow, PathNames DEF RfcInv
  <2> QED
    BY <2>4, <2>6, <2>7 DEF RfcInv
<1>4. CASE Rfc!Ask(c, Rfc!Go(gone), Rfc!To(back, c, "FAIL"), Rfc!To(back, c, "FAIL")) /\ Rfc!Quiet
  BY <1>2, <1>4
<1>5. CASE /\ Rfc!Ask(gone, Rfc!To(back, c, "OK"), Rfc!To(back, c, "OK"), Rfc!To(back, c, "FAIL"))
           /\ Rfc!Quiet
  BY <1>2, <1>5
<1> QED
  BY <1>1, <1>3, <1>4, <1>5 DEF Rfc!Side

LEMMA TransportsStep ==
  ASSUME RfcInv, Rfc!Transports
  PROVE  RfcInv'
  BY SideStep DEF Rfc!Transports, Path

LEMMA BrokenOff ==
  ASSUME NEW a \in {"battery", "healthy"} \cup OnRob1, at = a, end = "running",
         Rfc!Take(Rfc!Broken)
  PROVE  Goes(a) /\ at' = a /\ end' = "exit"
<1>1. at' = at /\ end' = "exit" /\ said' = [said EXCEPT !["battery"] = "FAIL"]
  BY Takes DEF Rfc!Broken, Rfc!Final
<1>2. Ends(a, "battery", {"FAIL"}) /\ Left(a, "battery", {"FAIL"})
  BY <1>1 DEF Ends, Left
<1> QED
  BY <1>1, <1>2 DEF Goes

LEMMA BatteryConnects ==
  ASSUME RfcInv, NEW a, NEW c, NEW b,
         Rfc!Connect(a, c, b, Rfc!Broken),
         \/ a = "battery" /\ c = "rob1" /\ b = "bogus"
         \/ a = "again" /\ c = "rob2" /\ b = "healthy"
  PROVE  RfcInv'
<1>1. /\ a \notin {"back1", "back2", "drain", "paused"} /\ b \notin Rfc!Final
      /\ a \in {"battery", "healthy"} \cup OnRob1
  BY DEF OnRob1, Rfc!Final
<1>2. c \in Fresh(a) /\ c \in Socks(b) /\ Roomy(a, b) /\ Roomy(a, a)
  BY DEF Roomy, Fresh, Socks, Opening, Side1, Side2, OnRob1, AtPause, Behind, Rfc!Conn
<1>3. Further(a, b, "none")
  BY DEF Further, Reached, Behind, OnRob1
<1>4. Rfc!Now(a) /\ Rfc!Take(Rfc!Broken) =>
        Goes(a) /\ end' # "died" /\ Socks(a) \subseteq Socks(at') /\ Roomy(a, at')
  BY <1>1, <1>2, BrokenOff DEF Rfc!Now
<1> QED
  BY <1>1, <1>2, <1>3, <1>4, ConnectKept

LEMMA TriedStep ==
  ASSUME RfcInv, NEW a, NEW b, Rfc!Tried(a, b),
         \/ a = "bogus" /\ b = "garbage"
         \/ a = "garbage" /\ b = "session"
         \/ a = "session" /\ b = "again"
         \/ a = "healthy" /\ b = "exit"
  PROVE  RfcInv'
<1>1. /\ at = a /\ end = "running" /\ Requested /\ Rfc!Quiet
      /\ \/ Rfc!Take(Rfc!To(b, a, "OK")) \/ Rfc!Take(Rfc!To(b, a, "FAIL"))
         \/ Rfc!Take(Rfc!Broken) \/ Rfc!Take(Rfc!To("stuck", "none", ""))
  BY Asks DEF RfcInv, ConnInv, Rfc!Tried
<1>2. /\ a \in {"battery", "healthy"} \cup OnRob1 /\ a \in Plain
      /\ a \notin {"back1", "back2", "drain", "paused"}
      /\ "stuck" \in Rfc!Final /\ "exit" \in Rfc!Final
      /\ a # "healthy" => b \notin Rfc!Final
  BY DEF OnRob1, Plain, Rfc!Check, Rfc!Battery, Rfc!Final
<1>3. Goes(a) /\ end' # "died" /\ (at' = a \/ (at' = b /\ a # "healthy"))
  <2>1. CASE Rfc!Take(Rfc!Broken)
    BY <1>1, <1>2, <2>1, BrokenOff
  <2>2. CASE Rfc!Take(Rfc!To("stuck", "none", ""))
    <3>1. Stopped(a) /\ end' = "stuck"
      BY <1>1, <1>2, <2>2, Takes DEF Stopped
    <3> QED
      BY <3>1 DEF Goes, Stopped
  <2>3. ASSUME NEW v \in {"OK", "FAIL"}, Rfc!Take(Rfc!To(b, a, v)), a # "healthy"
        PROVE  Goes(a) /\ end' # "died" /\ at' = b
    <3>1. Moved(a, b, a) /\ end' = "running" /\ at' = b
      BY <1>1, <1>2, <2>3, Takes DEF Moved, Words
    <3>2. Further(a, b, a)
      BY <2>3 DEF Further, Reached, Due, Behind, OnRob1, InTurn, Rfc!Battery
    <3> QED
      BY <1>2, <3>1, <3>2 DEF Goes
  <2>4. ASSUME NEW v \in {"OK", "FAIL"}, Rfc!Take(Rfc!To(b, a, v)), a = "healthy"
        PROVE  Goes(a) /\ end' # "died" /\ at' = a
    <3>1. b = "exit"
      BY <2>4
    <3>2. at' = at /\ end' = "exit" /\ said' = [said EXCEPT !["healthy"] = v]
      BY <1>2, <2>4, <3>1, Takes
    <3>3. Left("healthy", "healthy", {"OK", "FAIL"}) /\ Ends("healthy", "healthy", {"OK", "FAIL"})
      BY <1>1, <2>4, <3>2 DEF Left, Ends
    <3> QED
      BY <1>1, <2>4, <3>2, <3>3 DEF Goes
  <2> QED
    BY <1>1, <2>1, <2>2, <2>3, <2>4
<1>4. a # "healthy" => Plainly(a, b)
  BY DEF Plainly, Along, Socks, Fresh, Opening, Side1, Side2, OnRob1, AtPause, Behind
<1> QED
  BY <1>1, <1>2, <1>3, <1>4, AskKept, QuietBeside

LEMMA RobustnessStep ==
  ASSUME RfcInv, Rfc!Robustness
  PROVE  RfcInv'
<1>1. \/ Rfc!Connect("battery", "rob1", "bogus", Rfc!Broken)
      \/ Rfc!Connect("again", "rob2", "healthy", Rfc!Broken)
      \/ Rfc!Tried("bogus", "garbage") \/ Rfc!Tried("garbage", "session")
      \/ Rfc!Tried("session", "again") \/ Rfc!Tried("healthy", "exit")
  BY DEF Rfc!Robustness
<1>2. CASE Rfc!Connect("battery", "rob1", "bogus", Rfc!Broken)
  BY <1>2, BatteryConnects
<1>3. CASE Rfc!Connect("again", "rob2", "healthy", Rfc!Broken)
  BY <1>3, BatteryConnects
<1>4. CASE Rfc!Tried("bogus", "garbage")
  BY <1>4, TriedStep
<1>5. CASE Rfc!Tried("garbage", "session")
  BY <1>5, TriedStep
<1>6. CASE Rfc!Tried("session", "again")
  BY <1>6, TriedStep
<1>7. CASE Rfc!Tried("healthy", "exit")
  BY <1>7, TriedStep
<1> QED
  BY <1>1, <1>2, <1>3, <1>4, <1>5, <1>6, <1>7

--------------------------------------------------------------------------------
(* The session.                                                                   *)

LEMMA SetupStep ==
  ASSUME RfcInv, Rfc!Setup
  PROVE  RfcInv'
<1>1. /\ at = "setup" /\ end = "running" /\ Requested /\ Rfc!Quiet
      /\ \/ Rfc!Take(Rfc!To("audio", "setup", "OK")) \/ Rfc!Take(Rfc!To("exit", "setup", "FAIL"))
         \/ Rfc!Take(Rfc!To("died", "none", "")) \/ Rfc!Take(Rfc!To("stuck", "none", ""))
  BY Asks DEF RfcInv, ConnInv, Rfc!Setup, Rfc!Dies, Rfc!Go
<1>2. "setup" \in Plain /\ "audio" \notin Rfc!Final /\ {"exit", "died", "stuck"} \subseteq Rfc!Final
  BY DEF Plain, Rfc!Check, Rfc!Body, Rfc!Final
<1>3. Goes("setup") /\ (at' = "setup" \/ at' = "audio")
  <2>1. CASE Rfc!Take(Rfc!To("audio", "setup", "OK"))
    <3>1. Moved("setup", "audio", "setup") /\ at' = "audio"
      BY <1>1, <1>2, <2>1, Takes DEF Moved, Words
    <3>2. Further("setup", "audio", "setup")
      BY DEF Further, Reached, Due, Behind, OnRob1, InTurn, Rfc!Body
    <3> QED
      BY <1>2, <3>1, <3>2 DEF Goes
  <2>2. CASE Rfc!Take(Rfc!To("exit", "setup", "FAIL"))
    <3>1. Left("setup", "setup", {"FAIL"}) /\ Ends("setup", "setup", {"FAIL"}) /\ at' = "setup"
      BY <1>1, <1>2, <2>2, Takes DEF Left, Ends
    <3> QED
      BY <3>1 DEF Goes
  <2>3. ASSUME NEW f \in {"died", "stuck"}, Rfc!Take(Rfc!To(f, "none", ""))
        PROVE  Goes("setup") /\ at' = "setup"
    <3>1. Stopped("setup") /\ at' = "setup"
      BY <1>1, <1>2, <2>3, Takes DEF Stopped
    <3> QED
      BY <3>1 DEF Goes
  <2> QED
    BY <1>1, <2>1, <2>2, <2>3
<1>4. Plainly("setup", "audio") /\ Socks("setup") = {"main"}
  BY DEF Plainly, Along, Socks, Fresh, Opening, Side1, Side2, OnRob1, AtPause, Behind
<1> QED
  BY <1>1, <1>3, <1>4, AskKept, QuietBeside

LEMMA SetupAudioStep ==
  ASSUME RfcInv, Rfc!SetupAudio
  PROVE  RfcInv'
<1>1. /\ at = "audio" /\ end = "running" /\ Requested /\ Rfc!Quiet
      /\ \/ Rfc!Take(Rfc!To("play", "none", ""))
         \/ Rfc!Take(Rfc!To("died", "none", "")) \/ Rfc!Take(Rfc!To("stuck", "none", ""))
  BY Asks DEF RfcInv, ConnInv, Rfc!SetupAudio, Rfc!Dies, Rfc!Go
<1>2. "play" \notin Rfc!Final /\ {"died", "stuck"} \subseteq Rfc!Final
  BY DEF Rfc!Final
<1>3. (Passed("audio", "play") /\ at' = "play") \/ (Stopped("audio") /\ at' = "audio")
  BY <1>1, <1>2, Takes DEF Passed, Stopped
<1>4. Further("audio", "play", "none")
  BY DEF Further, Reached, Behind, OnRob1
<1>5. Plainly("audio", "play") /\ Socks("audio") = {"main"}
  BY DEF Plainly, Along, Socks, Fresh, Opening, Side1, Side2, OnRob1, AtPause, Behind
<1>6. Goes("audio")
  BY <1>3, <1>4 DEF Goes
<1> QED
  BY <1>1, <1>3, <1>5, <1>6, AskKept, QuietBeside

LEMMA PlayStep ==
  ASSUME RfcInv, Rfc!Play
  PROVE  RfcInv'
<1>1. /\ at = "play" /\ end = "running" /\ Requested
      /\ \/ Rfc!Take(Rfc!To("collect", "play", "OK")) \/ Rfc!Take(Rfc!To("collect", "play", "FAIL"))
         \/ Rfc!Take(Rfc!To("died", "none", "")) \/ Rfc!Take(Rfc!To("stuck", "none", ""))
  BY Asks DEF RfcInv, ConnInv, Rfc!Play, Rfc!Dies, Rfc!Go
<1>2. "play" \in Plain /\ "collect" \notin Rfc!Final /\ {"died", "stuck"} \subseteq Rfc!Final
  BY DEF Plain, Rfc!Check, Rfc!Body, Rfc!Final
<1>3. (Moved("play", "collect", "play") /\ at' = "collect") \/ (Stopped("play") /\ at' = "play")
  BY <1>1, <1>2, Takes DEF Moved, Stopped, Words
<1>4. Further("play", "collect", "play")
  BY DEF Further, Reached, Due, Behind, OnRob1, InTurn, Rfc!Body
<1>5. Plainly("play", "collect") /\ Socks("play") = {"main"}
  BY DEF Plainly, Along, Socks, Fresh, Opening, Side1, Side2, OnRob1, AtPause, Behind
<1>6. Goes("play")
  BY <1>2, <1>3, <1>4 DEF Goes
<1>7. Beside("play")
  <2>1. Reached("play") = 7 /\ "play" \notin Behind
    BY DEF Reached, Behind, OnRob1
  <2>2. flight' = flight /\ pre' = pre /\ paused' = paused /\ obeyed' = obeyed
    BY DEF Rfc!Play, Rfc!counts
  <2>3. at' = "play" => media' = media
    BY DEF Rfc!Play
  <2> QED
    BY <2>1, <2>2, <2>3 DEF Beside
<1> QED
  BY <1>1, <1>3, <1>5, <1>6, <1>7, AskKept

(* Both lines of the window of frames at once.                                    *)
LEMMA CollectStep ==
  ASSUME RfcInv, Rfc!Collect
  PROVE  RfcInv'
<1>1. /\ at = "collect" /\ end = "running"
      /\ UNCHANGED <<sock, cseq, asked, link, saved, media, flight, obeyed, lost, declared, bye,
                     pre, paused>>
  BY DEF Rfc!Collect, Rfc!Now, Rfc!stream, Rfc!counts
<1>2. ConnInv'
  <2>1. at' = "param"
    BY DEF Rfc!Collect
  <2>2. Along("collect", "collect") /\ Along("collect", "param") /\ Socks("collect") = {"main"}
    BY DEF Along, Socks, Fresh, Opening, Side1, Side2, OnRob1
  <2>3. link' \in [Rfc!Conn -> {"none", "open", "closed", "shut"}] /\ Along(at, at')
    BY <1>1, <2>1, <2>2 DEF RfcInv, ConnInv
  <2>4. end' = "died" => Socks(at) = {"main"}
    BY <1>1, <2>2
  <2> QED
    BY <1>1, <2>3, <2>4, StillConn DEF RfcInv
<1>4. ASSUME NEW reports \in BOOLEAN, at' = "param", end' = end,
             said' = [said EXCEPT !["sr"] = Rfc!Verdict(reports),
                                  !["anchor"] = IF declared # 0 /\ media
                                                THEN Rfc!Verdict(declared = Rfc!FirstSeen) ELSE @]
      PROVE  RfcInv'
  <2>1. PICK v \in {"OK", "FAIL"} : v = Rfc!Verdict(reports)
    BY DEF Rfc!Verdict
  <2>2. PICK w \in {"OK", "FAIL", said["anchor"]} :
          /\ w = IF declared # 0 /\ media
                 THEN Rfc!Verdict(declared = Rfc!FirstSeen) ELSE said["anchor"]
    BY DEF Rfc!Verdict
  <2>3. said["anchor"] = "" /\ said \in [Rfc!Check -> Lines]
    <3>1. Reached("collect") = 8
      BY DEF Reached
    <3>2. Reached("collect") <= 8
      BY <3>1
    <3> QED
      BY <1>1, <3>2, ToldAt DEF RfcInv, LinesInv
  <2>4. {"sr", "anchor", "halts", "bye"} \subseteq Rfc!Check
    BY DEF Rfc!Check, Rfc!Body, Rfc!Pause
  <2>5. said' = [said EXCEPT !["sr"] = v, !["anchor"] = w]
    BY <1>4, <2>1, <2>2, <2>3, <2>4
  <2>6. /\ said' \in [Rfc!Check -> Lines] /\ said'["sr"] = v /\ said'["anchor"] = w
        /\ \A d \in Rfc!Check : d \notin {"sr", "anchor"} => said'[d] = said[d]
        /\ \A d \in Rfc!Check : said[d] # "" => said'[d] # ""
    BY <2>3, <2>4, <2>5 DEF Lines
  <2>7. LinesInv'
    <3>1. ASSUME NEW d \in InTurn, Due(d) <= Reached("param")
          PROVE  said'[d] # ""
      <4>1. Due(d) <= Reached("collect") \/ d = "sr"
        BY <3>1 DEF InTurn, Rfc!Body, Rfc!Battery, Due, Reached
      <4>2. Due(d) <= Reached("collect") => said[d] # ""
        BY <1>1 DEF RfcInv, LinesInv
      <4> QED
        BY <2>6, <4>1, <4>2, Parts
    <3>2. "param" \notin Behind /\ end' # "exit"
      BY <1>1, <1>4 DEF Behind, OnRob1
    <3> QED
      BY <1>4, <2>6, <3>1, <3>2 DEF LinesInv
  <2>8. ToldInv'
    <3>1. /\ said'["halts"] = said["halts"] /\ said'["bye"] = said["bye"]
          /\ said["halts"] = "" /\ said["bye"] = ""
      <4>1. said'["halts"] = said["halts"] /\ said'["bye"] = said["bye"]
        BY <2>4, <2>6
      <4>2. Reached("collect") = 8 /\ "collect" \notin Behind
        BY DEF Behind, OnRob1, Reached
      <4>3. Reached("collect") <= 11
        BY <4>2
      <4> QED
        BY <1>1, <4>1, <4>2, <4>3, ToldAt DEF RfcInv
    <3>2. lost = 0 /\ w # "" => (w = "OK" <=> declared = 1)
      <4>1. ASSUME lost = 0, w # ""
            PROVE  w = "OK" <=> declared = 1
        <5>1. w = Rfc!Verdict(declared = Rfc!FirstSeen)
          BY <2>2, <2>3, <4>1
        <5>2. Rfc!FirstSeen = 1
          <6>1. lost = 0
            BY <4>1
          <6>2. Rfc!FirstSeen = 0 + 1
            BY <6>1 DEF Rfc!FirstSeen
          <6> QED
            BY <6>2
        <5> QED
          BY <5>1, <5>2 DEF Rfc!Verdict
      <4> QED
        BY <4>1
    <3>3. Rfc!DeliverySound'
      BY <1>1, <2>6, <3>1, <3>2 DEF Rfc!DeliverySound
    <3>4. Reached("param") = 9
      BY DEF Reached
    <3>5. ~(Reached("param") <= 8)
      BY <3>4
    <3> QED
      BY <1>4, <3>1, <3>3, <3>5, ToldThen
  <2>9. WindowInv'
    <3>1. {"collect", "param"} \cap (AtPause \cup Behind \cup {"pause"}) = {}
      BY DEF AtPause, Behind, OnRob1
    <3> QED
      BY <1>1, <1>4, <3>1, FarWindow DEF RfcInv
  <2> QED
    BY <1>2, <2>7, <2>8, <2>9 DEF RfcInv
<1>5. \E reports \in BOOLEAN :
         /\ at' = "param" /\ end' = end
         /\ said' = [said EXCEPT !["sr"] = Rfc!Verdict(reports),
                                 !["anchor"] = IF declared # 0 /\ media
                                               THEN Rfc!Verdict(declared = Rfc!FirstSeen) ELSE @]
  BY DEF Rfc!Collect
<1> QED
  BY <1>4, <1>5

(* An exception ends the probe in a window, which no answered PAUSE is followed   *)
(* by on a connection that is shut.                                               *)
LEMMA CutStep ==
  ASSUME RfcInv, Rfc!CutOff
  PROVE  RfcInv'
<1>1. PICK a \in {"collect", "pre", "drain", "paused", "resumed"} : Rfc!Cut(a)
  BY DEF Rfc!CutOff
<1>2. /\ at = a /\ end = "running" /\ link["main"] = "shut" /\ Rfc!Take(Rfc!To("died", "none", ""))
      /\ UNCHANGED <<sock, cseq, asked, link, saved, media, flight, obeyed, lost, declared, bye,
                     pre, paused>>
  BY <1>1 DEF Rfc!Cut, Rfc!Now, Rfc!Dies, Rfc!Go, Rfc!stream, Rfc!counts
<1>3. Stopped(a) /\ at' = a
  BY <1>2, Takes DEF Stopped, Rfc!Final
<1>4. Goes(a)
  BY <1>3 DEF Goes
<1>5. ConnInv'
  <2>1. Along(a, a) /\ Socks(a) = {"main"}
    BY DEF Along, Socks, OnRob1
  <2> QED
    BY <1>2, <1>3, <2>1, StillConn DEF RfcInv, ConnInv
<1>6. LinesInv' /\ ToldInv'
  BY <1>2, <1>4, GoesLines, GoesTold DEF RfcInv
<1>7. a \notin {"drain", "paused"}
  BY <1>2 DEF RfcInv, WindowInv
<1>8. WindowInv'
  BY <1>2, <1>3, <1>7, StayWindow DEF RfcInv
<1> QED
  BY <1>5, <1>6, <1>8 DEF RfcInv

LEMMA ByeStep ==
  ASSUME RfcInv, Rfc!Bye
  PROVE  RfcInv'
<1>1. PICK v \in {"OK", "SKIP"} :
        /\ v = IF Rfc!ByeSeen THEN "OK" ELSE "SKIP"
        /\ at = "bye" /\ end = "running" /\ Rfc!Take(Rfc!To("battery", "bye", v))
        /\ link' = [link EXCEPT !["main"] = "closed"]
        /\ UNCHANGED <<sock, cseq, asked, saved, media, flight, obeyed, lost, declared, bye,
                       pre, paused>>
  BY DEF Rfc!Bye, Rfc!Now, Rfc!stream, Rfc!counts
<1>2. /\ at' = "battery" /\ end' = "running" /\ said' = [said EXCEPT !["bye"] = v]
  BY <1>1, Takes DEF Rfc!Final
<1>3. ConnInv'
  <2>1. Along("bye", "battery")
    BY DEF Along, Socks, Fresh, Opening, Side1, Side2, OnRob1
  <2>2. link' \in [Rfc!Conn -> {"none", "open", "closed", "shut"}]
    BY <1>1 DEF RfcInv, ConnInv
  <2> QED
    BY <1>1, <1>2, <2>1, <2>2, StillConn DEF RfcInv
<1>4. "bye" \in Rfc!Check /\ "halts" \in Rfc!Check /\ "anchor" \in Rfc!Check
  BY DEF Rfc!Check, Rfc!Body, Rfc!Pause
<1>5. LinesInv'
  <2>1. Moved("bye", "battery", "bye")
    BY <1>1, <1>2 DEF Moved, Words
  <2>2. Further("bye", "battery", "bye")
    BY DEF Further, Reached, Due, Behind, OnRob1, InTurn, Rfc!Body
  <2> QED
    BY <1>4, <2>1, <2>2, MovedLines DEF RfcInv
<1>6. ToldInv'
  <2>1. said'["bye"] = v /\ said'["halts"] = said["halts"] /\ said'["anchor"] = said["anchor"]
    BY <1>2, <1>4 DEF RfcInv, LinesInv
  <2>2. /\ bye \in {"ahead", "behind"} => v # "SKIP"
        /\ bye \in {"late", "none"} => v # "OK"
    BY <1>1 DEF Rfc!ByeSeen
  <2>3. /\ said["halts"] = "OK" => obeyed
        /\ said["halts"] = "FAIL" => ~obeyed \/ pre <= 10
        /\ lost = 0 /\ said["anchor"] # "" => (said["anchor"] = "OK" <=> declared = 1)
    BY DEF RfcInv, ToldInv, Rfc!DeliverySound
  <2>4. Rfc!DeliverySound'
    BY <1>1, <2>1, <2>2, <2>3 DEF Rfc!DeliverySound
  <2>5. Reached("battery") = 12 /\ "battery" \in Behind
    BY DEF Reached, Behind
  <2>6. ~(Reached("battery") <= 8) /\ ~(Reached("battery") <= 11)
    BY <2>5
  <2> QED
    BY <1>2, <2>4, <2>5, <2>6, ToldThen
<1>7. WindowInv'
  <2>1. "battery" \notin AtPause \cup {"pause"} /\ "battery" \in Behind
    BY DEF AtPause, Behind
  <2> QED
    BY <1>1, <1>2, <2>1, FarWindow DEF RfcInv
<1> QED
  BY <1>3, <1>5, <1>6, <1>7 DEF RfcInv

(* A window that is read out: the connection is as it was, and no line is said.   *)
LEMMA RateKept ==
  ASSUME RfcInv, NEW a, NEW b, Rfc!FrameRate(a, b),
         \/ a = "pre" /\ b = "pause"
         \/ a = "drain" /\ b = "paused"
         \/ a = "paused" /\ b = "resume"
  PROVE  /\ at = a /\ at' = b /\ flight' = 0 /\ UNCHANGED <<link, media, obeyed>>
         /\ ConnInv' /\ LinesInv' /\ ToldInv'
<1>1. /\ at = a /\ end = "running" /\ Rfc!Take(Rfc!To(b, "none", "")) /\ flight' = 0
      /\ UNCHANGED <<sock, cseq, asked, link, saved, media, obeyed, lost, declared, bye>>
  BY DEF Rfc!FrameRate, Rfc!Now, Rfc!Go
<1>2. b \notin Rfc!Final /\ a \notin Behind /\ Reached(a) = 10
  BY DEF Rfc!Final, Behind, OnRob1, Reached
<1>3. Passed(a, b) /\ at' = b /\ end' = "running"
  BY <1>1, <1>2, Takes DEF Passed
<1>4. Further(a, b, "none") /\ Along(a, b)
  BY DEF Further, Along, Socks, Fresh, Opening, Side1, Side2, OnRob1, Reached, Behind
<1>5. Goes(a)
  BY <1>3, <1>4 DEF Goes
<1>6. ConnInv'
  BY <1>1, <1>3, <1>4, StillConn DEF RfcInv, ConnInv
<1>7. ~(Reached(a) > 11)
  BY <1>2
<1>8. LinesInv' /\ ToldInv'
  BY <1>1, <1>2, <1>5, <1>7, GoesLines, GoesTold DEF RfcInv
<1> QED
  BY <1>1, <1>3, <1>6, <1>8

LEMMA ManyFrames == Many \in Nat /\ Many > 10
  BY ProbeConstants DEF Rfc!ConstAssumption

LEMMA Windowful ==
  ASSUME flight = 0
  PROVE  Rfc!Delivered = IF media /\ link["main"] = "open" THEN Many ELSE 0
  BY ManyFrames DEF Rfc!Delivered

LEMMA BeforeStep ==
  ASSUME RfcInv, Rfc!Before
  PROVE  RfcInv'
<1>1. /\ at = "pre" /\ at' = "pause" /\ flight' = 0 /\ UNCHANGED <<link, media, obeyed>>
      /\ ConnInv' /\ LinesInv' /\ ToldInv'
  BY RateKept DEF Rfc!Before
<1>2. flight = 0
  BY <1>1 DEF RfcInv, WindowInv, Behind, AtPause, OnRob1
<1>3. pre' = IF media /\ link["main"] = "open" THEN Many ELSE 0
  BY <1>2, Windowful DEF Rfc!Before
<1>4. WindowInv'
  <2>1. pre' \in {0, Many} /\ (pre' # 0 => media')
    BY <1>1, <1>3
  <2> QED
    BY <1>1, <2>1 DEF WindowInv, AtPause
<1> QED
  BY <1>1, <1>4 DEF RfcInv

LEMMA AskPauseStep ==
  ASSUME RfcInv, Rfc!AskPause
  PROVE  RfcInv'
<1>1. /\ at = "pause" /\ end = "running" /\ Requested
      /\ \/ /\ Rfc!Take(Rfc!To("drain", "none", ""))
            /\ link' = link /\ link[sock] = "open"
         \/ Rfc!Take(Rfc!To("teardown", "pause", "FAIL"))
         \/ Rfc!Take(Rfc!To("died", "none", "")) \/ Rfc!Take(Rfc!To("stuck", "none", ""))
  BY Asks DEF RfcInv, ConnInv, Rfc!AskPause, Rfc!Dies, Rfc!Go
<1>2. UNCHANGED <<pre, paused, lost, declared, bye>>
  BY DEF Rfc!AskPause, Rfc!counts
<1>3. /\ "pause" \in Plain /\ {"drain", "teardown"} \cap Rfc!Final = {}
      /\ {"died", "stuck"} \subseteq Rfc!Final
      /\ "pause" \notin Behind /\ Reached("pause") = 10
  BY DEF Plain, Rfc!Check, Rfc!Final, Behind, OnRob1, Reached
<1>4. Socks("pause") = {"main"} /\ Along("pause", "drain") /\ Plainly("pause", "teardown")
  BY DEF Plainly, Along, Socks, Fresh, Opening, Side1, Side2, OnRob1, AtPause, Behind
<1>5. Further("pause", "drain", "none") /\ Further("pause", "teardown", "pause")
  BY DEF Further, Reached, Behind, OnRob1
<1>6. CASE Rfc!Take(Rfc!To("drain", "none", "")) /\ link' = link /\ link[sock] = "open"
  <2>1. Passed("pause", "drain") /\ at' = "drain" /\ end' = "running"
    BY <1>1, <1>3, <1>6, Takes DEF Passed
  <2>2. Goes("pause")
    BY <1>5, <2>1 DEF Goes
  <2>3. ConnInv'
    BY <1>1, <1>4, <2>1, RequestConn DEF RfcInv
  <2>4. ~(Reached("pause") > 11)
    BY <1>3
  <2>5. LinesInv' /\ ToldInv'
    BY <1>2, <1>3, <2>2, <2>4, GoesLines, GoesTold DEF RfcInv
  <2>6. WindowInv'
    <3>1. media' \in {media, FALSE} /\ obeyed' = (media /\ ~media')
      BY <2>1 DEF Rfc!AskPause
    <3>2. pre \in {0, Many} /\ (pre # 0 => media) /\ sock = "main"
      BY <1>1, <1>4 DEF RfcInv, WindowInv, ConnInv
    <3>3. link'["main"] = "open" /\ pre' \in {0, Many}
      BY <1>2, <1>6, <3>2
    <3>4. obeyed' => ~media'
      BY <3>1
    <3>5. pre' # 0 /\ ~obeyed' => media'
      <4>1. pre' # 0 => media
        BY <1>2, <3>2
      <4> QED
        BY <3>1, <4>1
    <3> QED
      BY <2>1, <3>3, <3>4, <3>5 DEF WindowInv, AtPause
  <2> QED
    BY <2>3, <2>5, <2>6 DEF RfcInv
<1>7. ASSUME \/ Moved("pause", "teardown", "pause") /\ at' = "teardown"
             \/ Stopped("pause") /\ at' = "pause"
      PROVE  RfcInv'
  <2>1. UNCHANGED <<media, flight, obeyed>>
    BY <1>7 DEF Rfc!AskPause
  <2>2. Goes("pause")
    BY <1>3, <1>5, <1>7 DEF Goes
  <2>3. Beside("pause")
    BY <1>2, <2>1 DEF Beside
  <2> QED
    BY <1>1, <1>4, <1>7, <2>2, <2>3, AskKept
<1>8. CASE Rfc!Take(Rfc!To("teardown", "pause", "FAIL"))
  <2>1. Moved("pause", "teardown", "pause") /\ at' = "teardown"
    BY <1>1, <1>3, <1>8, Takes DEF Moved, Words
  <2> QED
    BY <1>7, <2>1
<1>9. ASSUME NEW f \in {"died", "stuck"}, Rfc!Take(Rfc!To(f, "none", ""))
      PROVE  RfcInv'
  <2>1. Stopped("pause") /\ at' = "pause"
    BY <1>1, <1>3, <1>9, Takes DEF Stopped
  <2> QED
    BY <1>7, <2>1
<1> QED
  BY <1>1, <1>6, <1>8, <1>9

LEMMA DrainStep ==
  ASSUME RfcInv, Rfc!Drain
  PROVE  RfcInv'
<1>1. /\ at = "drain" /\ at' = "paused" /\ flight' = 0 /\ UNCHANGED <<link, media, obeyed>>
      /\ ConnInv' /\ LinesInv' /\ ToldInv'
  BY RateKept DEF Rfc!Drain
<1>2. pre' = pre
  BY DEF Rfc!Drain, Rfc!counts
<1>3. /\ pre \in {0, Many} /\ link["main"] = "open" /\ (obeyed => ~media)
      /\ (pre # 0 /\ ~obeyed => media)
  BY <1>1 DEF RfcInv, WindowInv, AtPause
<1>4. /\ pre' \in {0, Many} /\ link'["main"] = "open" /\ (obeyed' => ~media')
      /\ (pre' # 0 /\ ~obeyed' => media')
  BY <1>1, <1>2, <1>3
<1>5. WindowInv'
  BY <1>1, <1>4 DEF WindowInv, AtPause
<1> QED
  BY <1>1, <1>5 DEF RfcInv

LEMMA PausedStep ==
  ASSUME RfcInv, Rfc!Paused
  PROVE  RfcInv'
<1>1. /\ at = "paused" /\ at' = "resume" /\ flight' = 0 /\ UNCHANGED <<link, media, obeyed>>
      /\ ConnInv' /\ LinesInv' /\ ToldInv'
  BY RateKept DEF Rfc!Paused
<1>2. /\ pre \in {0, Many} /\ link["main"] = "open" /\ (obeyed => ~media)
      /\ (pre # 0 /\ ~obeyed => media) /\ flight = 0
  BY <1>1 DEF RfcInv, WindowInv, AtPause
<1>3. pre' = pre /\ paused' = IF media THEN Many ELSE 0
  BY <1>2, Windowful DEF Rfc!Paused
<1>4. /\ pre' \in {0, Many} /\ (obeyed' => paused' = 0)
      /\ (pre' # 0 /\ ~obeyed' => paused' = Many)
  BY <1>1, <1>2, <1>3
<1>5. WindowInv'
  BY <1>1, <1>4 DEF WindowInv, AtPause
<1> QED
  BY <1>1, <1>5 DEF RfcInv

LEMMA ResumeStep ==
  ASSUME RfcInv, Rfc!Resume
  PROVE  RfcInv'
<1>1. /\ at = "resume" /\ end = "running" /\ Requested
      /\ \/ Rfc!Take(Rfc!To("resumed", "none", ""))
         \/ Rfc!Take(Rfc!To("died", "none", "")) \/ Rfc!Take(Rfc!To("stuck", "none", ""))
  BY Asks DEF RfcInv, ConnInv, Rfc!Resume, Rfc!Dies, Rfc!Go
<1>2. UNCHANGED <<pre, paused, flight, obeyed, lost, declared, bye>>
  BY DEF Rfc!Resume, Rfc!counts
<1>3. /\ "resumed" \notin Rfc!Final /\ {"died", "stuck"} \subseteq Rfc!Final
      /\ "resume" \notin Behind /\ Reached("resume") = 10
  BY DEF Rfc!Final, Behind, OnRob1, Reached
<1>4. Socks("resume") = {"main"} /\ Along("resume", "resumed") /\ Along("resume", "resume")
  BY DEF Along, Socks, Fresh, Opening, Side1, Side2, OnRob1
<1>5. Further("resume", "resumed", "none")
  BY DEF Further, Reached, Behind, OnRob1
<1>6. (Passed("resume", "resumed") /\ at' = "resumed") \/ (Stopped("resume") /\ at' = "resume")
  BY <1>1, <1>3, Takes DEF Passed, Stopped
<1>7. Goes("resume")
  BY <1>5, <1>6 DEF Goes
<1>8. ConnInv'
  BY <1>1, <1>4, <1>6, RequestConn DEF RfcInv
<1>9. LinesInv' /\ ToldInv'
  <2>1. ~(Reached("resume") > 11)
    BY <1>3
  <2> QED
    BY <1>2, <1>3, <1>7, <2>1, GoesLines, GoesTold DEF RfcInv
<1>10. WindowInv'
  <2>1. /\ pre \in {0, Many} /\ (obeyed => paused = 0)
        /\ (pre # 0 /\ ~obeyed => paused = Many)
    BY <1>1 DEF RfcInv, WindowInv, AtPause
  <2>2. /\ pre' \in {0, Many} /\ (obeyed' => paused' = 0)
        /\ (pre' # 0 /\ ~obeyed' => paused' = Many)
    BY <1>2, <2>1
  <2> QED
    BY <1>6, <2>2 DEF WindowInv, AtPause
<1> QED
  BY <1>8, <1>9, <1>10 DEF RfcInv

(* Frames of a whole window are no silence, and none are.                         *)
LEMMA Halted ==
  ASSUME pre \in {0, Many}, obeyed => paused = 0, pre # 0 /\ ~obeyed => paused = Many
  PROVE  /\ pre > 10 /\ paused < Rfc!Threshold => obeyed
         /\ pre > 10 /\ obeyed => paused < Rfc!Threshold
<1>1. Many \in Nat /\ Many > 10 /\ Many \div 10 \in Int /\ Many \div 10 < Many
  BY ManyFrames
<1>2. ASSUME pre > 10
      PROVE  pre = Many /\ pre # 0
  BY <1>1, <1>2
<1>3. ASSUME pre = Many
      PROVE  3 <= Rfc!Threshold /\ Rfc!Threshold \in Int /\ Rfc!Threshold < Many
  BY <1>1, <1>3 DEF Rfc!Threshold
<1>4. ASSUME pre > 10, obeyed
      PROVE  paused < Rfc!Threshold
  <2>1. paused = 0
    BY <1>4
  <2> QED
    BY <1>2, <1>3, <1>4, <2>1
<1>5. ASSUME pre > 10, paused < Rfc!Threshold, ~obeyed
      PROVE  FALSE
  <2>1. paused = Many
    BY <1>2, <1>5
  <2> QED
    BY <1>1, <1>2, <1>3, <1>5, <2>1
<1> QED
  BY <1>4, <1>5

LEMMA ResumedStep ==
  ASSUME RfcInv, Rfc!Resumed
  PROVE  RfcInv'
<1> DEFINE halts == pre > 10 /\ paused < Rfc!Threshold
           h == IF halts THEN "OK" ELSE "FAIL"
           r == IF Rfc!Delivered > 10 THEN "OK" ELSE "FAIL"
<1>1. /\ at = "resumed" /\ end = "running" /\ at' = "teardown" /\ end' = end
      /\ said' = [said EXCEPT !["halts"] = h, !["resumes"] = r]
      /\ UNCHANGED <<sock, cseq, asked, link, saved, media, flight, obeyed, lost, declared, bye,
                     pre, paused>>
  BY DEF Rfc!Resumed, Rfc!Now, Rfc!Verdict, Rfc!stream, Rfc!counts
<1>2. h \in {"OK", "FAIL"} /\ r \in {"OK", "FAIL"} /\ (h = "OK" <=> halts)
  OBVIOUS
<1>3. /\ pre \in {0, Many} /\ (obeyed => paused = 0)
      /\ (pre # 0 /\ ~obeyed => paused = Many)
  BY <1>1 DEF RfcInv, WindowInv, AtPause
<1>4. (halts => obeyed) /\ (pre > 10 /\ obeyed => halts)
  BY <1>3, Halted
<1>5. ~halts => ~obeyed \/ pre <= 10
  <2>1. ~(pre > 10) => pre <= 10
    BY <1>3, ManyFrames
  <2> HIDE DEF halts
  <2> QED
    BY <1>4, <2>1
<1> HIDE DEF halts, h, r
<1>6. {"halts", "resumes", "pause", "bye", "anchor"} \subseteq Rfc!Check
  BY DEF Rfc!Check, Rfc!Body, Rfc!Pause
<1>7. /\ said' \in [Rfc!Check -> Lines] /\ said'["halts"] = h /\ said'["resumes"] = r
      /\ \A d \in Rfc!Check : d \notin {"halts", "resumes"} => said'[d] = said[d]
      /\ \A d \in Rfc!Check : said[d] # "" => said'[d] # ""
  BY <1>1, <1>2, <1>6 DEF RfcInv, LinesInv, Lines
<1>8. ConnInv'
  <2>1. Along("resumed", "teardown")
    BY DEF Along, Socks, Fresh, Opening, Side1, Side2, OnRob1
  <2> QED
    BY <1>1, <2>1, StillConn DEF RfcInv, ConnInv
<1>9. LinesInv'
  <2>1. Reached("resumed") = Reached("teardown")
    BY DEF Reached
  <2>2. \A d \in InTurn : Due(d) <= Reached("teardown") => said'[d] # ""
    BY <1>1, <1>7, <2>1, Parts DEF RfcInv, LinesInv
  <2>3. \A d \in Rfc!Pause : said'[d] # ""
    BY <1>2, <1>7 DEF Rfc!Pause
  <2> QED
    BY <1>1, <1>7, <2>2, <2>3 DEF LinesInv
<1>10. ToldInv'
  <2>1. /\ lost = 0 /\ said["anchor"] # "" => (said["anchor"] = "OK" <=> declared = 1)
        /\ bye \in {"ahead", "behind"} => said["bye"] # "SKIP"
        /\ bye \in {"late", "none"} => said["bye"] # "OK"
    BY DEF RfcInv, ToldInv, Rfc!DeliverySound
  <2>2. said'["anchor"] = said["anchor"] /\ said'["bye"] = said["bye"]
    BY <1>6, <1>7
  <2>3. Reached("resumed") = 10 /\ Reached("teardown") = 10 /\ "teardown" \in Behind
    BY DEF Reached, Behind
  <2>4. Reached("resumed") <= 11 /\ ~(Reached("teardown") <= 8)
    BY <2>3
  <2>5. said'["bye"] = ""
    BY <1>1, <2>2, <2>4, ToldAt DEF RfcInv
  <2>6. /\ said'["halts"] = "OK" => obeyed
        /\ said'["halts"] = "FAIL" => ~obeyed \/ pre <= 10
    BY <1>2, <1>4, <1>5, <1>7
  <2>7. Rfc!DeliverySound'
    BY <1>1, <2>1, <2>2, <2>6 DEF Rfc!DeliverySound
  <2> QED
    BY <1>1, <2>3, <2>4, <2>5, <2>7, ToldThen
<1>11. WindowInv'
  <2>1. "teardown" \notin AtPause \cup {"pause"} /\ "teardown" \in Behind
    BY DEF AtPause, Behind
  <2> QED
    BY <1>1, <2>1, FarWindow DEF RfcInv
<1> QED
  BY <1>8, <1>9, <1>10, <1>11 DEF RfcInv

--------------------------------------------------------------------------------
(* The probe.                                                                     *)

LEMMA NoneDue == \A c : ~(Due(c) <= 0)
<1> SUFFICES ASSUME NEW c
             PROVE  ~(Due(c) <= 0)
  OBVIOUS
<1>1. Due(c) \in {1, 2, 3, 4, 5, 6, 7, 8, 9, 10, 11, 12, 13, 14, 15, 16}
  BY DEF Due
<1> QED
  BY <1>1

LEMMA RfcInit == Rfc!Init => RfcInv
<1> SUFFICES ASSUME Rfc!Init
             PROVE  RfcInv
  OBVIOUS
<1> USE DEF Rfc!Init
<1>1. ConnInv
  BY DEF ConnInv, Socks, Fresh, Opening, Side1, Side2, OnRob1, Rfc!Conn
<1>2. /\ said \in [Rfc!Check -> Lines] /\ said["halts"] = "" /\ said["anchor"] = ""
      /\ said["bye"] = ""
  BY DEF Lines, Rfc!Check, Rfc!Body, Rfc!Pause
<1>3. LinesInv
  <2>1. \A c \in InTurn : ~(Due(c) <= Reached("options"))
    <3>1. Reached("options") = 0
      BY DEF Reached
    <3> QED
      BY <3>1, NoneDue
  <2> QED
    BY <1>2, <2>1 DEF LinesInv, Behind, OnRob1
<1>4. WindowInv
  BY DEF WindowInv, AtPause
<1>5. ToldInv
  BY <1>2 DEF ToldInv, Rfc!DeliverySound
<1> QED
  BY <1>1, <1>3, <1>4, <1>5 DEF RfcInv

LEMMA RfcStep == RfcInv /\ [Rfc!Next]_(Rfc!vars) => RfcInv'
<1> SUFFICES ASSUME RfcInv, [Rfc!Next]_(Rfc!vars)
             PROVE  RfcInv'
  OBVIOUS
<1>1. CASE UNCHANGED Rfc!vars
  <2>1. UNCHANGED OfRfc
    BY <1>1 DEF Rfc!vars, Rfc!client, Rfc!stream, Rfc!counts, OfRfc
  <2>2. ConnInv' /\ LinesInv'
    BY <2>1 DEF OfRfc, RfcInv, ConnInv, LinesInv
  <2>3. WindowInv'
    BY <2>1 DEF OfRfc, RfcInv, WindowInv
  <2>4. ToldInv'
    <3>1. Rfc!DeliverySound'
      BY <2>1 DEF OfRfc, RfcInv, ToldInv, Rfc!DeliverySound
    <3> QED
      BY <2>1, <3>1 DEF OfRfc, RfcInv, ToldInv
  <2> QED
    BY <2>2, <2>3, <2>4 DEF RfcInv
<1>2. CASE Rfc!Session
  BY <1>2, SetupStep, SetupAudioStep, PlayStep, CollectStep, CutStep, ParamStep, BeforeStep,
     AskPauseStep, DrainStep, PausedStep, ResumeStep, ResumedStep, TeardownStep, ByeStep DEF Rfc!Session
<1> QED
  BY <1>1, <1>2, LeadStep, TransportsStep, RobustnessStep DEF Rfc!Next, Rfc!Done

LEMMA RfcInvariance == ProbesSpec => [](probe = "rfc" => RfcInv)
<1> DEFINE Inv == probe = "rfc" => RfcInv
<1>1. ProbesInit => Inv
  BY RfcInit DEF ProbesInit
<1>2. Inv /\ [ProbesNext]_all => Inv'
  <2> SUFFICES ASSUME Inv, [ProbesNext]_all, probe' = "rfc"
               PROVE  RfcInv'
    OBVIOUS
  <2>1. probe = "rfc" /\ [Rfc!Next]_(Rfc!vars)
    BY DEF ProbesNext, all, rfcVars, Rfc!vars, Rfc!client, Rfc!stream, Rfc!counts
  <2> QED
    BY <2>1, RfcStep
<1> QED
  BY <1>1, <1>2, PTL DEF ProbesSpec, all

(* Whatever becomes of the four connections beside and behind the session, their  *)
(* checks have their lines, the session goes on with its own socket and numbers   *)
(* without a gap, and a probe that ends by itself has said a line for every       *)
(* check, for any number of faults (rfc_check.py:228-590).                        *)
THEOREM RfcContained == ProbesSpec => []Contained
<1>1. ASSUME probe = "rfc" => RfcInv
      PROVE  Contained
  <2> SUFFICES ASSUME RfcInv
               PROVE  Rfc!Contained
    BY <1>1 DEF Contained
  <2>1. cseq = asked[sock] /\ (end = "died" => sock = "main")
    BY DEF RfcInv, ConnInv
  <2>2. at \in {"connect2", "setup"} => sock = "main"
    BY DEF RfcInv, ConnInv, Socks, OnRob1
  <2>3. at \in {"connect2", "setup"} => said["side1"] # ""
    <3>1. Due("side1") = 5 /\ Reached("connect2") = 5 /\ Reached("setup") = 6
      BY DEF Due, Reached
    <3>2. Due("side1") <= Reached("connect2") /\ Due("side1") <= Reached("setup")
      BY <3>1
    <3>3. "side1" \in InTurn
      BY DEF InTurn, Rfc!Body
    <3> QED
      BY <3>2, <3>3 DEF RfcInv, LinesInv
  <2>4. at = "setup" => said["side2"] # ""
    <3>1. Due("side2") = 6 /\ Reached("setup") = 6
      BY DEF Due, Reached
    <3>2. Due("side2") <= Reached("setup")
      BY <3>1
    <3>3. "side2" \in InTurn
      BY DEF InTurn, Rfc!Body
    <3> QED
      BY <3>2, <3>3 DEF RfcInv, LinesInv
  <2>5. ASSUME end = "exit", said["setup"] = "OK"
        PROVE  /\ \A c \in Rfc!Body : said[c] # ""
               /\ said["pause"] # "" \/ \A c \in Rfc!Pause : said[c] # ""
               /\ said["battery"] # "" \/ \A c \in Rfc!Battery : said[c] # ""
    <3>1. /\ at \in {"battery", "healthy"} \cup OnRob1
          /\ said["battery"] # "" \/ (at = "healthy" /\ said["healthy"] # "")
      BY <2>5 DEF RfcInv, LinesInv
    <3>2. PICK a : a = at
      OBVIOUS
    <3>3. a \in Behind
      BY <3>1, <3>2 DEF Behind
    <3>4. \A c \in Rfc!Body : c \in InTurn /\ Due(c) <= Reached(a)
      <4>1. Reached(a) \in {12, 13, 14, 15}
        BY <3>1, <3>2 DEF Reached, OnRob1
      <4>2. ASSUME NEW c \in Rfc!Body
            PROVE  Due(c) \in {1, 2, 3, 4, 5, 6, 7, 8, 9, 10, 11, 12}
        BY DEF Rfc!Body, Due
      <4>3. ASSUME NEW c \in Rfc!Body
            PROVE  Due(c) <= Reached(a)
        BY <4>1, <4>2
      <4> QED
        BY <4>3 DEF InTurn
    <3>5. a = "healthy" => \A c \in Rfc!Battery : c = "healthy" \/ (c \in InTurn /\ Due(c) <= Reached(a))
      BY DEF Rfc!Battery, InTurn, Due, Reached
    <3>6. /\ \A c \in InTurn : Due(c) <= Reached(a) => said[c] # ""
          /\ said["pause"] # "" \/ \A c \in Rfc!Pause : said[c] # ""
      BY <3>2, <3>3 DEF RfcInv, LinesInv
    <3> QED
      BY <3>1, <3>2, <3>4, <3>5, <3>6
  <2> QED
    BY <2>1, <2>2, <2>3, <2>4, <2>5 DEF Rfc!Contained
<1> QED
  BY <1>1, RfcInvariance, PTL

(* The verdicts about PAUSE, the declared first frame and BYE are about what the  *)
(* server did, for any window of more than ten frames and any number of frames    *)
(* under way (rfc_check.py:388-531).                                              *)
THEOREM RfcDeliverySound == ProbesSpec => []DeliverySound
<1>1. (probe = "rfc" => RfcInv) => DeliverySound
  BY DEF RfcInv, ToldInv, DeliverySound
<1> QED
  BY <1>1, RfcInvariance, PTL
================================================================================
