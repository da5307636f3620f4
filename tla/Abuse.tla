-------------------------------- MODULE Abuse --------------------------------
(* The probes that mistreat a server and ask whether it still answers:        *)
(* malformed requests with a well-formed one behind every batch               *)
(* (src/probes/fuzz_rtsp.py), and readers that never keep up beside a client  *)
(* that does (src/probes/slow_client.py).  The server may go down or answer   *)
(* late, and be restarted; it may serve nobody while a slow reader holds a    *)
(* session.                                                                   *)
EXTENDS Naturals, FiniteSets

CONSTANTS
  Rounds, Batch,   \* malformed requests at most; and between two liveness checks: 20
  Readers          \* the slow readers

ConstAssumption == Rounds \in Nat /\ Batch \in Nat \ {0}

VARIABLES
  leg, step,
  server,     \* "up", "late" (answers after two seconds) or "down"
  hurt,       \* whether it ever was anything but up
  ill,        \* malformed requests sent since it last was up
  worstIll,   \* the most of them at once
  sent, checks, alive, late, \* the counts of the fuzzer, and whether an answer was late
  blocks,     \* the server serves nobody while a slow reader holds a session
  reader,     \* Readers -> "off", "new", "holds", "left"
  stop,       \* the event that ends the readers
  blocked,    \* the lines asked for while a reader held the server
  line

fuzz == <<sent, checks, alive, late>>
health == <<server, hurt, ill, worstIll>>
slow == <<blocks, reader, stop, blocked>>
vars == <<leg, step, health, fuzz, slow, line>>

Checks == {"survived", "baseline", "served", "healthy"}

Init ==
  /\ leg \in {"fuzz", "slow"} /\ step = "start"
  /\ server \in {"up", "down"} /\ hurt = (server = "down")
  /\ ill = 0 /\ worstIll = 0
  /\ sent = 0 /\ checks = 0 /\ alive = 0 /\ late = FALSE
  /\ blocks \in (IF leg = "slow" THEN BOOLEAN ELSE {FALSE})
  /\ reader = [r \in Readers |-> "off"] /\ stop = FALSE /\ blocked = {}
  /\ line = [c \in Checks |-> ""]

Say(c, ok) == line' = [line EXCEPT ![c] = IF ok THEN "OK" ELSE "FAIL"]

\* The server falls ill, and is restarted by whoever watches over it.
Ail == /\ server = "up" /\ step \notin {"start", "done"}
       /\ \E s \in {"late", "down"} : server' = s
       /\ hurt' = TRUE /\ UNCHANGED <<leg, step, ill, worstIll, fuzz, slow, line>>
Recover == /\ server # "up" /\ step # "start"
           /\ server' = "up" /\ ill' = 0
           /\ UNCHANGED <<leg, step, hurt, worstIll, fuzz, slow, line>>

------------------------------------------------------------------------------
(* The fuzzer.                                                                *)

Fuzzing == leg = "fuzz" /\ UNCHANGED <<leg, slow>>

\* alive, before anything is sent.
FuzzStart ==
  /\ Fuzzing /\ step = "start"
  /\ IF server = "down" THEN step' = "done" /\ Say("survived", FALSE)
     ELSE step' = "mutate" /\ UNCHANGED line
  /\ UNCHANGED <<health, fuzz>>

\* Fault: nobody asks between the batches.
MutateOn ==
  /\ Fuzzing /\ step = "mutate" /\ sent < Rounds
  /\ sent' = sent + 1
  /\ ill' = IF server = "up" THEN 0 ELSE ill + 1
  /\ worstIll' = IF ill' > worstIll THEN ill' ELSE worstIll
  /\ UNCHANGED <<step, server, hurt, checks, alive, late, line>>

\* One malformed request; what the server makes of it is not looked at.
Mutate ==
  /\ Fuzzing /\ step = "mutate" /\ sent < Rounds
  /\ sent' = sent + 1
  /\ ill' = IF server = "up" THEN 0 ELSE ill + 1
  /\ worstIll' = IF ill' > worstIll THEN ill' ELSE worstIll
  /\ step' = IF sent % Batch = Batch - 1 THEN "check" ELSE "mutate"
  /\ UNCHANGED <<server, hurt, checks, alive, late, line>>

\* A well-formed OPTIONS.
Alive ==
  /\ checks' = checks + 1
  /\ alive' = IF server = "down" THEN alive ELSE alive + 1
  /\ late' = (late \/ server = "late")
  /\ UNCHANGED <<health, sent>>

Probe == /\ Fuzzing /\ step = "check" /\ step' = "mutate"
         /\ Alive /\ UNCHANGED line

\* The rounds are over, or the budget is: a last check, and the verdict.
FuzzEnd ==
  /\ Fuzzing /\ step = "mutate"
  /\ Alive
  /\ Say("survived", alive' = checks' /\ ~late')
  /\ step' = "done"

------------------------------------------------------------------------------
(* The slow readers.                                                          *)

Slowly == leg = "slow" /\ UNCHANGED <<leg, fuzz, blocks>>

Holding == \E r \in Readers : reader[r] = "holds"
Serves == server = "up" /\ ~(blocks /\ Holding)

\* A client that keeps up asks for its frames.
Asks(c) == /\ Say(c, Serves)
           /\ blocked' = IF blocks /\ Holding THEN blocked \cup {c} ELSE blocked

Baseline ==
  /\ Slowly /\ step = "start" /\ step' = "readers"
  /\ Say("baseline", Serves)
  /\ reader' = [r \in Readers |-> "new"]
  /\ UNCHANGED <<health, stop, blocked>>

\* slow_rtsp: a session, or an exception that nobody sees; then a byte at a time
\* until the event is set or the server hangs up.  A reader that is late with its
\* requests has its session even after the event.
Hold(r) ==
  /\ Slowly /\ reader[r] = "new"
  /\ \E s \in (IF Serves THEN {"holds", "left"} ELSE {"left"}) : reader' = [reader EXCEPT ![r] = s]
  /\ UNCHANGED <<step, health, stop, blocked, line>>
Leave(r) ==
  /\ Slowly /\ reader[r] \in {"new", "holds"} /\ (stop \/ server = "down")
  /\ reader' = [reader EXCEPT ![r] = "left"]
  /\ UNCHANGED <<step, health, stop, blocked, line>>

\* The client that keeps up, three seconds into the readers.
Served ==
  /\ Slowly /\ step = "readers" /\ step' = "hold"
  /\ Asks("served")
  /\ UNCHANGED <<health, reader, stop>>

Stop ==
  /\ Slowly /\ step = "hold" /\ step' = "join"
  /\ stop' = TRUE
  /\ UNCHANGED <<health, reader, blocked, line>>

\* The readers are joined, five seconds each, and whoever is still at it then is
\* left behind; the client asks once more.
Healthy ==
  /\ Slowly /\ step = "join" /\ step' = "done"
  /\ Asks("healthy")
  /\ UNCHANGED <<health, reader, stop>>

Done == step = "done" /\ UNCHANGED vars

Next == Ail \/ Recover \/ FuzzStart \/ Mutate \/ Probe \/ FuzzEnd
        \/ Baseline \/ (\E r \in Readers : Hold(r) \/ Leave(r)) \/ Served \/ Stop \/ Healthy
        \/ Done

Spec == Init /\ [][Next]_vars

------------------------------------------------------------------------------
(* Properties.                                                                *)

\* "A parser that crashes, hangs, or wedges the accept loop is caught": a server
\* that is down or late for more than a batch of malformed requests, or still
\* behind the last of them, fails; one that never was passes.  And a server that
\* keeps its clients waiting behind a slow reader fails the line of the client
\* beside it, as it does the line of the client behind it where a reader outlasts
\* the five seconds it is waited for; nothing else does that to a healthy one.
AbuseTells ==
  /\ line["survived"] = "OK" => worstIll <= Batch /\ ill = 0
  /\ ~hurt => line["survived"] # "FAIL" /\ line["baseline"] # "FAIL"
  /\ \A c \in {"served", "healthy"} :
       /\ line[c] = "OK" => c \notin blocked
       /\ ~hurt /\ line[c] = "FAIL" => c \in blocked
==============================================================================
