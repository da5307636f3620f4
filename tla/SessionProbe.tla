----------------------------- MODULE SessionProbe -----------------------------
(* The session lifecycle probe, src/probes/session_probe.py, under the        *)
(* timeout its caller gives it (raptor-test, sessions): a viewer that goes    *)
(* silent and must be forgotten (reap), and one that moves from TCP to UDP in *)
(* the middle of its session (switch).  Times are seconds; a stream is dense  *)
(* when its packets are less than 50 ms apart.                                *)
EXTENDS Naturals

CONSTANTS
  Advertised, \* the session timeouts of the servers
  Limit,      \* mode -> what the caller gives the probe: 110 and 40
  Many, Few   \* packets a window of a stream brings; packets still under way

\* A window of a stream brings more than the ten packets the lines ask for, and
\* what is still under way is fewer.
ConstAssumption ==
  /\ Advertised \subseteq Nat
  /\ Many \in Nat /\ Many > 10
  /\ Few \in Nat /\ Few < 10

VARIABLES
  leg,        \* the mode of the probe
  server,     \* what the server does, see Servers
  step, t,    \* where the probe is, and the time since its start
  buffer,     \* packets in the buffers of the probe's sockets
  line        \* check -> its line

sess == <<leg, server, step, t, buffer, line>>

\* adv: the timeout it advertises; keeps: whether the media go on behind it;
\* control: the answer on the control connection afterwards, "live" when the
\* session is still there; dense; moves: what the re-SETUP does to the media,
\* or how it is refused; flows: whether there are media to begin with.
Servers == [adv : Advertised, keeps : BOOLEAN, dense : BOOLEAN, flows : BOOLEAN,
            control : {"shut", "454", "live", "mute"},
            moves : {"udp", "tcp", "both", "none", "refused", "refusedBroken"}]

Checks == {"flows", "stops", "torn", "before", "refused", "follows", "quiesced"}

Init ==
  /\ leg \in {"reap", "switch"}
  /\ server \in Servers
  /\ leg = "reap" => server.moves = "udp"
  /\ leg = "switch" => server.control = "live" /\ ~server.keeps /\ server.adv = 60
  /\ step = "setup" /\ t = 0 /\ buffer = 0
  /\ line = [c \in Checks |-> ""]

Say(c, ok) == line' = [line EXCEPT ![c] = IF ok THEN "OK" ELSE "FAIL"]

\* timeout kills the probe where it stands; what it has printed stays.
Go(next, secs) ==
  /\ t' = t + secs
  /\ step' = IF t + secs < Limit[leg] THEN next ELSE "killed"
InTime(secs) == t + secs < Limit[leg]

------------------------------------------------------------------------------
(* reap.                                                                      *)

Silent == leg = "reap" /\ UNCHANGED <<leg, server>>

\* udp_count: what a window finds, what was there before it included.
Counted(sends) == buffer + (IF sends THEN Many ELSE 0)

\* An advertised timeout of more than 120 s is not waited for.
Flows ==
  /\ Silent /\ step = "setup"
  /\ Go(IF server.adv > 120 THEN "done" ELSE "silence", 3)
  /\ Say("flows", Counted(server.flows) > 10)
  /\ UNCHANGED buffer

\* sleep(adv + 8): what arrives meanwhile waits in the buffer.
Silence ==
  /\ Silent /\ step = "silence"
  /\ Go("drain", server.adv + 8)
  /\ buffer' = IF server.flows THEN Many ELSE 0
  /\ UNCHANGED line

Sending == server.flows /\ server.keeps

\* Fault: what gathered during the sleep is left for the count.
DrainNot ==
  /\ Silent /\ step = "drain"
  /\ Go("count", 0)
  /\ UNCHANGED <<buffer, line>>

\* Until nothing comes for 50 ms.
Drain ==
  /\ Silent /\ step = "drain"
  /\ buffer' = 0
  /\ IF Sending /\ server.dense THEN Go("drain", 1) ELSE Go("count", 0)
  /\ UNCHANGED line

Count ==
  /\ Silent /\ step = "count"
  /\ Go("control", 4)
  /\ IF InTime(4) THEN Say("stops", Counted(Sending) = 0) ELSE UNCHANGED line
  /\ UNCHANGED buffer

\* The session is gone when the connection is, when it is not known any more, or
\* when nothing answers for 3 s.
Control ==
  /\ Silent /\ step = "control"
  /\ Go("done", IF server.control = "mute" THEN 3 ELSE 0)
  /\ IF InTime(3) THEN Say("torn", server.control # "live") ELSE UNCHANGED line
  /\ UNCHANGED buffer

------------------------------------------------------------------------------
(* switch.                                                                    *)

Moving == leg = "switch" /\ UNCHANGED <<leg, server>>

Before ==
  /\ Moving /\ step = "setup"
  /\ Go("resetup", 3)
  /\ Say("before", Counted(server.flows) > 10)
  /\ buffer' = IF server.flows THEN Few ELSE 0

Refused == server.moves \in {"refused", "refusedBroken"}

\* A refusal is one with 455 behind which the session still answers.
Refusal ==
  /\ Moving /\ step = "resetup" /\ Refused
  /\ Go("done", 0)
  /\ Say("refused", server.moves = "refused")
  /\ UNCHANGED buffer

\* Four seconds of UDP, in which the interleaved frames gather; two of TCP.
Follows ==
  /\ Moving /\ step = "resetup" /\ ~Refused
  /\ Go("tcp", 4)
  /\ Say("follows", (IF server.flows /\ server.moves \in {"udp", "both"} THEN Many ELSE 0) > 10)
  /\ buffer' = buffer + (IF server.flows /\ server.moves \in {"tcp", "both"} THEN Many ELSE 0)

Quiesced ==
  /\ Moving /\ step = "tcp"
  /\ Go("done", 2)
  /\ Say("quiesced", Counted(server.flows /\ server.moves \in {"tcp", "both"}) < 10)
  /\ UNCHANGED buffer

Ended == step \in {"done", "killed"} /\ UNCHANGED sess

Next == Flows \/ Silence \/ Drain \/ Count \/ Control
        \/ Before \/ Refusal \/ Follows \/ Quiesced \/ Ended

Spec == Init /\ [][Next]_sess

------------------------------------------------------------------------------
(* Properties.                                                                *)

\* The lines are about the server: what piled up while the probe slept or counted
\* elsewhere is not held against one that has stopped, and a stream that goes on
\* where it should have ended is never passed.
SessionSound ==
  /\ server.flows /\ line["stops"] # "" => (line["stops"] = "OK" <=> ~server.keeps)
  /\ line["torn"] = "FAIL" => server.control = "live"
  /\ line["torn"] = "OK" => server.control # "live"
  /\ server.flows /\ line["follows"] # "" =>
       (line["follows"] = "OK" /\ line["quiesced"] = "OK" => server.moves = "udp")
  /\ server.flows /\ server.moves = "udp" => "FAIL" \notin {line["follows"], line["quiesced"]}

\* "A server that honors its advertised Session timeout must stop the media flow
\* and close the session; one that does not leaks a client slot": the reap probe
\* that saw media and found the timeout worth waiting for says which.
ReapJudged ==
  leg = "reap" /\ step \in {"done", "killed"} /\ line["flows"] = "OK" /\ server.adv <= 120
    => line["stops"] # ""
==============================================================================
