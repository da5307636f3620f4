----------------------------- MODULE Interleaved -----------------------------
(* What a server owes a client that asked for interleaved media (RFC 2326,    *)
(* 10.12): on each connection the requests are answered once each and in      *)
(* order, packets and sender reports appear only when a PLAY has been         *)
(* answered, each once and in order, and a connection the server has closed   *)
(* carries nothing more.                                                      *)
EXTENDS Naturals

CONSTANT Conn                        \* the connections

VARIABLES
  answer,     \* Conn -> the number of the last answer the connection carried
  packet,     \* Conn -> the number of the last packet
  report,     \* Conn -> the number of the last sender report
  played,     \* Conn -> whether an answer was one to PLAY
  shut        \* Conn -> whether the server has closed the connection

vars == <<answer, packet, report, played, shut>>

Init ==
  /\ answer = [c \in Conn |-> 0]
  /\ packet = [c \in Conn |-> 0]
  /\ report = [c \in Conn |-> 0]
  /\ played = [c \in Conn |-> FALSE]
  /\ shut = [c \in Conn |-> FALSE]

Answer(c) ==
  /\ ~shut[c]
  /\ answer' = [answer EXCEPT ![c] = @ + 1]
  /\ played' \in {played, [played EXCEPT ![c] = TRUE]}
  /\ UNCHANGED <<packet, report, shut>>

Packet(c) ==
  /\ ~shut[c] /\ played[c]
  /\ packet' = [packet EXCEPT ![c] = @ + 1]
  /\ UNCHANGED <<answer, report, played, shut>>

Report(c) ==
  /\ ~shut[c] /\ played[c]
  /\ report' = [report EXCEPT ![c] = @ + 1]
  /\ UNCHANGED <<answer, packet, played, shut>>

Shut(c) ==
  /\ shut' = [shut EXCEPT ![c] = TRUE]
  /\ UNCHANGED <<answer, packet, report, played>>

Next == \E c \in Conn : Answer(c) \/ Packet(c) \/ Report(c) \/ Shut(c)

Spec == Init /\ [][Next]_vars
==============================================================================
