------------------------------- MODULE RhdCold -------------------------------
(* The cold-start probe of the HTTP daemon, src/probes/rhd_cold.py: snapshots *)
(* after a pause in which the encoder stops, one alone, one right behind it,  *)
(* and two at once for two streams.  The daemon starts the encoder of a       *)
(* stream that has none, and serves requests one by one or all at once.       *)
(* Times are seconds.                                                         *)
EXTENDS Integers, Sequences, FiniteSetsExt

CONSTANTS
  Starts,     \* how long the start of an encoder may take
  Budget,     \* BUDGET_S: 8
  Patience    \* of a request: BUDGET_S + 4

\* The start of an encoder takes some time.
ConstAssumption ==
  /\ Starts \subseteq Nat \ {0}
  /\ Budget \in Nat /\ Patience \in Nat /\ Budget <= Patience

Stream == {0, 1}

VARIABLES
  inline,     \* the daemon serves one request at a time
  start,      \* Stream -> how long its encoder takes to start
  up,         \* the streams whose encoder runs
  step, clock,
  queue,      \* the requests the daemon has, in the order they came
  left,       \* Stream -> what is left of the work for its request
  el,         \* Stream -> the elapsed time of its last snap, -1 when unanswered
  line        \* check -> its line

vars == <<inline, start, up, step, clock, queue, left, el, line>>

Checks == {"cold", "warm", "both", "concurrent"}

Init ==
  /\ inline \in BOOLEAN /\ start \in [Stream -> Starts]
  /\ up \in SUBSET Stream
  /\ step = "idle" /\ clock = 0 /\ queue = <<>>
  /\ left = [s \in Stream |-> 0] /\ el = [s \in Stream |-> 0]
  /\ line = [c \in Checks |-> ""]

Verdict(ok) == IF ok THEN "OK" ELSE "FAIL"

\* Fault: the pause is too short for an encoder to stop.
RestShort == up' = up

\* Nothing asks for pictures, and the encoders stop.
Rest == up' = {}

\* The requests of a leg, one thread each, all at time zero, in one of the orders.
Alone == {<<0>>}
Both == {<<0, 1>>, <<1, 0>>}
Ask(orders) ==
  /\ clock' = 0 /\ queue' \in orders
  /\ left' = [s \in Stream |-> IF s \in up' THEN 0 ELSE start[s]]

Idle(from, to, orders) ==
  /\ step = from /\ step' = to
  /\ Rest /\ Ask(orders)
  /\ UNCHANGED <<inline, start, el, line>>

\* The requests the daemon is at work on.
Served == IF inline THEN {queue[1]} ELSE {queue[i] : i \in DOMAIN queue}

Tick ==
  /\ queue # <<>>
  /\ \A s \in Served : left[s] > 0
  /\ clock < Patience
  /\ clock' = clock + 1
  /\ left' = [s \in Stream |-> IF s \in Served THEN left[s] - 1 ELSE left[s]]
  /\ UNCHANGED <<inline, start, up, step, queue, el, line>>

\* The other request, if there is one, when s is done.
Without(s) == IF Head(queue) = s THEN Tail(queue) ELSE <<Head(queue)>>

\* A request ends when its picture is there, or when its patience is over; what
\* it measures is its own time, the wait for others included.
Reply(s) ==
  /\ \E i \in DOMAIN queue : queue[i] = s
  /\ (s \in Served /\ left[s] = 0) \/ clock = Patience
  /\ el' = [el EXCEPT ![s] = IF left[s] = 0 /\ s \in Served THEN clock ELSE -1]
  /\ up' = up \cup {s}
  /\ queue' = Without(s)
  /\ UNCHANGED <<inline, start, step, clock, left, line>>

------------------------------------------------------------------------------
Answered(s) == el[s] # -1

ColdDone ==
  /\ step = "cold" /\ queue = <<>>
  /\ line' = [line EXCEPT !["cold"] = Verdict(Answered(0) /\ el[0] < Budget)]
  /\ step' = "warm"
  /\ UNCHANGED up /\ Ask(Alone)
  /\ UNCHANGED <<inline, start, el>>

WarmDone ==
  /\ step = "warm" /\ queue = <<>>
  /\ line' = [line EXCEPT !["warm"] = Verdict(Answered(0))]
  /\ step' = "idle2"
  /\ UNCHANGED <<inline, start, up, clock, queue, left, el>>

\* Both threads are joined; the clock then is the wall time of the leg.
Slowest == Max({el[s] : s \in Stream})
Total == el[0] + el[1]
PairDone ==
  /\ step = "pair" /\ queue = <<>>
  /\ LET both == Answered(0) /\ Answered(1)
     IN  line' = [line EXCEPT !["both"] = Verdict(both),
                              !["concurrent"] = Verdict(both /\ 2 * clock < Slowest + Total)]
  /\ step' = "done"
  /\ UNCHANGED <<inline, start, up, clock, queue, left, el>>

Done == step = "done" /\ UNCHANGED vars

Next == Idle("idle", "cold", Alone) \/ Idle("idle2", "pair", Both) \/ Tick
        \/ (\E s \in Stream : Reply(s)) \/ ColdDone \/ WarmDone \/ PairDone \/ Done

Spec == Init /\ [][Next]_vars

------------------------------------------------------------------------------
(* Properties.                                                                *)

\* The cold line is about the start of the encoder, whatever had been watching
\* before: it fails exactly when the start takes more than the budget, and what
\* was cold is warm for the next request.
ColdSound ==
  /\ line["cold"] # "" => (line["cold"] = "OK" <=> start[0] < Budget)
  /\ line["cold"] = "OK" => line["warm"] # "FAIL"
  /\ ~inline /\ (\A s \in Stream : start[s] <= Patience) => line["concurrent"] # "FAIL"

\* "served concurrently the wall clock is the slower of the two, served inline it
\* is their sum": a daemon that serves the second request behind the first fails
\* the line that says so.
HeadOfLineTold == inline => line["concurrent"] # "OK"
==============================================================================
