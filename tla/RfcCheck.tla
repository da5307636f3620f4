------------------------------- MODULE RfcCheck -------------------------------
(* The conformance probe, src/probes/rfc_check.py: one session of requests    *)
(* and counted frames, two connections on the side in its middle and two      *)
(* behind it, and a line of output for every check.  A request waits on the   *)
(* socket's timeout, which is one of a single recv and is changed on the way; *)
(* frames that arrive meanwhile keep it from expiring.  A challenge is        *)
(* answered inside the request.  Times are half seconds.                      *)
EXTENDS Naturals, Sequences, FiniteSets

CONSTANTS
  Faults,     \* bound: answers and connections that are not the good ones
  Many, Few   \* frames of a window of a stream; frames in flight at a PAUSE

\* A window of a stream brings more than the ten frames the lines ask for.
ConstAssumption == Faults \in Nat /\ Many \in Nat /\ Many > 10 /\ Few \in Nat

VARIABLES
  at, end,    \* the step, and "running", "exit", "died" (a traceback) or "stuck"
  sock, cseq, saved,         \* s, cseq, and the pair a side probe has put by
  tmo,        \* Conn -> the timeout of its socket
  asked, link,               \* Conn -> requests sent on it; "none", "open", "closed"
              \*         by the probe, "shut" by the server
  faults,     \* faults so far
  media, flight, obeyed,     \* the server sends; frames not yet read; it obeyed PAUSE
  lost, glued, declared,     \* frames ahead of and right behind PLAY's answer; the
                             \* number of the first in RTP-Info, 0 without one
  bye,                       \* where the server puts its BYE, if it is one of TEARDOWN
  pre, paused,               \* counts of frame_rate
  said        \* check -> its line, "" while there is none

client == <<at, end, said, sock, cseq, asked, link, faults>>
stream == <<media, flight, obeyed, lost, glued, declared, bye>>
counts == <<pre, paused>>
vars == <<client, saved, tmo, stream, counts>>

Conn == {"main", "side1", "side2", "rob1", "rob2"}
Body == {"options", "require", "keepalive", "describe", "side1", "side2", "setup", "play",
         "sr", "param", "teardown", "bye"}
Pause == {"halts", "resumes"}
Battery == {"bogus", "garbage", "session", "healthy"}
Check == Body \cup Pause \cup Battery \cup {"anchor", "pause", "battery"}

Init ==
  /\ at = "options" /\ end = "running"
  /\ sock = "main" /\ cseq = 0 /\ saved = <<"main", 0>>
  /\ tmo = [c \in Conn |-> 12]
  /\ asked = [c \in Conn |-> 0]
  /\ link = [c \in Conn |-> IF c = "main" THEN "open" ELSE "none"]
  /\ faults = 0
  /\ media = FALSE /\ flight = 0 /\ obeyed = FALSE
  /\ lost = 0 /\ glued = 0 /\ declared = 0 /\ bye = "none"
  /\ pre = 0 /\ paused = 0
  /\ said = [c \in Check |-> ""]

\* Where a step leads: the next one, the check it has a line for, and the line.
To(next, check, line) == [at |-> next, check |-> check, line |-> line]
Go(next) == To(next, "none", "")
Dies == Go("died")
Verdict(ok) == IF ok THEN "OK" ELSE "FAIL"

Final == {"exit", "died", "stuck"}
Take(t) ==
  /\ IF t.at \in Final THEN end' = t.at /\ UNCHANGED at ELSE at' = t.at /\ UNCHANGED end
  /\ said' = IF t.line = "" THEN said ELSE [said EXCEPT ![t.check] = t.line]

Now(step) == at = step /\ end = "running"

------------------------------------------------------------------------------
(* req: one request on s, and what becomes of it.                             *)

\* "slow" and "late" are good answers after 1 s and 4 s, "shut" is the end of
\* the connection, "reset" what a request on a closed one meets, and "half" an
\* answer cut off in its body, whose reader goes round on the empty recv.
Outcome == {"good", "bad", "slow", "late", "none", "shut", "half", "reset"}
Wait(o) == CASE o = "slow" -> 2 [] o = "late" -> 8 [] o = "none" -> 99 [] OTHER -> 0

Result(o) ==
  CASE o = "half" \/ (o = "none" /\ media /\ sock = "main") -> "stuck"
    [] o = "reset" \/ (Wait(o) >= tmo[sock] /\ ~(media /\ sock = "main")) -> "raises"
    [] o \in {"bad", "shut"} -> "bad"
    [] OTHER -> "good"

Request(o) ==
  /\ IF link[sock] = "open"
     THEN /\ o # "reset" /\ (o # "good" => faults < Faults)
          /\ faults' = faults + (IF o = "good" THEN 0 ELSE 1)
     ELSE o \in {"shut", "reset"} /\ UNCHANGED faults
  /\ link' = [link EXCEPT ![sock] = IF o \in {"shut", "reset", "half"} THEN "shut" ELSE @]
  /\ cseq' = cseq + 1
  /\ asked' = [asked EXCEPT ![sock] = @ + 1]
  /\ UNCHANGED sock

\* A step that sends one request and goes on by its answer.
Ask(step, good, bad, raised) == \E o \in Outcome :
  /\ Now(step)
  /\ Request(o)
  /\ Take(CASE Result(o) = "good" -> good [] Result(o) = "bad" -> bad
            [] Result(o) = "raises" -> raised [] Result(o) = "stuck" -> Go("stuck"))
  /\ UNCHANGED saved

\* The same for a check whose line is OK, or poor when the answer is bad.
Checked(step, poor, next) == Ask(step, To(next, step, "OK"), To(next, step, poor), Dies)

Quiet == UNCHANGED <<tmo, stream, counts>>

\* The requests ahead of the session: two of them may find the method missing.
Lead ==
  /\ \/ Checked("options", "FAIL", "require")
     \/ Checked("require", "SKIP", "keepalive")
     \/ Checked("keepalive", "SKIP", "describe")
     \/ Checked("describe", "FAIL", "connect1")
  /\ Quiet

------------------------------------------------------------------------------
(* Connections of their own: the transport specs and the robustness battery.  *)

\* s and cseq are put by for a side probe, and not for the battery.
Connect(step, c, next, refused) ==
  /\ Now(step)
  /\ saved' = <<sock, cseq>>
  /\ \/ /\ link' = [link EXCEPT ![c] = "open"]
        /\ sock' = c /\ cseq' = 0 /\ Take(Go(next)) /\ UNCHANGED faults
     \/ /\ faults < Faults /\ faults' = faults + 1
        /\ Take(refused) /\ UNCHANGED <<link, sock, cseq>>
  /\ UNCHANGED asked /\ Quiet

\* Fault: cseq stays the side connection's.
BackNumbered(step, c, next) ==
  /\ Now(step) /\ Take(Go(next))
  /\ link' = [link EXCEPT ![c] = "closed"]
  /\ sock' = saved[1]
  /\ UNCHANGED <<cseq, asked, faults, saved>> /\ Quiet

\* finally: the connection is closed, and s and cseq are the session's again.
Back(step, c, next) ==
  /\ Now(step) /\ Take(Go(next))
  /\ link' = [link EXCEPT ![c] = "closed"]
  /\ sock' = saved[1] /\ cseq' = saved[2]
  /\ UNCHANGED <<asked, faults, saved>> /\ Quiet

\* SETUP, and TEARDOWN of the session it gave: either fails the check by not
\* being answered.
Side(c, connect, gone, back, next) ==
  \/ Connect(connect, c, c, To(back, c, "FAIL"))
  \/ Ask(c, Go(gone), To(back, c, "FAIL"), To(back, c, "FAIL")) /\ Quiet
  \/ Ask(gone, To(back, c, "OK"), To(back, c, "OK"), To(back, c, "FAIL")) /\ Quiet
  \/ Back(back, c, next)

Transports == \/ Side("side1", "connect1", "gone1", "back1", "connect2")
              \/ Side("side2", "connect2", "gone2", "back2", "setup")

Broken == To("exit", "battery", "FAIL")
Tried(step, next) == Ask(step, To(next, step, "OK"), To(next, step, "FAIL"), Broken) /\ Quiet
Robustness ==
  \/ Connect("battery", "rob1", "bogus", Broken)
  \/ Tried("bogus", "garbage") \/ Tried("garbage", "session") \/ Tried("session", "again")
  \/ Connect("again", "rob2", "healthy", Broken)
  \/ Tried("healthy", "exit")

------------------------------------------------------------------------------
(* The session.                                                               *)

\* No Session header ends the probe, with exit code 0.
Setup == /\ Ask("setup", To("audio", "setup", "OK"), To("exit", "setup", "FAIL"), Dies)
         /\ Quiet

SetupAudio == Ask("audio", Go("play"), Go("play"), Dies) /\ Quiet

\* A good answer starts the stream; a frame that is ahead of it is dropped with
\* the bytes before the status line, one right behind it is the leftover.
Play ==
  /\ Ask("play", To("collect", "play", "OK"), To("collect", "play", "FAIL"), Dies)
  /\ IF at' = "collect" /\ said'["play"] = "OK"
     THEN /\ media' \in BOOLEAN
          /\ declared' \in {1, 2}
          /\ lost' \in (IF media' THEN {0, 1} ELSE {0})
          /\ glued' \in (IF media' THEN {0, 1} ELSE {0})
     ELSE UNCHANGED <<media, declared, lost, glued>>
  /\ UNCHANGED <<tmo, counts, flight, obeyed, bye>>

\* The window of frames: the first one seen is held against the declaration.
\* A connection that was closed gives empty reads until the window is over.
FirstSeen == lost + 1
Collect ==
  /\ Now("collect")
  /\ tmo' = [tmo EXCEPT !["main"] = 4]
  /\ \E reports \in (IF media THEN BOOLEAN ELSE {FALSE}) :
       /\ at' = "param" /\ UNCHANGED end
       /\ said' = [said EXCEPT !["sr"] = Verdict(reports),
                               !["anchor"] = IF declared # 0 /\ media
                                             THEN Verdict(declared = FirstSeen) ELSE @]
  /\ UNCHANGED <<sock, cseq, asked, link, faults, saved, stream, counts>>

\* Or an exception that none of the windows catches: only the timeout is.
Cut(step) ==
  /\ Now(step) /\ link["main"] = "shut" /\ Take(Dies)
  /\ tmo' = [tmo EXCEPT !["main"] = IF step = "collect" THEN 4 ELSE 1]
  /\ UNCHANGED <<sock, cseq, asked, link, faults, saved, stream, counts>>
CutOff == \E step \in {"collect", "pre", "drain", "paused", "resumed"} : Cut(step)

Param == Checked("param", "FAIL", "pre") /\ Quiet

Delivered == (IF media /\ link["main"] = "open" THEN Many ELSE 0) + flight

\* frame_rate: what the window delivers, with a timeout of half a second that
\* stays on the socket.
FrameRate(step, next) ==
  /\ Now(step) /\ Take(Go(next))
  /\ tmo' = [tmo EXCEPT !["main"] = 1]
  /\ flight' = 0
  /\ UNCHANGED <<sock, cseq, asked, link, faults, saved, media, obeyed, lost, glued,
                 declared, bye>>

Before == FrameRate("pre", "pause") /\ pre' = Delivered /\ UNCHANGED paused

\* The server may answer 200 and send on, or stop with frames on the way.
AskPause ==
  /\ Ask("pause", Go("drain"), To("teardown", "pause", "FAIL"), Dies)
  /\ IF at' = "drain"
     THEN /\ media' \in {media, FALSE} /\ flight' \in {0, Few}
          /\ obeyed' = (media /\ ~media')
     ELSE UNCHANGED <<media, flight, obeyed>>
  /\ UNCHANGED <<tmo, counts, lost, glued, declared, bye>>

\* Fault: the frames in flight are not drained.
DrainNot == Now("drain") /\ Take(Go("paused"))
            /\ UNCHANGED <<sock, cseq, asked, link, faults, saved, tmo, stream, counts>>

Drain == FrameRate("drain", "paused") /\ UNCHANGED counts
Paused == FrameRate("paused", "resume") /\ paused' = Delivered /\ UNCHANGED pre

\* PLAY again, and a last window.  Both lines are said behind it.
Resume ==
  /\ Ask("resume", Go("resumed"), Go("resumed"), Dies)
  /\ IF at' = "resumed" THEN media' \in {media, TRUE} ELSE UNCHANGED media
  /\ UNCHANGED <<tmo, counts, flight, obeyed, lost, glued, declared, bye>>
Threshold == IF pre \div 10 > 3 THEN pre \div 10 ELSE 3
Resumed ==
  /\ Now("resumed") /\ at' = "teardown" /\ UNCHANGED end
  /\ said' = [said EXCEPT !["halts"] = Verdict(pre > 10 /\ paused < Threshold),
                          !["resumes"] = Verdict(Delivered > 10)]
  /\ UNCHANGED <<sock, cseq, asked, link, faults, saved, tmo, stream, counts>>

\* The BYE ahead of the answer, behind it, after the probe has stopped looking,
\* or not at all.  When the connection ends without an answer, what came ahead
\* of the end is dropped, and pre_response is still an earlier answer's.
Teardown ==
  /\ Checked("teardown", "FAIL", "bye")
  /\ bye' \in (IF link'["main"] = "open" THEN {"ahead", "behind", "late", "none"}
              ELSE {"dropped", "stale", "none"})
  /\ UNCHANGED <<tmo, counts, media, flight, obeyed, lost, glued, declared>>

\* The bytes from before the status line are looked through with those behind
\* it; the socket's exceptions are caught, and a BYE that is not seen excused.
ByeSeen == bye \in {"ahead", "behind", "stale"}
Bye ==
  /\ Now("bye")
  /\ Take(To("battery", "bye", IF ByeSeen THEN "OK" ELSE "SKIP"))
  /\ link' = [link EXCEPT !["main"] = "closed"]
  /\ UNCHANGED <<sock, cseq, asked, faults, saved, tmo, stream, counts>>

Session == Setup \/ SetupAudio \/ Play \/ Collect \/ CutOff \/ Param \/ Before \/ AskPause \/ Drain
           \/ Paused \/ Resume \/ Resumed \/ Teardown \/ Bye

Done == end # "running" /\ UNCHANGED vars

Next == Lead \/ Transports \/ Session \/ Robustness \/ Done

Spec == Init /\ [][Next]_vars

------------------------------------------------------------------------------
(* Properties.                                                                *)

\* Whatever becomes of the connections on the side and of their requests, a
\* probe that comes to an end by itself has lost no line to them: a traceback is
\* of the session's own requests, the session goes on with its own socket, every
\* connection sees its requests numbered without a gap, and a probe that ran out,
\* with a session, has said a line for every check.  It says nothing of a probe
\* that never ends, see SideHarmless.
Contained ==
  /\ cseq = asked[sock]
  /\ end = "died" => sock = "main"
  /\ at \in {"connect2", "setup"} => sock = "main" /\ said["side1"] # ""
  /\ at = "setup" => said["side2"] # ""
  /\ end = "exit" /\ said["setup"] = "OK" =>
       /\ \A c \in Body : said[c] # ""
       /\ said["pause"] # "" \/ \A c \in Pause : said[c] # ""
       /\ said["battery"] # "" \/ \A c \in Battery : said[c] # ""

\* "an unanswered SETUP must FAIL this one check, never take down the whole
\* probe": no request of a side connection is the probe's last.
SideHarmless == end \in {"died", "stuck"} => sock \notin {"side1", "side2"}

\* The verdicts about delivery are about the server: PAUSE halts when frames
\* flowed and it stopped sending, however many were under way; the declaration
\* is right when it names the first frame, unless that frame overtook the answer
\* of PLAY; a BYE on either side of the answer of TEARDOWN is credited, and none
\* is that was never sent.  A BYE ahead of a connection that ends without an
\* answer is excused as not sent.
DeliverySound ==
  /\ said["halts"] = "OK" => obeyed
  /\ said["halts"] = "FAIL" => ~obeyed \/ pre <= 10
  /\ lost = 0 /\ said["anchor"] # "" => (said["anchor"] = "OK" <=> declared = 1)
  /\ bye \in {"ahead", "behind"} => said["bye"] # "SKIP"
  /\ bye \in {"late", "none"} => said["bye"] # "OK"
==============================================================================
