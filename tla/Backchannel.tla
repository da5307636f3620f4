----------------------------- MODULE Backchannel -----------------------------
(* The backchannel leg: src/probes/backchannel.py, which offers a camera      *)
(* audio, keeps the session up for a while and leaves, and its caller         *)
(* (raptor-test, backchannel), which runs beside it, looks for the speaker    *)
(* ring on the device while the session lasts, and reads the probe's tokens   *)
(* when it is gone.  What the probe prints reaches the file when it flushes   *)
(* or exits, and not when timeout kills it.  Times are seconds.               *)
EXTENDS Naturals

CONSTANTS
  Limit,      \* timeout: 40
  Send,       \* the sixty frames when media flow: 2; two seconds for each when not
  Hold, Early,\* the hold, and what is left of it behind a receiver report: 8 and 4
  Polls,      \* looks at the device: 10
  Lags        \* how long the speaker ring may trail the audio

\* Audio that is taken is sent in time for the hold, which ends in time for the
\* session; a camera that makes a ring has made it two seconds before the
\* shortest hold ends, and the looks at the device last until then.
ConstAssumption ==
  /\ Limit \in Nat /\ Limit < 99
  /\ Send \in Nat /\ Hold \in Nat /\ Early \in Nat /\ Polls \in Nat
  /\ Early < Hold /\ Send + Hold < Limit
  /\ Lags \subseteq Nat
  /\ \A lag \in Lags : lag + 2 <= Send + Hold - Early /\ lag < 99
  /\ Hold - Early <= Polls

VARIABLES
  server,     \* what the camera does, see Servers
  t,
  step, since,\* where the probe is, and since when
  out, file,  \* the tokens it has printed, and those that are in the file
  rr,         \* a receiver report has been seen
  ring,       \* the speaker ring is on the device
  caller, looks,             \* where the caller is; its looks at the device
  BCRING,     \* "unchecked", "no", "yes"
  missed, slow,              \* looks that failed with the ring there, and whether one
              \*            took longer than a second
  line        \* check -> its line

found == <<looks, BCRING, missed, slow>>
vars == <<server, t, step, since, out, file, rr, ring, caller, found, line>>

\* refuses: how far the session gets; flows: whether media do; takes: how much
\* of the audio it reads, "half" is thirty frames and more; reports: whether it
\* sends a receiver report; lag: when the ring is there, 99 for never.
Stage == {"describe", "sendonly", "setup", "play", "alive"}
Servers == [refuses : Stage \cup {"nothing"}, flows : BOOLEAN, takes : {"all", "half", "few"},
            reports : BOOLEAN, lag : Lags \cup {99}]
Checks == {"advertised", "send", "ring"}

Init ==
  /\ server \in Servers
  /\ server.refuses \in {"describe", "sendonly", "setup", "play"} =>
       server.flows /\ server.takes = "all"
  /\ t = 0 /\ step = "describe" /\ since = 0
  /\ out = {} /\ file = {} /\ rr = FALSE /\ ring = FALSE
  /\ caller = "sent" /\ looks = 0 /\ BCRING = "unchecked" /\ missed = 0 /\ slow = FALSE
  /\ line = [c \in Checks |-> ""]

------------------------------------------------------------------------------
(* The probe.                                                                 *)

Gone == step \in {"exit", "killed"}
Probe == UNCHANGED <<server, t, caller, found, line>>

\* A token, and where the probe goes from there.
Note(token, next) ==
  /\ out' = out \cup {token}
  /\ step' = next /\ since' = t

\* The exchanges ahead of the audio: a refusal has its token, and ends the probe.
Ahead(stage, next) ==
  /\ Probe /\ step = stage
  /\ IF server.refuses = stage
     THEN Note(<<stage, "no">>, "exit") /\ file' = out'
     ELSE Note(<<stage, "200">>, next) /\ UNCHANGED file
  /\ UNCHANGED <<rr, ring>>

Opening == \/ Ahead("describe", "sendonly") \/ Ahead("sendonly", "setup")
           \/ Ahead("setup", "play") \/ Ahead("play", "send")

\* Sixty frames, the media drained behind each: a drain that meets none waits
\* out the two seconds of its recv.  A camera that stops reading breaks the
\* sending off sooner, by an exception that ends the probe when it comes from
\* the drain.  The count is flushed.
Sending == IF server.flows THEN Send ELSE 60 * 2
Frames == CASE server.takes = "all" -> "60" [] OTHER -> server.takes
SendOver == t >= since + Sending
Sent ==
  /\ Probe /\ step = "send" /\ (SendOver \/ server.takes # "all")
  /\ Note(<<"sent", Frames>>, "hold")
  /\ file' = out'
  /\ UNCHANGED <<rr, ring>>
Broken ==
  /\ Probe /\ step = "send" /\ server.takes # "all"
  /\ step' = "exit" /\ since' = t /\ file' = out /\ ring' = FALSE
  /\ UNCHANGED <<out, rr>>

\* Fault: a receiver report ends the hold at once.
HoldOverAtReport == t >= since + Hold \/ rr

\* The hold: a receiver report ends it early, and not before its last seconds.
Report ==
  /\ Probe /\ step = "hold" /\ server.reports /\ ~rr
  /\ rr' = TRUE /\ UNCHANGED <<step, since, out, file, ring>>
HoldOver == t >= since + Hold \/ (rr /\ t >= since + Hold - Early)
Held ==
  /\ Probe /\ step = "hold" /\ HoldOver
  /\ Note(<<"rr", IF rr THEN "yes" ELSE "no">>, "alive")
  /\ UNCHANGED <<file, rr, ring>>

\* GET_PARAMETER, TEARDOWN, exit.  A camera that has left a frame half read may
\* still make out the request.  The ring goes with the session.
Alive ==
  /\ Probe /\ step = "alive"
  /\ \E v \in (IF server.refuses = "alive" THEN {"no"}
               ELSE IF server.takes = "all" THEN {"yes"} ELSE {"yes", "no"}) :
       out' = out \cup {<<"alive", v>>}
  /\ file' = out' /\ step' = "exit" /\ since' = t /\ ring' = FALSE
  /\ UNCHANGED rr

\* The device: the ring is made when audio has come for lag seconds.
\* The exchanges took no time.
RingDue == ~ring /\ step \in {"send", "hold"} /\ t >= server.lag
RingUp ==
  /\ RingDue
  /\ ring' = TRUE
  /\ UNCHANGED <<server, t, step, since, out, file, rr, caller, found, line>>

\* timeout: what was not flushed is gone.
Kill ==
  /\ ~Gone /\ t >= Limit
  /\ step' = "killed" /\ ring' = FALSE
  /\ UNCHANGED <<server, t, since, out, file, rr, caller, found, line>>

------------------------------------------------------------------------------
(* The caller.                                                                *)

Calls == UNCHANGED <<server, step, since, out, file, rr, ring>>
HasToken(token) == \E v \in {"200", "no", "60", "half", "few", "yes"} : <<token, v>> \in file

\* It looks into the file twice a second, for thirty seconds.
AwaitSent ==
  /\ Calls /\ caller = "sent"
  /\ HasToken("sent") \/ Gone \/ t >= 30
  /\ IF HasToken("sent") THEN caller' = "look" /\ BCRING' = "no"
     ELSE caller' = "wait" /\ UNCHANGED BCRING
  /\ UNCHANGED <<t, looks, missed, slow, line>>

\* A look that fails, whatever the reason, is one that does not find the ring.
Look ==
  /\ Calls /\ caller = "look"
  /\ looks' = looks + 1
  /\ \/ ring /\ BCRING' = "yes" /\ caller' = "wait" /\ UNCHANGED missed
     \/ /\ caller' = "pause" /\ UNCHANGED BCRING
        /\ missed' = missed + (IF ring THEN 1 ELSE 0)
  /\ UNCHANGED <<t, slow, line>>

\* It comes back and the caller pauses, in a second or more (bound: while the
\* probe is there, which has no ring to show when it is gone); no other is had
\* when the probe has gone, or this was the last.
NextLook == IF Gone \/ looks = Polls THEN "wait" ELSE "look"
Onward == CASE caller # "pause" -> {caller}
            [] caller = "pause" -> {NextLook} \cup (IF Gone THEN {} ELSE {"pause"})

Verdict(ok) == IF ok THEN "OK" ELSE "FAIL"
Read ==
  /\ Calls /\ caller = "wait" /\ Gone
  /\ caller' = "done"
  /\ line' =
       IF <<"describe", "200">> \notin file THEN [line EXCEPT !["advertised"] = "not accepted"]
       ELSE IF <<"sendonly", "200">> \notin file THEN [line EXCEPT !["advertised"] = "off"]
       ELSE [advertised |-> "OK",
             send |-> Verdict(<<"alive", "yes">> \in file
                              /\ \E v \in {"60", "half"} : <<"sent", v>> \in file),
             ring |-> CASE BCRING = "yes" -> "OK" [] BCRING = "no" -> "FAIL" [] OTHER -> ""]
  /\ UNCHANGED <<t, found>>

------------------------------------------------------------------------------
\* Time passes when nobody has anything to do: the steps of the probe that take
\* time, a look under way, the ring that is to come.
Urgent ==
  \/ step \in Stage \/ (step = "send" /\ SendOver) \/ (step = "hold" /\ HoldOver)
  \/ RingDue
  \/ caller = "look" \/ (caller = "sent" /\ (HasToken("sent") \/ Gone))
  \/ ~Gone /\ t >= Limit
Tick ==
  /\ ~Urgent /\ caller # "done" /\ ~(Gone /\ caller = "wait")
  /\ t' = t + 1
  /\ caller' \in Onward
  /\ slow' = (slow \/ (caller = "pause" /\ caller' = "pause"))
  /\ UNCHANGED <<server, step, since, out, file, rr, ring, looks, BCRING, missed, line>>

Done == caller = "done" /\ UNCHANGED vars

Next == Opening \/ Sent \/ Broken \/ Report \/ Held \/ Alive \/ RingUp \/ Kill
        \/ AwaitSent \/ Look \/ Read \/ Tick \/ Done

Spec == Init /\ [][Next]_vars

------------------------------------------------------------------------------
(* Properties.                                                                *)

\* The first look that has to find a ring that comes, a second behind the ring
\* and not ahead of the first look, and the looks from it to the end of the
\* shortest hold.
Sight == IF server.lag + 1 > Send THEN server.lag + 1 ELSE Send
Chances == Send + Hold - Early - Sight

\* The evidence on the device is looked for while it can be there: with a camera
\* that takes the audio, and looks that take a second, a ring that comes within
\* the time the hold leaves is seen however early the receiver report ends the
\* hold, unless every look of that time was lost; a ring that is seen came.  And
\* audio is passed when half of it was taken and the session answered
\* afterwards, and always when all of it was.
BackchannelSound ==
  /\ line["ring"] = "FAIL" => \/ server.lag = 99 \/ server.takes # "all"
                              \/ slow \/ missed >= Chances
  /\ line["ring"] = "OK" => server.lag # 99
  /\ line["send"] = "OK" => server.takes # "few" /\ server.refuses = "nothing"
  /\ line["send"] = "FAIL" =>
       server.takes # "all" \/ server.refuses # "nothing" \/ step = "killed"

\* "DESCRIBE with ONVIF Require not accepted": the leg is excused when it was not.
SkipSound == line["advertised"] = "not accepted" => server.refuses = "describe"
==============================================================================
