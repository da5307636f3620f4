------------------------------ MODULE MCProbes ------------------------------
(* The probes of one protocol each, for TLC.  A behaviour is one run of one   *)
(* of them: conformance against a server with up to two faults; the session   *)
(* lifecycle against every server; cold start; abuse in batches of three with *)
(* two slow readers; the backchannel with its caller.  They share the         *)
(* variables of the same name, and those a probe does not have stay at zero.  *)
EXTENDS Naturals

CONSTANTS Faults, Many, Few, Advertised, SessionLimit, Starts, Budget, Patience, Rounds, Batch,
          Readers, Limit, Send, BackHold, Early, Polls, Lags

VARIABLES
  probe,
  leg, server, step, t, line,                 \* of more than one probe
  at, end, sock, cseq, saved, tmo, asked, link, faults, media, flight, obeyed, lost,
  glued, declared, bye, pre, paused, said,    \* RfcCheck
  buffer,                                     \* SessionProbe
  inline, start, up, clock, queue, left, el,  \* RhdCold
  hurt, ill, worstIll, sent, checks, alive, late, blocks, reader, stop, blocked,   \* Abuse
  since, out, file, rr, ring, caller, looks, BCRING, missed, slow                  \* Backchannel

Rfc == INSTANCE RfcCheck
Sess == INSTANCE SessionProbe WITH Limit <- SessionLimit
Cold == INSTANCE RhdCold
Mistreat == INSTANCE Abuse
Speaker == INSTANCE Backchannel WITH Hold <- BackHold

ASSUME ProbeConstants ==
  /\ Rfc!ConstAssumption /\ Sess!ConstAssumption /\ Cold!ConstAssumption
  /\ Mistreat!ConstAssumption /\ Speaker!ConstAssumption

MCLimit == [reap |-> 110, switch |-> 40]

rfcVars == <<at, end, sock, cseq, saved, tmo, asked, link, faults, media, flight, obeyed,
             lost, glued, declared, bye, pre, paused, said>>
coldVars == <<inline, start, up, clock, queue, left, el>>
abuseVars == <<hurt, ill, worstIll, sent, checks, alive, late, blocks, reader, stop, blocked>>
backVars == <<since, out, file, rr, ring, caller, looks, BCRING, missed, slow>>

NoRfc ==
  /\ at = 0 /\ end = 0 /\ sock = 0 /\ cseq = 0 /\ saved = 0 /\ tmo = 0 /\ asked = 0 /\ link = 0
  /\ faults = 0 /\ media = 0 /\ flight = 0 /\ obeyed = 0 /\ lost = 0 /\ glued = 0
  /\ declared = 0 /\ bye = 0 /\ pre = 0 /\ paused = 0 /\ said = 0
NoCold == inline = 0 /\ start = 0 /\ up = 0 /\ clock = 0 /\ queue = 0 /\ left = 0 /\ el = 0
NoAbuse ==
  /\ hurt = 0 /\ ill = 0 /\ worstIll = 0 /\ sent = 0 /\ checks = 0 /\ alive = 0 /\ late = 0
  /\ blocks = 0 /\ reader = 0 /\ stop = 0 /\ blocked = 0
NoBack ==
  /\ since = 0 /\ out = 0 /\ file = 0 /\ rr = 0 /\ ring = 0 /\ caller = 0 /\ looks = 0
  /\ BCRING = 0 /\ missed = 0 /\ slow = 0

ProbesInit ==
  \/ /\ probe = "rfc" /\ Rfc!Init /\ NoCold /\ NoAbuse /\ NoBack
     /\ buffer = 0 /\ leg = 0 /\ server = 0 /\ step = 0 /\ t = 0 /\ line = 0
  \/ /\ probe = "session" /\ Sess!Init /\ NoRfc /\ NoCold /\ NoAbuse /\ NoBack
  \/ /\ probe = "cold" /\ Cold!Init /\ NoRfc /\ NoAbuse /\ NoBack
     /\ buffer = 0 /\ leg = 0 /\ server = 0 /\ t = 0
  \/ /\ probe = "abuse" /\ Mistreat!Init /\ NoRfc /\ NoCold /\ NoBack
     /\ buffer = 0 /\ t = 0
  \/ /\ probe = "back" /\ Speaker!Init /\ NoRfc /\ NoCold /\ NoAbuse
     /\ buffer = 0 /\ leg = 0

ProbesNext ==
  /\ UNCHANGED probe
  /\ \/ /\ probe = "rfc" /\ Rfc!Next
        /\ UNCHANGED <<leg, server, step, t, line, buffer, coldVars, abuseVars, backVars>>
     \/ /\ probe = "session" /\ Sess!Next
        /\ UNCHANGED <<rfcVars, coldVars, abuseVars, backVars>>
     \/ /\ probe = "cold" /\ Cold!Next
        /\ UNCHANGED <<leg, server, t, buffer, rfcVars, abuseVars, backVars>>
     \/ /\ probe = "abuse" /\ Mistreat!Next
        /\ UNCHANGED <<t, buffer, rfcVars, coldVars, backVars>>
     \/ /\ probe = "back" /\ Speaker!Next
        /\ UNCHANGED <<leg, buffer, rfcVars, coldVars, abuseVars>>

ProbesSpec ==
  ProbesInit /\ [][ProbesNext]_<<probe, leg, server, step, t, line, buffer, rfcVars, coldVars,
                                 abuseVars, backVars>>

\* What happens on the connections at the side stays there, and every check is
\* answered for.
Contained == probe = "rfc" => Rfc!Contained

\* What the conformance probe says of delivery is the server's doing.
DeliverySound == probe = "rfc" => Rfc!DeliverySound

\* So are the lines of the session probe, of the cold start, of the fuzzer and
\* the slow readers, and of the backchannel leg.
SessionSound == probe = "session" => Sess!SessionSound
ColdSound == probe = "cold" => Cold!ColdSound
AbuseTells == probe = "abuse" => Mistreat!AbuseTells
BackchannelSound == probe = "back" => Speaker!BackchannelSound
=============================================================================
