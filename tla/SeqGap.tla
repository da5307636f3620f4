-------------------------------- MODULE SeqGap --------------------------------
(* The continuity probe, src/probes/seq_gap.py, over one track: what it makes *)
(* of the packets of a stream that may skip or repeat sequence numbers, stop  *)
(* and go on, or stamp a frame wrongly, with sequence numbers and timestamps  *)
(* that wrap; and over the streams of the hostile server, whose modes break   *)
(* one property each (evil_server.py, stream).  Times are in frames: a frame  *)
(* is one unit of the RTP clock and of the wall clock.  The clock the probe   *)
(* takes from the SDP is the track's, or none, or that of another section.    *)
EXTENDS Integers, SequencesExt, FiniteSetsExt

CONSTANTS
  Modes,      \* of the hostile server; "any" is a source with arbitrary faults
  SeqWord,    \* 2^16
  TsWord,     \* 2^32
  Far,        \* frames of a stall or of a wrong stamp
  Slower,     \* how often the clock of another section goes into the track's
  Faults,     \* bound: faults of the arbitrary source
  MaxPkt,      \* bound: packets the probe sees
  Cycle,      \* 30: the server's period of parameter sets and of wrong stamps
  Drop, Skip  \* 40 and 5: seqdrop skips Skip numbers at every multiple of Drop

ConstAssumption ==
  /\ Faults \in Nat /\ MaxPkt \in Nat
  /\ Far \in Nat /\ Far > 8                    \* what ts_summary calls big
  /\ Slower \in Nat /\ Slower >= 3             \* 11: G.711 beside video
  /\ TsWord \in Nat /\ 9 * Far < TsWord       \* tsspike stays within half a word
  /\ Skip \in Nat \ {0}
  /\ SeqWord \in Nat /\ 3 * Skip + 1 < SeqWord
  /\ Cycle \in Nat /\ Cycle >= 4               \* most frames are stamped rightly
  /\ Drop \in Nat /\ Drop > 1
  /\ Drop < Cycle + Cycle \div 2                \* and seqdrop comes before ModeShows looks

Abs(x) == IF x < 0 THEN -x ELSE x
Few == 10                            \* steps the summary asks for

VARIABLES
  mode, seq, ts, fno, nal,           \* the source: next number, stamp, frame and NAL
  clock,                             \* what a frame is divided by: 1, Slower, 0 unknown
  skipped, repeated, stalls, wrong,  \* what it has done, for the properties
  last, count, gaps,                 \* the probe: last number (-1: none), packets, seq-lost
  lastTs, jumps                      \* last stamp, and the steps with their wall gaps

source == <<seq, ts, fno, nal>>
history == <<skipped, repeated, stalls, wrong>>
probe == <<last, count, gaps, lastTs, jumps>>
vars == <<mode, clock, source, history, probe>>

Init ==
  /\ mode \in Modes
  /\ clock \in IF mode = "any" THEN {0, 1, Slower} ELSE {1}
  /\ seq = IF mode = "any" THEN SeqWord - 3 ELSE 1
  /\ ts = IF mode = "any" THEN TsWord - 3 ELSE 10
  /\ fno = 0 /\ nal = 0
  /\ skipped = 0 /\ repeated = 0 /\ stalls = 0 /\ wrong = <<>>
  /\ last = -1 /\ count = 0 /\ gaps = 0 /\ lastTs = -1 /\ jumps = <<>>

\* Fault: a step of the timestamp is never taken for a backward one.
SignedNever(d) == d % TsWord

\* A step of the timestamp, taken for a signed word.
Signed(d) == IF d % TsWord >= TsWord \div 2 THEN (d % TsWord) - TsWord ELSE d % TsWord

\* Fault: the distance of two numbers is not reduced to 16 bits.
TakeWide(first, n, stamp, wall) ==
  LET d  == first - last
      dt == Signed(stamp - lastTs)
  IN  /\ gaps' = IF last # -1 /\ d # 1 THEN gaps + d - 1 ELSE gaps
      /\ last' = (first + n - 1) % SeqWord
      /\ count' = count + n
      /\ jumps' = IF lastTs # -1 /\ dt # 0 THEN Append(jumps, <<dt, wall>>) ELSE jumps
      /\ lastTs' = stamp % TsWord

\* The loop body for n packets that carry one stamp and consecutive numbers,
\* the first of them wall frames behind the packet before it.
Take(first, n, stamp, wall) ==
  LET d  == (first - last) % SeqWord
      dt == Signed(stamp - lastTs)
  IN  /\ gaps' = IF last # -1 /\ d # 1 THEN gaps + d - 1 ELSE gaps
      /\ last' = (first + n - 1) % SeqWord
      /\ count' = count + n
      /\ jumps' = IF lastTs # -1 /\ dt # 0 THEN Append(jumps, <<dt, wall>>) ELSE jumps
      /\ lastTs' = stamp % TsWord

------------------------------------------------------------------------------
(* The arbitrary source: a frame of one packet, behind at most one fault.     *)

Send(ds, dt, wall) ==
  /\ mode = "any" /\ count < MaxPkt
  /\ seq' = (seq + ds) % SeqWord /\ ts' = (ts + dt) % TsWord
  /\ Take(seq', 1, ts', wall)
  /\ UNCHANGED <<mode, clock, fno, nal>>

Sound == skipped + repeated + stalls + Len(wrong) < Faults

Frame == Send(1, 1, 1) /\ UNCHANGED history

SkipNumbers == \E k \in {1, SeqWord - 2} :
  /\ Sound /\ last # -1 /\ Send(1 + k, 1, 1)
  /\ skipped' = skipped + k /\ UNCHANGED <<repeated, stalls, wrong>>

Repeat ==
  /\ Sound /\ last # -1 /\ Send(0, 0, 0)
  /\ repeated' = repeated + 1 /\ UNCHANGED <<skipped, stalls, wrong>>

\* Frames stop for a while, a little longer or shorter on the wall clock.
Stall == \E jitter \in {-1, 0, 2} :
  /\ Sound /\ lastTs # -1 /\ Send(1, Far, Far + jitter)
  /\ stalls' = stalls + 1 /\ UNCHANGED <<skipped, repeated, wrong>>

\* A stamp from the future, or from the past, on a frame that is on time.
Misstamp == \E off \in {Far, -2, -Far} :
  /\ Sound /\ lastTs # -1 /\ Send(1, off, 1)
  /\ wrong' = Append(wrong, off) /\ UNCHANGED <<skipped, repeated, stalls>>

------------------------------------------------------------------------------
(* The hostile server.                                                        *)

\* this_ts: the wrong stamps of tsback and tsspike, on one frame of a cycle.
Stamp == CASE mode = "tsback"  /\ fno % Cycle = Cycle \div 2 -> ts - 20
           [] mode = "tsspike" /\ fno % Cycle = Cycle \div 2 -> ts + 4 * Far
           [] OTHER -> ts

\* Fault: seqdrop drops nothing.
PastNone(s) == s + 1

\* The number behind s: seqdrop leaves Skip of them out at every multiple.
Past(s) == IF mode = "seqdrop" /\ (s + 1) % Drop = 0 THEN s + 1 + Skip ELSE s + 1

\* One NAL in n packets, numbered from seq on by rtp_packets while stream counts
\* them: what seqdrop leaves out shows behind the NAL.  A frame is its slice,
\* behind the two parameter sets at the head of a cycle.
ServeNal == \E n \in {1, 3} :
  LET heads == IF fno % Cycle = 0 THEN 2 ELSE 0
  IN  /\ mode # "any" /\ count < MaxPkt
      /\ nal < heads => n = 1
      /\ Take(seq, n, Stamp, IF nal = 0 THEN 1 ELSE 0)
      /\ seq' = IF n = 1 THEN Past(seq) ELSE Past(Past(Past(seq)))
      /\ \/ nal < heads /\ nal' = nal + 1 /\ UNCHANGED <<ts, fno>>
         \/ nal = heads /\ nal' = 0 /\ ts' = ts + 1 /\ fno' = fno + 1
      /\ UNCHANGED <<mode, clock, history>>

Next == Frame \/ SkipNumbers \/ Repeat \/ Stall \/ Misstamp \/ ServeNal

Spec == Init /\ [][Next]_vars

------------------------------------------------------------------------------
(* ts_summary.                                                                *)

Steps == [i \in 1..Len(jumps) |-> jumps[i][1]]
Times(d) == Cardinality({i \in DOMAIN Steps : Steps[i] = d})
First(d) == CHOOSE i \in DOMAIN Steps : Steps[i] = d /\ \A j \in 1..(i - 1) : Steps[j] # d

\* Counter.most_common(1): of the most frequent steps the one seen first.
Modal == CHOOSE d \in Range(Steps) :
  \A e \in Range(Steps) \ {d} :
    Times(d) > Times(e) \/ (Times(d) = Times(e) /\ First(d) < First(e))

Backward == Cardinality({i \in DOMAIN jumps : jumps[i][1] < 0})

\* A big step is an honest gap when the wall clock saw about as much pass, by
\* the clock of the SDP: to 0.2 s, or half of the step.
Big(i) == Abs(jumps[i][1]) > 8 * Abs(Modal)
Matched(i) ==
  LET d == clock * Abs(jumps[i][1])
  IN  clock # 0 /\ 2 * Abs(d - jumps[i][2]) < Max({12, d})
Honest == Cardinality({i \in DOMAIN jumps : Big(i) /\ Matched(i)})
Spikes == Cardinality({i \in DOMAIN jumps : Big(i) /\ ~Matched(i)})

------------------------------------------------------------------------------
\* seq-lost is the numbers the sender left out, across the wrap of the number,
\* but for the ones it sent twice: each repetition takes one off the count.
LossExact == mode = "any" => gaps = skipped - repeated

\* The triage of the timestamps: over a stream of enough steps of which less than
\* half are faults, across the wrap of the stamp, backward steps are the stamps from
\* the past; by the track's own clock honest gaps are the stalls and spikes the stamps
\* that are far off.  A wrong stamp is never excused as a stall.  A stall is never
\* blamed on the stamps where the SDP gave that clock; where it gave none, as for
\* static audio, or a later section's slower one was taken for the video's, every
\* stall is a spike (seq_gap.py:22-32, 81-91).
TriageExact ==
  mode = "any" /\ Len(jumps) >= Few /\ 2 * (stalls + Len(wrong)) < Len(jumps) =>
    LET far == Cardinality({i \in DOMAIN wrong : Abs(wrong[i]) = Far})
    IN  /\ Backward = Cardinality({i \in DOMAIN wrong : wrong[i] < 0})
        /\ clock = 1 => Honest = stalls /\ Spikes = far
        /\ clock # 1 => Honest = 0 /\ Spikes = stalls + far

\* The self-check's reading of the probe: once a cycle and a half has been
\* served the good stream shows nothing, and each broken one shows its fault.
\* What a wrong stamp does to the numbers is nothing, nor the other way round.
\* The two modes that break the stamps are not told apart: a frame stamped too
\* early or too late is a step back and two spikes either way, so that a check
\* that asks for one of these counters passes on the other's server too
\* (evil_server.py:134-172, self-check.sh:82-98).
ModeShows ==
  mode # "any" /\ fno > Cycle + Cycle \div 2 /\ nal = 0 =>
    /\ gaps > 0 <=> mode = "seqdrop"
    /\ Backward > 0 <=> mode \in {"tsback", "tsspike"}
    /\ Spikes > 0 <=> mode \in {"tsback", "tsspike"}
    /\ Honest = 0
==============================================================================
