------------------------------- MODULE TsCensus -------------------------------
(* The transport-stream census, src/probes/ts_census.py, over what a muxer    *)
(* writes: a cycle of PAT, PMT, a PES start with a PCR and its continuation,  *)
(* with packets lost, repeated, damaged, left out or late.  Counters have     *)
(* CcWord values; a packet takes one unit of time.                            *)
EXTENDS Integers, Sequences, FiniteSets

CONSTANTS
  CcWord,     \* 16
  PcrMax,     \* 100 ms
  TableMax,   \* 500 ms
  MaxPkt,     \* bound: packets of the capture
  Faults      \* bound: faults of the muxer

ConstAssumption ==
  /\ CcWord \in Nat \ {0}
  /\ Faults \in Nat
  /\ PcrMax \in Nat /\ PcrMax >= 4 /\ TableMax \in Nat /\ TableMax >= 4   \* a cycle is in time
  /\ MaxPkt \in Nat /\ MaxPkt >= 12           \* three cycles, where the code asks for 100

Pid == {"pat", "pmt", "video"}
Cycle == <<"pat", "pmt", "start", "cont">>
PidOf(kind) == IF kind \in {"start", "cont"} THEN "video" ELSE kind
None == [cc |-> -1, id |-> -1]

VARIABLES
  at, now, faults,      \* the muxer: packets written, time, faults made
  cc, id,               \* Pid -> its counter; a number for the bytes of the next packet
  missing, breaks,      \* Pid -> packets lost since the last one that was read; real gaps
  tableTimes,           \* Pid -> when its tables really went out; PMTs count behind a PAT
  made,                 \* the faults made, each with its place
  bad_sync, cc_errors, cc_state, pcr_samples, table_at, pmt_known, streams,
  pusi_seen, pes_misaligned          \* the census

muxer == <<at, now, faults, cc, id, missing, breaks, tableTimes, made>>
census == <<bad_sync, cc_errors, cc_state, pcr_samples, table_at, pmt_known, streams,
            pusi_seen, pes_misaligned>>
vars == <<muxer, census>>

Init ==
  /\ at = 0 /\ now = 0 /\ faults = 0 /\ id = 0 /\ breaks = 0 /\ made = {}
  /\ cc = [p \in Pid |-> CcWord - 1] /\ missing = [p \in Pid |-> -1]
  /\ tableTimes = [p \in Pid |-> <<>>]
  /\ bad_sync = 0 /\ cc_errors = 0 /\ cc_state = [p \in Pid |-> None]
  /\ pcr_samples = <<>> /\ table_at = [p \in Pid |-> <<>>]
  /\ pmt_known = FALSE /\ streams = {} /\ pusi_seen = 0 /\ pes_misaligned = 0

------------------------------------------------------------------------------
(* The loop body: one packet p of the kind, at index at.                      *)

\* Fault: a repeated packet counts as a break.
ContinuityStrict(p, c, bytes) ==
  LET prev == cc_state[p] IN
  /\ cc_errors' = IF prev # None /\ c # (prev.cc + 1) % CcWord THEN cc_errors + 1 ELSE cc_errors
  /\ cc_state' = [cc_state EXCEPT ![p] = [cc |-> c, id |-> bytes]]

Continuity(p, c, bytes) ==
  LET prev == cc_state[p] IN
  /\ cc_errors' = IF /\ prev # None
                     /\ c # (prev.cc + 1) % CcWord
                     /\ ~(c = prev.cc /\ bytes = prev.id)
                  THEN cc_errors + 1 ELSE cc_errors
  /\ cc_state' = [cc_state EXCEPT ![p] = [cc |-> c, id |-> bytes]]

\* A table's start is noted; the PAT names the PID of the PMT, the PMT the
\* streams, and only a stream the PMT has named is looked into.
Payload(kind, aligned) ==
  LET table == kind = "pat" \/ (kind = "pmt" /\ pmt_known)
      pes == kind = "start" /\ "video" \in streams
  IN  /\ table_at' = IF table THEN [table_at EXCEPT ![kind] = Append(@, at)] ELSE table_at
      /\ pmt_known' = (pmt_known \/ kind = "pat")
      /\ streams' = IF table /\ kind = "pmt" THEN streams \cup {"video"} ELSE streams
      /\ pusi_seen' = IF pes THEN pusi_seen + 1 ELSE pusi_seen
      /\ pes_misaligned' = IF pes /\ ~aligned THEN pes_misaligned + 1 ELSE pes_misaligned

Pcr(kind, value) ==
  pcr_samples' = IF kind = "start" THEN Append(pcr_samples, <<at, value>>) ELSE pcr_samples

\* A packet out of sync is counted, and not looked at.
Unsynced ==
  /\ bad_sync' = bad_sync + 1
  /\ UNCHANGED <<cc_errors, cc_state, pcr_samples, table_at, pmt_known, streams,
                 pusi_seen, pes_misaligned>>

Census(kind, c, bytes, value, aligned) ==
  /\ Continuity(PidOf(kind), c, bytes)
  /\ Pcr(kind, value)
  /\ Payload(kind, aligned)
  /\ UNCHANGED bad_sync

------------------------------------------------------------------------------
(* The muxer.                                                                 *)

Kind == Cycle[(at % 4) + 1]

\* The next packet of the cycle, the counter k further than it should be and
\* written delay late.
Write(k, delay, skew, aligned) ==
  LET p == PidOf(Kind) IN
  /\ at < MaxPkt
  /\ at' = at + 1 /\ now' = now + 1 + delay /\ id' = id + 1
  /\ cc' = [cc EXCEPT ![p] = (@ + 1 + k) % CcWord]
  /\ missing' = [missing EXCEPT ![p] = 0]
  /\ breaks' = IF missing[p] # -1 /\ (missing[p] + k) % CcWord # 0 THEN breaks + 1 ELSE breaks
  /\ tableTimes' = IF p = "pat" \/ (p = "pmt" /\ tableTimes["pat"] # <<>>)
                   THEN [tableTimes EXCEPT ![p] = Append(@, now')] ELSE tableTimes
  /\ Census(Kind, cc'[p], id', now' + skew, aligned)

Fault(kind) ==
  /\ faults < Faults /\ faults' = faults + 1
  /\ made' = made \cup {<<kind, at>>}

Sound == Write(0, 0, 0, TRUE) /\ UNCHANGED <<faults, made>>

\* k packets of the PID were lost on the way here.
Lose == \E k \in {1, CcWord - 1, CcWord} :
  Fault(IF k = CcWord THEN "turn" ELSE "loss") /\ Write(k, 0, 0, TRUE)

Late == Fault("late") /\ Write(0, PcrMax, 0, TRUE)

\* A clock reference that does not go on: it starts again, or stands still.
BackPcr == \E value \in {0} \cup {pcr_samples[k][2] : k \in {Len(pcr_samples)} \ {0}} :
  Fault("back") /\ Kind = "start" /\ Write(0, 0, value - (now + 1), TRUE)

Misalign == Fault("pes") /\ Kind = "start" /\ Write(0, 0, 0, FALSE)

\* The packet arrives damaged: what it was does not matter any more.
Damage ==
  LET p == PidOf(Kind) IN
  /\ Fault("sync") /\ at < MaxPkt
  /\ at' = at + 1 /\ now' = now + 1 /\ id' = id + 1
  /\ cc' = [cc EXCEPT ![p] = (@ + 1) % CcWord]
  /\ missing' = [missing EXCEPT ![p] = IF @ = -1 THEN -1 ELSE @ + 1]
  /\ UNCHANGED <<breaks, tableTimes>>
  /\ Unsynced

\* Stuffing goes out in the place of a table: the null PID's counter is free.
Stuff ==
  /\ Fault("stuff") /\ at < MaxPkt /\ Kind \in {"pat", "pmt"}
  /\ at' = at + 1 /\ now' = now + 1
  /\ UNCHANGED <<id, cc, missing, breaks, tableTimes, census>>

\* The last video packet is sent again, byte for byte, in the place of the next.
Repeat ==
  /\ Fault("repeat") /\ at < MaxPkt /\ Kind = "cont" /\ cc_state["video"].id = id
  /\ at' = at + 1 /\ now' = now + 1
  /\ Continuity("video", cc["video"], id)
  /\ UNCHANGED <<id, cc, missing, breaks, tableTimes, bad_sync, pcr_samples,
                 table_at, pmt_known, streams, pusi_seen, pes_misaligned>>

Next == Sound \/ Lose \/ Late \/ BackPcr \/ Misalign \/ Damage \/ Stuff \/ Repeat

Spec == Init /\ [][Next]_vars

------------------------------------------------------------------------------
(* The verdicts.                                                              *)

\* t_of: the time of an index between two samples, in twelfths so that the
\* thirds and quarters of the interpolation are whole.
Around(i) == {k \in 1..(Len(pcr_samples) - 1) :
                pcr_samples[k][1] <= i /\ i <= pcr_samples[k + 1][1]}
T(i) ==
  LET k == CHOOSE k \in Around(i) : \A j \in Around(i) : k <= j
      a == pcr_samples[k]
      b == pcr_samples[k + 1]
  IN  12 * a[2] + ((b[2] - a[2]) * (i - a[1]) * 12) \div (b[1] - a[1])

\* The tables whose time is known, and whether each follows the last soon enough.
Timed(p) == {i \in DOMAIN table_at[p] : Around(table_at[p][i]) # {}}
Soon(S, time, max) ==
  /\ Cardinality(S) >= 2
  /\ \A i, j \in S : i < j /\ (\A k \in S : k <= i \/ j <= k) => time[j] - time[i] <= max
TableOK(p) == Soon(Timed(p), [i \in Timed(p) |-> T(table_at[p][i])], 12 * TableMax)

\* Fault: a clock reference that goes back is no late one.
PcrOKBack ==
  /\ Len(pcr_samples) >= 3
  /\ \A i \in 1..(Len(pcr_samples) - 1) : pcr_samples[i + 1][2] - pcr_samples[i][2] <= PcrMax

PcrOK ==
  /\ Len(pcr_samples) >= 3
  /\ \A i \in 1..(Len(pcr_samples) - 1) :
       LET d == pcr_samples[i + 1][2] - pcr_samples[i][2] IN d > 0 /\ d <= PcrMax

PesOK == pes_misaligned = 0 /\ pusi_seen > 0

------------------------------------------------------------------------------
\* The continuity verdict counts the gaps of every PID, those behind a damaged
\* packet included, one each and nothing else: no repetition of a packet, no
\* stuffing, no wrap of the counter - and no loss of a whole turn of it.
ContinuityExact == cc_errors = breaks

\* Tables are judged by times interpolated between clock references.  For a muxer
\* that is on time the verdict is the one the true times call for, over the
\* tables the references enclose.
InRange(p) ==
  LET first == pcr_samples[1][2]
      final == pcr_samples[Len(pcr_samples)][2]
  IN  {i \in DOMAIN tableTimes[p] : first <= tableTimes[p][i] /\ tableTimes[p][i] <= final}
OnTime == bad_sync = 0 /\ now = at
          /\ \A i \in DOMAIN pcr_samples : pcr_samples[i][2] = pcr_samples[i][1] + 1
TablesExact ==
  OnTime /\ Len(pcr_samples) >= 2 /\ pmt_known =>
    \A p \in {"pat", "pmt"} : TableOK(p) <=> Soon(InRange(p), tableTimes[p], TableMax)

\* The census tells: of a muxer without a fault every line is OK, and a fault
\* between the first and the last clock reference fails the line that is about
\* it, whatever else was wrong; but a start is looked at only behind a PMT.
Enclosed(i) == pcr_samples # <<>> /\ pcr_samples[1][1] < i
               /\ i <= pcr_samples[Len(pcr_samples)][1]
Named(i) == table_at["pmt"] # <<>> /\ table_at["pmt"][1] < i
Tells(kind, i) == CASE kind = "sync" -> bad_sync > 0
                    [] kind = "pes"  -> Named(i) => ~PesOK
                    [] kind \in {"late", "back"} -> ~PcrOK
                    [] OTHER -> TRUE
CensusTells ==
  /\ TablesExact
  /\ at = MaxPkt /\ made = {} => PcrOK /\ PesOK /\ TableOK("pat") /\ TableOK("pmt")
  /\ at = MaxPkt => \A f \in made : Enclosed(f[2]) => Tells(f[1], f[2])
==============================================================================
