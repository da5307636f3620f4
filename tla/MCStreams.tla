------------------------------ MODULE MCStreams ------------------------------
(* The probes that read a stream, and the drift leg, for TLC.  A behaviour is *)
(* one of either: the drift leg against a clock that is right, slow or fast,  *)
(* three units injected and up to two interrupts; three requests with three   *)
(* frames around them; the continuity probe; or the transport-stream census.  *)
EXTENDS DriftLeg

CONSTANTS MaxReq, MaxFrame, Body, Modes, SeqWord, TsWord, Far, Slower, GapCycle, Drop, Skip,
          CcWord, PcrMax, TableMax, Faults, GapPkt, CensusPkt

VARIABLES
  part,                                       \* "drift", "demux", "gap" or "census"
  demuxPc,                                    \* Demux's pc
  buf, leftover, headTxt, reply, asked, handed, wire, todo, frames, closed, split,
  mode, clock, seq, ts, fno, nal, skipped, repeated, stalls, wrong, last, count, gaps,
  lastTs, jumps,
  at, now, faults, cc, id, missing, breaks, tableTimes, made, bad_sync, cc_errors, cc_state,
  pcr_samples, table_at, pmt_known, streams, pusi_seen, pes_misaligned

Reader == INSTANCE Demux WITH pc <- demuxPc
Gaps == INSTANCE SeqGap WITH MaxPkt <- GapPkt, Cycle <- GapCycle
Muxed == INSTANCE TsCensus WITH MaxPkt <- CensusPkt

ASSUME StreamConstants ==
  Reader!ConstAssumption /\ Gaps!ConstAssumption /\ Muxed!ConstAssumption

MCOwn == {-1, 0, 1}

demuxVars == <<demuxPc, buf, leftover, headTxt, reply, asked, handed, wire, todo, frames,
               closed, split>>
gapVars == <<mode, clock, seq, ts, fno, nal, skipped, repeated, stalls, wrong, last, count, gaps,
             lastTs, jumps>>
censusVars == <<at, now, faults, cc, id, missing, breaks, tableTimes, made, bad_sync,
                cc_errors, cc_state, pcr_samples, table_at, pmt_known, streams, pusi_seen,
                pes_misaligned>>

StreamsInit ==
  /\ part \in {"drift", "demux", "gap", "census"}
  /\ Init /\ (part # "drift" => own = 0 /\ ~frozen)
  /\ Reader!Init
  /\ Gaps!Init /\ (part # "gap" => mode = "any" /\ clock = 1)
  /\ Muxed!Init

StreamsNext ==
  /\ UNCHANGED part
  /\ \/ part = "drift"  /\ Next        /\ UNCHANGED <<demuxVars, gapVars, censusVars>>
     \/ part = "demux"  /\ Reader!Next /\ UNCHANGED <<vars, gapVars, censusVars>>
     \/ part = "gap"    /\ Gaps!Next   /\ UNCHANGED <<vars, demuxVars, censusVars>>
     \/ part = "census" /\ Muxed!Next  /\ UNCHANGED <<vars, demuxVars, gapVars>>

\* The reader runs on: a call it made reads what has come, or runs out of time.
StreamsSpec ==
  /\ StreamsInit /\ [][StreamsNext]_<<part, vars, demuxVars, gapVars, censusVars>>
  /\ part = "demux" => WF_demuxVars(Reader!Request) /\ WF_demuxVars(Reader!Packets)

\* Answers and frames come out of the reader whole and in order, and its calls
\* come back.
AnswerIntact == Reader!AnswerIntact
FramesKept == Reader!FramesKept
ReadsInOrder == Reader!ReadsInOrder
RequestEnds == Reader!RequestEnds

\* What the continuity probe says of numbers, of stamps, and of the hostile
\* server's modes.
LossExact == Gaps!LossExact
TriageExact == Gaps!TriageExact
ModeShows == Gaps!ModeShows

\* What the census says of counters, and of tables, clock references and starts.
ContinuityExact == Muxed!ContinuityExact
CensusTells == Muxed!CensusTells
==============================================================================
