# A verification development for raptor-test

raptor-test is a conformance suite for live RTSP cameras: one bash program of
3500 lines (`raptor-test`) that drives clients and python probes against one
endpoint, a runner (`run-battery`) that brings daemons up on a camera over ssh
and runs the suite on every backend of every target, the probes
(`probes/*.py`), and helpers (`tools/`).  It is a program whose product is a
*verdict about another program*.  So the properties here are mostly of two
kinds:

* a verdict is sound: what the suite says of the device (passed, failed,
  skipped, "restored", "error-free") follows from what the device did,
  whatever call was lost, whatever was late, whoever else was connected;
* the device and the bench are left as they were: clock, ntpd, day/night mode,
  resolution, room light, the other cameras.

Line references are to `src/` at the commit this project is kept beside.


## Inventory

| component | code | state | operations | what is hard |
|---|---|---|---|---|
| daemon bring-up | `run-battery` 109-357 | on the device: processes, pidfiles, `/dev/shm` rings, ports, `/tmp/$d.log`, syslog | take down, launch in order, wait for existence, rings, port | the script finds processes *by name*, and they come and go while it looks |
| battery runner | `run-battery` 360-1055 | `CONF_SET`, the matrix file, `OVERALL_FAIL` | twelve passes per target, three of them sweeps | early returns, overrides that outlive a pass, rows never written |
| suite control flow | `raptor-test` 186-325, 396-416, 1435-3504 | shell variables and functions, `PASS`/`FAIL`/`SKIP` | 29 sections, `--only`, `--core`, `--soak` | what one section leaves for another, `set -u`, exits from inside sections |
| late legs: clock step | `raptor-test` 756-888, `probes/clock_step.py` | device clock, ntpd, the server's NTP anchor, sessions | step, probe, wait for idle, probe again, step back | a background stepper, lingering sessions, lost calls |
| late legs: producer restart, set-resolution | `raptor-test` 889-1012 | producer processes, ring file, resolution, a WebRTC rider | kill and relaunch, poll, flip down and up | stale ring file, retries against fixed times |
| bench legs | `raptor-test` 418-749, 1026-1343 | room light, wash, other cameras, ric's mode, state and recheck interval, two pinned files | calibrate, verify, day/night cycle, colored cast | a session of legs that share all of it, readings that do not come, shell errors that abandon a leg half-way |
| light ramp and watch | `raptor-test` 459-529, 1049-1057 | light level, transitions seen | ramp on the host, sampler on the device | the two are not synchronised |
| baselines, concurrency ladder, health | `raptor-test` 364-380, 2457-2535, 2577-2658 | counts of sessions, log lines, drops | two looks at the device, clients in between | external viewers, a bounded log ring, a server at its cap |
| drift leg | `tools/drift-leg.sh`, `tools/freqadj.c` | clock rate, ntpd | inject, measure, restore | interrupts, failures behind the first side effect |
| RTSP client | `probes/rtsplib.py` | receive buffer, session id, digest challenge | request, packets | one byte stream of answers and binary frames |
| conformance probe | `probes/rfc_check.py` | one session, connections at its side, a socket timeout, frames in flight | scripted requests, counted frames, a line per check | a socket timeout that is lowered on the way, answers behind frames, side connections that fail |
| session lifecycle probe | `probes/session_probe.py`, its caller | one session and what piled up in the socket | go silent, wait, count; move to UDP, count | old packets counted as new, the caller's time limit |
| cold-start probe | `probes/rhd_cold.py` | the encoders of two streams | cold, warm and concurrent snapshots | two requests that wait for each other look like two that do not |
| fuzzing, slow clients | `probes/fuzz_rtsp.py`, `slow_client.py` | a server that may be ill, slow readers with sessions | malformed requests in batches; readers beside a client | a server that is restarted between two looks, threads that die silently |
| backchannel leg | `probes/backchannel.py`, `raptor-test` 2938-2999 | a session with audio to the camera, the probe's buffered tokens, the speaker ring | offer, send, hold; poll the device beside it | two processes and a file that one of them may never flush |
| continuity probe | `probes/seq_gap.py` | last number, last stamp, gaps, jumps | count modulo 2^16 and 2^32, triage | wraps, duplicates, a stall against a wrong stamp |
| transport-stream census | `probes/ts_census.py` | a counter per PID, table times, clock samples | one packet at a time | lost sync, repeated packets, counters that wrap |
| hostile server | `probes/evil_server.py` | per connection a handler, a stream thread, a stop event; one lock for all | parse, answer, stream, report, close | two writers to one socket, clients that stop reading under the lock |
| other analysers | `probes/nal_census.py`, `sr_*.py`, `arrival_gap.py`, `rhd_check.py`, `basic.py` | counters, regressions | arithmetic over captured packets | floating point, 32-bit wraps |
| captures and media checks | `raptor-test` 1366-1434, 1589-2071, 2679-2937 | log files of clients | run a client, judge its log | clients that end without an error and without media |
| soak | `raptor-test` 1528-1588 | cycles, RSS and FD samples | bounded captures | trends over few samples |
| restream, SRT, RTMP, TLS, WebRTC, Frigate, mjpeg legs | `raptor-test` 2183-2456, 3000-3489 | third-party processes | start, feed, probe, stop | external programs |
| process cleanup | `raptor-test` 1345-1365 | `CLIENT_PIDS`, a container, temporary directories | EXIT trap | background processes that are in no list |
| self tests, helpers | `tools/*.sh` | – | run the suite on host daemons, impair the network, fetch tools | developer scripts |

**How they interact.**  `run-battery` sources a target's conf, pipes a script to
`sh` on the device (bring-up), then runs `raptor-test` as a child and reads its
last `RESULT` line.  `raptor-test` runs sections in one shell: they share
variables, functions and files under `$WORK`, call probes as children and read
a `SUMMARY` line from each, and reach the device through one ssh call per
question, each of which may be lost.  The late legs are one function called at
the end of every mode.  The bench legs are sections or solo modes; a session on
a bench is a sequence of *invocations* that meet only in the state of the bench,
of the camera's daemon ric, and in two files.  `drift-leg.sh` is a child of the
battery's last pass.  The probes meet the suite in the lines they print, which
are lost when `timeout` kills a probe that has not flushed them; most of them
share the client `rtsplib.py`.  The hostile server is the camera the suite is
pointed at when it tests itself.

**What makes each part correct** is stated in the modules, as a few properties
each, and listed below with the runs.


## Modules

| module | models | abstraction |
|---|---|---|
| `Bringup` | bring-up script and the daemons' processes | An instance is a daemon and the number of the bring-up that launched it.  A process is in execve, up, serving or gone.  Fetching and editing raptor.conf, checking libraries and binaries are the one exit `GiveUp`. |
| `Battery` | `battery_for_target`, `--all`, `--backend` | A pass is a number; a suite, a probe or a measurement is a step that may end any way.  A conf is the set of fields the control flow asks about. |
| `Suite` | the sections of `raptor-test` in their order | A section is one step that records checks; what is kept are the filters, the flags, the variables and functions passed between sections, and the exits. |
| `ClockStep` | the wall-clock step leg | Time in units of the step; a server is one of all designs of its RTP clock, sender reports and anchor. |
| `RestartLegs` | producer restart and set-resolution legs | Resolution is full or half; polls are bounded by a constant. |
| `Bench` | the five bench legs | Three rungs of light, and the level of `--cast-key`; a *rig* and a *wash* are a physical arrangement, 1 or 2, and a reading shows which it was taken on; a lost answer is a choice of the action that asks. |
| `Ramp` | the ramp and the watch of it | Levels, two thresholds with or without hysteresis. |
| `Health` | baselines, concurrency ladder, leak check, log sweep | The log is a bounded sequence of lines that are errors or not. |
| `DriftLeg` | `drift-leg.sh`, `freqadj.c` | Rates in units of the pass bound; the analysis of the JSON is one step. |
| `Demux` | `request()` and `packets()` of `rtsplib.py` over one connection | Bytes are tokens: a frame is its start and its payload, an answer its head, the blank line and the units of its body.  How they fall into `recv()` is a choice. |
| `OrderedReader` | what that reader promises to a probe: one connection's frames and answers, in order | A reader is free, waiting for an answer or raised; a connection on which a frame was mixed into an answer is promised nothing. |
| `EvilServer` | handlers and stream threads of the hostile server, its lock, its clients | A `sendall` is two steps, so that two of them can mix; a message is its kind and its number.  Pacing and payloads are left out. |
| `Interleaved` | what such a server owes a client (external: RFC 2326) | Per connection the last answer, packet and report, whether PLAY was answered, whether it is shut. |
| `RfcCheck` | the conformance probe | Times are half seconds; a window of a stream is a count of frames; a fault is an answer or a connection that is not the good one. |
| `SessionProbe` | reap, switch and the timeout of their caller | Times are seconds; a stream is dense or sparse; the server is a record of how it treats a silent viewer and a moved one. |
| `RhdCold` | the cold-start probe | An encoder starts in one of a few times; the daemon serves one by one or all at once. |
| `Abuse` | the fuzzer's liveness checks, the slow readers and the clients beside them | A mutation may make the server ill; what it is made of is left out. How long the joins of the readers take is a choice, and the line about latency is left out. |
| `Backchannel` | the backchannel probe and its caller, one process each | What the probe prints is a set of tokens, what has reached the file another. A look over ssh may fail, and takes a second or more. |
| `SeqGap` | the continuity probe over one track, and the numbers and stamps the hostile server's modes write | Words are narrow so that they wrap; the wall clock and the RTP clock count frames. The clock of the SDP is the track's, none, or that of another section. |
| `TsCensus` | the packet loop and the checks of the census | Three PIDs, counters of four values, one unit of time a packet. |
| `BringupProofs`, `BatteryProofs`, `SuiteProofs`, `EvilServerProofs` | – | the theorems about those four |
| `LateLegsProofs`, `SoloProofs`, `StreamsProofs`, `ProbesProofs` | – | the theorems about the modules that `MCLateLegs`, `MCSolo`, `MCStreams` and `MCProbes` put together, and about those unions themselves |
| `MCBringup`, `MCBattery`, `MCSuite`, `MCEvil`, `MCCold`, `MCBack`, `MCReap`, `MCRfc` | – | instances of one module |
| `MCScripts` | – | `Bringup`, `Battery` and `Suite`; their values are those of `MCBringup` and of `MCValues`, which `MCBattery` and `MCSuite` take too |
| `MCLateLegs` | – | `RestartLegs` and `ClockStep` |
| `MCSolo` | – | `Ramp`, `Bench` and `Health` |
| `MCStreams` | – | `DriftLeg`, `Demux`, `SeqGap` and `TsCensus` |
| `MCProbes` | – | `RfcCheck`, `SessionProbe`, `RhdCold`, `Abuse` and `Backchannel` |

The last five instantiate several modules in one state space.  Their initial
states choose one of the parts; the others keep their initial values.  The parts
share nothing in the code either (each is called when the one before it has
left), so the behaviours are the union of those of the parts, and a property of
a part means what it means in an instance of its own.

Each module's definitions name the code they stand for in `PROJECT.json` ("map").
State variables carry the names of the shell's variables where there is one
(`NTPD_WAS` is `ntpdWas`, `OVERALL_FAIL` is `failed`), and the head of each
VARIABLES section says so.  Actions come in two groups: the steps of the script,
and of the device or bench around it.  The device's steps are not code of this
repository; they are modelled from how the scripts use and describe the device
and are marked external.  The rule for them is to allow more, not less: a daemon
may crash at any time, an answer may always be lost, somebody may always move
the camera between two invocations.

The definitions commented "Fault:" are plausible mistakes in the code next to
the operation they are a mistake of.  No specification uses them; each property
is known to be sensitive to one of them ("mutants").

Taken as given, and therefore not shown: the commands that set the lights are
local and work (`Bench`); `Bench` runs with the full bench configuration
(`--lights-set`, quiesce and restore commands, both pinned files); a log ring
never loses more than two lines to a new one (`Health`); a probe that is killed
by its time limit leaves no summary (`ClockStep`); the head of an answer has no
`$` in it that looks like a frame, the callers that leave `packets()` early
(`slow_client.py`, `sr_check.py`) close the connection at once, and the retry
with a digest is another request (`Demux`); the client of a hostile server has
at most one request that is not yet parsed (`EvilServer`).


## Runs

A run with `expect: violation` checks one sentence of the repository's docs or
comments, and TLC's trace shows how the code comes to break it; these are the
"findings" of PROJECT.json, where the sentence is quoted.

| run | instance | what it shows |
|---|---|---|
| MCScripts | two daemons, two bring-ups; eight confs, with and without `--backend`, and a second target behind each; a whole run of the suite, and all pairs of linked keys, times all flags | nothing earlier survives the teardown but what outlived SIGKILL or had no name; a daemon "seen" is ours or such a survivor; the ring is there before a consumer is launched; a broken item of a sweep fails its row and the battery; what is tested is what was brought up for it, under its own `CONF_SET`; no row missing but for the listed excuses; a full run is complete; nothing measured behind the late legs; liveness: a bring-up ends, ready or failed, and the battery gets to its matrix |
| MCBatteryDropped | the same confs | violated: a leg a target does not expose leaves no row |
| MCSuiteUnbound | every single key | violated: `--only drift` aborts on a variable that only `avts` sets |
| MCLateLegs | all eight server designs; three polls | clock restored when its calls ran; a seen loss of ntpd reported, no server blamed that re-anchors (`ClockVerdicts`); a lost producer and a device left at half resolution reported; liveness |
| MCSolo | five levels and turns; sessions of three invocations; two viewers, two clients, a ring of three lines | the watch never counts too much, a settled camera with hysteresis is never blamed; the bench left as found, a lost mode reported, verification and cast verdicts sound; refusals excused only with somebody else connected, no leak passes on an empty bench, old errors not charged and new ones found while the ring holds |
| MCStreams | three clock rates; three requests and frames; every mode of the hostile server's stream; sixteen packets with two faults | rate and ntpd put back unless a call was lost, a frozen server caught in an undisturbed run; the reader implements `OrderedReader`; no frame lost, repeated or overtaken; and `request()` returns; the number of missing packets exact over wraps, a stall told from a wrong stamp by a probe that has the track's own clock, the mode that misnumbers shows as lost packets and in no stamp, the two that misstamp in the counts of stamps, alike, and in no number; continuity errors and table, PCR and PES verdicts exact |
| MCEvil | two connections, the client of one may stop reading or go away | messages whole under the lock; the server implements `Interleaved`; liveness: a request is answered or its connection closed, whatever the other client does |
| MCProbes | every server of each probe, two faults | a conformance probe that comes to its end has lost no line to a side connection; its verdicts about PAUSE, the first frame and BYE, the session probe's, the cold start's, the fuzzer's and slow readers', and the backchannel's follow from what the server did |
| MCRfc | one session and the connections at its side, two faults | violated: half an answer on a connection at the side, and the probe never ends |
| MCCold | all servers and start times | violated: two snapshots served one behind the other pass as concurrent |
| MCBack | all servers | violated: a backchannel without video is skipped as one whose DESCRIBE was refused |
| MCReap | three advertised timeouts | violated: a server that goes on sending densely to a silent viewer gets no verdict |

The type invariants of `Bringup`, `Battery`, `Suite`, `RestartLegs`, `Ramp`,
`DriftLeg` and `EvilServer` are in no run; they are proved.

**Excuses.**  Many properties excuse something: a survivor, a lost call, a
missing reading, an excused row.  Each excuse was needed: without it TLC finds
the run of the code that breaks the property.  They are the places where the
code does less than a reader of its comments may think:

* a daemon of an earlier pass whose launcher was still inside execve at the
  teardown comes up beside the new set (run-battery:174), and a ring without a
  frame is accepted when its poll runs out (run-battery:308);
* passes 4, 5 and 12 leave no row when not exposed, a failed first bring-up
  ends the target, and a conf with DAEMONS_BASE but no way to reach the device
  leaves no row and no failure at all (run-battery:121-125, 521, 1014), which is
  what MCBatteryDropped shows of a header that says otherwise;
* a segment of the recording pass that cannot be fetched is passed over, and
  the row says that every segment decodes (run-battery:821-827);
* ntpd stays stopped, unreported, when the first question about it was lost
  (raptor-test:764), and putting the clock back leaves it slow when the step
  forward was the call that got lost (raptor-test:825);
* the old producer's ring file passes for the new one's when the restart call
  was lost (raptor-test:913), which only the consumer's check catches; and that
  check asks for any `codec_name` (raptor-test:933-934), which a server may have
  of its audio, or of its SDP, with no video behind it: such a server is excused;
* a reading that is no number abandons a bench leg in the middle, with the
  other cameras still quiesced or a mode still forced (raptor-test:1108, 1173);
  a verdict about a table that cannot be read is excused, and nothing is said of
  the script that then goes on into the sections;
* the colored cast leaves the room at the level of `--cast-key` where that is
  given, and not at `--lights-max` (raptor-test:1142-1144), and a cast without
  a neutral reference returns with the other cameras still quiesced
  (raptor-test:1151-1154);
* a viewer that left makes room for a leaked session (raptor-test:2596), and a
  refusal is excused by any viewer of the baseline, there or not
  (raptor-test:2494);
* once the log ring is full its length stays what it was, and errors of the run
  that lie in front of the old length are not looked at (raptor-test:2606);
* a frame between the head of an answer and the end of its body is taken for the
  body (rtsplib.py:155), though the comment above (rtsplib.py:101-107) speaks of
  frames "inside a short-written response"; and a connection that ends there
  leaves `request()` in its loop for ever, as it does `req()` of the conformance
  probe (rfc_check.py:80), where MCRfc shows what it costs;
* a probe killed by its caller's limit leaves no line, and the caller counts
  nothing (raptor-test:1673, 2973), which is what MCReap and MCBack show of
  docs that say otherwise;
* on a connection that ends without an answer to TEARDOWN, `req()` drops what
  came ahead of the end, a BYE included, and the bytes looked through are those
  ahead of an earlier answer (rfc_check.py:66-74, 535);
* a look over ssh that fails, or is slow, counts as one that found no ring
  (raptor-test:2957-2967): where one was slow, or as many failed as there was
  time for, the camera may be blamed for want of a ring it has made;
* a server that goes down and is restarted between two liveness checks of the
  fuzzer is not seen (fuzz_rtsp.py), nor is a slow reader that could not connect:
  its thread swallows the exception (slow_client.py:66), and the line about the
  client beside it says nothing then.  A reader that outlasts the five seconds of
  its `join()` still holds its session when the last client asks
  (slow_client.py:154-160);
* the conformance probe lowers its socket's timeout to 2 s and to 0.5 s on the
  way (rfc_check.py:293, 474) and does not raise it: a later answer that takes
  longer, with no frame in between, ends the probe without its remaining lines,
  where the docstring has nonzero exits for transport errors only
  (rfc_check.py:7-9); so does a reset of the connection while it counts frames,
  where a timeout alone is caught (rfc_check.py:297, 478);
* a packet seen twice takes one off the count of missing numbers, so as many
  repetitions hide a loss (seq_gap.py:59);
* a loss of a whole turn of a continuity counter is none, and a PES start that is
  out of line is looked at only behind the first PMT that names its PID
  (ts_census.py);
* a track without an rtpmap has no clock and every stall of it is called a spike
  (seq_gap.py:88), and with three sections the clock of the last audio goes into
  the video's (seq_gap.py:29-32), to the same effect: the comment that a stall is
  not the stamps' fault (81-83) holds of a track read with its own clock;
* the triage of the stamps takes the most frequent step for the honest one, so
  it says nothing of a stream in which faults are half of the steps
  (seq_gap.py:80);
* freqadj failing behind the stop of ntpd leaves it stopped
  (tools/drift-leg.sh:45), and an interrupted drift leg goes on to measure a
  clock it has put back (tools/drift-leg.sh:36).

**Bounds.**  Two bring-ups are enough for a process of one to meet the teardown
of the next; a producer and a consumer for the order and the ring between them
(the proofs cover any number).  The second target of the battery has a conf that
does not parse: it shows that the first one's rows and failures stay, not what
a second set of passes does, which starts from the same state but for them.
Two items per sweep give a
first failure behind and in front of a success.  Three invocations on the bench
let a first leave something, a second act on it and a third judge by it.  Two
poll attempts are a first and a last.  In `Demux` three frames are one in front of an answer, one in its head and one
behind it, and a third request is the first that can meet what two others left.
In `Health` a ring of three lines with
five logged overflows with any starting length.  `Linger < Tries` in `ClockStep`
is the code's own margin (15 s waits against the server's session timeout) and
an assumption on the server: with a server that keeps dropped sessions longer
than the tries last, no blame of a stale anchor is sound (`StaleBlameSound`, a
part of `ClockVerdicts`).  `MCEvil` has one client that asks twice (a second
PLAY, a TEARDOWN behind a PLAY) and one that asks once while the first holds
the lock; one frame of two packets has a middle and an end; the proof covers any
number of each.  In `SeqGap` a word of 64 numbers and one of 512 ticks wrap
within fifteen packets, the faults are two, and seqdrop's and the stamps'
periods (40 and 30 in the code) are short enough to come twice; the clock of another section
is five times slower (eleven in the code, 90000 against 8000).  In `TsCensus`
sixteen packets are four cycles of the muxer, and four counter values wrap in
them.  In `MCProbes` two faults make the second meet what the first left; the
advertised timeouts are one the reap probe waits for and one it does not; an
encoder starts at once, late, or behind the probe's budget of 8 s; seven rounds
in batches of three end inside a batch.

**Fairness.**  Only the scripts are assumed to go on: each of their commands has
a time limit (`timeout -k`, `ConnectTimeout`, bounded loops), so weak fairness
of the script's next step as a whole is justified.  An ssh call has none once it is
connected (`ConnectTimeout` bounds the connect): that it returns is assumed.  In `Demux` it is the call a
probe is in that goes on, by what has come or by the socket's timeout; that the
server does not send frames for ever is the bound on them.  In `EvilServer` every
thread that can run does, and the 30 s of `settimeout` (evil_server.py) pass
for a blocked call; nothing is asked of the clients.  In the instances of
several parts each part has its own fairness.  Nothing is assumed of the
device, with two exceptions the code relies on: in `RestartLegs` a producer that
was sent SIGTERM exits and the rider's session has a fixed length.

**Deadlock** is checked where the program's end is a step of the model that
repeats (`MCProbes`, `MCCold`, `MCBack`, `MCReap`): there a probe that waits for
ever would be one.  Elsewhere the programs stop, and it is not.

**Refinement.**  `EvilServer` implements `Interleaved`: the mapping takes the
numbers of the last answer, packet and report that *arrived whole* (`got`), and
a connection is shut when its handler has closed it.  What it says of the code:
neither the race between a PLAY's answer and the stream thread, nor a TEARDOWN
with the stream inside `sendall`, nor a close under it, nor a second PLAY lets a
client see an answer out of order, a packet in front of the answer to PLAY, or
two streams on one connection.

`Demux` implements `OrderedReader`: the mapping forgets the buffer, what is left
over, the text of the head and the wire, and keeps where the call is, the last
answer and the frames handed out.  What it says of the code: two loops that
leave each other half-read bytes, and one of which has a body to take out of
them, are together a reader that hands the frames out one by one in the order
they were sent, answers a request with its own answer or an empty one, and gives
up, at the end of the connection or by the socket's timeout, with no frame that
came still unread.  The last, and that an answer once returned stays until the
next request, is more than the invariants say.  Once a frame was mixed into an
answer nothing is promised any more (`Lapsed`).


## Proofs

**Bring-up.**  `BringupProofs` proves, for every set of daemons, ranks, passes, rings and every
number of bring-ups allowed by `ConstAssumption`:

| theorem | statement |
|---|---|
| `TypeCorrect` | `Spec => []TypeOK` |
| `TeardownCorrect` | `Spec => []OnlySurvivors` |
| `SeenCorrect` | `Spec => []SeenIsOurs` |
| `OrderCorrect` | `Spec => []LaunchInOrder` |
| `RingsCorrect` | `Spec => []RingBeforeConsumer` |
| `SignalsCorrect` | `Spec => KillAfterTerm` |

The argument is one inductive invariant, `IInv`, proved in `Invariance`.  The
properties are not inductive as they stand, for three reasons.  (1) A signal is
only evidence about an instance if no instance of the *current* bring-up has
had one, so `IInv` says what a fresh instance looks like and that instances of
later bring-ups do not exist.  (2) Between `killall` and the end of the grace
period the property is not yet true; `IInv` carries, for each place of the
script in the teardown, what is known of an older process there: named and
signalled, or unnamed and in `unseen`.  (3) Order and rings need the link
between the launch loop's remaining daemons (`todo`), what has been accepted and
what has been launched, which `IInv` states once for all places of the loop.
Each conjunct has its own lemma: it is preserved by every action.  The
assumption that producers come before consumers in the canonical order
(`ConstAssumption`) is what `RingsCorrect` rests on; `CANON_ORDER`
(run-battery:87-90) has it.

**Battery.**  `BatteryProofs` proves, for any targets, confs, `--backend` lists
and lengths of sweeps, `TypeCorrect`, `SweepCorrect` (`SweepTold`),
`TestedCorrect` (`TestedAsBroughtUp`) and `RowsCorrect` (`RowsButForExcused`).
The theorems are about `ScriptsSpec`, the specification TLC runs.
None of the three is inductive.  That a broken item fails its sweep needs
`SickInv`: between the item and the row, the count of failures is not zero.  That what is tested is what was brought up for
it needs `ConfInv`: which `CONF_SET` is in force at each step of a pass, and
that the two h265 main passes share one, so that the second of them may find it
set already.  That no row is missing needs `RowInv`, the same for the passes
*behind* the runner at every step, and `PlaceInv`, which says where the runner
is within a pass: a bring-up still to be made is of an exposed pass, whose label
is in the `--backend` list if it is a sweep.

**Suite.**  `SuiteProofs` proves, for any set of `--only` patterns and of flags,
`TypeCorrect`, `LateCorrect` (`LateLegsLast`) and `FullCorrect`
(`FullRunComplete`), about `ScriptsSpec` too.
That the late legs are last is an action property; what makes it hold is that
they are called in three places, each of which leaves the script but the one in
the last section, behind which there is only the result line: `LateAtEnd` says
so, and `RunsOn` that a script that has left does nothing more.  That a full run
ends needs `FullInv`: at each section, exactly the sections before it have run
(with those they call), and what each of them sets is set.  It is by this that
no section of a full run reads an unset variable; `MCSuiteUnbound` shows that a
filtered one does.

**Wall-clock step.**  `LateLegsProofs` proves, for any set of server designs
and any numbers of polls and tries with `Linger < Tries`, `ClockRestoredCorrect`
(`ClockRestored`) and `ClockVerdictsCorrect` (`ClockVerdicts`).  `ClockInv` says
what the clock is at each place of the leg as a function of which of its two
calls were carried out; `NtpdInv` that nothing stops ntpd behind the look for it.
The verdict about the anchor is the interesting part.  `AnchorInv` is the
argument of the code's three 15 s waits: as long as sessions of earlier legs may
still be held, fewer tries are left than they can outlive (this is where
`Linger < Tries` enters), and once they are gone a server that keeps no anchor
has none; then `RearmInv`: what the next session reports is of the stepped clock.

**Restart legs.**  `LateLegsProofs` proves, for any number of tries,
`TypeCorrect`, `LossCorrect` (`LossReported`) and `HalfCorrect`
(`HalfReported`).  That a consumer seen streaming proves a live producer needs
that the old one is not on its way out by then: the leg waits for a session that
outlives any exit (`SomeProducer`), and that the server has no codec to name
without one (`named`): what the check accepts of a server that has says nothing.  `FullBefore` and `FullBehind` say where the
resolution is known.

**Bench.**  `SoloProofs` proves, for any sequence of invocations of any length,
`BenchLeft` (`LeftAsFound`) and `BenchSound` (`BenchVerdicts`).  The invariant
has a part for each thing the legs leave behind for one another, each under the
readings and calls that it needs: the other cameras are released where nothing
has been quiesced (`FreeInv`), the light is full, or at a cast's key light where no leg has lit the room since (`LightInv`) and the mode auto
(`ModeInv`) but in the steps that change them, `recheck` is its own value unless
the cycle is at work (`RecheckInv`), a forced mode is the one `ric` is in
(`ForcedInv`), a camera still in night behind the first check has failed it
(`NightInv`), a verification without drift had the table of its rig (`RungInv`),
and a response is that of the wash it was taken under (`CastInv`).  The last two
relate a reading to the world at an *earlier* state, which somebody may have
changed since.

**Ramp.**  `SoloProofs` proves, for any number of levels, any two thresholds in
order and any number of turns, `TypeCorrect`, `CountCorrect` (`CountSound`) and
`VerdictCorrect` (`SoundCameraPasses`).  `trans <= flips` is not inductive: a
sample of an unchanged camera could push it over.  The strengthening is that
whenever the last answer differs from the camera's state, the watch is behind by
one turn (`Behind => trans < flips`).  That a sound camera is never blamed needs
`TurnInv`: such a camera turns at most once, and when it has, the light is beyond
the threshold on the far side, from where the ramp only leads further away.

**Health.**  `SoloProofs` proves `HealthCorrect` (`HealthVerdicts`), for any
numbers of viewers and clients and any length of the log ring.  `ViewerInv` says
that as long as nobody left, whoever was counted in front of the ladder is still
there, so a session more than that is a leak.  `RingInv` is what the sweep of the
log rests on: whatever the ring has dropped, a line behind the length taken as
the baseline has been logged since; and as long as baseline and run together fit
into the ring, every line of the run is behind it.

**Drift leg.**  `StreamsProofs` proves, for any rates in freqadj's range, any
injection and any number of interrupts, `TypeCorrect`, `RestoreCorrect`
(`DeviceRestored`) and `FrozenCorrect` (`FrozenCaught`).  The invariant says, for
each place of the script, what is known of the clock there; its core is
`Restored`: as long as no call was lost, a script with nothing in OLD_RAW has
either never injected or put it back, interrupts included.

**Hostile server.**  `EvilServerProofs` proves, for any set of connections, any
clients and any stream, `TypeCorrect`, `FramedCorrect` (`Framed`) and
`ServesCorrect` (`ServesInOrder`, the refinement).  No assumption on the
constants is needed but their types.  `Framed` is not inductive: it needs that
the lock is held exactly by the thread that is inside `sendall` (`LockInv`),
and that what was last begun on a connection is the message of the thread that
is inside (`PartInv`).  `WholeInv` joins the two: without a failure half a
message is on the wire only while a thread is inside.  The refinement needs that
the counters of the threads agree with what arrived (`CountInv`, `PlayInv`): the
answers that arrived are the requests parsed, less the one under way, and a
stream runs only behind an answer to PLAY that arrived.  After a failed answer
the two disagree for good, and `CountInv` says nothing of a handler that leaves:
it answers no more.

**Continuity probe.**  `StreamsProofs` proves `LossCorrect` (`LossExact`) for
numbers of any width, `TriageCorrect` (`TriageExact`) for stamps of any width, any
mixture of faults that are less than half of the steps and each of the clocks
(the track's own, none, a slower one), and `ModesCorrect`
(`ModeShows`) for the hostile server's modes with any period, skip and spike that
`ConstAssumption` allows.  `LossExact` comes down to two lemmas about
remainders, `ModAdd` and `ModSame`: the difference of two neighbouring numbers,
taken modulo the word, is what the sender added (`GInv`).  The triage counts over
the whole history of steps, and the counts are the cardinalities of sets of
indices (`Tally`), so that one more step adds one to one of them
(`TallyAppend`).  `TriInv` says that each step is one of a kind (on time, a stall,
far off, from the past) and that the tally of each kind is what the sender did;
with the faults in the minority the most frequent step is the one on time
(`ModalOnTime`), and the probe's comparisons with it sort the kinds apart.  For
the modes, `NumInv` has the gap that is open behind the last packet, which
`seqdrop` may have left inside a NAL, and `StampInv` the beat of the wrong
stamps: every cycle of frames has one step into a wrong stamp and one out of it,
and `Beat` bounds how many of each there are by the phase of the cycle, which is
what keeps the honest step the most frequent at every moment.

**Census.**  `StreamsProofs` proves `ContinuityCorrect` (`ContinuityExact`) for
counters of any width and `CensusCorrect` (`CensusTells`) for any number of
faults, any limits of at least one cycle and any capture of at least three.
`CensusInv` says that the counter the probe remembers of a PID is the one the
muxer last sent on it, less what is missing since (`ReadAs`).  `PlaceInv` is
about the notes: the clock references stand in order, every place between the
first and the last is around one of them (`Covered`), and a table was written no
later than the muxer has fallen behind (`WrittenAt`).  From it follows that the
interpolated times of a muxer on time are the true ones (`TimeIs`), so the
verdict about tables is the one of the true times (`TableIs`).  `ToldInv` says
of each fault what shows it: a wrong step between two references (`BadRef`),
which stays; or a place ahead of the first reference (`Early`), which shows
nothing; or, for a late packet, that the next reference will be the wrong step
(`Pending`).  `SoundInv` gives the places of a muxer without a fault in closed
form.

**Reader.**  `StreamsProofs` proves `AnswerCorrect` (`AnswerIntact`, which no run
checks by itself: `ReadsInOrder` says more), `FramesCorrect` (`FramesKept`) and
`ReaderCorrect` (`ReadsInOrder`, the refinement), for any number of requests and
frames, bodies of any length and any cutting of the stream.  The invariant, `DInv`, is about the
`Line`: what the reader has not looked at yet, what is on the wire, and what the
server still has to send of its answer.  Receiving and sending move its parts and
leave it as it is; only five steps change it.  The server puts a frame in
(`FrameInto`), opens an answer (`AskOpens`) or cuts one off by closing
(`CutAhead`); the reader takes a frame from the front (`FrameTaken`) or text
(`TextTaken`, `BodyTaken`).  `InOrder` says that the frames on the line are those
that follow the ones handed out, in their order, each with its payload behind it;
`Ahead` what of an answer is on the line at each place of `request()`: in the
head, the head asked for unless it is in `head_txt` already, then the blank line,
then as many units of the body as there are, with nothing in between.  That the
text taken ends at the next `$` and the blank line is looked for in the text
alone is what keeps both (`TextAhead`).  A frame behind the blank line breaks
`Ahead`, which is the condition (`split`) under which the theorems stand.  The
refinement needs no more than `DInv`: on the line every step is one of the
promise or unseen (`ReaderMaps`), a frame in front is the next one
(`DeliverMaps`), and a call that gives up has an empty line but for what is left
of its answer (`AllHanded`).

**Session probe.**  `ProbesProofs` proves `SessionCorrect` (`SessionSound`) for any
advertised timeouts and limits, and windows that tell a stream that flows from
one that has stopped (more than ten packets against fewer, the line the probe
draws).  `Gathered` bounds what can be in the buffer at each step: that the probe
empties it in front of a count is what keeps the packets of the old transport
out of a verdict about the new one.

**Fuzzer and slow clients.**  `AbuseCorrect` (`AbuseTells`), for any number of
rounds and any batch.  The property is about a server that is down for more than
a batch; `Batched` counts the rounds since the last liveness check by the
remainder of the round's number (`SmallRest`, `NextRest`), and shows that no more
than a batch of them go by unasked, the last and shorter one included.  A line
about a client beside the slow readers is judged by whether a reader held the
server when it was asked for, and `AbuseLegs` that none is before its time.

**Backchannel.**  `BackchannelCorrect` (`BackchannelSound`), for the two
processes, any hold, polls and lags within `ConstAssumption`: the hold outlasts
what is left of it behind a receiver report (8 s and 4 s), sending and holding
end within the caller's limit, a ring that comes does so two seconds before the
shortest hold ends, and the looks last as long as that hold (ten looks, four
seconds).  Looks may fail or be slow: the camera is blamed for want of a ring it
made only behind a slow look, or when as many failed as there was time for.  `BackTimes` ties the place of the probe to the clock, `BackTokens`
what has reached the file to what was said, and `BackLooks` the number of looks
to the clock, and the failed ones to the time since the ring came (`MissedTo`):
as long as no look is slow there is one a second, and the caller stops looking
only when it has seen the ring, when none comes, or when all that could have
found it have failed.

**Cold start.**  `ColdCorrect` (`ColdSound`), for any start times, budget and
patience not below it (8 s and 12 s).  `AloneInv` and `PairInv` say that what an
encoder still needs and what it has taken add up to its start time, for one
request and for two at once; the clock then ends with the slower of the two,
which is what the line about concurrency compares.

**Conformance probe.**  `RfcContained` (`Contained`) and `RfcDeliverySound`
(`DeliverySound`), for any number of faults, any number of frames under way and
any window of more than ten frames.  The invariant numbers the checks in the
order of the script: `LinesInv` says that every check behind the probe's place
has its line (or that one line stands for the two of a refused PAUSE).  `ConnInv` holds the sockets apart: side connections come and go, and
the session's socket and its CSeq are put by and taken up again around each.
`WindowInv` says what the windows around PAUSE hold, in particular that what was
under way at its answer has been taken out before the count; `ToldInv` what
follows for the three verdicts once they are given, and that none is given early.

**Unions.**  `LegsMerged`, `PartsMerged` and `StreamsMerged` prove that every
behaviour of the modules TLC runs in one state space is one of each part, so a
theorem about a part is one about the run; `ProbesProofs` is about the union
directly.

**Assumptions.**  What a theorem assumes of the constants is the
`ConstAssumption` of its module, and beyond the types, and counts that are not
zero, it is this: producers
before consumers in the canonical order (`Bringup`), `Linger < Tries`
(`ClockStep`), more than eight ticks for a step that is far off and a clock of
another section at least three times slower (`SeqGap`), and words of
numbers and stamps that hold three skips and nine such steps (`SeqGap`), a period
of at least four frames for the wrong stamps and of less than one and a half such
periods for the lost numbers (`SeqGap`; 30 and 40 in the code), three cycles of
the muxer in a capture and one within each limit (`TsCensus`), windows of more than
ten frames (`RfcCheck`, `SessionProbe`) and fewer than ten under way
(`SessionProbe`), `Budget <= Patience` (`RhdCold`), and the times of
`Backchannel`.  Most are about constants of the code.  The windows, `Linger` and
the backchannel's lags say which servers the lines are about: one outside them
(with a stream so thin that ten frames do not come in a window) is one the
code's own threshold cannot judge.  TLC evaluates each assumption on the
runs' values.

**Only model-checked.**

* Liveness (`BringupEnds`, `BatteryEnds`, `LateLegsEnd`, `RequestEnds`,
  `Answered`) and whatever needs ENABLED: the prover does not handle fairness.
* The runs that show a disagreement: a counterexample is its own proof.


## Not modelled, and why

Third-party clients (ffmpeg, VLC, go2rtc, mediamtx, Frigate, aiortc) are
external: their legs start a program and read its words.  Floating-point
statistics (slopes, percentiles; `sr_drift.py`, `sr_coherence.py`,
`arrival_gap.py`, the soak) are outside TLC's arithmetic; where they decide
a verdict the modules take the verdict as a choice.  The lints of an SDP and of
RTP, RTCP and AAC headers (rfc_check.py 128-210, 376-460) compare fields of one
message, and what the fuzzer's mutations are made of is data.  The captures
(`transports`, `wire`, `content` and the like) run a tool and compare a number
it prints.  Formatting, colors, JSON
records and the history files decide nothing.  The helpers under `tools/` other
than the drift leg run the suite and read its output.  The EXIT trap and an
interrupt of the suite itself are not modelled yet (see the plan).


## Plan

1. **Done.**  `Bringup`, `Battery`, `Suite`; the late legs `ClockStep`,
   `RestartLegs`; the bench `Bench`, `Ramp`; `Health`; `DriftLeg`; the client's
   reader `Demux` as an implementation of `OrderedReader`; the probes of one
   protocol; `SeqGap`, `TsCensus`; the hostile server as an implementation of
   `Interleaved`; proofs of every safety property
   that a passing run checks.
2. **The client.**  The digest retry of `request()`.
3. **Interrupts.**  The EXIT trap, `CLIENT_PIDS` and the background processes it
   does not know.
4. **Abstract specifications.**  `Bringup` as an implementation of "replace the
   set of daemons, but for survivors"; `Battery` as an implementation of a
   matrix filled in order, each cell at most once per item.
5. **Algorithms.**  `Unwrap` (sr_drift.py) against a reference definition; the
   connection set-up of `webrtc_check.py`; the verdict rules of `capture()`.
