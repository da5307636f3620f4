------------------------------ MODULE RestartLegs ------------------------------
(* The two legs of late_legs that restart what feeds the stream under its      *)
(* consumers: the ring producer (raptor-test:890-948), then the encoder, by    *)
(* way of a resolution change (raptor-test:950-1012).  A remote call may not   *)
(* run at all; the compound one that restarts the producer may also be cut     *)
(* between its kill and its launch.                                            *)
EXTENDS Naturals

CONSTANT Polls   \* bound: tries of each polling loop (40, 15 and 10)

ASSUME PollsAssumption == Polls \in Nat \ {0}

VARIABLES
  pc,        \* where the legs are
  polls,     \* tries the current loop has made
  verdict,   \* the checks recorded
  old,       \* the producer found running: up, dying, gone
  new,       \* the one launched: none, starting, mapped, streaming, dead
  kind,      \* the producer is rvd, which encodes, or rfs, which plays a file
  ring,      \* whose /dev/shm/rss_ring_main there is
  consumer,  \* the RTSP server is attached to a live producer
  named,     \* it has a codec to name without one: audio of its own, or of its SDP
  res,       \* the resolution of stream 0
  raised,    \* the call for the up-flip ran
  rider,     \* the WebRTC session: none, riding, over
  rode       \* the flips it was there for

legVars    == <<pc, polls, verdict, raised>>
deviceVars == <<old, new, kind, ring, consumer, named, res>>
vars == <<legVars, deviceVars, rider, rode>>

Check == {"ring", "consumer", "down", "up", "webrtc"}
PC == {"ask", "restart", "ring", "victim", "consumer", "dims", "ride", "down",
       "halved", "up", "raised", "rider", "done"}

Streaming == old \in {"up", "dying"} \/ new = "streaming"
Serving == consumer /\ Streaming
Record(c, r) == verdict' = [verdict EXCEPT ![c] = r]

Init ==
  /\ pc = "ask" /\ polls = 0 /\ verdict = [c \in Check |-> "none"]
  /\ old = "up" /\ new = "none" /\ kind \in {"rvd", "rfs"} /\ ring = "old"
  /\ consumer = TRUE /\ named \in BOOLEAN /\ res = "full" /\ raised = FALSE
  /\ rider = "none" /\ rode = {}

------------------------------------------------------------------------------
(* The device: the daemons' own code is elsewhere, these are the steps the     *)
(* legs wait for.                                                              *)

(* The terminated producer exits, with or without its ring.                    *)
OldExits ==
  /\ old = "dying" /\ old' = "gone"
  /\ ring' \in {ring, "none"}
  /\ consumer' = (consumer /\ new = "streaming")
  /\ UNCHANGED <<legVars, new, kind, named, res, rider, rode>>

NewMaps ==
  /\ new = "starting" /\ new' = "mapped" /\ ring' = "new"
  /\ UNCHANGED <<legVars, old, kind, named, consumer, res, rider, rode>>

NewStreams ==
  /\ new = "mapped" /\ new' = "streaming" /\ res' = "full"
  /\ UNCHANGED <<legVars, old, kind, named, ring, consumer, rider, rode>>

(* It may fail to start, and leave its ring behind.                            *)
NewDies ==
  /\ new \in {"starting", "mapped"} /\ new' = "dead"
  /\ UNCHANGED <<legVars, old, kind, named, ring, consumer, res, rider, rode>>

(* The consumer reconnects on its own tick.                                    *)
Reconnect ==
  /\ ~consumer /\ new = "streaming" /\ ring = "new"
  /\ consumer' = TRUE
  /\ UNCHANGED <<legVars, old, new, kind, named, ring, res, rider, rode>>

(* The WebRTC session has a length of its own, 35s.                            *)
RiderEnds ==
  /\ rider = "riding" /\ rider' = "over"
  /\ UNCHANGED <<legVars, deviceVars, rode>>

------------------------------------------------------------------------------
(* The producer restart.                                                       *)

(* Which producer runs, and its binary: no answer is no producer.              *)
AskProducer ==
  /\ pc = "ask" /\ pc' \in {"restart", "dims"}
  /\ UNCHANGED <<polls, verdict, raised, deviceVars, rider, rode>>

(* killall, sleep 3, nohup, under the victim's session.                        *)
Restart ==
  /\ pc = "restart" /\ pc' = "ring" /\ polls' = 0
  /\ \/ UNCHANGED <<old, new>>
     \/ old' = "dying" /\ new' \in {"none", "starting"}
  /\ UNCHANGED <<verdict, raised, kind, named, ring, consumer, res, rider, rode>>

(* One look for the ring file, whoever left it there.                          *)
PollRing ==
  /\ pc = "ring" /\ polls' = polls + 1
  /\ \/ ring # "none" /\ Record("ring", "pass") /\ pc' = "victim"
     \/ polls' < Polls /\ UNCHANGED <<verdict, pc>>
     \/ polls' = Polls /\ Record("ring", "fail") /\ pc' = "victim"
  /\ UNCHANGED <<raised, deviceVars, rider, rode>>

(* The victim's 20s session outlives any exit of the old producer.             *)
WaitVictim ==
  /\ pc = "victim" /\ old # "dying"
  /\ pc' = "consumer" /\ polls' = 0
  /\ UNCHANGED <<verdict, raised, deviceVars, rider, rode>>

(* Fault: the ring is taken for the consumer's recovery. *)
PollConsumerNot ==
  /\ pc = "consumer" /\ polls' = polls + 1
  /\ Record("consumer", IF verdict["ring"] = "pass" THEN "pass" ELSE "fail")
  /\ pc' = "dims"
  /\ UNCHANGED <<raised, deviceVars, rider, rode>>

(* One ffprobe, which passes on the codec name of any stream, video or not.     *)
PollConsumer ==
  /\ pc = "consumer" /\ polls' = polls + 1
  /\ \/ (Serving \/ named) /\ Record("consumer", "pass") /\ pc' = "dims"
     \/ polls' < Polls /\ UNCHANGED <<verdict, pc>>
     \/ polls' = Polls /\ Record("consumer", "fail") /\ pc' = "dims"
  /\ UNCHANGED <<raised, deviceVars, rider, rode>>

------------------------------------------------------------------------------
(* The resolution flips.                                                       *)

(* The present dimensions, or nothing to do.                                   *)
ReadDims ==
  /\ pc = "dims"
  /\ pc' \in {"done"} \cup (IF Serving THEN {"ride"} ELSE {})
  /\ UNCHANGED <<polls, verdict, raised, deviceVars, rider, rode>>

(* The rider, where its tools are installed.                                   *)
StartRider ==
  /\ pc = "ride" /\ pc' = "down"
  /\ rider' \in {"none", "riding"}
  /\ UNCHANGED <<polls, verdict, raised, deviceVars, rode>>

(* A set-resolution that reaches an rvd is obeyed by it.                       *)
Flip(r) ==
  /\ res' = IF kind = "rvd" /\ Streaming THEN r ELSE res
  /\ rode' = IF rider = "riding" THEN rode \cup {r} ELSE rode

FlipDown ==
  /\ pc = "down" /\ pc' = "halved" /\ polls' = 0
  /\ Flip("half") \/ UNCHANGED <<res, rode>>
  /\ UNCHANGED <<verdict, raised, old, new, kind, named, ring, consumer, rider>>

(* The server streams at resolution r, within the loop's tries.                *)
ResProbe(c, r, next) ==
  /\ polls' = polls + 1
  /\ \/ Serving /\ res = r /\ Record(c, "pass") /\ pc' = next
     \/ polls' < Polls /\ UNCHANGED <<verdict, pc>>
     \/ polls' = Polls /\ Record(c, "fail") /\ pc' = next
  /\ UNCHANGED <<raised, deviceVars, rider, rode>>

ProbeHalved == pc = "halved" /\ ResProbe("down", "half", "up")

(* Always, whatever the probe said.                                            *)
FlipUp ==
  /\ pc = "up" /\ pc' = "raised" /\ polls' = 0
  /\ raised' \in BOOLEAN
  /\ IF raised' THEN Flip("full") ELSE UNCHANGED <<res, rode>>
  /\ UNCHANGED <<verdict, old, new, kind, named, ring, consumer, rider>>

(* Fault: a stream at any resolution will do. *)
ProbeRaisedAny ==
  /\ pc = "raised" /\ polls' = polls + 1
  /\ \/ Serving /\ Record("up", "pass") /\ pc' = "rider"
     \/ polls' < Polls /\ UNCHANGED <<verdict, pc>>
     \/ polls' = Polls /\ Record("up", "fail") /\ pc' = "rider"
  /\ UNCHANGED <<raised, deviceVars, rider, rode>>

ProbeRaised == pc = "raised" /\ ResProbe("up", "full", "rider")

(* The rider's own report, when there was one: clean or not.                   *)
WaitRider ==
  /\ pc = "rider" /\ rider # "riding"
  /\ IF rider = "over" THEN \E r \in {"pass", "fail"} : Record("webrtc", r)
                       ELSE UNCHANGED verdict
  /\ pc' = "done"
  /\ UNCHANGED <<polls, raised, deviceVars, rider, rode>>

Legs ==
  \/ AskProducer \/ Restart \/ PollRing \/ WaitVictim \/ PollConsumer
  \/ ReadDims \/ StartRider \/ FlipDown \/ ProbeHalved \/ FlipUp
  \/ ProbeRaised \/ WaitRider

Next ==
  \/ Legs
  \/ OldExits \/ NewMaps \/ NewStreams \/ NewDies \/ Reconnect \/ RiderEnds

Spec == Init /\ [][Next]_vars

------------------------------------------------------------------------------
(* Type correctness. *)
TypeOK ==
  /\ pc \in PC
  /\ polls \in 0 .. Polls
  /\ verdict \in [Check -> {"none", "pass", "fail"}]
  /\ old \in {"up", "dying", "gone"}
  /\ new \in {"none", "starting", "mapped", "streaming", "dead"}
  /\ kind \in {"rvd", "rfs"}
  /\ ring \in {"old", "none", "new"}
  /\ consumer \in BOOLEAN
  /\ named \in BOOLEAN
  /\ res \in {"full", "half"}
  /\ raised \in BOOLEAN
  /\ rider \in {"none", "riding", "over"}
  /\ rode \subseteq {"half", "full"}

Failed == \E c \in Check : verdict[c] = "fail"

(* A device left without a producer is a recorded failure: a ring that          *)
(* outlived it does not pass for it (raptor-test:909-945).  Where the server    *)
(* has a codec to name without a producer, audio above all, it may pass: the    *)
(* probe does not look for video (932-934).                                     *)
LossReported ==
  pc = "done" /\ old = "gone" /\ new \in {"none", "dead"} => Failed \/ named

(* A device left at half resolution is a recorded failure                      *)
(* (raptor-test:976-998).                                                      *)
HalfReported == pc = "done" /\ res = "half" => verdict["up"] = "fail"

================================================================================
