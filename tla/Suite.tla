--------------------------------- MODULE Suite ---------------------------------
(* raptor-test's run over one endpoint: the sections in their order, what       *)
(* --only, --core and --soak let through, the shell variables and functions     *)
(* later sections take from earlier ones, and the result line.  A section is    *)
(* one step that records its checks; the late legs have modules of their own    *)
(* (ClockStep, RestartLegs).                                                    *)
EXTENDS Naturals, Sequences

CONSTANTS
  Only,    \* the sets of section keys an --only pattern can match
  Flags    \* the invocations, sets of the flags in Flag

(* The flags that change the order of things.  A section whose own flag is      *)
(* missing records a skip, which is a check like any other here.                *)
Flag == {"core", "soak", "restreamer", "cast"}

Sections ==
  <<"signaling", "auth", "soak", "transports", "wire", "sessions", "avts", "drift",
    "content", "rfc", "fuzz", "concurrency", "regression", "kill", "health",
    "daynight", "mpv", "join", "ortsp", "slow", "rhd", "backchannel", "mjpeg",
    "srt", "tls", "rtmp", "webrtc", "frigate", "reccheck">>

Count == 29

(* restream and colorcast are asked about inside other sections.                *)
Key == {Sections[i] : i \in 1 .. Count} \cup {"restream", "colorcast"}

ConstAssumption ==
  /\ Only \subseteq SUBSET Key /\ Only # {}
  /\ Flags \subseteq SUBSET Flag /\ Flags # {}

VARIABLES
  only,     \* the keys --only matches: all of them without it
  flags,    \* the flags given
  at,       \* the section the script is at, or Count + 1
  bound,    \* the shell variables and functions sections have set
  ran,      \* the keys that ran and recorded their checks
  late,     \* late_legs ran
  failed,   \* FAIL is above 0
  result,   \* the result line is printed
  exit      \* none, 0, 1, or unbound: an abort under set -u

vars == <<only, flags, at, bound, ran, late, failed, result, exit>>

Want(k) == k \in only

Init ==
  /\ only \in Only /\ flags \in Flags
  /\ at = 1 /\ bound = {} /\ ran = {} /\ late = FALSE
  /\ failed = FALSE /\ result = FALSE /\ exit = "none"

------------------------------------------------------------------------------
At(k) == exit = "none" /\ at <= Count /\ Sections[at] = k

(* The next section.                                                            *)
GoOn == at' = at + 1 /\ UNCHANGED <<late, result, exit>>

(* The checks of the sections ks are recorded, some of which may fail.          *)
Checks(ks) ==
  /\ ran' = ran \cup ks
  /\ failed' \in {failed, TRUE}

(* What the script does on a variable no section has set.                       *)
Unbound ==
  /\ exit' = "unbound"
  /\ UNCHANGED <<at, bound, late, result, ran, failed>>

(* print_result: exit 1 after any failed check.                                 *)
PrintResult == result' = TRUE /\ exit' = IF failed' THEN "1" ELSE "0"

(* late_legs, then print_result.                                                *)
Finish(ks) ==
  /\ Checks(ks)
  /\ late' = TRUE
  /\ PrintResult
  /\ UNCHANGED at

Skip ==
  /\ exit = "none" /\ at <= Count /\ ~Want(Sections[at])
  /\ GoOn
  /\ UNCHANGED <<only, flags, bound, ran, failed>>

(* The variables a section reads in the script's own shell, where an unbound    *)
(* one ends the script; in a command substitution it only empties the result.   *)
Reads(k) == IF k \in {"drift", "content"} THEN {"AP"} ELSE {}

(* The variables it sets for others.                                            *)
Sets(k) ==
  CASE k = "signaling" -> {"SDP"}
    [] k = "auth"      -> {"CONFIG"}
    [] k = "avts"      -> {"AP"}
    [] k = "fuzz"      -> {"restream_legs"}
    [] OTHER           -> {}

Special == {"soak", "fuzz", "daynight", "mjpeg", "reccheck"}

Section ==
  /\ exit = "none" /\ at <= Count /\ Want(Sections[at])
  /\ Sections[at] \notin Special
  /\ IF Reads(Sections[at]) \subseteq bound
       THEN /\ Checks({Sections[at]})
            /\ bound' = bound \cup Sets(Sections[at])
            /\ GoOn
       ELSE Unbound
  /\ UNCHANGED <<only, flags>>

(* Fault: the soak goes on into the battery it replaces. *)
SoakGoesOn ==
  /\ At("soak") /\ Want("soak")
  /\ IF "soak" \in flags
       THEN Checks({"soak"}) /\ late' = TRUE /\ at' = at + 1 /\ UNCHANGED <<result, exit>>
       ELSE GoOn /\ UNCHANGED <<ran, failed>>
  /\ UNCHANGED <<only, flags, bound>>

(* --soak replaces the battery.                                                 *)
Soak ==
  /\ At("soak") /\ Want("soak")
  /\ IF "soak" \in flags THEN Finish({"soak"}) ELSE GoOn /\ UNCHANGED <<ran, failed>>
  /\ UNCHANGED <<only, flags, bound>>

(* What restream_legs runs, and whether it may not come out: it reads CONFIG    *)
(* once a restreamer answers.                                                   *)
Restreams == IF Want("restream") THEN {"restream"} ELSE {}
RestreamMayAbort ==
  Want("restream") /\ "restreamer" \in flags /\ "CONFIG" \notin bound

(* The fuzzing, the definition of restream_legs, and the end of a core run.     *)
Fuzz ==
  /\ At("fuzz") /\ Want("fuzz")
  /\ \/ /\ "core" \notin flags
        /\ Checks({"fuzz"})
        /\ GoOn
        /\ bound' = bound \cup Sets("fuzz")
     \/ /\ "core" \in flags
        /\ Finish({"fuzz"} \cup (IF "restreamer" \in flags THEN Restreams ELSE {}))
        /\ UNCHANGED bound
     \/ "core" \in flags /\ RestreamMayAbort /\ Unbound
  /\ UNCHANGED <<only, flags>>

DayNight ==
  /\ At("daynight") /\ Want("daynight")
  /\ Checks({"daynight"} \cup
            (IF "cast" \in flags /\ Want("colorcast") THEN {"colorcast"} ELSE {}))
  /\ GoOn
  /\ UNCHANGED <<only, flags, bound>>

(* Fault: the call is lost from the section. *)
MjpegAlone ==
  /\ At("mjpeg") /\ Want("mjpeg")
  /\ Checks({"mjpeg"})
  /\ GoOn
  /\ UNCHANGED <<only, flags, bound>>

(* MJPEG, then restream_legs: an unknown command where fuzz did not run.        *)
Mjpeg ==
  /\ At("mjpeg") /\ Want("mjpeg")
  /\ \/ /\ Checks({"mjpeg"} \cup
                  (IF "restream_legs" \in bound THEN Restreams ELSE {}))
        /\ GoOn /\ UNCHANGED bound
     \/ "restream_legs" \in bound /\ RestreamMayAbort /\ Unbound
  /\ UNCHANGED <<only, flags>>

(* The last section has the late legs in it.                                    *)
RecCheck ==
  /\ At("reccheck") /\ Want("reccheck")
  /\ Checks({"reccheck"})
  /\ late' = TRUE /\ at' = at + 1
  /\ UNCHANGED <<only, flags, bound, result, exit>>

End ==
  /\ exit = "none" /\ at = Count + 1
  /\ UNCHANGED failed /\ PrintResult
  /\ UNCHANGED <<only, flags, at, bound, ran, late>>

Next == Skip \/ Section \/ Soak \/ Fuzz \/ DayNight \/ Mjpeg \/ RecCheck \/ End

Spec == Init /\ [][Next]_vars
------------------------------------------------------------------------------
(* Type correctness. *)
TypeOK ==
  /\ only \in Only
  /\ flags \in Flags
  /\ at \in 1 .. Count + 1
  /\ bound \subseteq {"SDP", "CONFIG", "AP", "restream_legs"}
  /\ ran \subseteq Key
  /\ late \in BOOLEAN
  /\ failed \in BOOLEAN
  /\ result \in BOOLEAN
  /\ exit \in {"none", "0", "1", "unbound"}

(* What a run of everything has in it: a soak takes the place of the battery,   *)
(* a core run ends behind the fuzzing, with restream_legs if a restreamer is    *)
(* named, and the others run to the end.                                        *)
Due ==
  IF "soak" \in flags THEN {"signaling", "auth", "soak"}
  ELSE IF "core" \in flags
    THEN ({Sections[i] : i \in 1 .. 11} \ {"soak"})
           \cup (IF "restreamer" \in flags THEN {"restream"} ELSE {})
    ELSE Key \ (IF "cast" \in flags THEN {"soak"} ELSE {"soak", "colorcast"})

(* Under every combination of flags a run without --only runs all it is due,    *)
(* and comes out behind the late legs, wherever it leaves: each section finds   *)
(* what it takes from earlier ones, and restream_legs is defined when called    *)
(* (raptor-test:1435-3507, and 1584-1586, 2444-2454 for the ends in the middle). *)
FullRunComplete ==
  exit # "none" /\ only = Key => exit # "unbound" /\ late /\ ran = Due

------------------------------------------------------------------------------
(* What the code's own words say, and it does not do.                           *)

(* "Some legs derive context (e.g. codec) from earlier sections and fall back   *)
(* to defaults when those are skipped" (raptor-test:68-70, 219-220).            *)
NeverUnbound == exit # "unbound"
================================================================================
