--------------------------------- MODULE Bench ---------------------------------
(* The legs that drive a physical bench: the day/night cycle, the colored cast,  *)
(* the calibration of the room light and its verification (raptor-test:418-749,  *)
(* 1026-1343).  They share a room light, the wash, the other cameras of the      *)
(* bench, the camera's day/night daemon ric and two pinned files, and a session  *)
(* on the bench is a sequence of them.  Every call to the camera may be lost;    *)
(* a reading of its exposure may lack a field or not come at all.  The commands  *)
(* that set the lights are local and taken to work.                              *)
EXTENDS Naturals, Sequences

CONSTANTS
  Invocation,   \* the invocations, among Legs
  MaxRun,       \* bound: the invocations of a session
  CastKey       \* the light of the cast: full, or the level of --cast-key

(* --light-cal, --light-verify, --daynight-only, --colorcast-only, and a battery *)
(* with --daynight and --lights-cast.                                            *)
Legs == {"cal", "verify", "daynight", "cast", "suite"}

ConstAssumption ==
  /\ Invocation \subseteq Legs
  /\ MaxRun \in Nat
  /\ CastKey \in {"full", "key"}

VARIABLES
  run, inv,   \* the number of the invocation, and the invocation
  pc,         \* where it is
  stage,      \* the light transition the cycle is at
  todo,       \* the rungs light_verify_run has still to compare
  drift,      \* it has found drift
  prev,       \* the mode to restore
  verdict,    \* the checks recorded
  battery,    \* the stream battery was entered
  bench,      \* the other cameras: free, quiesced
  light,      \* the room light: full, key, deep, dark
  rig, wash,  \* the physical state of the light and of the wash: 1 or 2
  mode,       \* ric's mode: auto, day, night
  state,      \* ric's state: day, night
  recheck,    \* ric's probe_recheck_sec
  table,      \* the .lightcal: the rig it was measured on, or none, or unreadable
  cast,       \* the .colorcal: the responses pinned in it, and the wash they are of
  seen,       \* the responses measured by this leg: a wash, or 0 for no reading
  lost,       \* a call to ric was lost in this session
  unread      \* a reading of the exposure was lost in it

legVars   == <<run, inv, pc, stage, todo, drift, prev, verdict, battery, seen>>
benchVars == <<bench, light, rig, wash>>
ricVars   == <<mode, state, recheck>>
fileVars  == <<table, cast>>
vars == <<legVars, benchVars, ricVars, fileVars, lost, unread>>

Check == {"auto", "verify", "hold", "reacquire", "drift"}
NoTable == 0
Unreadable == 3
NoCast == [of |-> 0, resp |-> 0]
NoVerdicts == [c \in Check |-> "none"]
Record(c, r) == verdict' = [verdict EXCEPT ![c] = r]

Init ==
  /\ run = 0 /\ inv = "none" /\ pc = "idle" /\ stage = 1
  /\ todo = <<>> /\ drift = FALSE /\ prev = "auto"
  /\ verdict = NoVerdicts /\ battery = FALSE /\ seen = 0
  /\ bench = "free" /\ light = "full" /\ rig = 1 /\ wash = 1
  /\ mode = "auto" /\ state = "day" /\ recheck = "own"
  /\ table = NoTable /\ cast = NoCast /\ lost = FALSE /\ unread = FALSE

------------------------------------------------------------------------------
(* The bench and the camera.                                                    *)

(* In auto, ric follows the light; a key level may be on either side of its     *)
(* thresholds.                                                                  *)
RicFollows ==
  /\ mode = "auto"
  /\ state' \in {"day", "night"} \ {state}
  /\ light = "full" => state' = "day"
  /\ light \in {"deep", "dark"} => state' = "night"
  /\ UNCHANGED <<legVars, benchVars, mode, recheck, fileVars, lost, unread>>

(* Between invocations somebody moves the camera, or the wash.                  *)
Rearranged ==
  /\ pc = "idle"
  /\ \/ rig' = 3 - rig /\ UNCHANGED wash
     \/ wash' = 3 - wash /\ UNCHANGED rig
  /\ UNCHANGED <<legVars, bench, light, ricVars, fileVars, lost, unread>>

(* raptorctl ric mode m, which ran or did not.                                  *)
SetMode(m, ran) ==
  /\ mode' = IF ran THEN m ELSE mode
  /\ state' = IF ran /\ m # "auto" THEN m ELSE state
  /\ lost' = (lost \/ ~ran)

(* The mode read before forcing day; without an answer auto is assumed.         *)
AskMode(answered) == prev' = IF answered THEN mode ELSE "auto"

------------------------------------------------------------------------------
Invoke(i) ==
  /\ pc = "idle" /\ run < MaxRun
  /\ run' = run + 1 /\ inv' = i
  /\ pc' = IF i \in {"daynight", "suite"} THEN "status" ELSE i
  /\ verdict' = NoVerdicts /\ battery' = (i = "suite")
  /\ stage' = 1 /\ drift' = FALSE /\ seen' = 0
  /\ UNCHANGED <<todo, prev, benchVars, ricVars, fileVars, lost, unread>>

------------------------------------------------------------------------------
(* light_cal.                                                                   *)

CalStart ==
  /\ pc = "cal" /\ pc' = "ladder"
  /\ bench' = "quiesced"
  /\ \E asked, ran \in BOOLEAN : AskMode(asked) /\ SetMode("day", ran)
  /\ UNCHANGED <<run, inv, stage, todo, drift, verdict, battery, seen, light, rig,
                 wash, recheck, fileVars, unread>>

(* Down the ladder to 0; the table replaces the one there was, read or not.     *)
CalLadder ==
  /\ pc = "ladder" /\ pc' = "calend"
  /\ light' = "dark"
  /\ \/ table' = rig /\ UNCHANGED unread
     \/ table' = Unreadable /\ unread' = TRUE
  /\ UNCHANGED <<run, inv, stage, todo, drift, prev, verdict, battery, seen, bench,
                 rig, wash, ricVars, cast, lost>>

(* Fault: the calibration leaves the camera in day. *)
CalEndDay ==
  /\ pc = "calend" /\ pc' = "over"
  /\ bench' = "free" /\ light' = "full"
  /\ UNCHANGED <<run, inv, stage, todo, drift, prev, verdict, battery, seen, rig,
                 wash, ricVars, fileVars, lost, unread>>

CalEnd ==
  /\ pc = "calend" /\ pc' = "over"
  /\ \E ran \in BOOLEAN : SetMode(prev, ran)
  /\ bench' = "free" /\ light' = "full"
  /\ UNCHANGED <<run, inv, stage, todo, drift, prev, verdict, battery, seen, rig,
                 wash, recheck, fileVars, unread>>

------------------------------------------------------------------------------
(* light_verify_run, of --light-verify or of the cycle.                         *)

(* Its status goes to --light-verify's exit, or lets the cycle on to its light  *)
(* legs; otherwise they are skipped.                                            *)
VerifyReturns(ok) ==
  /\ Record("verify", IF ok THEN "pass" ELSE IF inv = "verify" THEN "fail" ELSE "skip")
  /\ IF inv = "verify" THEN pc' = "over" /\ bench' = "free"
     ELSE pc' = (IF ok THEN "turn" ELSE "restore") /\ UNCHANGED bench

(* A table of less than four rungs leaves none to compare: the status of its    *)
(* parser is lost behind set.                                                   *)
Rungs == IF table \in {1, 2} THEN <<"full", "deep", "dark">> ELSE <<>>

VerifyStart ==
  /\ pc = "verify"
  /\ IF table = NoTable
       THEN VerifyReturns(FALSE) /\ UNCHANGED <<todo, drift, prev, mode, state, lost>>
       ELSE /\ todo' = Rungs /\ drift' = FALSE /\ pc' = "rung"
            /\ bench' = IF inv = "verify" THEN "quiesced" ELSE bench
            /\ \E asked, ran \in BOOLEAN : AskMode(asked) /\ SetMode("day", ran)
            /\ UNCHANGED verdict
  /\ UNCHANGED <<run, inv, stage, battery, seen, light, rig, wash, recheck, fileVars,
                 unread>>

(* Fault: the comparison starts over at every rung. *)
VerifyRungLast ==
  /\ pc = "rung" /\ todo # <<>>
  /\ light' = Head(todo)
  /\ \/ /\ drift' = (light' = "deep" /\ table # rig) /\ todo' = Tail(todo)
        /\ UNCHANGED <<pc, verdict, bench, unread>>
     \/ /\ VerifyReturns(FALSE) /\ unread' = TRUE /\ todo' = <<>>
        /\ UNCHANGED drift
  /\ UNCHANGED <<run, inv, stage, prev, battery, seen, rig, wash, ricVars, fileVars,
                 lost>>

(* One rung: its luma against the table.  A reading that is no number is an     *)
(* error of the arithmetic, which ends the subshell the function runs in.       *)
VerifyRung ==
  /\ pc = "rung" /\ todo # <<>>
  /\ light' = Head(todo)
  /\ \/ /\ drift' = (drift \/ table # rig) /\ todo' = Tail(todo)
        /\ UNCHANGED <<pc, verdict, bench, unread>>
     \/ /\ VerifyReturns(FALSE) /\ unread' = TRUE /\ todo' = <<>>
        /\ UNCHANGED drift
  /\ UNCHANGED <<run, inv, stage, prev, battery, seen, rig, wash, ricVars, fileVars,
                 lost>>

VerifyEnd ==
  /\ pc = "rung" /\ todo = <<>>
  /\ \E ran \in BOOLEAN : SetMode(prev, ran)
  /\ light' = "full"
  /\ VerifyReturns(~drift)
  /\ UNCHANGED <<run, inv, stage, todo, drift, prev, battery, seen, rig, wash,
                 recheck, fileVars, unread>>

------------------------------------------------------------------------------
(* daynight_cycle.                                                              *)

(* What comes after the cycle in the invocation.                                *)
AfterCycle == pc' = IF inv = "suite" THEN "cast" ELSE "over"

(* Not answering, or not in auto: nothing has been touched.                     *)
Status ==
  /\ pc = "status"
  /\ \/ AfterCycle /\ UNCHANGED bench
     \/ mode = "auto" /\ pc' = "night" /\ bench' = "quiesced"
  /\ UNCHANGED <<run, inv, stage, todo, drift, prev, verdict, battery, seen, light,
                 rig, wash, ricVars, fileVars, lost, unread>>

(* The forced modes, with the checks of the LED rails after each.               *)
Forced(at, m, next) ==
  /\ pc = at /\ pc' = next
  /\ \E ran \in BOOLEAN : SetMode(m, ran)
  /\ UNCHANGED <<run, inv, stage, todo, drift, prev, verdict, battery, seen,
                 benchVars, recheck, fileVars, unread>>

ForceNight == Forced("night", "night", "day")
ForceDay   == Forced("day", "day", "auto")

BackToAuto ==
  /\ pc = "auto"
  /\ \E ran, answered \in BOOLEAN :
       /\ SetMode("auto", ran)
       /\ Record("auto", IF ran /\ answered THEN "pass" ELSE "fail")
  /\ pc' = IF table = NoTable THEN "turn" ELSE "verify"
  /\ UNCHANGED <<run, inv, stage, todo, drift, prev, battery, seen, benchVars,
                 recheck, fileVars, unread>>

(* Lit, dusk, dawn, the second dusk, lit again.                                 *)
StageLight == <<"full", "dark", "full", "dark", "full">>

Turn ==
  /\ pc = "turn" /\ pc' = "wait"
  /\ light' = StageLight[stage]
  /\ UNCHANGED <<run, inv, stage, todo, drift, prev, verdict, battery, seen, bench,
                 rig, wash, ricVars, fileVars, lost, unread>>

(* DN_WAIT: the state reached, or a failure, and on; behind dusk comes the hold, *)
(* behind the second dusk the dark re-acquisition.                              *)
Waited ==
  /\ pc = "wait"
  /\ CASE stage = 2 -> pc' = "hold"    /\ UNCHANGED stage
       [] stage = 4 -> pc' = "force"   /\ UNCHANGED stage
       [] stage = 5 -> pc' = "recheck" /\ UNCHANGED stage
       [] OTHER     -> pc' = "turn"    /\ stage' = stage + 1
  /\ UNCHANGED <<run, inv, todo, drift, prev, verdict, battery, seen, benchVars,
                 ricVars, fileVars, lost, unread>>

(* DN_HOLD: a state other than night is a flap, an empty answer is not.         *)
Hold ==
  /\ pc = "hold" /\ pc' = "shorten"
  /\ \E silent, answered \in BOOLEAN :
       Record("hold", IF answered /\ (silent \/ state = "night") THEN "pass" ELSE "fail")
  /\ UNCHANGED <<run, inv, stage, todo, drift, prev, battery, seen, benchVars,
                 ricVars, fileVars, lost, unread>>

SetRecheck(at, secs) ==
  /\ pc = at
  /\ \/ recheck' = secs /\ UNCHANGED lost
     \/ UNCHANGED recheck /\ lost' = TRUE

Shorten ==
  /\ SetRecheck("shorten", "20")
  /\ pc' = "turn" /\ stage' = 3
  /\ UNCHANGED <<run, inv, todo, drift, prev, verdict, battery, seen, benchVars,
                 mode, state, fileVars, unread>>

(* Day in darkness, and auto again.                                             *)
ForceDark   == Forced("force", "day", "release")
ReleaseDark == Forced("release", "auto", "reacquire")

(* DN_WAIT again: night seen, or the budget spent.                              *)
Reacquired ==
  /\ pc = "reacquire" /\ pc' = "turn" /\ stage' = 5
  /\ \/ state = "night" /\ Record("reacquire", "pass")
     \/ Record("reacquire", "fail")
  /\ UNCHANGED <<run, inv, todo, drift, prev, battery, seen, benchVars, ricVars,
                 fileVars, lost, unread>>

Lengthen ==
  /\ SetRecheck("recheck", "600")
  /\ pc' = "restore"
  /\ UNCHANGED <<run, inv, stage, todo, drift, prev, verdict, battery, seen, benchVars,
                 mode, state, fileVars, unread>>

Restore ==
  /\ pc = "restore" /\ AfterCycle
  /\ bench' = "free"
  /\ UNCHANGED <<run, inv, stage, todo, drift, prev, verdict, battery, seen, light,
                 rig, wash, ricVars, fileVars, lost, unread>>

------------------------------------------------------------------------------
(* colorcast_leg.                                                               *)

(* The neutral reference under the key light, which nothing puts back; without   *)
(* one the leg returns from where it stands, past the restore command.          *)
CastStart ==
  /\ pc = "cast"
  /\ bench' = "quiesced" /\ light' = CastKey /\ seen' = wash
  /\ \/ pc' = "red" /\ UNCHANGED unread
     \/ pc' = "over" /\ unread' = TRUE
  /\ UNCHANGED <<run, inv, stage, todo, drift, prev, verdict, battery, rig, wash,
                 ricVars, fileVars, lost>>

(* One color: its response recorded, 0 if the reading did not come at all.  A   *)
(* reading without gains is an error of the arithmetic: it abandons the leg and *)
(* everything in the same if, print_result and exit of --colorcast-only too.    *)
CastColor ==
  /\ pc \in {"red", "blue"}
  /\ \/ /\ pc' = IF pc = "red" THEN "blue" ELSE "castend"
        /\ UNCHANGED <<seen, unread, battery>>
     \/ /\ pc' = IF pc = "red" THEN "blue" ELSE "castend"
        /\ seen' = 0 /\ unread' = TRUE /\ UNCHANGED battery
     \/ /\ pc' = "over" /\ battery' = TRUE /\ unread' = TRUE
        /\ UNCHANGED seen
  /\ UNCHANGED <<run, inv, stage, todo, drift, prev, verdict, benchVars, ricVars,
                 fileVars, lost>>

(* The responses against the pinned ones, which the first run pins.             *)
CastEnd ==
  /\ pc = "castend" /\ pc' = "over"
  /\ IF cast = NoCast
       THEN cast' = [of |-> wash, resp |-> seen] /\ UNCHANGED verdict
       ELSE /\ Record("drift", IF cast.resp = seen THEN "pass" ELSE "fail")
            /\ UNCHANGED cast
  /\ bench' = "free"
  /\ UNCHANGED <<run, inv, stage, todo, drift, prev, battery, seen, light, rig, wash,
                 ricVars, table, lost, unread>>

------------------------------------------------------------------------------
Exit ==
  /\ pc = "over" /\ pc' = "idle"
  /\ UNCHANGED <<run, inv, stage, todo, drift, prev, verdict, battery, seen, benchVars,
                 ricVars, fileVars, lost, unread>>

Leg ==
  \/ Exit
  \/ CalStart \/ CalLadder \/ CalEnd
  \/ VerifyStart \/ VerifyRung \/ VerifyEnd
  \/ Status \/ ForceNight \/ ForceDay \/ BackToAuto \/ Turn \/ Waited \/ Hold
  \/ Shorten \/ ForceDark \/ ReleaseDark \/ Reacquired \/ Lengthen \/ Restore
  \/ CastStart \/ CastColor \/ CastEnd

Next == Leg \/ RicFollows \/ Rearranged \/ \E i \in Invocation : Invoke(i)

Spec == Init /\ [][Next]_vars
------------------------------------------------------------------------------
(* An invocation is through, and the bench as it left it.                       *)
Over == pc = "over"

(* An invocation that has set the room light outside a cast.                    *)
Relit ==
  \/ inv = "cal"
  \/ inv = "verify" /\ table # NoTable
  \/ inv = "daynight" /\ verdict["auto"] # "none"

(* How a sequence of legs leaves the bench.  Whatever was lost or not read, a   *)
(* calibration, a verification and a cycle that was entered release the other   *)
(* cameras, and a calibration lights the room.  With every exposure read, the   *)
(* other cameras are released by a cast too, which returns past its restore     *)
(* command without one, and the room is lit: in full by every leg but the cast, *)
(* which leaves its key light.  If moreover no call was lost, the camera is in  *)
(* auto, so the mode that one leg restores is not one that another forced; and  *)
(* the short probe interval stays only where a call was lost (raptor-test:541,  *)
(* 568-619, 690, 738-746, 1091-1116, 1141-1154, 1230, 1250, 1255-1309,          *)
(* 1319-1327).                                                                  *)
LeftAsFound ==
  Over =>
    /\ inv \in {"cal", "verify"} \/ (inv = "daynight" /\ Relit) => bench = "free"
    /\ inv = "cal" => light = "full"
    /\ ~unread => bench = "free" /\ light \in {"full", CastKey} /\ (Relit => light = "full")
    /\ ~unread /\ ~lost => mode = "auto"
    /\ recheck = "20" => lost

(* A cycle that goes through its light legs and leaves the camera in a forced   *)
(* mode has a failure on record: what the verbs left is caught by the first     *)
(* check, or the re-acquisition (raptor-test:619-620, 726-736).                 *)
ModeLossReported ==
  Over /\ inv = "daynight" /\ mode # "auto" /\ verdict["reacquire"] # "none" =>
    "fail" \in {verdict["auto"], verdict["reacquire"]}

(* A verification against a readable table passes only if the rig is the one    *)
(* the table was measured on (raptor-test:1095-1124).                           *)
VerifySound ==
  Over /\ verdict["verify"] = "pass" /\ table # Unreadable => table = rig

(* The wash is called unchanged only if it is, when every exposure was read     *)
(* (raptor-test:1205-1224).                                                     *)
CastSound == Over /\ verdict["drift"] = "pass" /\ ~unread => cast.of = wash
================================================================================
