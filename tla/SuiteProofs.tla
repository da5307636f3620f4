------------------------------ MODULE SuiteProofs ------------------------------
(* The control flow of the suite, for any patterns of --only and any flags: its   *)
(* types, that nothing is measured behind the late legs, and that a run without   *)
(* --only runs all it is due.                                                     *)
EXTENDS MCScripts, Integers, Sequences, TLAPS

(* The late legs ran at the end of the last section, or the script has left: for  *)
(* a --soak or --core run they are in the middle of the file.                     *)
LateAtEnd == late => at = Tests!Count + 1 \/ exit # "none"

IInv == Tests!TypeOK /\ LateAtEnd

(* No section is without a key, and the last one has a number of its own.         *)
LEMMA SectionFacts ==
  /\ \A i \in 1 .. Tests!Count : Tests!Sections[i] \in Tests!Key
  /\ Tests!Sections[Tests!Count] = "reccheck"
  /\ \A i \in 1 .. Tests!Count : Tests!Sections[i] = "reccheck" => i = Tests!Count
<1>1. \A i \in 1 .. Tests!Count : Tests!Sections[i] \in Tests!Key
  BY DEF Tests!Key
<1>2. Tests!Sections[Tests!Count] = "reccheck"
  BY DEF Tests!Sections, Tests!Count
<1>3. \A i \in 1 .. Tests!Count : Tests!Sections[i] = "reccheck" => i = Tests!Count
  BY DEF Tests!Sections, Tests!Count
<1> QED
  BY <1>1, <1>2, <1>3

LEMMA SpecialKeys == Tests!Special \cup {"restream", "colorcast"} \subseteq Tests!Key
<1>1. /\ Tests!Sections[3] = "soak" /\ Tests!Sections[11] = "fuzz"
      /\ Tests!Sections[16] = "daynight"
      /\ Tests!Sections[23] = "mjpeg" /\ Tests!Sections[29] = "reccheck"
  BY DEF Tests!Sections
<1>2. 3 \in 1 .. 29 /\ 11 \in 1 .. 29 /\ 16 \in 1 .. 29 /\ 23 \in 1 .. 29 /\ 29 \in 1 .. 29
  OBVIOUS
<1> QED
  BY <1>1, <1>2, ZenonT(30) DEF Tests!Special, Tests!Key, Tests!Count

(* What a section sets for others is a variable some other section reads.         *)
LEMMA SetsType == \A k : Tests!Sets(k) \subseteq {"SDP", "CONFIG", "AP", "restream_legs"}
  BY DEF Tests!Sets

(* The script leaves once: what is behind an exit changes nothing.                *)
LEMMA RunsOn == Tests!Next => exit = "none"
  BY DEF Tests!Next, Tests!Skip, Tests!Section, Tests!Soak, Tests!Fuzz, Tests!DayNight,
     Tests!Mjpeg, Tests!RecCheck, Tests!End, Tests!At

LEMMA InitHolds == Tests!Init => IInv
<1> SUFFICES ASSUME Tests!Init
             PROVE  IInv
  OBVIOUS
<1>1. Tests!TypeOK
  <2>1. at \in 1 .. Tests!Count + 1
    BY DEF Tests!Init, Tests!Count
  <2>2. keys \in Patterns /\ flags \in Flags
    BY DEF Tests!Init
  <2>3. /\ bound \subseteq {"SDP", "CONFIG", "AP", "restream_legs"} /\ ran \subseteq Tests!Key
        /\ late \in BOOLEAN /\ checkFailed \in BOOLEAN /\ result \in BOOLEAN
        /\ exit \in {"none", "0", "1", "unbound"}
    BY Zenon DEF Tests!Init
  <2> QED
    BY <2>1, <2>2, <2>3 DEF Tests!TypeOK
<1>2. LateAtEnd
  BY DEF Tests!Init, LateAtEnd
<1> QED
  BY <1>1, <1>2 DEF IInv

LEMMA TypeStep == IInv /\ [Tests!Next]_(Tests!vars) => Tests!TypeOK'
<1> SUFFICES ASSUME IInv, [Tests!Next]_(Tests!vars)
             PROVE  Tests!TypeOK'
  OBVIOUS
<1> USE DEF IInv, Tests!TypeOK
<1>n. Tests!Count \in Nat /\ Tests!Count = 29
  BY DEF Tests!Count
<1>1. CASE Tests!Skip
  BY <1>1, <1>n DEF Tests!Skip, Tests!GoOn
<1>2. CASE Tests!Section
  <2>1. Tests!Sections[at] \in Tests!Key
    BY <1>2, SectionFacts, <1>n DEF Tests!Section
  <2>2. bound' \subseteq {"SDP", "CONFIG", "AP", "restream_legs"}
    BY <1>2, SetsType DEF Tests!Section, Tests!Unbound
  <2>3. at' \in 1 .. Tests!Count + 1 /\ late' \in BOOLEAN /\ result' \in BOOLEAN
    BY <1>2, <1>n DEF Tests!Section, Tests!Unbound, Tests!GoOn
  <2>4. checkFailed' \in BOOLEAN /\ exit' \in {"none", "0", "1", "unbound"}
    BY <1>2 DEF Tests!Section, Tests!Unbound, Tests!GoOn, Tests!Checks
  <2>5. ran' \subseteq Tests!Key /\ keys' \in Patterns /\ flags' \in Flags
    BY <1>2, <2>1 DEF Tests!Section, Tests!Unbound, Tests!Checks
  <2> QED
    BY <2>2, <2>3, <2>4, <2>5
<1>s. /\ "soak" \in Tests!Key /\ "fuzz" \in Tests!Key /\ "daynight" \in Tests!Key
      /\ "mjpeg" \in Tests!Key
      /\ "reccheck" \in Tests!Key /\ Tests!Restreams \subseteq Tests!Key
      /\ "colorcast" \in Tests!Key
  BY SpecialKeys DEF Tests!Special, Tests!Restreams
<1>3. CASE Tests!Soak
  <2>1. at' \in 1 .. Tests!Count + 1
    BY <1>3, <1>n DEF Tests!Soak, Tests!GoOn, Tests!Finish, Tests!At
  <2>2. ran' \subseteq Tests!Key
    BY <1>3, <1>s DEF Tests!Soak, Tests!Finish, Tests!Checks
  <2>3. /\ keys' \in Patterns /\ flags' \in Flags /\ late' \in BOOLEAN /\ checkFailed' \in BOOLEAN
        /\ result' \in BOOLEAN /\ exit' \in {"none", "0", "1", "unbound"}
        /\ bound' = bound
    BY <1>3 DEF Tests!Soak, Tests!GoOn, Tests!Finish, Tests!Checks, Tests!PrintResult
  <2> QED
    BY <2>1, <2>2, <2>3
<1>4. CASE Tests!Fuzz
  <2>1. ran' \subseteq Tests!Key
    BY <1>4, <1>s DEF Tests!Fuzz, Tests!Finish, Tests!Checks, Tests!Unbound
  <2>2. bound' \subseteq {"SDP", "CONFIG", "AP", "restream_legs"}
    BY <1>4, SetsType DEF Tests!Fuzz, Tests!Unbound
  <2>3. at' \in 1 .. Tests!Count + 1
    BY <1>4, <1>n DEF Tests!Fuzz, Tests!At, Tests!GoOn, Tests!Finish, Tests!Unbound
  <2>4. /\ keys' \in Patterns /\ flags' \in Flags /\ late' \in BOOLEAN /\ checkFailed' \in BOOLEAN
        /\ result' \in BOOLEAN /\ exit' \in {"none", "0", "1", "unbound"}
    BY <1>4 DEF Tests!Fuzz, Tests!GoOn, Tests!Finish, Tests!Checks, Tests!PrintResult,
       Tests!Unbound
  <2> QED
    BY <2>1, <2>2, <2>3, <2>4
<1>5. CASE Tests!DayNight
  <2>1. ran' \subseteq Tests!Key
    BY <1>5, <1>s DEF Tests!DayNight, Tests!Checks
  <2>2. at' \in 1 .. Tests!Count + 1
    BY <1>5, <1>n DEF Tests!DayNight, Tests!GoOn, Tests!At
  <2>3. checkFailed' \in BOOLEAN
    BY <1>5 DEF Tests!DayNight, Tests!Checks
  <2> QED
    BY <1>5, <2>1, <2>2, <2>3 DEF Tests!DayNight, Tests!GoOn
<1>6. CASE Tests!Mjpeg
  <2>1. ran' \subseteq Tests!Key
    BY <1>6, <1>s DEF Tests!Mjpeg, Tests!Checks, Tests!Unbound
  <2>2. at' \in 1 .. Tests!Count + 1
    BY <1>6, <1>n DEF Tests!Mjpeg, Tests!At, Tests!GoOn, Tests!Unbound
  <2>3. checkFailed' \in BOOLEAN
    BY <1>6 DEF Tests!Mjpeg, Tests!Checks, Tests!Unbound
  <2> QED
    BY <1>6, <2>1, <2>2, <2>3 DEF Tests!Mjpeg, Tests!GoOn, Tests!Unbound
<1>7. CASE Tests!RecCheck
  <2>1. at' \in 1 .. Tests!Count + 1
    BY <1>7, <1>n DEF Tests!RecCheck, Tests!At
  <2>2. ran' \subseteq Tests!Key /\ checkFailed' \in BOOLEAN
    BY <1>7, <1>s DEF Tests!RecCheck, Tests!Checks
  <2> QED
    BY <1>7, <2>1, <2>2 DEF Tests!RecCheck
<1>8. CASE Tests!End
  BY <1>8 DEF Tests!End, Tests!PrintResult
<1>9. CASE UNCHANGED Tests!vars
  BY <1>9 DEF Tests!vars
<1> QED
  BY <1>1, <1>2, <1>3, <1>4, <1>5, <1>6, <1>7, <1>8, <1>9 DEF Tests!Next

(* The late legs come at the end of the last section, or in front of an exit.     *)
LEMMA LateStep == IInv /\ [Tests!Next]_(Tests!vars) => LateAtEnd'
<1> SUFFICES ASSUME IInv, [Tests!Next]_(Tests!vars)
             PROVE  LateAtEnd'
  OBVIOUS
<1> USE DEF LateAtEnd
<1>1. CASE UNCHANGED Tests!vars
  BY <1>1 DEF Tests!vars, IInv
<1>2. CASE Tests!RecCheck
  <2>1. at = Tests!Count
    BY <1>2, SectionFacts DEF Tests!RecCheck, Tests!At, IInv, Tests!TypeOK, Tests!Count
  <2> QED
    BY <1>2, <2>1 DEF Tests!RecCheck
<1>3. CASE Tests!Next /\ ~Tests!RecCheck
  <2>1. \/ late' = late /\ at <= Tests!Count
        \/ exit' # "none"
    BY <1>3 DEF Tests!Next, Tests!Skip, Tests!Section, Tests!Soak, Tests!Fuzz,
       Tests!DayNight, Tests!Mjpeg, Tests!End, Tests!At,
                Tests!GoOn, Tests!Finish, Tests!PrintResult, Tests!Unbound
  <2>2. at <= Tests!Count => ~late
    BY <1>3, RunsOn DEF IInv, Tests!TypeOK, Tests!Count
  <2> QED
    BY <2>1, <2>2
<1> QED
  BY <1>1, <1>2, <1>3

LEMMA StepKeeps == IInv /\ [Tests!Next]_(Tests!vars) => IInv'
  BY TypeStep, LateStep DEF IInv

(* The place in the script and what ran before it belong together.                *)
TestsInv == part = "suite" => IInv

(* A step of the scripts is one of the suite, if that is what runs.               *)
LEMMA SuiteStep ==
  ASSUME [ScriptsNext]_all, part' = "suite"
  PROVE  part = "suite" /\ [Tests!Next]_(Tests!vars)
  BY DEF ScriptsNext, all, testVars, Tests!vars

THEOREM Invariance == ScriptsSpec => []TestsInv
<1>1. ScriptsInit => TestsInv
  BY InitHolds DEF ScriptsInit, TestsInv
<1>2. TestsInv /\ [ScriptsNext]_all => TestsInv'
  BY SuiteStep, StepKeeps DEF TestsInv
<1> QED
  BY <1>1, <1>2, PTL DEF ScriptsSpec

(* The types of the variables, for any set of --only patterns and of flags        *)
(* (raptor-test:213-300).                                                         *)
THEOREM TypeCorrect == ScriptsSpec => [](part = "suite" => Tests!TypeOK)
<1>1. TestsInv => (part = "suite" => Tests!TypeOK)
  BY DEF TestsInv, IInv
<1> QED
  BY <1>1, Invariance, PTL

(* Behind the late legs nothing is measured: the script is at its end, or has     *)
(* left (raptor-test:1584-1586, 2444-2454, 3502-3504).                            *)
THEOREM LateCorrect == ScriptsSpec => LateLegsLast
<1>1. TestsInv /\ [ScriptsNext]_all => [part = "suite" /\ late => ran' = ran]_all
  <2> SUFFICES ASSUME TestsInv, ScriptsNext, part = "suite", late
               PROVE  ran' = ran
    OBVIOUS
  <2>1. IInv /\ Tests!Next
    BY DEF TestsInv, ScriptsNext
  <2>2. at = Tests!Count + 1
    BY <2>1, RunsOn DEF IInv, LateAtEnd
  <2>3. Tests!End
    BY <2>1, <2>2 DEF Tests!Next, Tests!Skip, Tests!Section, Tests!Soak, Tests!Fuzz,
       Tests!DayNight, Tests!Mjpeg, Tests!RecCheck, Tests!At, Tests!Count
  <2> QED
    BY <2>3 DEF Tests!End
<1> QED
  BY <1>1, Invariance, PTL DEF ScriptsSpec, LateLegsLast

--------------------------------------------------------------------------------
(* A run of everything: what has run is the sections passed, and what sections    *)
(* take from earlier ones is there once those are passed; a run that has left has *)
(* run what it was due.                                                           *)
Full == keys = Tests!Key
Passed(n) == {Tests!Sections[i] : i \in 1 .. n - 1} \ {"soak"}
Inner(n) == (IF n > 16 /\ "cast" \in flags THEN {"colorcast"} ELSE {})
            \cup (IF n > 23 THEN {"restream"} ELSE {})

FullInv ==
  Full => /\ exit # "unbound"
          /\ exit # "none" => late /\ ran = Tests!Due
          /\ exit = "none" =>
               /\ ran = Passed(at) \cup Inner(at)
               /\ at > 2 => "CONFIG" \in bound
               /\ at > 3 => "soak" \notin flags
               /\ at > 7 => "AP" \in bound
               /\ at > 11 => "restream_legs" \in bound /\ "core" \notin flags
               /\ at = Tests!Count + 1 => late

(* Where the sections with a part of their own are, and those that set or read a  *)
(* variable.                                                                      *)
LEMMA Places ==
  ASSUME NEW i \in 1 .. Tests!Count
  PROVE  /\ Tests!Sections[i] = "auth" <=> i = 2
         /\ Tests!Sections[i] = "soak" <=> i = 3
         /\ Tests!Sections[i] = "avts" <=> i = 7
         /\ Tests!Sections[i] \in {"drift", "content"} => i > 7
         /\ Tests!Sections[i] = "fuzz" <=> i = 11
         /\ Tests!Sections[i] = "daynight" <=> i = 16
         /\ Tests!Sections[i] = "mjpeg" <=> i = 23
         /\ Tests!Sections[i] = "reccheck" <=> i = 29
         /\ Tests!Sections[i] # "colorcast"
  BY DEF Tests!Sections, Tests!Count

(* One section more has been passed.                                              *)
LEMMA PassedNext ==
  ASSUME NEW n \in 1 .. Tests!Count
  PROVE  Passed(n + 1) = Passed(n) \cup ({Tests!Sections[n]} \ {"soak"})
<1>1. 1 .. (n + 1) - 1 = (1 .. n - 1) \cup {n}
  BY DEF Tests!Count
<1> QED
  BY <1>1 DEF Passed

LEMMA InnerNext ==
  ASSUME NEW n \in 1 .. Tests!Count, n # 16, n # 23
  PROVE  Inner(n + 1) = Inner(n)
  BY DEF Inner, Tests!Count

(* At the end of a full run every key has run that could.                         *)
LEMMA AllPassed ==
  Passed(Tests!Count + 1) \cup Inner(Tests!Count + 1)
    = Tests!Key \ (IF "cast" \in flags THEN {"soak"} ELSE {"soak", "colorcast"})
<1>1. Inner(Tests!Count + 1) = {"restream"} \cup (IF "cast" \in flags THEN {"colorcast"} ELSE {})
  BY DEF Inner, Tests!Count
<1>2. (Tests!Count + 1) - 1 = Tests!Count
  BY DEF Tests!Count
<1>3. Passed(Tests!Count + 1) = {Tests!Sections[i] : i \in 1 .. Tests!Count} \ {"soak"}
  BY <1>2 DEF Passed
<1>4. "colorcast" \notin {Tests!Sections[i] : i \in 1 .. Tests!Count}
  BY Places
<1>5. CASE "cast" \in flags
  BY <1>1, <1>3, <1>4, <1>5 DEF Tests!Key
<1>6. CASE "cast" \notin flags
  BY <1>1, <1>3, <1>4, <1>6 DEF Tests!Key
<1> QED
  BY <1>5, <1>6

LEMMA FullInit == Tests!Init => FullInv
<1> SUFFICES ASSUME Tests!Init
             PROVE  FullInv
  OBVIOUS
<1>1. at = 1 /\ bound = {} /\ ran = {} /\ exit = "none"
  BY DEF Tests!Init
<1>2. Passed(1) = {}
  BY DEF Passed
<1>3. Inner(1) = {}
  BY DEF Inner
<1> QED
  BY <1>1, <1>2, <1>3 DEF FullInv, Tests!Count

(* What has run where a soak leaves, and where a core run does.                   *)
LEMMA LeftEarly ==
  /\ Passed(3) \cup Inner(3) \cup {"soak"} = {"signaling", "auth", "soak"}
  /\ Passed(12) \cup Inner(12) = {Tests!Sections[i] : i \in 1 .. 11} \ {"soak"}
<1>1. Inner(3) = {} /\ Inner(12) = {}
  BY DEF Inner
<1>2. 1 .. 3 - 1 = {1, 2} /\ 12 - 1 = 11
  OBVIOUS
<1>3. Tests!Sections[1] = "signaling" /\ Tests!Sections[2] = "auth"
  BY DEF Tests!Sections
<1>4. Passed(3) = {"signaling", "auth"}
  BY <1>2, <1>3 DEF Passed
<1>5. Passed(12) = {Tests!Sections[i] : i \in 1 .. 11} \ {"soak"}
  BY <1>2 DEF Passed
<1> QED
  BY <1>1, <1>4, <1>5

(* Each section of a full run does its part and goes on, but for the two where a  *)
(* run may end: then it is due no more.                                           *)
LEMMA FullSection ==
  ASSUME IInv, FullInv, Full, exit = "none", at \in 1 .. Tests!Count, Tests!Next
  PROVE  \/ /\ at' = at + 1 /\ exit' = "none"
            /\ bound' = bound \cup Tests!Sets(Tests!Sections[at])
            /\ ran' = Passed(at + 1) \cup Inner(at + 1)
            /\ at = Tests!Count => late'
            /\ at = 3 => "soak" \notin flags
            /\ at = 11 => "core" \notin flags
         \/ exit' \in {"0", "1"} /\ late' /\ ran' = Tests!Due
<1>1. Tests!Sections[at] \in keys
  BY SectionFacts DEF Full
<1>2. Passed(at + 1) = Passed(at) \cup ({Tests!Sections[at]} \ {"soak"})
  BY PassedNext
<1>4. Tests!Want("colorcast") /\ Tests!Want("restream")
  BY SpecialKeys DEF Full, Tests!Want
<1>5. /\ ran = Passed(at) \cup Inner(at)
      /\ at > 2 => "CONFIG" \in bound
      /\ at > 3 => "soak" \notin flags
      /\ at > 7 => "AP" \in bound
      /\ at > 11 => "restream_legs" \in bound
  BY DEF FullInv
<1>6. ~Tests!Skip /\ ~Tests!End
  BY <1>1 DEF Tests!Skip, Tests!End, Tests!Want, Tests!Count
<1>7. CASE Tests!Section
  <2>1. Tests!Sections[at] \notin Tests!Special
    BY <1>7 DEF Tests!Section
  <2>2. at # 3 /\ at # 11 /\ at # 16 /\ at # 23 /\ at # 29
    BY <2>1, Places DEF Tests!Special
  <2>3. Tests!Sections[at] # "soak"
    BY <2>1 DEF Tests!Special
  <2>4. Tests!Reads(Tests!Sections[at]) \subseteq bound
    BY <1>5, Places DEF Tests!Reads, Tests!Count
  <2>5. /\ Tests!Checks({Tests!Sections[at]})
        /\ bound' = bound \cup Tests!Sets(Tests!Sections[at]) /\ Tests!GoOn
    BY <1>7, <2>4 DEF Tests!Section
  <2>6. Inner(at + 1) = Inner(at)
    BY <2>2, InnerNext
  <2>7. ran' = Passed(at + 1) \cup Inner(at + 1)
    BY <1>2, <1>5, <2>3, <2>5, <2>6 DEF Tests!Checks
  <2> QED
    BY <2>2, <2>5, <2>7 DEF Tests!GoOn, Tests!Count
<1>8. CASE Tests!Soak
  <2>1. at = 3 /\ Tests!Sections[at] = "soak"
    BY <1>8, Places DEF Tests!Soak, Tests!At
  <2>2. CASE "soak" \notin flags
    <3>1. Tests!GoOn /\ ran' = ran /\ bound' = bound
      BY <1>8, <2>2 DEF Tests!Soak
    <3>2. Inner(at + 1) = Inner(at)
      BY <2>1, InnerNext
    <3>3. Tests!Sets(Tests!Sections[at]) = {}
      BY <2>1 DEF Tests!Sets
    <3>4. ran' = Passed(at + 1) \cup Inner(at + 1)
      BY <1>2, <1>5, <2>1, <3>1, <3>2
    <3> QED
      BY <2>1, <2>2, <3>1, <3>3, <3>4 DEF Tests!GoOn, Tests!Count
  <2>3. CASE "soak" \in flags
    <3>1. Tests!Finish({"soak"})
      BY <1>8, <2>3 DEF Tests!Soak
    <3>2. exit' \in {"0", "1"} /\ late' /\ ran' = ran \cup {"soak"}
      BY <3>1 DEF Tests!Finish, Tests!Checks, Tests!PrintResult
    <3>3. ran' = Tests!Due
      BY <1>5, <2>1, <2>3, <3>2, LeftEarly DEF Tests!Due
    <3> QED
      BY <3>2, <3>3
  <2> QED
    BY <2>2, <2>3
<1>9. CASE Tests!Fuzz
  <2>1. at = 11 /\ Tests!Sections[at] = "fuzz"
    BY <1>9, Places DEF Tests!Fuzz, Tests!At
  <2>2. CASE "core" \notin flags
    <3>1. Tests!Checks({"fuzz"}) /\ Tests!GoOn /\ bound' = bound \cup Tests!Sets("fuzz")
      BY <1>9, <2>2 DEF Tests!Fuzz
    <3>2. Inner(at + 1) = Inner(at)
      BY <2>1, InnerNext
    <3>3. ran' = Passed(at + 1) \cup Inner(at + 1)
      BY <1>2, <1>5, <2>1, <3>1, <3>2 DEF Tests!Checks
    <3> QED
      BY <2>1, <2>2, <3>1, <3>3 DEF Tests!GoOn, Tests!Count
  <2>3. CASE "core" \in flags
    <3> DEFINE extra == IF "restreamer" \in flags THEN {"restream"} ELSE {}
    <3>1. "CONFIG" \in bound /\ "soak" \notin flags
      BY <1>5, <2>1
    <3>2. Tests!Finish({"fuzz"} \cup extra)
      BY <1>9, <1>4, <2>3, <3>1 DEF Tests!Fuzz, Tests!RestreamMayAbort, Tests!Restreams
    <3>3. exit' \in {"0", "1"} /\ late' /\ ran' = ran \cup {"fuzz"} \cup extra
      BY <3>2 DEF Tests!Finish, Tests!Checks, Tests!PrintResult
    <3>4. ran \cup {"fuzz"} = Passed(12) \cup Inner(12)
      <4>1. Passed(12) = Passed(11) \cup {"fuzz"} /\ Inner(12) = Inner(11) /\ at + 1 = 12
        BY <1>2, <2>1, InnerNext
      <4> QED
        BY <1>5, <2>1, <4>1
    <3>5. ran' = Tests!Due
      BY <2>3, <3>1, <3>3, <3>4, LeftEarly DEF Tests!Due
    <3> QED
      BY <3>3, <3>5
  <2> QED
    BY <2>2, <2>3
<1>10. CASE Tests!DayNight
  <2>1. at = 16 /\ Tests!Sections[at] = "daynight"
    BY <1>10, Places DEF Tests!DayNight, Tests!At
  <2>2. Tests!Checks({"daynight"} \cup (IF "cast" \in flags THEN {"colorcast"} ELSE {}))
        /\ Tests!GoOn /\ bound' = bound
    BY <1>10, <1>4 DEF Tests!DayNight
  <2>3. Inner(16) = {} /\ Inner(17) = IF "cast" \in flags THEN {"colorcast"} ELSE {}
    BY DEF Inner
  <2>4. at + 1 = 17
    BY <2>1
  <2>5. ran' = Passed(at + 1) \cup Inner(at + 1)
    BY <1>2, <1>5, <2>1, <2>2, <2>3, <2>4 DEF Tests!Checks
  <2>6. Tests!Sets(Tests!Sections[at]) = {}
    BY <2>1 DEF Tests!Sets
  <2> QED
    BY <2>1, <2>2, <2>5, <2>6 DEF Tests!GoOn, Tests!Count
<1>11. CASE Tests!Mjpeg
  <2>1. at = 23 /\ Tests!Sections[at] = "mjpeg"
    BY <1>11, Places DEF Tests!Mjpeg, Tests!At
  <2>2. "CONFIG" \in bound /\ "restream_legs" \in bound
    BY <1>5, <2>1
  <2>3. Tests!Checks({"mjpeg", "restream"}) /\ Tests!GoOn /\ bound' = bound
    BY <1>11, <1>4, <2>2 DEF Tests!Mjpeg, Tests!RestreamMayAbort, Tests!Restreams,
       Tests!Checks
  <2>4. Inner(24) = Inner(23) \cup {"restream"}
    BY DEF Inner
  <2>5. at + 1 = 24
    BY <2>1
  <2>6. ran' = Passed(at + 1) \cup Inner(at + 1)
    BY <1>2, <1>5, <2>1, <2>3, <2>4, <2>5 DEF Tests!Checks
  <2>7. Tests!Sets(Tests!Sections[at]) = {}
    BY <2>1 DEF Tests!Sets
  <2> QED
    BY <2>1, <2>3, <2>6, <2>7 DEF Tests!GoOn, Tests!Count
<1>12. CASE Tests!RecCheck
  <2>1. at = 29 /\ Tests!Sections[at] = "reccheck"
    BY <1>12, Places DEF Tests!RecCheck, Tests!At
  <2>2. Tests!Checks({"reccheck"}) /\ late' /\ at' = at + 1 /\ bound' = bound /\ exit' = exit
    BY <1>12 DEF Tests!RecCheck
  <2>3. Inner(at + 1) = Inner(at)
    BY <2>1, InnerNext
  <2>4. ran' = Passed(at + 1) \cup Inner(at + 1)
    BY <1>2, <1>5, <2>1, <2>2, <2>3 DEF Tests!Checks
  <2>5. Tests!Sets(Tests!Sections[at]) = {}
    BY <2>1 DEF Tests!Sets
  <2>6. exit' = "none" /\ at # 3 /\ at # 11
    BY <2>1, <2>2
  <2> QED
    BY <2>2, <2>4, <2>5, <2>6
<1> QED
  BY <1>6, <1>7, <1>8, <1>9, <1>10, <1>11, <1>12 DEF Tests!Next

LEMMA FullStep == IInv /\ FullInv /\ [Tests!Next]_(Tests!vars) => FullInv'
<1> SUFFICES ASSUME IInv, FullInv, [Tests!Next]_(Tests!vars), Full'
             PROVE  FullInv'
  BY DEF FullInv
<1>1. CASE UNCHANGED Tests!vars
  BY <1>1 DEF Tests!vars, FullInv, Full, Passed, Inner, Tests!Due
<1>2. CASE Tests!Next
  <2>1. Full /\ UNCHANGED <<keys, flags>> /\ exit = "none"
    BY <1>2, RunsOn DEF Full, Tests!Next, Tests!Skip, Tests!Section, Tests!Soak,
       Tests!Fuzz, Tests!DayNight, Tests!Mjpeg, Tests!RecCheck, Tests!End
  <2>2. at \in 1 .. Tests!Count + 1
    BY DEF IInv, Tests!TypeOK
  <2>3. \A n : Passed(n)' = Passed(n) /\ Inner(n)' = Inner(n)
    BY <2>1 DEF Passed, Inner
  <2>4. CASE at = Tests!Count + 1
    <3>1. Tests!End
      BY <1>2, <2>4 DEF Tests!Next, Tests!Skip, Tests!Section, Tests!Soak, Tests!Fuzz,
         Tests!DayNight, Tests!Mjpeg, Tests!RecCheck, Tests!At, Tests!Count
    <3>2. at' = at /\ bound' = bound /\ ran' = ran /\ late' = late /\ exit' # "unbound"
      BY <3>1 DEF Tests!End, Tests!PrintResult
    <3>3. exit' # "none"
      BY <3>1 DEF Tests!End, Tests!PrintResult
    <3>4. late /\ ran = Passed(Tests!Count + 1) \cup Inner(Tests!Count + 1)
          /\ "soak" \notin flags /\ "core" \notin flags
      BY <2>1, <2>4 DEF FullInv, Tests!Count
    <3>5. ran = Tests!Due
      BY <3>4, AllPassed DEF Tests!Due
    <3>6. Tests!Due' = Tests!Due
      BY <2>1 DEF Tests!Due
    <3> QED
      BY <3>2, <3>3, <3>4, <3>5, <3>6 DEF FullInv
  <2>5. CASE at \in 1 .. Tests!Count
    <3>1. CASE /\ at' = at + 1 /\ exit' = "none"
               /\ bound' = bound \cup Tests!Sets(Tests!Sections[at])
               /\ ran' = Passed(at + 1) \cup Inner(at + 1)
               /\ at = Tests!Count => late'
               /\ at = 3 => "soak" \notin flags
               /\ at = 11 => "core" \notin flags
      <4>1. /\ at = 2 => "CONFIG" \in bound'
            /\ at = 7 => "AP" \in bound'
            /\ at = 11 => "restream_legs" \in bound'
        BY <2>5, <3>1, Places DEF Tests!Sets
      <4>2. /\ at > 2 => "CONFIG" \in bound'
            /\ at > 3 => "soak" \notin flags
            /\ at > 7 => "AP" \in bound'
            /\ at > 11 => "restream_legs" \in bound' /\ "core" \notin flags
        BY <2>1, <3>1 DEF FullInv
      <4>3. /\ at' > 2 => "CONFIG" \in bound'
            /\ at' > 3 => "soak" \notin flags'
            /\ at' > 7 => "AP" \in bound'
            /\ at' > 11 => "restream_legs" \in bound' /\ "core" \notin flags'
            /\ at' = Tests!Count + 1 => late'
        BY <2>1, <2>2, <3>1, <4>1, <4>2 DEF Tests!Count
      <4>4. ran' = Passed(at)' \cup Inner(at)'
        BY <2>1, <3>1 DEF Passed, Inner
      <4> QED
        BY <3>1, <4>3, <4>4 DEF FullInv
    <3>2. CASE exit' \in {"0", "1"} /\ late' /\ ran' = Tests!Due
      <4>1. Tests!Due' = Tests!Due
        BY <2>1 DEF Tests!Due
      <4> QED
        BY <3>2, <4>1 DEF FullInv
    <3> QED
      BY <1>2, <2>1, <2>5, <3>1, <3>2, FullSection
  <2> QED
    BY <2>2, <2>4, <2>5 DEF Tests!Count
<1> QED
  BY <1>1, <1>2

LEMMA FullEnds == FullInv => Tests!FullRunComplete
  BY DEF FullInv, Tests!FullRunComplete, Full

(* A run without --only runs all it is due and comes out, under any flags: no     *)
(* section of it finds a variable or a function unset (raptor-test:1435-3507).    *)
THEOREM FullCorrect == ScriptsSpec => []FullRunComplete
<1> DEFINE Inv == part = "suite" => FullInv
<1>1. ScriptsInit => Inv
  BY FullInit DEF ScriptsInit
<1>2. TestsInv /\ Inv /\ [ScriptsNext]_all => Inv'
  BY SuiteStep, FullStep DEF TestsInv
<1>3. Inv => FullRunComplete
  BY FullEnds DEF FullRunComplete
<1> QED
  BY <1>1, <1>2, <1>3, Invariance, PTL DEF ScriptsSpec

================================================================================
