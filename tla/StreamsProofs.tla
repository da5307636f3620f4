---------------------------- MODULE StreamsProofs ----------------------------
(* The drift leg, for any rates in freqadj's range, any injection and any number  *)
(* of interrupts: what it leaves of the clock, and of a frozen server.  The       *)
(* continuity probe, for words of any width: it counts the gaps there are across  *)
(* the wrap, tells a stall from a wrong stamp, and each of the hostile server's   *)
(* modes from the others.  The census, for any number of faults: it counts the    *)
(* gaps, and its verdicts are those of the true times.  The reader, for any       *)
(* number of requests and frames: its answers and the frames around them come     *)
(* out whole, and it implements OrderedReader.                                    *)
EXTENDS MCStreams, Integers, Sequences, SequenceTheorems, FiniteSetTheorems, TLAPS

(* Before freqadj nothing has been injected, and nothing is there to restore.  *)
Untouched ==
  pc \in {"stage", "stop", "add"} => freq = own /\ add = Unset /\ oldRaw = Unset

(* Behind freqadj the rate is not known yet, and its line may be another one.  *)
Unparsed ==
  pc = "parse" =>
    /\ oldRaw = Unset
    /\ (add = Noise /\ lost) \/ (add = own /\ freq = own + Ppm)

(* As long as no call is lost, a script that has nothing to restore has        *)
(* restored it, or never injected; and past its restore() it has nothing.      *)
Restored ==
  ~lost /\ pc # "parse" /\ (pc \in {"forget", "verdict", "done"} \/ oldRaw = Unset) =>
    freq = own /\ (add = own => ntpd)

(* Without an interrupt the clock is fast when the probe runs, and a frozen    *)
(* server shows it.                                                            *)
Injected ==
  Ppm # 0 /\ hits = 0 =>
    /\ pc = "probe" => freq = own + Ppm
    /\ pc \in {"restore", "forget", "verdict"} /\ probe["ok"] /\ frozen =>
         probe["skew"] = own + Ppm

Exited == pc = "done" <=> exit # "none"

IInv == TypeOK /\ Untouched /\ Unparsed /\ Restored /\ Injected /\ Exited /\ FrozenCaught

(* Unset and Noise are no rates.                                               *)
LEMMA Rates == ASSUME TypeOK PROVE own \in Int /\ own # Unset /\ own # Noise /\ Ppm \in Int
  BY ConstAssumption DEF TypeOK, Unset, Noise

USE DEF device, script, SetFreq, AddFreq
-------------------------------------------------------------------------------
LEMMA InitHolds == Init => IInv
<1> SUFFICES ASSUME Init PROVE IInv
  OBVIOUS
<1>1. /\ pc \in {"stage", "probe"} /\ (Ppm # 0 => pc = "stage")
      /\ add = Unset /\ oldRaw = Unset /\ exit = "none" /\ freq = own /\ hits = 0
  BY DEF Init
<1>2. own \in Own /\ own # Unset
  BY ConstAssumption DEF Init, Unset
<1>3. TypeOK
  <2>1. probe \in [ok : BOOLEAN, skew : {0, own, own + Ppm}]
    BY DEF Init
  <2>2. ntpd \in BOOLEAN /\ frozen \in BOOLEAN /\ lost \in BOOLEAN
    BY DEF Init
  <2>3. 0 \in 0 .. MaxHit
    BY ConstAssumption
  <2> QED
    BY <1>1, <1>2, <2>1, <2>2, <2>3 DEF TypeOK
<1>4. Untouched /\ Unparsed /\ Restored /\ Injected /\ Exited /\ FrozenCaught
  BY <1>1, <1>2 DEF Untouched, Unparsed, Restored, Injected, Exited, FrozenCaught
<1> QED
  BY <1>3, <1>4 DEF IInv

LEMMA TypeStep == IInv /\ [Next]_vars => TypeOK'
<1> SUFFICES ASSUME IInv, [Next]_vars PROVE TypeOK'
  OBVIOUS
<1> USE DEF IInv, TypeOK, Leave
<1>1. CASE Stage \/ StopNtpd \/ Forget \/ Verdict
  <2>1. CASE Stage
    BY <2>1 DEF Stage
  <2>2. CASE StopNtpd
    <3>1. ntpd' \in BOOLEAN
      <4>1. ntpd \in BOOLEAN /\ ntpd' \in {ntpd, FALSE}
        BY <2>2 DEF StopNtpd
      <4> QED
        BY <4>1
    <3>2. /\ pc' = "add"
          /\ UNCHANGED <<add, oldRaw, probe, exit, freq, own, frozen, hits, lost>>
      BY <2>2 DEF StopNtpd
    <3> QED
      BY <3>1, <3>2
  <2>3. CASE Forget
    BY <2>3 DEF Forget
  <2>4. CASE Verdict
    BY <2>4 DEF Verdict
  <2> QED
    BY <1>1, <2>1, <2>2, <2>3, <2>4
<1>2. CASE Add \/ Parse
  BY <1>2 DEF Add, Parse, Untouched, Unparsed
<1>3. CASE Probe
  <2>1. \/ probe' = [ok |-> TRUE, skew |-> IF frozen THEN freq ELSE 0]
        \/ probe' = [ok |-> FALSE, skew |-> 0]
    BY <1>3 DEF Probe
  <2>2. (IF frozen THEN freq ELSE 0) \in {0, own, own + Ppm}
    OBVIOUS
  <2>3. \A s \in {0, own, own + Ppm}, k \in BOOLEAN :
          [ok |-> k, skew |-> s] \in [ok : BOOLEAN, skew : {0, own, own + Ppm}]
    OBVIOUS
  <2>4. probe' \in [ok : BOOLEAN, skew : {0, own, own + Ppm}]
    BY ONLY <2>1, <2>2, <2>3, Zenon
  <2> QED
    BY <1>3, <2>4 DEF Probe
<1>4. CASE RestoreCall
  BY <1>4 DEF RestoreCall, PutBack
<1>5. CASE Interrupt
  <2>1. hits' \in 0 .. MaxHit
    BY <1>5, ConstAssumption DEF Interrupt
  <2>2. freq' \in {own, own + Ppm} /\ ntpd' \in BOOLEAN /\ lost' \in BOOLEAN
    BY <1>5 DEF Interrupt, PutBack
  <2>3. UNCHANGED <<pc, add, probe, exit, own, frozen>> /\ oldRaw' = Unset
    BY <1>5 DEF Interrupt, PutBack
  <2> QED
    BY <2>1, <2>2, <2>3
<1>6. CASE UNCHANGED vars
  BY <1>6 DEF vars
<1> QED
  BY <1>1, <1>2, <1>3, <1>4, <1>5, <1>6 DEF Next, Script

LEMMA StepKeeps == IInv /\ [Next]_vars => IInv'
<1> SUFFICES ASSUME IInv, [Next]_vars PROVE IInv'
  OBVIOUS
<1>1. TypeOK'
  BY TypeStep
<1>2. own \in Int /\ own # Unset /\ own # Noise /\ Ppm \in Int /\ Unset # Noise
  BY Rates DEF IInv, Unset, Noise
<1> HIDE DEF TypeOK
<1> USE DEF IInv, Untouched, Unparsed, Restored, Injected, Exited, FrozenCaught, Leave
<1>3. CASE Stage \/ StopNtpd
  BY <1>1, <1>2, <1>3 DEF Stage, StopNtpd
<1>4. CASE Add
  BY <1>1, <1>2, <1>4 DEF Add
<1>5. CASE Parse
  BY <1>1, <1>2, <1>5 DEF Parse
<1>6. CASE Probe
  BY <1>1, <1>2, <1>6 DEF Probe
<1>7. CASE RestoreCall
  BY <1>1, <1>2, <1>7 DEF RestoreCall, PutBack, TypeOK
<1>8. CASE Forget
  BY <1>1, <1>2, <1>8 DEF Forget
<1>9. CASE Verdict
  <2>1. Untouched' /\ Unparsed' /\ Restored' /\ Injected' /\ Exited'
    BY <1>9, <1>1, <1>2 DEF Verdict
  <2>2. exit' = "ok" => probe["ok"] /\ probe["skew"] = 0
    BY <1>9 DEF Verdict
  <2>3. hits' = hits /\ hits \in Nat /\ frozen' = frozen /\ own' = own
    BY <1>9, ConstAssumption DEF Verdict, TypeOK
  <2>4. pc = "verdict"
    BY <1>9 DEF Verdict
  <2>5. FrozenCaught'
    BY <2>2, <2>3, <2>4
  <2> QED
    BY <1>1, <2>1, <2>5
<1>10. CASE Interrupt
  <2>1. hits' > 0 /\ pc' = pc /\ pc \notin {"verdict", "done"} /\ exit' = exit /\ add' = add
        /\ own' = own /\ oldRaw' = Unset /\ hits' \in Nat
    BY <1>10, ConstAssumption DEF Interrupt, PutBack, TypeOK
  <2>2. oldRaw = Unset => freq' = freq /\ ntpd' = ntpd /\ lost' = lost
    BY <1>10 DEF Interrupt
  <2>3. oldRaw # Unset /\ ~lost' => freq' = own /\ ntpd'
    BY <1>10, <1>2 DEF Interrupt, PutBack, TypeOK
  <2>4. lost => lost'
    BY <1>10 DEF Interrupt, PutBack
  <2>5. Untouched' /\ Unparsed' /\ Exited'
    BY <1>2, <2>1, <2>2
  <2>6. Restored'
    BY <1>2, <2>1, <2>2, <2>3, <2>4
  <2>7. Injected' /\ FrozenCaught'
    BY <2>1
  <2> QED
    BY <1>1, <2>5, <2>6, <2>7
<1>11. CASE UNCHANGED vars
  BY <1>1, <1>11 DEF vars
<1> QED
  BY <1>3, <1>4, <1>5, <1>6, <1>7, <1>8, <1>9, <1>10, <1>11 DEF Next, Script
-------------------------------------------------------------------------------
(* The inductive invariant holds in every reachable state.                     *)
THEOREM Invariance == Spec => []IInv
  BY InitHolds, StepKeeps, PTL DEF Spec

(* Type correctness; OLD_RAW never holds a rate that is not the clock's own.   *)
THEOREM TypeCorrect == Spec => []TypeOK
<1>1. IInv => TypeOK
  BY DEF IInv
<1> QED
  BY <1>1, Invariance, PTL

(* Whatever fails or interrupts the leg, it leaves the clock's rate as it was, *)
(* and ntpd running where it had something to restore, unless a call to        *)
(* freqadj was lost (drift-leg.sh:30-36, 62-65).                               *)
THEOREM RestoreCorrect == Spec => []DeviceRestored
<1>1. IInv => DeviceRestored
  BY DEF IInv, Restored, Exited, DeviceRestored
<1> QED
  BY <1>1, Invariance, PTL

(* A run left alone does not pass a server that holds on to its clock's rate   *)
(* (drift-leg.sh:45-48, 84-88).                                                *)
THEOREM FrozenCorrect == Spec => []FrozenCaught
<1>1. IInv => FrozenCaught
  BY DEF IInv
<1> QED
  BY <1>1, Invariance, PTL

--------------------------------------------------------------------------------
(* Remainders.                                                                    *)
LEMMA ModIs ==
  ASSUME NEW W \in Nat \ {0}, NEW q \in Int, NEW r \in 0 .. W - 1
  PROVE  (W * q + r) % W = r
  OBVIOUS

LEMMA ModOf ==
  ASSUME NEW W \in Nat \ {0}, NEW a \in Int
  PROVE  a % W \in 0 .. W - 1 /\ a \div W \in Int /\ a = W * (a \div W) + (a % W)
  OBVIOUS

LEMMA ModSmall ==
  ASSUME NEW W \in Nat \ {0}, NEW a \in 0 .. W - 1
  PROVE  a % W = a /\ (a + W) % W = a /\ (a - W) % W = a
  OBVIOUS

LEMMA ModAdd ==
  ASSUME NEW W \in Nat \ {0}, NEW a \in Int, NEW b \in Int
  PROVE  ((a % W) + b) % W = (a + b) % W
<1> DEFINE q == a \div W  r == a % W  s == (r + b) \div W  t == (r + b) % W
<1>0. r \in 0 .. W - 1 /\ q \in Int /\ a = W * q + r
  BY ModOf
<1> HIDE DEF q, r
<1>1. q \in Int /\ r \in Int /\ a = W * q + r
  BY <1>0
<1>r. r + b \in Int
  BY <1>1
<1>2. s \in Int /\ t \in 0 .. W - 1 /\ r + b = W * s + t
  BY <1>r, ModOf
<1> HIDE DEF s, t
<1>3. a + b = W * (q + s) + t
  BY <1>1, <1>2
<1>4. (W * (q + s) + t) % W = t
  BY <1>1, <1>2, ModIs
<1> QED
  BY <1>3, <1>4 DEF t, r

(* A distance leads back to the same place if it is a number of whole turns.      *)
LEMMA ModSame ==
  ASSUME NEW W \in Nat \ {0}, NEW a \in Int, NEW d \in Int
  PROVE  (a + d) % W = a % W <=> d % W = 0
<1> DEFINE q == a \div W  r == a % W  s == d \div W  t == d % W
<1>1. q \in Int /\ r \in 0 .. W - 1 /\ a = W * q + r
  BY ModOf
<1>2. s \in Int /\ t \in 0 .. W - 1 /\ d = W * s + t
  BY ModOf
<1> HIDE DEF q, r, s, t
<1>3. a + d = W * (q + s) + (r + t) /\ a + d = W * (q + s + 1) + (r + t - W)
  BY <1>1, <1>2
<1>4. CASE r + t < W
  <2>1. (a + d) % W = r + t
    BY <1>1, <1>2, <1>3, <1>4, ModIs
  <2> QED
    BY <1>1, <1>2, <2>1 DEF r, t
<1>5. CASE r + t >= W
  <2>1. q + s + 1 \in Int /\ r + t - W \in 0 .. W - 1
    BY <1>1, <1>2, <1>5
  <2>2. (W * (q + s + 1) + (r + t - W)) % W = r + t - W
    BY <2>1, ModIs
  <2>3. (a + d) % W = r + t - W
    BY <1>3, <2>2
  <2> QED
    BY <1>1, <1>2, <2>3 DEF r, t
<1> QED
  BY <1>1, <1>2, <1>4, <1>5

--------------------------------------------------------------------------------
(* The continuity probe: behind the first packet the probe's last number is the   *)
(* source's.                                                                      *)
GInv ==
  mode = "any" =>
    /\ seq \in 0 .. SeqWord - 1 /\ last \in {-1, seq}
    /\ skipped \in Int /\ repeated \in Int
    /\ gaps = skipped - repeated

LEMMA GapBounds == SeqWord \in Nat \ {0} /\ SeqWord > 2
  BY StreamConstants DEF Gaps!ConstAssumption

LEMMA GapInit == Gaps!Init => GInv
  BY GapBounds DEF Gaps!Init, GInv

(* What one packet adds to seq-lost: the numbers between it and the one before.   *)
LEMMA SendCounts ==
  ASSUME GInv, NEW ds \in 0 .. SeqWord - 1, NEW dt, NEW wall, Gaps!Send(ds, dt, wall)
  PROVE  /\ mode = "any" /\ mode' = "any"
         /\ seq' \in 0 .. SeqWord - 1 /\ last' = seq'
         /\ gaps' = IF last # -1 THEN gaps + ds - 1 ELSE gaps
<1>1. /\ mode = "any" /\ mode' = mode
      /\ seq' = (seq + ds) % SeqWord
      /\ last' = (seq' + 1 - 1) % SeqWord
      /\ gaps' = IF last # -1 /\ (seq' - last) % SeqWord # 1
                   THEN gaps + ((seq' - last) % SeqWord) - 1 ELSE gaps
  BY DEF Gaps!Send, Gaps!Take
<1>2. seq \in 0 .. SeqWord - 1 /\ last \in {-1, seq} /\ gaps \in Int
  BY <1>1 DEF GInv
<1>a. seq \in Int /\ ds \in Int /\ seq + ds \in Int /\ - seq \in Int
  BY <1>2, GapBounds
<1>3. seq' \in 0 .. SeqWord - 1
  BY <1>1, <1>a, GapBounds, ModOf
<1>4. last' = seq'
  BY <1>1, <1>3, GapBounds, ModSmall
<1>5. (seq' - seq) % SeqWord = ds
  <2>1. (((seq + ds) % SeqWord) - seq) % SeqWord = ((seq + ds) + (- seq)) % SeqWord
    BY <1>a, GapBounds, ModAdd
  <2>2. (seq + ds) + (- seq) = ds /\ ds % SeqWord = ds
    BY <1>2, GapBounds, ModSmall
  <2> QED
    BY <1>1, <1>2, <2>1, <2>2
<1> QED
  BY <1>1, <1>2, <1>3, <1>4, <1>5

LEMMA GapStep == GInv /\ [Gaps!Next]_(Gaps!vars) => GInv'
<1> SUFFICES ASSUME GInv, [Gaps!Next]_(Gaps!vars), mode' = "any"
             PROVE  GInv'
  BY DEF GInv
<1>1. CASE UNCHANGED Gaps!vars
  BY <1>1 DEF Gaps!vars, Gaps!source, Gaps!history, Gaps!probe, GInv
<1>2. CASE Gaps!Frame
  <2>1. Gaps!Send(1, 1, 1) /\ UNCHANGED <<skipped, repeated>>
    BY <1>2 DEF Gaps!Frame, Gaps!history
  <2> QED
    BY <2>1, SendCounts, GapBounds DEF GInv
<1>3. CASE Gaps!SkipNumbers
  <2>1. PICK k \in {1, SeqWord - 2} :
          /\ last # -1 /\ Gaps!Send(1 + k, 1, 1)
          /\ skipped' = skipped + k /\ repeated' = repeated
    BY <1>3 DEF Gaps!SkipNumbers
  <2>2. 1 + k \in 0 .. SeqWord - 1
    BY GapBounds
  <2> QED
    BY <2>1, <2>2, SendCounts, GapBounds DEF GInv
<1>4. CASE Gaps!Repeat
  <2>1. last # -1 /\ Gaps!Send(0, 0, 0) /\ repeated' = repeated + 1 /\ skipped' = skipped
    BY <1>4 DEF Gaps!Repeat
  <2> QED
    BY <2>1, SendCounts, GapBounds DEF GInv
<1>5. CASE Gaps!Stall
  <2>1. PICK jitter \in {-1, 0, 2} :
          Gaps!Send(1, Far, Far + jitter) /\ UNCHANGED <<skipped, repeated>>
    BY <1>5 DEF Gaps!Stall
  <2> QED
    BY <2>1, SendCounts, GapBounds DEF GInv
<1>6. CASE Gaps!Misstamp
  <2>1. PICK off \in {Far, -2, -Far} :
          Gaps!Send(1, off, 1) /\ UNCHANGED <<skipped, repeated>>
    BY <1>6 DEF Gaps!Misstamp
  <2> QED
    BY <2>1, SendCounts, GapBounds DEF GInv
<1>7. CASE Gaps!ServeNal
  BY <1>7 DEF Gaps!ServeNal
<1> QED
  BY <1>1, <1>2, <1>3, <1>4, <1>5, <1>6, <1>7 DEF Gaps!Next

(* seq-lost is what the sender left out less what it sent twice, whatever the     *)
(* width of the number, across its wrap (seq_gap.py:56-61).                       *)
THEOREM LossCorrect == Gaps!Spec => []LossExact
<1>1. GInv => LossExact
  BY DEF GInv, LossExact, Gaps!LossExact
<1> QED
  BY <1>1, GapInit, GapStep, PTL DEF Gaps!Spec

--------------------------------------------------------------------------------
(* The census: the counter of a PID stands as far behind the last packet of it    *)
(* that was read as packets of it were damaged since.                             *)
ReadAs(p) ==
  IF missing[p] = -1
  THEN cc_state[p] = Muxed!None
  ELSE /\ cc_state[p].cc \in 0 .. CcWord - 1 /\ cc_state[p].id \in 1 .. id
       /\ cc[p] = (cc_state[p].cc + missing[p]) % CcWord
       /\ cc_state[p].id = id => missing[p] = 0

CensusInv ==
  /\ at \in Nat /\ id \in Nat
  /\ cc \in [Muxed!Pid -> 0 .. CcWord - 1]
  /\ missing \in [Muxed!Pid -> Nat \cup {-1}]
  /\ cc_state \in [Muxed!Pid -> [cc : -1 .. CcWord - 1, id : Int]]
  /\ \A p \in Muxed!Pid : ReadAs(p)
  /\ cc_errors = breaks

LEMMA WordBounds == CcWord \in Nat \ {0}
  BY StreamConstants DEF Muxed!ConstAssumption

LEMMA CensusInit == Muxed!Init => CensusInv
<1> SUFFICES ASSUME Muxed!Init
             PROVE  CensusInv
  OBVIOUS
<1>1. /\ at = 0 /\ id = 0 /\ cc_errors = 0 /\ breaks = 0
      /\ cc = [p \in Muxed!Pid |-> CcWord - 1] /\ missing = [p \in Muxed!Pid |-> -1]
      /\ cc_state = [p \in Muxed!Pid |-> Muxed!None]
  BY DEF Muxed!Init
<1>2. CcWord - 1 \in 0 .. CcWord - 1 /\ Muxed!None \in [cc : -1 .. CcWord - 1, id : Int]
  BY WordBounds DEF Muxed!None
<1>3. \A p \in Muxed!Pid : ReadAs(p)
  BY <1>1 DEF ReadAs
<1> QED
  BY <1>1, <1>2, <1>3 DEF CensusInv

(* A packet that is not its predecessor's copy is taken for a break if and only   *)
(* if what is missing before it is no whole number of turns.                      *)
LEMMA BreakSeen ==
  ASSUME NEW a \in 0 .. CcWord - 1, NEW m \in Nat, NEW k \in Int
  PROVE  (((a + m) % CcWord) + 1 + k) % CcWord = (a + 1) % CcWord <=> (m + k) % CcWord = 0
<1>1. a \in Int /\ a + m \in Int /\ 1 + k \in Int /\ m + k \in Int /\ a + 1 \in Int
  BY WordBounds
<1>2. (((a + m) % CcWord) + (1 + k)) % CcWord = ((a + m) + (1 + k)) % CcWord
  BY <1>1, WordBounds, ModAdd
<1>3. ((a + 1) + (m + k)) % CcWord = (a + 1) % CcWord <=> (m + k) % CcWord = 0
  BY <1>1, WordBounds, ModSame
<1>4. (a + m) % CcWord \in Int
  BY <1>1, WordBounds, ModOf
<1>5. /\ (a + m) + (1 + k) = (a + 1) + (m + k)
      /\ ((a + m) % CcWord) + (1 + k) = ((a + m) % CcWord) + 1 + k
  BY <1>1, <1>4
<1> QED
  BY <1>2, <1>3, <1>5

LEMMA KindKnown == at \in Nat => Muxed!PidOf(Muxed!Kind) \in Muxed!Pid
<1> SUFFICES ASSUME at \in Nat
             PROVE  Muxed!PidOf(Muxed!Kind) \in Muxed!Pid
  OBVIOUS
<1>1. (at % 4) + 1 \in 1 .. 4
  OBVIOUS
<1>2. Muxed!Kind \in {"pat", "pmt", "start", "cont"}
  BY <1>1 DEF Muxed!Kind, Muxed!Cycle
<1> QED
  BY <1>2 DEF Muxed!PidOf, Muxed!Pid

(* Every other PID: its last packet read is older than the one that goes out.     *)
LEMMA OthersKept ==
  ASSUME CensusInv, NEW q \in Muxed!Pid, id' \in {id, id + 1},
         cc'[q] = cc[q], missing'[q] = missing[q], cc_state'[q] = cc_state[q]
  PROVE  ReadAs(q)'
<1>1. ReadAs(q) /\ id \in Nat /\ cc_state[q].id \in Int
  BY DEF CensusInv
<1>2. CASE missing[q] = -1
  BY <1>1, <1>2 DEF ReadAs, Muxed!None
<1>3. CASE missing[q] # -1
  <2>1. cc_state[q].id \in 1 .. id' /\ (cc_state[q].id = id' => cc_state[q].id = id)
    BY <1>1, <1>3 DEF ReadAs
  <2> QED
    BY <1>1, <1>3, <2>1 DEF ReadAs
<1> QED
  BY <1>2, <1>3

LEMMA WriteStep ==
  ASSUME CensusInv, NEW k \in Int, NEW delay, NEW skew, NEW aligned,
         Muxed!Write(k, delay, skew, aligned)
  PROVE  CensusInv'
<1>p. PICK p \in Muxed!Pid : p = Muxed!PidOf(Muxed!Kind)
  BY KindKnown DEF CensusInv
<1> DEFINE prev == cc_state[p]
           c == (cc[p] + 1 + k) % CcWord
<1>0. /\ at \in Nat /\ id \in Nat /\ cc_errors = breaks
      /\ cc \in [Muxed!Pid -> 0 .. CcWord - 1]
      /\ missing \in [Muxed!Pid -> Nat \cup {-1}]
      /\ cc_state \in [Muxed!Pid -> [cc : -1 .. CcWord - 1, id : Int]]
  BY DEF CensusInv
<1>w. /\ at' = at + 1 /\ id' = id + 1
      /\ cc' = [cc EXCEPT ![p] = c]
      /\ missing' = [missing EXCEPT ![p] = 0]
      /\ breaks' = IF missing[p] # -1 /\ (missing[p] + k) % CcWord # 0
                     THEN breaks + 1 ELSE breaks
      /\ Muxed!Continuity(p, cc'[p], id')
  BY <1>p DEF Muxed!Write, Muxed!Census
<1>1. ReadAs(p)
  BY <1>0 DEF CensusInv
<1>2. cc[p] + 1 + k \in Int /\ c \in 0 .. CcWord - 1
  <2>1. cc[p] + 1 + k \in Int
    BY <1>0, WordBounds
  <2> QED
    BY <2>1, WordBounds, ModOf
<1>3. cc'[p] = c
  BY <1>0, <1>w
<1>4. /\ cc_state' = [cc_state EXCEPT ![p] = [cc |-> c, id |-> id + 1]]
      /\ cc_errors' = IF /\ prev # Muxed!None
                         /\ c # (prev.cc + 1) % CcWord
                         /\ ~(c = prev.cc /\ id + 1 = prev.id)
                      THEN cc_errors + 1 ELSE cc_errors
  BY <1>w, <1>3 DEF Muxed!Continuity
<1>5. cc_errors' = breaks'
  <2>1. CASE missing[p] = -1
    BY <1>0, <1>1, <1>4, <1>w, <2>1 DEF ReadAs
  <2>2. CASE missing[p] # -1
    <3>1. /\ prev.cc \in 0 .. CcWord - 1 /\ prev.id \in 1 .. id /\ missing[p] \in Nat
          /\ cc[p] = (prev.cc + missing[p]) % CcWord
      BY <1>0, <1>1, <2>2 DEF ReadAs
    <3>2. prev # Muxed!None /\ id + 1 # prev.id
      BY <1>0, <3>1 DEF Muxed!None
    <3>3. c = (prev.cc + 1) % CcWord <=> (missing[p] + k) % CcWord = 0
      BY <3>1, BreakSeen
    <3> HIDE DEF c, prev
    <3> QED
      BY <1>0, <1>4, <1>w, <2>2, <3>2, <3>3
  <2> QED
    BY <2>1, <2>2
<1> HIDE DEF c, prev
<1>6. /\ at' \in Nat /\ id' \in Nat
      /\ cc' \in [Muxed!Pid -> 0 .. CcWord - 1]
      /\ missing' \in [Muxed!Pid -> Nat \cup {-1}]
      /\ cc_state' \in [Muxed!Pid -> [cc : -1 .. CcWord - 1, id : Int]]
  <2>1. at' \in Nat /\ id' \in Nat
    BY <1>0, <1>w
  <2>2. [cc |-> c, id |-> id + 1] \in [cc : -1 .. CcWord - 1, id : Int]
    BY <1>0, <1>2, WordBounds
  <2> QED
    BY <1>0, <1>2, <1>4, <1>w, <2>1, <2>2
<1>7. ReadAs(p)'
  <2>1. missing'[p] = 0 /\ cc_state'[p] = [cc |-> c, id |-> id + 1] /\ cc'[p] = c
    BY <1>0, <1>3, <1>4, <1>w
  <2>2. (c + 0) % CcWord = c
    BY <1>2, WordBounds, ModSmall
  <2> QED
    BY <1>0, <1>2, <1>w, <2>1, <2>2 DEF ReadAs
<1>8. ASSUME NEW q \in Muxed!Pid, q # p
      PROVE  ReadAs(q)'
  <2>1. cc'[q] = cc[q] /\ missing'[q] = missing[q] /\ cc_state'[q] = cc_state[q]
    BY <1>0, <1>4, <1>w, <1>8
  <2> QED
    BY <1>w, <2>1, OthersKept
<1> QED
  BY <1>5, <1>6, <1>7, <1>8 DEF CensusInv

LEMMA DamageStep ==
  ASSUME CensusInv, Muxed!Damage
  PROVE  CensusInv'
<1>p. PICK p \in Muxed!Pid : p = Muxed!PidOf(Muxed!Kind)
  BY KindKnown DEF CensusInv
<1>0. /\ at \in Nat /\ id \in Nat /\ cc_errors = breaks
      /\ cc \in [Muxed!Pid -> 0 .. CcWord - 1]
      /\ missing \in [Muxed!Pid -> Nat \cup {-1}]
      /\ cc_state \in [Muxed!Pid -> [cc : -1 .. CcWord - 1, id : Int]]
  BY DEF CensusInv
<1>w. /\ at' = at + 1 /\ id' = id + 1
      /\ cc' = [cc EXCEPT ![p] = (cc[p] + 1) % CcWord]
      /\ missing' = [missing EXCEPT ![p] = IF missing[p] = -1 THEN -1 ELSE missing[p] + 1]
      /\ breaks' = breaks /\ cc_errors' = cc_errors /\ cc_state' = cc_state
  BY <1>p DEF Muxed!Damage, Muxed!Unsynced
<1>1. ReadAs(p)
  BY <1>0 DEF CensusInv
<1>2. cc[p] \in Int /\ cc[p] + 1 \in Int /\ (cc[p] + 1) % CcWord \in 0 .. CcWord - 1
  <2>1. cc[p] \in Int /\ cc[p] + 1 \in Int
    BY <1>0, WordBounds
  <2> QED
    BY <2>1, WordBounds, ModOf
<1>3. /\ at' \in Nat /\ id' \in Nat
      /\ cc' \in [Muxed!Pid -> 0 .. CcWord - 1]
      /\ missing' \in [Muxed!Pid -> Nat \cup {-1}]
      /\ cc_state' \in [Muxed!Pid -> [cc : -1 .. CcWord - 1, id : Int]]
  BY <1>0, <1>2, <1>w
<1>4. ReadAs(p)'
  <2>1. CASE missing[p] = -1
    BY <1>0, <1>1, <1>w, <2>1 DEF ReadAs, Muxed!None
  <2>2. CASE missing[p] # -1
    <3> DEFINE a == cc_state[p].cc  m == missing[p]
    <3>1. /\ a \in 0 .. CcWord - 1 /\ cc_state[p].id \in 1 .. id /\ m \in Nat
          /\ cc[p] = (a + m) % CcWord
      BY <1>0, <1>1, <2>2 DEF ReadAs
    <3>2. /\ missing'[p] = m + 1 /\ cc'[p] = (cc[p] + 1) % CcWord
          /\ cc_state'[p] = cc_state[p]
      BY <1>0, <1>w, <2>2
    <3>3. a + m \in Int /\ 1 \in Int /\ (a + m) + 1 = a + (m + 1)
      BY <3>1, WordBounds
    <3>4. (((a + m) % CcWord) + 1) % CcWord = ((a + m) + 1) % CcWord
      BY <3>3, WordBounds, ModAdd
    <3>5. cc_state[p].id \in 1 .. id' /\ cc_state[p].id # id' /\ m + 1 # -1
      BY <1>0, <1>w, <3>1
    <3> QED
      BY <3>1, <3>2, <3>3, <3>4, <3>5 DEF ReadAs
  <2> QED
    BY <2>1, <2>2
<1>5. ASSUME NEW q \in Muxed!Pid, q # p
      PROVE  ReadAs(q)'
  <2>1. cc'[q] = cc[q] /\ missing'[q] = missing[q] /\ cc_state'[q] = cc_state[q]
    BY <1>0, <1>w, <1>5
  <2> QED
    BY <1>w, <2>1, OthersKept
<1> QED
  BY <1>0, <1>3, <1>4, <1>5, <1>w DEF CensusInv

(* A copy of the last packet finds nothing missing, and the number it carries     *)
(* itself.                                                                        *)
LEMMA RepeatStep ==
  ASSUME CensusInv, Muxed!Repeat
  PROVE  CensusInv'
<1>0. /\ at \in Nat /\ id \in Nat /\ cc_errors = breaks /\ "video" \in Muxed!Pid
      /\ cc \in [Muxed!Pid -> 0 .. CcWord - 1]
      /\ missing \in [Muxed!Pid -> Nat \cup {-1}]
      /\ cc_state \in [Muxed!Pid -> [cc : -1 .. CcWord - 1, id : Int]]
  BY DEF CensusInv, Muxed!Pid
<1>w. /\ at' = at + 1 /\ cc_state["video"].id = id
      /\ id' = id /\ cc' = cc /\ missing' = missing /\ breaks' = breaks
      /\ Muxed!Continuity("video", cc["video"], id)
  BY DEF Muxed!Repeat
<1>1. ReadAs("video")
  BY <1>0 DEF CensusInv
<1>2. missing["video"] # -1
  BY <1>0, <1>1, <1>w DEF ReadAs, Muxed!None
<1>3. cc["video"] = cc_state["video"].cc
  <2>1. /\ cc_state["video"].cc \in 0 .. CcWord - 1
        /\ cc["video"] = (cc_state["video"].cc + 0) % CcWord
    BY <1>1, <1>2, <1>w DEF ReadAs
  <2>2. cc_state["video"].cc % CcWord = cc_state["video"].cc
    BY <2>1, WordBounds, ModSmall
  <2> QED
    BY <2>1, <2>2, WordBounds
<1>4. cc_errors' = cc_errors /\ cc_state' = cc_state
  <2>1. cc_state["video"] = [cc |-> cc["video"], id |-> id]
    BY <1>0, <1>3, <1>w
  <2> QED
    BY <1>0, <1>3, <1>w, <2>1 DEF Muxed!Continuity
<1>5. \A q \in Muxed!Pid : ReadAs(q)'
  BY <1>w, <1>4, OthersKept
<1> QED
  BY <1>0, <1>4, <1>5, <1>w DEF CensusInv

LEMMA CensusStep == CensusInv /\ [Muxed!Next]_(Muxed!vars) => CensusInv'
<1> SUFFICES ASSUME CensusInv, [Muxed!Next]_(Muxed!vars)
             PROVE  CensusInv'
  OBVIOUS
<1>1. CASE UNCHANGED Muxed!vars
  BY <1>1 DEF Muxed!vars, Muxed!muxer, Muxed!census, CensusInv, ReadAs
<1>2. CASE Muxed!Sound
  <2>1. Muxed!Write(0, 0, 0, TRUE)
    BY <1>2, Zenon DEF Muxed!Sound
  <2>2. 0 \in Int
    OBVIOUS
  <2> QED
    BY <2>1, <2>2, WriteStep, Zenon
<1>3. CASE Muxed!Lose
  <2>1. PICK k \in {1, CcWord - 1, CcWord} : Muxed!Write(k, 0, 0, TRUE)
    BY <1>3 DEF Muxed!Lose
  <2>2. k \in Int
    BY WordBounds
  <2> QED
    BY <2>1, <2>2, WriteStep, Zenon
<1>4. CASE Muxed!Late
  <2>1. Muxed!Write(0, PcrMax, 0, TRUE)
    BY <1>4, Zenon DEF Muxed!Late
  <2>2. 0 \in Int
    OBVIOUS
  <2> QED
    BY <2>1, <2>2, WriteStep, Zenon
<1>5. CASE Muxed!BackPcr
  <2>1. PICK value \in {0} \cup {pcr_samples[k][2] : k \in {Len(pcr_samples)} \ {0}} :
          Muxed!Write(0, 0, value - (now + 1), TRUE)
    BY <1>5, Zenon DEF Muxed!BackPcr
  <2>2. 0 \in Int
    OBVIOUS
  <2> QED
    BY <2>1, <2>2, WriteStep, Zenon
<1>6. CASE Muxed!Misalign
  <2>1. Muxed!Write(0, 0, 0, FALSE)
    BY <1>6, Zenon DEF Muxed!Misalign
  <2>2. 0 \in Int
    OBVIOUS
  <2> QED
    BY <2>1, <2>2, WriteStep, Zenon
<1>7. CASE Muxed!Damage
  BY <1>7, DamageStep
<1>8. CASE Muxed!Stuff
  <2>1. at' = at + 1 /\ UNCHANGED <<id, cc, missing, breaks, cc_errors, cc_state>>
    BY <1>8 DEF Muxed!Stuff, Muxed!census
  <2> QED
    BY <2>1 DEF CensusInv, ReadAs
<1>9. CASE Muxed!Repeat
  BY <1>9, RepeatStep
<1> QED
  BY <1>1, <1>2, <1>3, <1>4, <1>5, <1>6, <1>7, <1>8, <1>9 DEF Muxed!Next

(* The census counts every gap once and nothing else - no copy, no stuffing, no   *)
(* wrap of the counter, no loss of whole turns - for counters of any width and    *)
(* any number of faults (ts_census.py:71-80).                                     *)
THEOREM ContinuityCorrect == Muxed!Spec => []ContinuityExact
<1>1. CensusInv => ContinuityExact
  BY DEF CensusInv, ContinuityExact, Muxed!ContinuityExact
<1> QED
  BY <1>1, CensusInit, CensusStep, PTL DEF Muxed!Spec

--------------------------------------------------------------------------------
(* The reader's tokens; text is what an answer is made of.                        *)
Token == [t : {"$", "pay", "head", "end", "body"}, n : Nat]
Text(tok) == tok.t \in {"head", "end", "body"}

LEMMA BodyUnits == Body \in Nat
  BY StreamConstants, Zenon DEF Reader!ConstAssumption

LEMMA FromIs ==
  ASSUME NEW s \in Seq(Token), NEW k \in 1 .. Len(s) + 1
  PROVE  /\ Reader!From(s, k) \in Seq(Token)
         /\ Len(Reader!From(s, k)) = Len(s) - k + 1
         /\ \A i \in 1 .. Len(s) - k + 1 : Reader!From(s, k)[i] = s[i + k - 1]
  BY SubSeqProperties DEF Reader!From

LEMMA JoinIs ==
  ASSUME NEW s \in Seq(Token), NEW u \in Seq(Token)
  PROVE  /\ s \o u \in Seq(Token)
         /\ Len(s \o u) = Len(s) + Len(u)
         /\ \A i \in 1 .. Len(s) : (s \o u)[i] = s[i]
         /\ \A i \in Len(s) + 1 .. Len(s) + Len(u) : (s \o u)[i] = u[i - Len(s)]
  OBVIOUS

LEMMA FromJoin ==
  ASSUME NEW s \in Seq(Token), NEW u \in Seq(Token), NEW k \in 1 .. Len(s) + 1
  PROVE  Reader!From(s, k) \o u = Reader!From(s \o u, k)
<1> DEFINE f == Reader!From(s, k)  v == s \o u  a == f \o u  b == Reader!From(v, k)
<1>1. f \in Seq(Token) /\ Len(f) = Len(s) - k + 1 /\ \A i \in 1 .. Len(f) : f[i] = s[i + k - 1]
  BY FromIs
<1>2. v \in Seq(Token) /\ Len(v) = Len(s) + Len(u) /\ Len(s) \in Nat /\ Len(u) \in Nat
  BY JoinIs
<1>3. /\ \A i \in 1 .. Len(s) : v[i] = s[i]
      /\ \A i \in Len(s) + 1 .. Len(s) + Len(u) : v[i] = u[i - Len(s)]
  BY JoinIs
<1>4. k \in 1 .. Len(v) + 1
  BY <1>2
<1>5. a \in Seq(Token) /\ Len(a) = Len(f) + Len(u)
  BY <1>1, JoinIs
<1>6. /\ \A i \in 1 .. Len(f) : a[i] = f[i]
      /\ \A i \in Len(f) + 1 .. Len(f) + Len(u) : a[i] = u[i - Len(f)]
  BY <1>1, JoinIs
<1>7. b \in Seq(Token) /\ Len(b) = Len(v) - k + 1 /\ \A i \in 1 .. Len(b) : b[i] = v[i + k - 1]
  BY <1>2, <1>4, FromIs
<1> HIDE DEF a, b, f, v
<1>8. ASSUME NEW i \in 1 .. Len(a) PROVE a[i] = b[i]
  <2>1. i \in 1 .. Len(b) /\ b[i] = v[i + k - 1]
    BY <1>1, <1>2, <1>5, <1>7
  <2>2. CASE i <= Len(f)
    <3>1. i + k - 1 \in 1 .. Len(s) /\ i \in 1 .. Len(f)
      BY <1>1, <1>2, <2>2
    <3> QED
      BY <1>1, <1>3, <1>6, <2>1, <3>1
  <2>3. CASE i > Len(f)
    <3>1. PICK p \in Int : p = i + k - 1
      BY <1>1
    <3>2. p \in Len(s) + 1 .. Len(s) + Len(u) /\ i \in Len(f) + 1 .. Len(f) + Len(u)
      BY <1>1, <1>2, <1>5, <2>3, <3>1
    <3>3. v[p] = u[p - Len(s)]
      BY <1>3, <3>2
    <3>4. a[i] = u[i - Len(f)]
      BY <1>6, <3>2
    <3>5. p - Len(s) = i - Len(f) /\ b[i] = v[p]
      BY <1>1, <1>2, <2>1, <3>1
    <3> QED
      BY <3>3, <3>4, <3>5
  <2> QED
    BY <2>2, <2>3, <1>1, <1>2
<1>9. Len(a) = Len(b)
  BY <1>1, <1>2, <1>5, <1>7
<1>10. a = b
  BY <1>5, <1>7, <1>8, <1>9, SeqEqual
<1> QED
  BY <1>10 DEF a, b, f, v

LEMMA CutJoins ==
  ASSUME NEW s \in Seq(Token), NEW k \in 0 .. Len(s)
  PROVE  /\ SubSeq(s, 1, k) \in Seq(Token) /\ Len(SubSeq(s, 1, k)) = k
         /\ \A i \in 1 .. k : SubSeq(s, 1, k)[i] = s[i]
         /\ SubSeq(s, 1, k) \o Reader!From(s, k + 1) = s
<1>1. SubSeq(s, 1, k) \in Seq(Token) /\ Len(SubSeq(s, 1, k)) = k
  OBVIOUS
<1>2. SubSeq(s, 1, k) \o SubSeq(s, k + 1, Len(s)) = SubSeq(s, 1, Len(s))
  <2>1. /\ 1 \in 1 .. Len(s) + 1 /\ k \in 1 - 1 .. Len(s) /\ Len(s) \in k .. Len(s)
        /\ s \in Seq(Token)
    OBVIOUS
  <2> QED
    BY <2>1, ConcatAdjacentSubSeq, Zenon
<1>3. \A i \in 1 .. k : SubSeq(s, 1, k)[i] = s[i]
  BY SubSeqProperties
<1> QED
  BY <1>1, <1>2, <1>3, SubSeqFull DEF Reader!From

--------------------------------------------------------------------------------
(* A start is followed by its payload; the starts carry the numbers from lo to    *)
(* hi, in their order.                                                            *)
Paired(s) ==
  \A i \in 1 .. Len(s) :
    /\ s[i].t = "$" => i < Len(s) /\ s[i + 1].t = "pay"
    /\ s[i].t = "pay" => i > 1 /\ s[i - 1].t = "$"
Numbered(s, lo, hi) ==
  /\ \A i \in 1 .. Len(s) : s[i].t = "$" => s[i].n \in lo .. hi
  /\ \A k \in lo .. hi : \E i \in 1 .. Len(s) : s[i].t = "$" /\ s[i].n = k
  /\ \A i, j \in 1 .. Len(s) : i < j /\ s[i].t = "$" /\ s[j].t = "$" => s[i].n < s[j].n

(* What is to come of an answer: none of it; the b + 1st token is the first of    *)
(* its body; its head, unless h is it already, in front of the blank line and the *)
(* body behind that; the body alone.  All of it, if the server has not gone.      *)
NoText(s) == \A i \in 1 .. Len(s) : ~Text(s[i])
BodyFrom(s, b, n) ==
  \A j \in 1 .. Len(s) : j > b => IF j <= b + Body THEN s[j] = Reader!Tok("body", n)
                                                  ELSE ~Text(s[j])
HeadAhead(s, h, n, c) ==
  /\ \A j \in 1 .. Len(s) : s[j].t = "head" =>
       /\ s[j] = Reader!Tok("head", n) /\ h = <<>>
       /\ \A i \in 1 .. j - 1 : ~Text(s[i])
  /\ \A j \in 1 .. Len(s) : s[j].t = "end" =>
       /\ h = <<>> => \E i \in 1 .. j - 1 : s[i].t = "head"
       /\ \A i \in 1 .. j - 1 : Text(s[i]) => s[i].t = "head"
       /\ BodyFrom(s, j, n)
       /\ ~c => j + Body <= Len(s)
  /\ \A j \in 1 .. Len(s) : s[j].t = "body" => \E i \in 1 .. j - 1 : s[i].t = "end"
BodyAhead(s, n, c) == BodyFrom(s, 0, n) /\ (~c => Body <= Len(s))

(* The first d tokens are taken off.                                              *)
Same(s, v, d) == v \in Seq(Token) /\ Len(v) = Len(s) - d /\ \A i \in 1 .. Len(v) : v[i] = s[i + d]

LEMMA PairedFrom ==
  ASSUME NEW s \in Seq(Token), NEW d \in 0 .. Len(s), Paired(s), d > 0 => s[d].t # "$",
         NEW v, Same(s, v, d)
  PROVE  Paired(v)
<1>1. Len(s) \in Nat /\ Len(v) \in Nat /\ Len(v) = Len(s) - d
  BY DEF Same
<1> SUFFICES ASSUME NEW i \in 1 .. Len(v)
             PROVE  /\ v[i].t = "$" => i < Len(v) /\ v[i + 1].t = "pay"
                    /\ v[i].t = "pay" => i > 1 /\ v[i - 1].t = "$"
  BY DEF Paired
<1>2. PICK p \in 1 .. Len(s) : p = i + d
  BY <1>1
<1>3. v[i] = s[p]
  BY <1>2 DEF Same
<1>4. ASSUME v[i].t = "$" PROVE i < Len(v) /\ v[i + 1].t = "pay"
  <2>1. p < Len(s) /\ s[p + 1].t = "pay"
    BY <1>3, <1>4 DEF Paired
  <2>0. p < Len(s)
    BY <2>1
  <2>2. i + 1 \in 1 .. Len(v) /\ p + 1 = (i + 1) + d
    BY <1>1, <1>2, <2>0
  <2>3. v[i + 1] = s[p + 1]
    BY <2>2 DEF Same
  <2> QED
    BY <1>1, <2>1, <2>2, <2>3
<1>5. ASSUME v[i].t = "pay" PROVE i > 1 /\ v[i - 1].t = "$"
  <2>1. p > 1 /\ s[p - 1].t = "$"
    BY <1>3, <1>5 DEF Paired
  <2>2. i > 1
    <3> SUFFICES ASSUME i = 1 PROVE FALSE
      OBVIOUS
    <3>1. p - 1 = d
      BY <1>2
    <3> QED
      BY <2>1, <3>1, <1>2
  <2>3. i - 1 \in 1 .. Len(v) /\ p - 1 = (i - 1) + d
    BY <1>1, <1>2, <2>2
  <2>4. v[i - 1] = s[p - 1]
    BY <2>3 DEF Same
  <2> QED
    BY <2>1, <2>2, <2>4
<1> QED
  BY <1>4, <1>5

LEMMA NumberedFrom ==
  ASSUME NEW s \in Seq(Token), NEW d \in 0 .. Len(s), NEW lo \in Nat, NEW hi \in Nat,
         Numbered(s, lo, hi), \A i \in 1 .. d : s[i].t # "$",
         NEW v, Same(s, v, d)
  PROVE  Numbered(v, lo, hi)
<1>1. Len(s) \in Nat /\ Len(v) \in Nat /\ Len(v) = Len(s) - d
  BY DEF Same
<1>2. ASSUME NEW i \in 1 .. Len(v)
      PROVE  i + d \in 1 .. Len(s) /\ v[i] = s[i + d]
  BY <1>1 DEF Same
<1>3. ASSUME NEW k \in lo .. hi
      PROVE  \E i \in 1 .. Len(v) : v[i].t = "$" /\ v[i].n = k
  <2>1. PICK j \in 1 .. Len(s) : s[j].t = "$" /\ s[j].n = k
    BY DEF Numbered
  <2>2. PICK i \in 1 .. Len(v) : j = i + d
    <3>1. j > d
      BY <2>1
    <3>2. j - d \in 1 .. Len(v) /\ j = (j - d) + d
      BY <3>1, <1>1
    <3> QED
      BY <3>2
  <2> QED
    BY <2>1, <2>2, <1>2
<1>4. ASSUME NEW i \in 1 .. Len(v), v[i].t = "$"
      PROVE  v[i].n \in lo .. hi
  BY <1>2, <1>4 DEF Numbered
<1>5. ASSUME NEW i \in 1 .. Len(v), NEW j \in 1 .. Len(v), i < j, v[i].t = "$", v[j].t = "$"
      PROVE  v[i].n < v[j].n
  <2>1. PICK p \in 1 .. Len(s), q \in 1 .. Len(s) : p = i + d /\ q = j + d
    BY <1>2
  <2>2. p < q
    BY <1>5, <2>1
  <2>3. v[i] = s[p] /\ v[j] = s[q]
    BY <1>2, <2>1
  <2>4. s[p].n < s[q].n
    BY <1>5, <2>2, <2>3 DEF Numbered
  <2> QED
    BY <2>3, <2>4
<1> QED
  BY <1>3, <1>4, <1>5 DEF Numbered

LEMMA FirstNumber ==
  ASSUME NEW s \in Seq(Token), NEW lo \in Nat, NEW hi \in Nat, Numbered(s, lo, hi),
         Paired(s), Len(s) > 0, s[1].t = "$", NEW v, Same(s, v, 2)
  PROVE  s[1].n = lo /\ Numbered(v, lo + 1, hi) /\ Paired(v) /\ Len(s) > 1
<1>1. Len(s) > 1 /\ s[2].t = "pay"
  <2>1. 1 \in 1 .. Len(s)
    OBVIOUS
  <2> QED
    BY <2>1 DEF Paired
<1>2. Len(s) \in Nat /\ Len(v) \in Nat /\ Len(v) = Len(s) - 2
  BY DEF Same
<1>3. s[1].n \in lo .. hi
  BY DEF Numbered
<1>4. s[1].n = lo
  <2>1. lo \in lo .. hi
    BY <1>3
  <2>2. PICK i \in 1 .. Len(s) : s[i].t = "$" /\ s[i].n = lo
    BY <2>1 DEF Numbered
  <2>3. ~(1 < i)
    <3> SUFFICES ASSUME 1 < i PROVE FALSE
      OBVIOUS
    <3>1. s[1].n < s[i].n
      BY <2>2 DEF Numbered
    <3> QED
      BY <3>1, <2>2, <1>3
  <2> QED
    BY <2>2, <2>3
<1>5. ASSUME NEW i \in 1 .. Len(v)
      PROVE  i + 2 \in 1 .. Len(s) /\ v[i] = s[i + 2]
  BY <1>2 DEF Same
<1>6. ASSUME NEW k \in lo + 1 .. hi
      PROVE  \E i \in 1 .. Len(v) : v[i].t = "$" /\ v[i].n = k
  <2>1. PICK j \in 1 .. Len(s) : s[j].t = "$" /\ s[j].n = k
    BY DEF Numbered
  <2>2. j # 1 /\ j # 2
    BY <1>1, <1>4, <2>1
  <2>3. j - 2 \in 1 .. Len(v) /\ j = (j - 2) + 2
    BY <1>2, <2>2
  <2> QED
    BY <1>5, <2>1, <2>3
<1>7. ASSUME NEW i \in 1 .. Len(v), v[i].t = "$"
      PROVE  v[i].n \in lo + 1 .. hi
  <2>0. PICK p \in 1 .. Len(s) : p = i + 2
    BY <1>5
  <2>1. s[p].t = "$" /\ v[i].n = s[p].n /\ 1 < p
    BY <1>5, <1>7, <2>0
  <2>2. s[p].n \in lo .. hi /\ s[1].n < s[p].n
    BY <2>1 DEF Numbered
  <2> QED
    BY <1>4, <2>1, <2>2
<1>8. ASSUME NEW i \in 1 .. Len(v), NEW j \in 1 .. Len(v), i < j, v[i].t = "$", v[j].t = "$"
      PROVE  v[i].n < v[j].n
  <2>1. PICK p \in 1 .. Len(s), q \in 1 .. Len(s) : p = i + 2 /\ q = j + 2
    BY <1>5
  <2>2. p < q
    BY <1>8, <2>1
  <2>3. v[i] = s[p] /\ v[j] = s[q]
    BY <1>5, <2>1
  <2>4. s[p].n < s[q].n
    BY <1>8, <2>2, <2>3 DEF Numbered
  <2> QED
    BY <2>3, <2>4
<1>9. Numbered(v, lo + 1, hi)
  BY <1>6, <1>7, <1>8 DEF Numbered
<1>10. Paired(v)
  <2>1. 2 \in 0 .. Len(s) /\ s[2].t # "$"
    BY <1>1
  <2> QED
    BY <2>1, PairedFrom
<1> QED
  BY <1>1, <1>4, <1>9, <1>10

LEMMA HeadFrom ==
  ASSUME NEW s \in Seq(Token), NEW d \in 0 .. Len(s), NEW h, NEW g, NEW n, NEW c \in BOOLEAN,
         HeadAhead(s, h, n, c), NEW v, Same(s, v, d),
         \/ g = h /\ \A i \in 1 .. d : ~Text(s[i])
         \/ d = 1 /\ s[1].t = "head" /\ g = <<Reader!Tok("head", n)>>
  PROVE  HeadAhead(v, g, n, c)
<1>1. Len(s) \in Nat /\ Len(v) \in Nat /\ Len(v) = Len(s) - d /\ d \in Nat
  BY DEF Same
<1>2. ASSUME NEW i \in 1 .. Len(v)
      PROVE  \E p \in 1 .. Len(s) : p = i + d /\ v[i] = s[p]
  BY <1>1 DEF Same
<1>3. ASSUME NEW p \in 1 .. Len(s), p > d
      PROVE  \E i \in 1 .. Len(v) : p = i + d /\ v[i] = s[p]
  <2>1. p - d \in 1 .. Len(v) /\ p = (p - d) + d
    BY <1>1, <1>3
  <2> QED
    BY <2>1 DEF Same
<1>4. ASSUME NEW p \in 1 .. d, s[p].t = "end" \/ (s[p].t = "head" /\ g = <<>>)
      PROVE  FALSE
  <2>1. Text(s[p])
    BY <1>4 DEF Text
  <2>2. d = 1 /\ s[1].t = "head" /\ g = <<Reader!Tok("head", n)>>
    BY <2>1
  <2>3. p = 1 /\ g # <<>>
    BY <2>2
  <2> QED
    BY <1>4, <2>2, <2>3
<1>5. ASSUME NEW j \in 1 .. Len(v), v[j].t = "head"
      PROVE  /\ v[j] = Reader!Tok("head", n) /\ g = <<>>
             /\ \A i \in 1 .. j - 1 : ~Text(v[i])
  <2>1. PICK q \in 1 .. Len(s) : q = j + d /\ v[j] = s[q]
    BY <1>2
  <2>2. /\ s[q] = Reader!Tok("head", n) /\ h = <<>>
        /\ \A i \in 1 .. q - 1 : ~Text(s[i])
    BY <1>5, <2>1 DEF HeadAhead
  <2>3. g = h
    <3> SUFFICES ASSUME d = 1, s[1].t = "head" PROVE FALSE
      OBVIOUS
    <3>1. 1 \in 1 .. q - 1
      BY <2>1
    <3> QED
      BY <2>2, <3>1 DEF Text
  <2>4. ASSUME NEW i \in 1 .. j - 1 PROVE ~Text(v[i])
    <3>1. i \in 1 .. Len(v)
      BY <1>1
    <3>2. PICK p \in 1 .. Len(s) : p = i + d /\ v[i] = s[p]
      BY <3>1, <1>2
    <3>3. p \in 1 .. q - 1
      BY <2>1, <3>2, <1>1
    <3> QED
      BY <2>2, <3>2, <3>3
  <2> QED
    BY <2>1, <2>2, <2>3, <2>4
<1>6. ASSUME NEW j \in 1 .. Len(v), v[j].t = "end"
      PROVE  /\ g = <<>> => \E i \in 1 .. j - 1 : v[i].t = "head"
             /\ \A i \in 1 .. j - 1 : Text(v[i]) => v[i].t = "head"
             /\ BodyFrom(v, j, n)
             /\ ~c => j + Body <= Len(v)
  <2>1. PICK q \in 1 .. Len(s) : q = j + d /\ v[j] = s[q]
    BY <1>2
  <2>2. /\ h = <<>> => \E i \in 1 .. q - 1 : s[i].t = "head"
        /\ \A i \in 1 .. q - 1 : Text(s[i]) => s[i].t = "head"
        /\ BodyFrom(s, q, n)
        /\ ~c => q + Body <= Len(s)
    BY <1>6, <2>1 DEF HeadAhead
  <2>3. ASSUME g = <<>> PROVE \E i \in 1 .. j - 1 : v[i].t = "head"
    <3>1. h = <<>>
      BY <2>3
    <3>2. PICK p \in 1 .. q - 1 : s[p].t = "head"
      BY <2>2, <3>1
    <3>3. p \in 1 .. Len(s) /\ p > d
      <4>1. p \notin 1 .. d
        BY <1>4, <2>3, <3>2
      <4> QED
        BY <4>1, <1>1
    <3>4. PICK i \in 1 .. Len(v) : p = i + d /\ v[i] = s[p]
      BY <1>3, <3>3
    <3>5. i \in 1 .. j - 1
      BY <3>4, <2>1, <1>1
    <3> QED
      BY <3>2, <3>4, <3>5
  <2>4. ASSUME NEW i \in 1 .. j - 1, Text(v[i]) PROVE v[i].t = "head"
    <3>1. i \in 1 .. Len(v)
      BY <1>1
    <3>2. PICK p \in 1 .. Len(s) : p = i + d /\ v[i] = s[p]
      BY <3>1, <1>2
    <3>3. p \in 1 .. q - 1
      BY <2>1, <3>2, <1>1
    <3> QED
      BY <2>2, <2>4, <3>2, <3>3
  <2>5. BodyFrom(v, j, n)
    <3> SUFFICES ASSUME NEW i \in 1 .. Len(v), i > j
                 PROVE  IF i <= j + Body THEN v[i] = Reader!Tok("body", n) ELSE ~Text(v[i])
      BY DEF BodyFrom
    <3>1. PICK p \in 1 .. Len(s) : p = i + d /\ v[i] = s[p]
      BY <1>2
    <3>2. p > q /\ (p <= q + Body <=> i <= j + Body)
      BY <3>1, <2>1, BodyUnits
    <3>3. IF p <= q + Body THEN s[p] = Reader!Tok("body", n) ELSE ~Text(s[p])
      BY <3>2, <2>2 DEF BodyFrom
    <3> QED
      BY <3>1, <3>2, <3>3
  <2>6. ASSUME ~c PROVE j + Body <= Len(v)
    BY <2>6, <2>1, <2>2, <1>1, BodyUnits
  <2> QED
    BY <2>3, <2>4, <2>5, <2>6
<1>7. ASSUME NEW j \in 1 .. Len(v), v[j].t = "body"
      PROVE  \E i \in 1 .. j - 1 : v[i].t = "end"
  <2>1. PICK q \in 1 .. Len(s) : q = j + d /\ v[j] = s[q]
    BY <1>2
  <2>2. PICK p \in 1 .. q - 1 : s[p].t = "end"
    BY <1>7, <2>1 DEF HeadAhead
  <2>3. p \in 1 .. Len(s) /\ p > d
    <3>1. p \notin 1 .. d
      BY <1>4, <2>2
    <3> QED
      BY <3>1, <1>1
  <2>4. PICK i \in 1 .. Len(v) : p = i + d /\ v[i] = s[p]
    BY <1>3, <2>3
  <2>5. i \in 1 .. j - 1
    BY <2>4, <2>1, <1>1
  <2> QED
    BY <2>2, <2>4, <2>5
<1> QED
  BY <1>5, <1>6, <1>7 DEF HeadAhead

LEMMA BodyBegins ==
  ASSUME NEW s \in Seq(Token), NEW d \in 1 .. Len(s), NEW h, NEW n, NEW c \in BOOLEAN,
         HeadAhead(s, h, n, c), s[d].t = "end", NEW v, Same(s, v, d)
  PROVE  BodyAhead(v, n, c)
<1>1. Len(s) \in Nat /\ Len(v) \in Nat /\ Len(v) = Len(s) - d
  BY DEF Same
<1>2. BodyFrom(s, d, n) /\ (~c => d + Body <= Len(s))
  BY DEF HeadAhead
<1>3. ASSUME NEW i \in 1 .. Len(v), i > 0
      PROVE  IF i <= 0 + Body THEN v[i] = Reader!Tok("body", n) ELSE ~Text(v[i])
  <2>1. PICK p \in 1 .. Len(s) : p = i + d /\ v[i] = s[p]
    BY <1>1 DEF Same
  <2>2. p > d /\ (p <= d + Body <=> i <= 0 + Body)
    BY <2>1, BodyUnits
  <2>3. IF p <= d + Body THEN s[p] = Reader!Tok("body", n) ELSE ~Text(s[p])
    BY <1>2, <2>2 DEF BodyFrom
  <2> QED
    BY <2>1, <2>2, <2>3
<1>4. ~c => Body <= Len(v)
  BY <1>1, <1>2, BodyUnits
<1> QED
  BY <1>3, <1>4 DEF BodyAhead, BodyFrom

LEMMA BodyTaken ==
  ASSUME NEW s \in Seq(Token), NEW n, NEW c \in BOOLEAN, BodyAhead(s, n, c), Body <= Len(s),
         NEW v, Same(s, v, Body)
  PROVE  /\ NoText(v) /\ \A i \in 1 .. Body : s[i] = Reader!Tok("body", n)
         /\ Body > 0 => s[Body].t = "body"
<1>1. Len(s) \in Nat /\ Len(v) \in Nat /\ Len(v) = Len(s) - Body
  BY DEF Same
<1>2. BodyFrom(s, 0, n)
  BY DEF BodyAhead
<1>3. ASSUME NEW i \in 1 .. Len(v) PROVE ~Text(v[i])
  <2>1. PICK p \in 1 .. Len(s) : p = i + Body /\ v[i] = s[p]
    BY <1>1, BodyUnits DEF Same
  <2>2. p > 0 /\ ~(p <= 0 + Body)
    BY <2>1, BodyUnits
  <2> QED
    BY <1>2, <2>1, <2>2 DEF BodyFrom
<1>4. ASSUME NEW i \in 1 .. Body PROVE s[i] = Reader!Tok("body", n)
  <2>1. i \in 1 .. Len(s) /\ i > 0 /\ i <= 0 + Body
    BY <1>1, BodyUnits
  <2> QED
    BY <1>2, <2>1 DEF BodyFrom
<1>5. ASSUME Body > 0 PROVE s[Body].t = "body"
  <2>1. s[Body] = Reader!Tok("body", n)
    BY <1>4, <1>5, BodyUnits
  <2> QED
    BY <2>1 DEF Reader!Tok
<1> QED
  BY <1>3, <1>4, <1>5 DEF NoText

--------------------------------------------------------------------------------
(* A frame goes in behind the first L tokens.                                     *)
Into(s, v, L, k) ==
  /\ v \in Seq(Token) /\ Len(v) = Len(s) + 2 /\ L \in 0 .. Len(s)
  /\ \A i \in 1 .. L : v[i] = s[i]
  /\ v[L + 1] = Reader!Tok("$", k) /\ v[L + 2] = Reader!Tok("pay", k)
  /\ \A i \in L + 1 .. Len(s) : v[i + 2] = s[i]
  /\ \A i \in L + 1 .. Len(s) : Text(s[i])

(* Where a token of the new sequence comes from, and where one of the old goes.   *)
LEMMA IntoFrom ==
  ASSUME NEW s \in Seq(Token), NEW v, NEW L, NEW k, Into(s, v, L, k),
         NEW i \in 1 .. Len(v)
  PROVE  \/ i = L + 1 /\ v[i] = Reader!Tok("$", k)
         \/ i = L + 2 /\ v[i] = Reader!Tok("pay", k)
         \/ i <= L /\ i \in 1 .. Len(s) /\ v[i] = s[i]
         \/ \E p \in L + 1 .. Len(s) : p \in 1 .. Len(s) /\ i = p + 2 /\ v[i] = s[p] /\ Text(s[p])
<1>1. Len(s) \in Nat /\ Len(v) = Len(s) + 2 /\ L \in 0 .. Len(s)
  BY DEF Into
<1>2. CASE i <= L
  <2>1. i \in 1 .. L /\ i \in 1 .. Len(s)
    BY <1>1, <1>2
  <2> QED
    BY <1>2, <2>1 DEF Into
<1>3. CASE i > L + 2
  <2>1. PICK p \in L + 1 .. Len(s) : i = p + 2
    <3>1. i - 2 \in L + 1 .. Len(s) /\ i = (i - 2) + 2
      BY <1>1, <1>3
    <3> QED
      BY <3>1
  <2>2. v[i] = s[p] /\ Text(s[p])
    BY <2>1 DEF Into
  <2>3. p \in 1 .. Len(s)
    BY <1>1
  <2> QED
    BY <2>1, <2>2, <2>3
<1>4. CASE i = L + 1
  BY <1>4 DEF Into
<1>5. CASE i = L + 2
  BY <1>5 DEF Into
<1> QED
  BY <1>1, <1>2, <1>3, <1>4, <1>5

LEMMA IntoTo ==
  ASSUME NEW s \in Seq(Token), NEW v, NEW L, NEW k, Into(s, v, L, k),
         NEW p \in 1 .. Len(s)
  PROVE  \/ p <= L /\ p \in 1 .. Len(v) /\ v[p] = s[p]
         \/ p > L /\ p + 2 \in 1 .. Len(v) /\ v[p + 2] = s[p] /\ Text(s[p])
<1>1. Len(s) \in Nat /\ Len(v) = Len(s) + 2 /\ L \in 0 .. Len(s)
  BY DEF Into
<1>2. CASE p <= L
  <2>1. p \in 1 .. L /\ p \in 1 .. Len(v)
    BY <1>1, <1>2
  <2> QED
    BY <1>2, <2>1 DEF Into
<1>3. CASE p > L
  <2>1. p \in L + 1 .. Len(s) /\ p + 2 \in 1 .. Len(v)
    BY <1>1, <1>3
  <2> QED
    BY <1>3, <2>1 DEF Into
<1> QED
  BY <1>1, <1>2, <1>3

LEMMA TokIs == ASSUME NEW t, NEW n PROVE Reader!Tok(t, n).t = t /\ Reader!Tok(t, n).n = n
  BY DEF Reader!Tok

LEMMA PairedInto ==
  ASSUME NEW s \in Seq(Token), NEW v, NEW L, NEW k, Into(s, v, L, k), Paired(s)
  PROVE  Paired(v)
<1>1. Len(s) \in Nat /\ Len(v) = Len(s) + 2 /\ L \in 0 .. Len(s)
  BY DEF Into
<1>2. ASSUME NEW i \in 1 .. Len(v), v[i].t = "$"
      PROVE  i < Len(v) /\ v[i + 1].t = "pay"
  <2>1. CASE i = L + 1
    <3>1. v[L + 2] = Reader!Tok("pay", k) /\ i + 1 = L + 2
      BY <2>1, <1>1 DEF Into
    <3> QED
      BY <1>1, <2>1, <3>1, TokIs
  <2>2. CASE i <= L /\ i \in 1 .. Len(s) /\ v[i] = s[i]
    <3>1. i < Len(s) /\ s[i + 1].t = "pay"
      BY <1>2, <2>2 DEF Paired
    <3>2. i + 1 <= L
      <4> SUFFICES ASSUME i + 1 > L PROVE FALSE
        BY <1>1
      <4>0. i < Len(s)
        BY <3>1
      <4>1. i + 1 \in L + 1 .. Len(s)
        BY <1>1, <2>2, <4>0
      <4>2. Text(s[i + 1])
        BY <4>1 DEF Into
      <4> QED
        BY <3>1, <4>2 DEF Text
    <3>3. i + 1 \in 1 .. L
      BY <3>2
    <3>4. v[i + 1] = s[i + 1]
      BY <3>3 DEF Into
    <3>5. i < Len(v)
      BY <3>2, <1>1
    <3> QED
      BY <3>1, <3>4, <3>5
  <2>3. ASSUME NEW p \in 1 .. Len(s), v[i] = s[p], Text(s[p]) PROVE FALSE
    BY <1>2, <2>3 DEF Text
  <2> QED
    BY <1>2, <2>1, <2>2, <2>3, IntoFrom, TokIs
<1>3. ASSUME NEW i \in 1 .. Len(v), v[i].t = "pay"
      PROVE  i > 1 /\ v[i - 1].t = "$"
  <2>1. CASE i = L + 2
    <3>1. v[L + 1] = Reader!Tok("$", k) /\ i - 1 = L + 1
      BY <2>1, <1>1 DEF Into
    <3> QED
      BY <1>1, <2>1, <3>1, TokIs
  <2>2. CASE i <= L /\ i \in 1 .. Len(s) /\ v[i] = s[i]
    <3>1. i > 1 /\ s[i - 1].t = "$"
      BY <1>3, <2>2 DEF Paired
    <3>2. i - 1 \in 1 .. L
      BY <3>1, <2>2, <1>1
    <3>3. v[i - 1] = s[i - 1]
      BY <3>2 DEF Into
    <3> QED
      BY <3>1, <3>3
  <2>3. ASSUME NEW p \in 1 .. Len(s), v[i] = s[p], Text(s[p]) PROVE FALSE
    BY <1>3, <2>3 DEF Text
  <2> QED
    BY <1>3, <2>1, <2>2, <2>3, IntoFrom, TokIs
<1> QED
  BY <1>2, <1>3 DEF Paired

LEMMA NumberedInto ==
  ASSUME NEW s \in Seq(Token), NEW v, NEW L, NEW lo \in Nat, NEW hi \in Nat, lo <= hi + 1,
         Into(s, v, L, hi + 1), Numbered(s, lo, hi)
  PROVE  Numbered(v, lo, hi + 1)
<1>1. Len(s) \in Nat /\ Len(v) = Len(s) + 2 /\ L \in 0 .. Len(s)
  BY DEF Into
<1>2. ASSUME NEW i \in 1 .. Len(v), v[i].t = "$"
      PROVE  \/ i = L + 1 /\ v[i].n = hi + 1
             \/ i <= L /\ i \in 1 .. Len(s) /\ v[i] = s[i]
  <2>1. ASSUME NEW p \in 1 .. Len(s), v[i] = s[p], Text(s[p]) PROVE FALSE
    BY <1>2, <2>1 DEF Text
  <2> QED
    BY <1>2, <2>1, IntoFrom, TokIs
<1>3. ASSUME NEW i \in 1 .. Len(v), v[i].t = "$"
      PROVE  v[i].n \in lo .. hi + 1
  <2>1. CASE i <= L /\ i \in 1 .. Len(s) /\ v[i] = s[i]
    <3>1. s[i].n \in lo .. hi
      BY <1>3, <2>1 DEF Numbered
    <3> QED
      BY <2>1, <3>1
  <2> QED
    BY <1>2, <1>3, <2>1
<1>4. ASSUME NEW m \in lo .. hi + 1
      PROVE  \E i \in 1 .. Len(v) : v[i].t = "$" /\ v[i].n = m
  <2>1. CASE m = hi + 1
    <3>1. v[L + 1].t = "$" /\ v[L + 1].n = m /\ L + 1 \in 1 .. Len(v)
      BY <1>1, <2>1, TokIs DEF Into
    <3> QED
      BY <3>1
  <2>2. CASE m # hi + 1
    <3>1. PICK p \in 1 .. Len(s) : s[p].t = "$" /\ s[p].n = m
      BY <2>2 DEF Numbered
    <3> QED
      BY <3>1, IntoTo
  <2> QED
    BY <2>1, <2>2
<1>5. ASSUME NEW i \in 1 .. Len(v), NEW j \in 1 .. Len(v), i < j, v[i].t = "$", v[j].t = "$"
      PROVE  v[i].n < v[j].n
  <2>1. i <= L /\ i \in 1 .. Len(s) /\ v[i] = s[i]
    BY <1>1, <1>2, <1>5
  <2>2. CASE j = L + 1 /\ v[j].n = hi + 1
    <3>1. s[i].n \in lo .. hi
      BY <1>5, <2>1 DEF Numbered
    <3> QED
      BY <2>1, <2>2, <3>1
  <2>3. CASE j <= L /\ j \in 1 .. Len(s) /\ v[j] = s[j]
    <3>1. s[i].n < s[j].n
      BY <1>5, <2>1, <2>3 DEF Numbered
    <3> QED
      BY <2>1, <2>3, <3>1
  <2> QED
    BY <1>2, <1>5, <2>2, <2>3
<1> QED
  BY <1>3, <1>4, <1>5 DEF Numbered

LEMMA HeadInto ==
  ASSUME NEW s \in Seq(Token), NEW v, NEW L, NEW k, Into(s, v, L, k), NEW h, NEW n,
         HeadAhead(s, h, n, FALSE), L < Len(s) => s[L + 1].t # "body"
  PROVE  HeadAhead(v, h, n, FALSE)
<1>1. Len(s) \in Nat /\ Len(v) \in Nat /\ Len(v) = Len(s) + 2 /\ L \in 0 .. Len(s)
  BY DEF Into
<1>2. ASSUME NEW i \in 1 .. Len(v), Text(v[i])
      PROVE  \E p \in 1 .. Len(s) : /\ v[i] = s[p]
                                    /\ i = IF p <= L THEN p ELSE p + 2
  <2>1. CASE i <= L /\ i \in 1 .. Len(s) /\ v[i] = s[i]
    BY <2>1
  <2>2. ASSUME NEW p \in L + 1 .. Len(s), p \in 1 .. Len(s), i = p + 2, v[i] = s[p]
        PROVE  p \in 1 .. Len(s) /\ v[i] = s[p] /\ (i = IF p <= L THEN p ELSE p + 2)
    BY <2>2, <1>1
  <2>3. v[i].t # "$" /\ v[i].t # "pay"
    BY <1>2 DEF Text
  <2> QED
    BY <2>1, <2>2, <2>3, IntoFrom, TokIs
<1>3. ASSUME NEW p \in 1 .. Len(s)
      PROVE  \E i \in 1 .. Len(v) : v[i] = s[p] /\ i = IF p <= L THEN p ELSE p + 2
  <2>1. CASE p <= L /\ p \in 1 .. Len(v) /\ v[p] = s[p]
    BY <2>1
  <2>2. CASE p > L /\ p + 2 \in 1 .. Len(v) /\ v[p + 2] = s[p]
    BY <2>2, <1>1
  <2> QED
    BY <2>1, <2>2, IntoTo
<1>t. ASSUME NEW x, x.t \in {"head", "end", "body"} PROVE Text(x)
  BY <1>t DEF Text
<1>5. ASSUME NEW j \in 1 .. Len(v), v[j].t = "head"
      PROVE  /\ v[j] = Reader!Tok("head", n) /\ h = <<>>
             /\ \A i \in 1 .. j - 1 : ~Text(v[i])
  <2>1. PICK q \in 1 .. Len(s) : v[j] = s[q] /\ j = IF q <= L THEN q ELSE q + 2
    BY <1>2, <1>5, <1>t
  <2>2. /\ s[q] = Reader!Tok("head", n) /\ h = <<>>
        /\ \A i \in 1 .. q - 1 : ~Text(s[i])
    BY <1>5, <2>1 DEF HeadAhead
  <2>4. ASSUME NEW i \in 1 .. j - 1, Text(v[i]) PROVE FALSE
    <3>1. i \in 1 .. Len(v)
      BY <1>1
    <3>2. PICK p \in 1 .. Len(s) : v[i] = s[p] /\ i = IF p <= L THEN p ELSE p + 2
      BY <3>1, <1>2, <2>4
    <3>3. p \in 1 .. q - 1
      BY <2>1, <3>2, <1>1
    <3> QED
      BY <2>2, <2>4, <3>2, <3>3
  <2> QED
    BY <2>1, <2>2, <2>4
<1>6. ASSUME NEW j \in 1 .. Len(v), v[j].t = "end"
      PROVE  /\ h = <<>> => \E i \in 1 .. j - 1 : v[i].t = "head"
             /\ \A i \in 1 .. j - 1 : Text(v[i]) => v[i].t = "head"
             /\ BodyFrom(v, j, n)
             /\ j + Body <= Len(v)
  <2>1. PICK q \in 1 .. Len(s) : v[j] = s[q] /\ j = IF q <= L THEN q ELSE q + 2
    BY <1>2, <1>6, <1>t
  <2>2. /\ h = <<>> => \E i \in 1 .. q - 1 : s[i].t = "head"
        /\ \A i \in 1 .. q - 1 : Text(s[i]) => s[i].t = "head"
        /\ BodyFrom(s, q, n)
        /\ q + Body <= Len(s)
    BY <1>6, <2>1 DEF HeadAhead
  <2>3. ASSUME h = <<>> PROVE \E i \in 1 .. j - 1 : v[i].t = "head"
    <3>2. PICK p \in 1 .. q - 1 : s[p].t = "head"
      BY <2>2, <2>3
    <3>3. p \in 1 .. Len(s)
      BY <1>1
    <3>4. PICK i \in 1 .. Len(v) : v[i] = s[p] /\ i = IF p <= L THEN p ELSE p + 2
      BY <1>3, <3>3
    <3>5. i \in 1 .. j - 1
      BY <3>4, <2>1, <1>1
    <3> QED
      BY <3>2, <3>4, <3>5
  <2>4. ASSUME NEW i \in 1 .. j - 1, Text(v[i]) PROVE v[i].t = "head"
    <3>1. i \in 1 .. Len(v)
      BY <1>1
    <3>2. PICK p \in 1 .. Len(s) : v[i] = s[p] /\ i = IF p <= L THEN p ELSE p + 2
      BY <3>1, <1>2, <2>4
    <3>3. p \in 1 .. q - 1
      BY <2>1, <3>2, <1>1
    <3> QED
      BY <2>2, <2>4, <3>2, <3>3
  <2>5. q <= L => q + Body <= L
    <3> SUFFICES ASSUME q <= L, q + Body > L PROVE FALSE
      BY <1>1, BodyUnits
    <3>1. L < Len(s) /\ L + 1 \in 1 .. Len(s) /\ L + 1 > q /\ L + 1 <= q + Body
      BY <2>2, <1>1, BodyUnits
    <3>2. s[L + 1] = Reader!Tok("body", n)
      BY <3>1, <2>2 DEF BodyFrom
    <3> QED
      BY <3>1, <3>2, TokIs
  <2>6. BodyFrom(v, j, n)
    <3> SUFFICES ASSUME NEW i \in 1 .. Len(v), i > j
                 PROVE  IF i <= j + Body THEN v[i] = Reader!Tok("body", n) ELSE ~Text(v[i])
      BY DEF BodyFrom
    <3>1. CASE i = L + 1 \/ i = L + 2
      <4>1. ~(i <= j + Body)
        BY <3>1, <2>1, <2>5, <1>1, BodyUnits
      <4>2. v[i] = Reader!Tok("$", k) \/ v[i] = Reader!Tok("pay", k)
        BY <3>1 DEF Into
      <4>3. v[i].t \in {"$", "pay"}
        BY <4>2, TokIs
      <4> QED
        BY <4>1, <4>3 DEF Text
    <3>2. ASSUME NEW p \in 1 .. Len(s), v[i] = s[p], i = IF p <= L THEN p ELSE p + 2
          PROVE  IF i <= j + Body THEN v[i] = Reader!Tok("body", n) ELSE ~Text(v[i])
      <4>1. p > q /\ (p <= q + Body <=> i <= j + Body)
        BY <3>2, <2>1, <2>5, <1>1, BodyUnits
      <4>2. IF p <= q + Body THEN s[p] = Reader!Tok("body", n) ELSE ~Text(s[p])
        BY <4>1, <2>2 DEF BodyFrom
      <4> QED
        BY <3>2, <4>1, <4>2
    <3>3. CASE ~(i = L + 1 \/ i = L + 2)
      <4>1. CASE i <= L /\ i \in 1 .. Len(s) /\ v[i] = s[i]
        BY <4>1, <3>2
      <4>2. ASSUME NEW p \in L + 1 .. Len(s), p \in 1 .. Len(s), i = p + 2, v[i] = s[p]
            PROVE  IF i <= j + Body THEN v[i] = Reader!Tok("body", n) ELSE ~Text(v[i])
        <5>1. i = IF p <= L THEN p ELSE p + 2
          BY <4>2, <1>1
        <5> QED
          BY <4>2, <5>1, <3>2
      <4> QED
        BY <3>3, <4>1, <4>2, IntoFrom
    <3> QED
      BY <3>1, <3>3
  <2>7. j + Body <= Len(v)
    BY <2>1, <2>2, <1>1, BodyUnits
  <2> QED
    BY <2>3, <2>4, <2>6, <2>7
<1>7. ASSUME NEW j \in 1 .. Len(v), v[j].t = "body"
      PROVE  \E i \in 1 .. j - 1 : v[i].t = "end"
  <2>1. PICK q \in 1 .. Len(s) : v[j] = s[q] /\ j = IF q <= L THEN q ELSE q + 2
    BY <1>2, <1>7, <1>t
  <2>2. PICK p \in 1 .. q - 1 : s[p].t = "end"
    BY <1>7, <2>1 DEF HeadAhead
  <2>3. p \in 1 .. Len(s)
    BY <1>1
  <2>4. PICK i \in 1 .. Len(v) : v[i] = s[p] /\ i = IF p <= L THEN p ELSE p + 2
    BY <1>3, <2>3
  <2>5. i \in 1 .. j - 1
    BY <2>4, <2>1, <1>1
  <2> QED
    BY <2>2, <2>4, <2>5
<1> QED
  BY <1>5, <1>6, <1>7 DEF HeadAhead

LEMMA BodyInto ==
  ASSUME NEW s \in Seq(Token), NEW v, NEW L, NEW k, Into(s, v, L, k), NEW n,
         BodyAhead(s, n, FALSE), L < Len(s) => s[L + 1].t # "body"
  PROVE  BodyAhead(v, n, FALSE)
<1>1. Len(s) \in Nat /\ Len(v) \in Nat /\ Len(v) = Len(s) + 2 /\ L \in 0 .. Len(s)
  BY DEF Into
<1>2. BodyFrom(s, 0, n) /\ Body <= Len(s)
  BY DEF BodyAhead
<1>3. Body <= L
  <2> SUFFICES ASSUME Body > L PROVE FALSE
    BY <1>1, BodyUnits
  <2>1. L < Len(s) /\ L + 1 \in 1 .. Len(s) /\ L + 1 > 0 /\ L + 1 <= 0 + Body
    BY <1>2, <1>1, BodyUnits
  <2>2. s[L + 1] = Reader!Tok("body", n)
    BY <2>1, <1>2 DEF BodyFrom
  <2> QED
    BY <2>1, <2>2, TokIs
<1>4. ASSUME NEW i \in 1 .. Len(v), i > 0
      PROVE  IF i <= 0 + Body THEN v[i] = Reader!Tok("body", n) ELSE ~Text(v[i])
  <2>1. CASE i <= L /\ i \in 1 .. Len(s) /\ v[i] = s[i]
    BY <1>2, <2>1 DEF BodyFrom
  <2>2. CASE i > L
    <3>1. ~(i <= 0 + Body)
      BY <1>1, <1>3, <2>2, BodyUnits
    <3>2. ASSUME NEW p \in L + 1 .. Len(s), p \in 1 .. Len(s), v[i] = s[p] PROVE ~Text(v[i])
      <4>1. p > 0 /\ ~(p <= 0 + Body)
        BY <1>1, <1>3, BodyUnits
      <4> QED
        BY <1>2, <3>2, <4>1 DEF BodyFrom
    <3>3. ASSUME v[i] = Reader!Tok("$", k) \/ v[i] = Reader!Tok("pay", k) PROVE ~Text(v[i])
      <4>1. v[i].t # "head" /\ v[i].t # "end" /\ v[i].t # "body"
        BY <3>3, TokIs
      <4> QED
        BY <4>1 DEF Text
    <3>5. ~(i <= L)
      BY <1>1, <2>2
    <3>6. \/ v[i] = Reader!Tok("$", k) \/ v[i] = Reader!Tok("pay", k)
          \/ \E p \in L + 1 .. Len(s) : p \in 1 .. Len(s) /\ v[i] = s[p]
      BY <3>5, IntoFrom
    <3>4. ~Text(v[i])
      BY <3>2, <3>3, <3>6
    <3> QED
      BY <3>1, <3>4
  <2> QED
    BY <1>1, <2>1, <2>2, IntoFrom
<1>5. Body <= Len(v)
  BY <1>1, <1>2, BodyUnits
<1> QED
  BY <1>4, <1>5 DEF BodyAhead, BodyFrom

LEMMA NoTextInto ==
  ASSUME NEW s \in Seq(Token), NEW v, NEW L, NEW k, Into(s, v, L, k), NoText(s)
  PROVE  NoText(v)
<1> SUFFICES ASSUME NEW i \in 1 .. Len(v) PROVE ~Text(v[i])
  BY DEF NoText
<1>1. CASE v[i] = Reader!Tok("$", k) \/ v[i] = Reader!Tok("pay", k)
  <2>1. v[i].t \in {"$", "pay"}
    BY <1>1, TokIs
  <2> QED
    BY <2>1 DEF Text
<1>2. ASSUME NEW p \in 1 .. Len(s), v[i] = s[p] PROVE ~Text(v[i])
  BY <1>2 DEF NoText
<1> QED
  BY <1>1, <1>2, IntoFrom

--------------------------------------------------------------------------------
(* The server goes, and what it had not sent of an answer with it.                *)
Cut(s, v) ==
  /\ v \in Seq(Token) /\ Len(v) \in 0 .. Len(s)
  /\ \A i \in 1 .. Len(v) : v[i] = s[i]
  /\ \A i \in Len(v) + 1 .. Len(s) : Text(s[i])

LEMMA CutKeeps ==
  ASSUME NEW s \in Seq(Token), NEW v, Cut(s, v), NEW lo \in Nat, NEW hi \in Nat
  PROVE  (Paired(s) => Paired(v)) /\ (Numbered(s, lo, hi) => Numbered(v, lo, hi))
<1>1. Len(s) \in Nat /\ Len(v) \in Nat /\ Len(v) <= Len(s)
  BY DEF Cut
<1>2. ASSUME NEW i \in 1 .. Len(v) PROVE i \in 1 .. Len(s) /\ v[i] = s[i]
  BY <1>1 DEF Cut
<1>3. ASSUME NEW i \in 1 .. Len(s), s[i].t = "$" \/ s[i].t = "pay" PROVE i \in 1 .. Len(v)
  <2>1. ~Text(s[i])
    BY <1>3 DEF Text
  <2>2. i \notin Len(v) + 1 .. Len(s)
    BY <2>1 DEF Cut
  <2> QED
    BY <1>1, <2>2
<1>4. ASSUME Paired(s) PROVE Paired(v)
  <2> SUFFICES ASSUME NEW i \in 1 .. Len(v)
               PROVE  /\ v[i].t = "$" => i < Len(v) /\ v[i + 1].t = "pay"
                      /\ v[i].t = "pay" => i > 1 /\ v[i - 1].t = "$"
    BY DEF Paired
  <2>1. ASSUME v[i].t = "$" PROVE i < Len(v) /\ v[i + 1].t = "pay"
    <3>1. i < Len(s) /\ s[i + 1].t = "pay"
      BY <1>2, <1>4, <2>1 DEF Paired
    <3>0. i < Len(s)
      BY <3>1
    <3>2. i + 1 \in 1 .. Len(s)
      BY <1>1, <3>0
    <3>3. i + 1 \in 1 .. Len(v)
      BY <1>3, <3>1, <3>2
    <3>4. v[i + 1] = s[i + 1]
      BY <1>2, <3>3
    <3>5. i < Len(v)
      BY <1>1, <3>3
    <3> QED
      BY <3>1, <3>4, <3>5
  <2>2. ASSUME v[i].t = "pay" PROVE i > 1 /\ v[i - 1].t = "$"
    <3>1. i > 1 /\ s[i - 1].t = "$"
      BY <1>2, <1>4, <2>2 DEF Paired
    <3>0. i > 1
      BY <3>1
    <3>2. i - 1 \in 1 .. Len(v)
      BY <1>1, <3>0
    <3>3. v[i - 1] = s[i - 1]
      BY <1>2, <3>2
    <3> QED
      BY <3>1, <3>3
  <2> QED
    BY <2>1, <2>2
<1>5. ASSUME Numbered(s, lo, hi) PROVE Numbered(v, lo, hi)
  <2>1. ASSUME NEW k \in lo .. hi PROVE \E i \in 1 .. Len(v) : v[i].t = "$" /\ v[i].n = k
    <3>1. PICK i \in 1 .. Len(s) : s[i].t = "$" /\ s[i].n = k
      BY <1>5 DEF Numbered
    <3> QED
      BY <1>2, <1>3, <3>1
  <2> QED
    BY <1>2, <1>5, <2>1 DEF Numbered
<1> QED
  BY <1>4, <1>5

LEMMA CutAhead ==
  ASSUME NEW s \in Seq(Token), NEW v, Cut(s, v), NEW h, NEW n, NEW c \in BOOLEAN
  PROVE  /\ HeadAhead(s, h, n, c) => HeadAhead(v, h, n, TRUE)
         /\ BodyAhead(s, n, c) => BodyAhead(v, n, TRUE)
         /\ NoText(s) => NoText(v)
<1>1. Len(s) \in Nat /\ Len(v) \in Nat /\ Len(v) <= Len(s)
  BY DEF Cut
<1>2. ASSUME NEW i \in 1 .. Len(v) PROVE i \in 1 .. Len(s) /\ v[i] = s[i]
  BY <1>1 DEF Cut
<1>6. ASSUME HeadAhead(s, h, n, c) PROVE HeadAhead(v, h, n, TRUE)
  <2>0. ASSUME NEW j \in 1 .. Len(v), NEW i \in 1 .. j - 1 PROVE i \in 1 .. Len(v) /\ v[i] = s[i]
    <3>1. i \in 1 .. Len(v)
      BY <1>1
    <3> QED
      BY <1>2, <3>1
  <2>1. ASSUME NEW j \in 1 .. Len(v), v[j].t = "head"
        PROVE  /\ v[j] = Reader!Tok("head", n) /\ h = <<>>
               /\ \A i \in 1 .. j - 1 : ~Text(v[i])
    BY <1>2, <1>6, <2>0, <2>1 DEF HeadAhead
  <2>2. ASSUME NEW j \in 1 .. Len(v), v[j].t = "end"
        PROVE  /\ h = <<>> => \E i \in 1 .. j - 1 : v[i].t = "head"
               /\ \A i \in 1 .. j - 1 : Text(v[i]) => v[i].t = "head"
               /\ BodyFrom(v, j, n)
    <3>1. /\ h = <<>> => \E i \in 1 .. j - 1 : s[i].t = "head"
          /\ \A i \in 1 .. j - 1 : Text(s[i]) => s[i].t = "head"
          /\ BodyFrom(s, j, n)
      BY <1>2, <1>6, <2>2 DEF HeadAhead
    <3>2. BodyFrom(v, j, n)
      BY <1>2, <3>1 DEF BodyFrom
    <3> QED
      BY <2>0, <3>1, <3>2
  <2>3. ASSUME NEW j \in 1 .. Len(v), v[j].t = "body"
        PROVE  \E i \in 1 .. j - 1 : v[i].t = "end"
    <3>1. j \in 1 .. Len(s) /\ s[j].t = "body"
      BY <1>2, <2>3
    <3>2. PICK i \in 1 .. j - 1 : s[i].t = "end"
      BY <1>6, <3>1 DEF HeadAhead
    <3>3. v[i] = s[i]
      BY <2>0
    <3> QED
      BY <3>2, <3>3
  <2> QED
    BY <2>1, <2>2, <2>3 DEF HeadAhead
<1>7. ASSUME BodyAhead(s, n, c) PROVE BodyAhead(v, n, TRUE)
  BY <1>2, <1>7 DEF BodyAhead, BodyFrom
<1>8. ASSUME NoText(s) PROVE NoText(v)
  BY <1>2, <1>8 DEF NoText
<1> QED
  BY <1>6, <1>7, <1>8

(* An answer is to come, behind what is there already.                            *)
Asks(s, v, n) ==
  /\ v \in Seq(Token) /\ Len(v) = Len(s) + 2 + Body
  /\ \A i \in 1 .. Len(s) : v[i] = s[i]
  /\ v[Len(s) + 1] = Reader!Tok("head", n) /\ v[Len(s) + 2] = Reader!Tok("end", n)
  /\ \A i \in Len(s) + 3 .. Len(s) + 2 + Body : v[i] = Reader!Tok("body", n)

LEMMA AskOpens ==
  ASSUME NEW s \in Seq(Token), NoText(s), Paired(s), NEW lo \in Nat, NEW hi \in Nat,
         Numbered(s, lo, hi), NEW n, NEW v, Asks(s, v, n)
  PROVE  Paired(v) /\ Numbered(v, lo, hi) /\ HeadAhead(v, <<>>, n, FALSE)
<1>1. Len(s) \in Nat /\ Len(v) \in Nat /\ Len(v) = Len(s) + 2 + Body /\ Body \in Nat
  BY BodyUnits DEF Asks
<1>2. ASSUME NEW i \in 1 .. Len(s) PROVE i \in 1 .. Len(v) /\ v[i] = s[i] /\ ~Text(v[i])
  BY <1>1 DEF Asks, NoText
<1>3. ASSUME NEW i \in 1 .. Len(v)
      PROVE  \/ i \in 1 .. Len(s)
             \/ i = Len(s) + 1 /\ v[i] = Reader!Tok("head", n)
             \/ i = Len(s) + 2 /\ v[i] = Reader!Tok("end", n)
             \/ i > Len(s) + 2 /\ v[i] = Reader!Tok("body", n)
  <2>1. CASE i > Len(s) + 2
    <3>1. i \in Len(s) + 3 .. Len(s) + 2 + Body
      BY <1>1, <2>1
    <3> QED
      BY <2>1, <3>1 DEF Asks
  <2>2. CASE i <= Len(s) + 2
    <3>1. i \in 1 .. Len(s) \/ i = Len(s) + 1 \/ i = Len(s) + 2
      BY <1>1, <2>2
    <3> QED
      BY <3>1 DEF Asks
  <2> QED
    BY <2>1, <2>2, <1>1
<1>4. ASSUME NEW i \in 1 .. Len(v), v[i].t = "$" \/ v[i].t = "pay"
      PROVE  i \in 1 .. Len(s) /\ v[i] = s[i]
  BY <1>2, <1>3, <1>4, TokIs
<1>5. Paired(v)
  <2> SUFFICES ASSUME NEW i \in 1 .. Len(v)
               PROVE  /\ v[i].t = "$" => i < Len(v) /\ v[i + 1].t = "pay"
                      /\ v[i].t = "pay" => i > 1 /\ v[i - 1].t = "$"
    BY DEF Paired
  <2>1. ASSUME v[i].t = "$" PROVE i < Len(v) /\ v[i + 1].t = "pay"
    <3>1. i \in 1 .. Len(s) /\ i < Len(s) /\ s[i + 1].t = "pay"
      BY <1>4, <2>1 DEF Paired
    <3>0. i < Len(s)
      BY <3>1
    <3>2. i + 1 \in 1 .. Len(s) /\ i < Len(v)
      BY <1>1, <3>0
    <3> QED
      BY <1>2, <3>1, <3>2
  <2>2. ASSUME v[i].t = "pay" PROVE i > 1 /\ v[i - 1].t = "$"
    <3>1. i \in 1 .. Len(s) /\ i > 1 /\ s[i - 1].t = "$"
      BY <1>4, <2>2 DEF Paired
    <3>0. i > 1 /\ i \in 1 .. Len(s)
      BY <3>1
    <3>2. i - 1 \in 1 .. Len(s)
      BY <1>1, <3>0
    <3> QED
      BY <1>2, <3>1, <3>2
  <2> QED
    BY <2>1, <2>2
<1>6. Numbered(v, lo, hi)
  <2>1. ASSUME NEW k \in lo .. hi PROVE \E i \in 1 .. Len(v) : v[i].t = "$" /\ v[i].n = k
    <3>1. PICK i \in 1 .. Len(s) : s[i].t = "$" /\ s[i].n = k
      BY DEF Numbered
    <3> QED
      BY <1>2, <3>1
  <2>2. ASSUME NEW i \in 1 .. Len(v), v[i].t = "$" PROVE v[i].n \in lo .. hi
    BY <1>4, <2>2 DEF Numbered
  <2>3. ASSUME NEW i \in 1 .. Len(v), NEW j \in 1 .. Len(v), i < j, v[i].t = "$", v[j].t = "$"
        PROVE  v[i].n < v[j].n
    BY <1>4, <2>3 DEF Numbered
  <2> QED
    BY <2>1, <2>2, <2>3 DEF Numbered
<1>7. ASSUME NEW i \in 1 .. Len(v), v[i].t = "head"
      PROVE  i = Len(s) + 1 /\ v[i] = Reader!Tok("head", n)
  BY <1>2, <1>3, <1>7, TokIs DEF Text
<1>8. ASSUME NEW i \in 1 .. Len(v), v[i].t = "end"
      PROVE  i = Len(s) + 2
  BY <1>2, <1>3, <1>8, TokIs DEF Text
<1>9. ASSUME NEW i \in 1 .. Len(v), v[i].t = "body"
      PROVE  i > Len(s) + 2
  BY <1>2, <1>3, <1>9, TokIs DEF Text
<1>10. ASSUME NEW j \in 1 .. Len(v), v[j].t = "head", NEW i \in 1 .. j - 1
       PROVE  ~Text(v[i])
  <2>1. i \in 1 .. Len(s)
    BY <1>1, <1>7, <1>10
  <2> QED
    BY <1>2, <2>1
<1>11. ASSUME NEW j \in 1 .. Len(v), v[j].t = "end"
       PROVE  /\ \E i \in 1 .. j - 1 : v[i].t = "head"
              /\ \A i \in 1 .. j - 1 : Text(v[i]) => v[i].t = "head"
              /\ BodyFrom(v, j, n)
              /\ j + Body <= Len(v)
  <2>1. j = Len(s) + 2
    BY <1>8, <1>11
  <2>2. Len(s) + 1 \in 1 .. j - 1 /\ v[Len(s) + 1].t = "head"
    BY <1>1, <2>1, TokIs DEF Asks
  <2>3. ASSUME NEW i \in 1 .. j - 1, Text(v[i]) PROVE v[i].t = "head"
    <3>1. i \in 1 .. Len(s) \/ i = Len(s) + 1
      BY <1>1, <2>1
    <3> QED
      BY <1>2, <2>2, <2>3, <3>1
  <2>4. BodyFrom(v, j, n)
    <3> SUFFICES ASSUME NEW i \in 1 .. Len(v), i > j
                 PROVE  i <= j + Body /\ v[i] = Reader!Tok("body", n)
      BY DEF BodyFrom
    <3>1. i <= j + Body /\ i \in Len(s) + 3 .. Len(s) + 2 + Body
      BY <1>1, <2>1
    <3> QED
      BY <3>1 DEF Asks
  <2>5. j + Body <= Len(v)
    BY <1>1, <2>1
  <2> QED
    BY <2>2, <2>3, <2>4, <2>5
<1>12. ASSUME NEW j \in 1 .. Len(v), v[j].t = "body"
       PROVE  \E i \in 1 .. j - 1 : v[i].t = "end"
  <2>1. Len(s) + 2 \in 1 .. j - 1
    BY <1>1, <1>9, <1>12
  <2>2. v[Len(s) + 2].t = "end"
    BY TokIs DEF Asks
  <2> QED
    BY <2>1, <2>2
<1>13. HeadAhead(v, <<>>, n, FALSE)
  BY <1>7, <1>10, <1>11, <1>12 DEF HeadAhead
<1> QED
  BY <1>5, <1>6, <1>13

(* Nothing is to come any more.                                                   *)
LEMMA NothingComes ==
  ASSUME NEW s \in Seq(Token), NoText(s), NEW n
  PROVE  HeadAhead(s, <<>>, n, TRUE)
<1>1. ASSUME NEW j \in 1 .. Len(s)
      PROVE  s[j].t # "head" /\ s[j].t # "end" /\ s[j].t # "body"
  BY DEF NoText, Text
<1> QED
  BY <1>1 DEF HeadAhead

--------------------------------------------------------------------------------
DemuxPC == {"idle", "head", "body", "recv", "scan", "raised"}
(* The reader's types, and what is left to send: text, and nothing at the end.    *)
DType ==
  /\ demuxPc \in DemuxPC
  /\ buf \in Seq(Token) /\ leftover \in Seq(Token) /\ headTxt \in Seq(Token)
  /\ wire \in Seq(Token) /\ todo \in Seq(Token)
  /\ asked \in Nat /\ frames \in Nat /\ handed \in Seq(Nat)
  /\ closed \in BOOLEAN /\ split \in BOOLEAN
  /\ \A i \in 1 .. Len(todo) : Text(todo[i])
  /\ closed => todo = <<>>
  /\ IF demuxPc = "idle" THEN buf = <<>> ELSE leftover = <<>>

(* What the reader has not looked at yet, and what is still to come.              *)
Front == IF demuxPc = "idle" THEN leftover ELSE buf
Line == Front \o wire \o todo

(* On the line the frames follow those handed out, and an answer is whole.        *)
InOrder == Paired(Line) /\ Numbered(Line, Len(handed) + 1, frames) /\ Len(handed) <= frames
HandedFirst == handed = [i \in 1 .. Len(handed) |-> i]
Ahead ==
  /\ demuxPc = "head" => /\ headTxt \in {<<>>, <<Reader!Tok("head", asked)>>}
                         /\ HeadAhead(Line, headTxt, asked, closed)
  /\ demuxPc = "body" => /\ headTxt = <<Reader!Tok("head", asked)>>
                         /\ BodyAhead(Line, asked, closed)
  /\ demuxPc \in {"idle", "recv", "scan"} => NoText(Line)

DInv ==
  /\ DType
  /\ ~split => HandedFirst /\ InOrder /\ Ahead
               /\ reply \in {Reader!None, Reader!Reply(asked)}

(* What v is made of, place by place.                                             *)
Joined(v, f, w, u) ==
  /\ v \in Seq(Token) /\ Len(v) = Len(f) + Len(w) + Len(u)
  /\ \A i \in 1 .. Len(f) + Len(w) : v[i] = (f \o w)[i]
  /\ \A i \in Len(f) + Len(w) + 1 .. Len(f) + Len(w) + Len(u) :
       v[i] = u[i - (Len(f) + Len(w))]

LEMMA LineHas ==
  ASSUME NEW f \in Seq(Token), NEW w \in Seq(Token), NEW u \in Seq(Token)
  PROVE  Joined(f \o w \o u, f, w, u)
<1> DEFINE x == f \o w  v == x \o u
<1>1. x \in Seq(Token) /\ Len(x) = Len(f) + Len(w)
  BY JoinIs
<1> HIDE DEF x
<1>2. /\ v \in Seq(Token) /\ Len(v) = Len(x) + Len(u)
      /\ \A i \in 1 .. Len(x) : v[i] = x[i]
      /\ \A i \in Len(x) + 1 .. Len(x) + Len(u) : v[i] = u[i - Len(x)]
  <2>1. x \in Seq(Token)
    BY <1>1
  <2> QED
    BY <2>1, JoinIs, Zenon
<1> HIDE DEF v
<1>3. Len(x) = Len(f) + Len(w)
  BY <1>1
<1>4. /\ v \in Seq(Token) /\ Len(v) = Len(f) + Len(w) + Len(u)
      /\ \A i \in 1 .. Len(f) + Len(w) : v[i] = x[i]
      /\ \A i \in Len(f) + Len(w) + 1 .. Len(f) + Len(w) + Len(u) :
           v[i] = u[i - (Len(f) + Len(w))]
  BY <1>2, <1>3
<1>5. Joined(v, f, w, u)
  BY <1>4 DEF Joined, x
<1> QED
  BY <1>5 DEF v, x

LEMMA LineIs ==
  ASSUME NEW f \in Seq(Token), NEW w \in Seq(Token), NEW u \in Seq(Token)
  PROVE  /\ f \o w \o u \in Seq(Token)
         /\ Len(f \o w \o u) = Len(f) + Len(w) + Len(u)
         /\ \A i \in 1 .. Len(f) : (f \o w \o u)[i] = f[i]
         /\ \A i \in 1 .. Len(f) + Len(w) : (f \o w \o u)[i] = (f \o w)[i]
         /\ \A i \in Len(f) + Len(w) + 1 .. Len(f) + Len(w) + Len(u) :
              (f \o w \o u)[i] = u[i - (Len(f) + Len(w))]
<1>1. f \o w \in Seq(Token) /\ Len(f \o w) = Len(f) + Len(w)
      /\ \A i \in 1 .. Len(f) : (f \o w)[i] = f[i]
  BY JoinIs
<1>2. Len(f) \in Nat /\ Len(w) \in Nat /\ Len(u) \in Nat
  OBVIOUS
<1> DEFINE x == f \o w
<1>3. /\ x \o u \in Seq(Token) /\ Len(x \o u) = Len(x) + Len(u)
      /\ \A i \in 1 .. Len(x) : (x \o u)[i] = x[i]
      /\ \A i \in Len(x) + 1 .. Len(x) + Len(u) : (x \o u)[i] = u[i - Len(x)]
  BY <1>1, JoinIs
<1>4. ASSUME NEW i \in 1 .. Len(f) PROVE (x \o u)[i] = f[i]
  <2>1. i \in 1 .. Len(x)
    BY <1>1, <1>2
  <2> QED
    BY <1>1, <1>3, <2>1
<1> HIDE DEF x
<1>5. Len(x) = Len(f) + Len(w)
  BY <1>1 DEF x
<1>6. /\ x \o u \in Seq(Token) /\ Len(x \o u) = Len(f) + Len(w) + Len(u)
      /\ \A i \in 1 .. Len(f) + Len(w) : (x \o u)[i] = x[i]
      /\ \A i \in Len(f) + Len(w) + 1 .. Len(f) + Len(w) + Len(u) :
              (x \o u)[i] = u[i - (Len(f) + Len(w))]
  BY <1>3, <1>5
<1> QED
  BY <1>4, <1>6 DEF x

LEMMA SameFrom ==
  ASSUME NEW f \in Seq(Token), NEW w \in Seq(Token), NEW u \in Seq(Token),
         NEW d \in 0 .. Len(f)
  PROVE  Same(f \o w \o u, Reader!From(f, d + 1) \o w \o u, d)
<1>0. d + 1 \in 1 .. Len(f) + 1
  OBVIOUS
<1>1. Reader!From(f, d + 1) \o w = Reader!From(f \o w, d + 1)
  BY <1>0, FromJoin
<1>2. f \o w \in Seq(Token) /\ Len(f \o w) = Len(f) + Len(w)
  BY JoinIs
<1>3. d + 1 \in 1 .. Len(f \o w) + 1
  BY <1>2
<1>4. Reader!From(f \o w, d + 1) \o u = Reader!From((f \o w) \o u, d + 1)
  BY <1>2, <1>3, FromJoin
<1> DEFINE s == (f \o w) \o u
<1>5. s \in Seq(Token) /\ Len(s) = Len(f) + Len(w) + Len(u)
  BY LineIs
<1> HIDE DEF s
<1>6. d + 1 \in 1 .. Len(s) + 1
  BY <1>5
<1>7. Same(s, Reader!From(s, d + 1), d)
  <2>1. /\ Reader!From(s, d + 1) \in Seq(Token)
        /\ Len(Reader!From(s, d + 1)) = Len(s) - (d + 1) + 1
        /\ \A i \in 1 .. Len(s) - (d + 1) + 1 : Reader!From(s, d + 1)[i] = s[i + (d + 1) - 1]
    BY <1>5, <1>6, FromIs
  <2>2. Len(s) - (d + 1) + 1 = Len(s) - d /\ \A i \in Int : i + (d + 1) - 1 = i + d
    BY <1>5
  <2> QED
    BY <2>1, <2>2 DEF Same
<1> QED
  BY <1>1, <1>4, <1>7 DEF s

LEMMA Tokens ==
  ASSUME NEW n \in Nat
  PROVE  \A t \in {"$", "pay", "head", "end", "body"} : Reader!Tok(t, n) \in Token
  BY DEF Reader!Tok, Token

LEMMA LineType == DType => Front \in Seq(Token) /\ Line \in Seq(Token)
<1> SUFFICES ASSUME DType PROVE Front \in Seq(Token) /\ Line \in Seq(Token)
  OBVIOUS
<1>1. Front \in Seq(Token)
  BY DEF DType, Front
<1> QED
  BY <1>1, LineIs DEF DType, Line

LEMMA JoinMoves ==
  ASSUME NEW s \in Seq(Token), NEW u \in Seq(Token), NEW w \in Seq(Token)
  PROVE  (s \o u) \o w = s \o (u \o w)
  BY ConcatAssociative

LEMMA DemuxInit == Reader!Init => DInv
<1> SUFFICES ASSUME Reader!Init PROVE DInv
  OBVIOUS
<1>1. /\ demuxPc = "idle" /\ buf = <<>> /\ leftover = <<>> /\ headTxt = <<>>
      /\ reply = Reader!None /\ asked = 0 /\ handed = <<>>
      /\ wire = <<>> /\ todo = <<>> /\ frames = 0 /\ closed = FALSE /\ split = FALSE
  BY DEF Reader!Init
<1>2. <<>> \in Seq(Token) /\ <<>> \in Seq(Nat) /\ Len(<<>>) = 0
  OBVIOUS
<1>3. DType
  <2>1. \A i \in 1 .. Len(todo) : Text(todo[i])
    BY <1>1, <1>2
  <2> QED
    BY <1>1, <1>2, <2>1 DEF DType, DemuxPC
<1>4. Line = <<>>
  BY <1>1 DEF Line, Front
<1>5. HandedFirst
  BY <1>1 DEF HandedFirst
<1>6. InOrder
  BY <1>1, <1>2, <1>4 DEF InOrder, Paired, Numbered
<1>7. Ahead
  BY <1>1, <1>2, <1>4 DEF Ahead, NoText
<1> QED
  BY <1>1, <1>3, <1>5, <1>6, <1>7 DEF DInv

(* What one step of the reader or of the server does to the line.                 *)
LEMMA ReceiveIs ==
  ASSUME DType, Reader!Receive
  PROVE  /\ buf' \in Seq(Token) /\ wire' \in Seq(Token) /\ Len(buf') > Len(buf)
         /\ buf' \o wire' \o todo' = buf \o wire \o todo
         /\ UNCHANGED <<leftover, headTxt, reply, asked, handed, todo, frames, closed, split>>
<1>1. PICK k \in 1 .. Len(wire) :
        buf' = buf \o SubSeq(wire, 1, k) /\ wire' = Reader!From(wire, k + 1)
  BY DEF Reader!Receive
<1>2. /\ buf \in Seq(Token) /\ wire \in Seq(Token) /\ k \in 0 .. Len(wire)
      /\ k + 1 \in 1 .. Len(wire) + 1
  BY DEF DType
<1> DEFINE a == SubSeq(wire, 1, k)  b == Reader!From(wire, k + 1)
<1>3. a \in Seq(Token) /\ Len(a) = k /\ a \o b = wire
  BY <1>2, CutJoins
<1>4. b \in Seq(Token)
  BY <1>2, FromIs
<1> HIDE DEF a, b
<1>5. buf' = buf \o a /\ wire' = b
  BY <1>1 DEF a, b
<1>6. buf \o a \in Seq(Token) /\ Len(buf \o a) = Len(buf) + Len(a)
  BY <1>2, <1>3, JoinIs
<1>7. (buf \o a) \o b = buf \o (a \o b)
  <2>1. a \in Seq(Token) /\ b \in Seq(Token) /\ buf \in Seq(Token)
    BY <1>2, <1>3, <1>4
  <2> QED
    BY <2>1, JoinMoves
<1>8. UNCHANGED <<leftover, headTxt, reply, asked, handed, todo, frames, closed, split>>
  BY DEF Reader!Receive
<1> QED
  BY <1>2, <1>3, <1>4, <1>5, <1>6, <1>7, <1>8

LEMMA AnswerIs ==
  ASSUME DType, Reader!SendAnswer
  PROVE  /\ wire' \in Seq(Token) /\ todo' \in Seq(Token)
         /\ \A i \in 1 .. Len(todo') : Text(todo'[i])
         /\ \A f \in Seq(Token) : f \o wire' \o todo' = f \o wire \o todo
         /\ ~closed
<1>1. PICK k \in 1 .. Len(todo) :
        wire' = wire \o SubSeq(todo, 1, k) /\ todo' = Reader!From(todo, k + 1)
  BY DEF Reader!SendAnswer
<1>2. /\ todo \in Seq(Token) /\ wire \in Seq(Token) /\ k \in 0 .. Len(todo)
      /\ k + 1 \in 1 .. Len(todo) + 1
  BY DEF DType
<1> DEFINE a == SubSeq(todo, 1, k)  b == Reader!From(todo, k + 1)
<1>3. a \in Seq(Token) /\ a \o b = todo
  BY <1>2, CutJoins
<1>4. b \in Seq(Token) /\ Len(b) = Len(todo) - (k + 1) + 1
      /\ \A i \in 1 .. Len(todo) - (k + 1) + 1 : b[i] = todo[i + (k + 1) - 1]
  BY <1>2, FromIs
<1>5. \A i \in 1 .. Len(b) : Text(b[i])
  <2> SUFFICES ASSUME NEW i \in 1 .. Len(b) PROVE Text(b[i])
    OBVIOUS
  <2>1. PICK p \in 1 .. Len(todo) : p = i + (k + 1) - 1
    BY <1>2, <1>4
  <2>2. b[i] = todo[p]
    BY <1>4, <2>1
  <2> QED
    BY <2>2 DEF DType
<1> HIDE DEF a, b
<1>6. wire' = wire \o a /\ todo' = b
  BY <1>1 DEF a, b
<1>7. ASSUME NEW f \in Seq(Token) PROVE f \o (wire \o a) \o b = f \o wire \o todo
  <2>0. a \in Seq(Token) /\ b \in Seq(Token) /\ wire \in Seq(Token)
    BY <1>2, <1>3, <1>4
  <2>1. f \o (wire \o a) = (f \o wire) \o a
    BY <2>0, JoinMoves
  <2>3. f \o wire \in Seq(Token)
    BY <2>0, JoinIs
  <2>2. ((f \o wire) \o a) \o b = (f \o wire) \o (a \o b)
    BY <2>0, <2>3, JoinMoves
  <2> QED
    BY <1>3, <2>1, <2>2
<1>8. wire \o a \in Seq(Token)
  BY <1>2, <1>3, JoinIs
<1>9. ~closed
  BY DEF Reader!SendAnswer
<1> QED
  BY <1>4, <1>5, <1>6, <1>7, <1>8, <1>9

LEMMA FrameInto ==
  ASSUME NEW f \in Seq(Token), NEW w \in Seq(Token), NEW u \in Seq(Token), NEW k \in Nat,
         \A i \in 1 .. Len(u) : Text(u[i])
  PROVE  LET x == <<Reader!Tok("$", k), Reader!Tok("pay", k)>>
         IN w \o x \in Seq(Token) /\ Into(f \o w \o u, f \o (w \o x) \o u, Len(f) + Len(w), k)
<1> DEFINE a == Reader!Tok("$", k)  b == Reader!Tok("pay", k)  x == <<a, b>>
           s == f \o w \o u  z == w \o x  v == f \o z \o u  L == Len(f) + Len(w)
<1>1. a \in Token /\ b \in Token
  BY Tokens
<1> HIDE DEF a, b
<1>2. x \in Seq(Token) /\ Len(x) = 2 /\ x[1] = a /\ x[2] = b
  BY <1>1
<1> HIDE DEF x
<1>3. PICK lf \in Nat, lw \in Nat, lu \in Nat : lf = Len(f) /\ lw = Len(w) /\ lu = Len(u)
  OBVIOUS
<1>0. /\ z \in Seq(Token) /\ Len(z) = Len(w) + Len(x)
      /\ \A i \in 1 .. Len(w) : z[i] = w[i]
      /\ \A i \in Len(w) + 1 .. Len(w) + Len(x) : z[i] = x[i - Len(w)]
  <2>1. x \in Seq(Token)
    BY <1>2
  <2> QED
    BY <2>1, JoinIs, Zenon
<1> HIDE DEF z
<1>t. Len(x) = 2
  BY <1>2
<1>4. z \in Seq(Token) /\ Len(z) = lw + 2
  BY <1>0, <1>3, <1>t
<1>5. /\ \A i \in 1 .. lw : z[i] = w[i]
      /\ \A i \in lw + 1 .. lw + 2 : z[i] = x[i - lw]
  BY <1>0, <1>3, <1>t
<1>6. /\ s \in Seq(Token) /\ Len(s) = lf + lw + lu
      /\ \A i \in 1 .. lf + lw : s[i] = (f \o w)[i]
      /\ \A i \in lf + lw + 1 .. lf + lw + lu : s[i] = u[i - (lf + lw)]
  BY <1>3, LineIs
<1>7. /\ v \in Seq(Token) /\ Len(v) = lf + (lw + 2) + lu
      /\ \A i \in 1 .. lf + (lw + 2) : v[i] = (f \o z)[i]
      /\ \A i \in lf + (lw + 2) + 1 .. lf + (lw + 2) + lu : v[i] = u[i - (lf + (lw + 2))]
  <2>1. z \in Seq(Token)
    BY <1>4
  <2>2. Len(z) = lw + 2
    BY <1>4
  <2>a. Joined(v, f, z, u)
    BY <2>1, LineHas, Zenon
  <2> HIDE DEF v
  <2>3. /\ v \in Seq(Token) /\ Len(v) = Len(f) + Len(z) + Len(u)
        /\ \A i \in 1 .. Len(f) + Len(z) : v[i] = (f \o z)[i]
        /\ \A i \in Len(f) + Len(z) + 1 .. Len(f) + Len(z) + Len(u) :
             v[i] = u[i - (Len(f) + Len(z))]
    BY <2>a, Zenon DEF Joined
  <2> QED
    BY <1>3, <2>2, <2>3
<1>8. /\ \A i \in 1 .. lf : (f \o w)[i] = f[i]
      /\ \A i \in lf + 1 .. lf + lw : (f \o w)[i] = w[i - lf]
  BY <1>3, JoinIs
<1>9. /\ \A i \in 1 .. lf : (f \o z)[i] = f[i]
      /\ \A i \in lf + 1 .. lf + (lw + 2) : (f \o z)[i] = z[i - lf]
  <2>1. z \in Seq(Token)
    BY <1>4
  <2>2. Len(z) = lw + 2
    BY <1>4
  <2> QED
    BY <1>3, <2>1, <2>2, JoinIs
<1> HIDE DEF s, v, L
<1>l. L = lf + lw
  BY <1>3 DEF L
<1>10. Len(v) = Len(s) + 2 /\ L \in 0 .. Len(s)
  BY <1>6, <1>7, <1>l
<1>11. ASSUME NEW i \in 1 .. L PROVE v[i] = s[i]
  <2>1. i \in 1 .. lf + lw /\ i \in 1 .. lf + (lw + 2)
    BY <1>l
  <2>2. s[i] = (f \o w)[i] /\ v[i] = (f \o z)[i]
    BY <2>1, <1>6, <1>7
  <2>3. CASE i <= lf
    <3>1. i \in 1 .. lf
      BY <2>1, <2>3
    <3> QED
      BY <2>2, <3>1, <1>8, <1>9
  <2>4. CASE i > lf
    <3>1. i \in lf + 1 .. lf + lw /\ i \in lf + 1 .. lf + (lw + 2) /\ i - lf \in 1 .. lw
      BY <2>1, <2>4
    <3>2. (f \o w)[i] = w[i - lf] /\ (f \o z)[i] = z[i - lf]
      BY <3>1, <1>8, <1>9
    <3>3. z[i - lf] = w[i - lf]
      BY <3>1, <1>5
    <3> QED
      BY <2>2, <3>2, <3>3
  <2> QED
    BY <2>1, <2>3, <2>4
<1>12. ASSUME NEW j \in 1 .. 2 PROVE v[L + j] = x[j]
  <2>1. PICK p \in Int, r \in Int : p = L + j /\ r = p - lf
    BY <1>l
  <2>2. /\ p \in 1 .. lf + (lw + 2) /\ p \in lf + 1 .. lf + (lw + 2)
        /\ r \in lw + 1 .. lw + 2 /\ r - lw = j
    BY <1>l, <2>1
  <2>3. v[p] = (f \o z)[p]
    BY <1>7, <2>2
  <2>4. (f \o z)[p] = z[p - lf]
    BY <1>9, <2>2
  <2>5. z[r] = x[r - lw]
    BY <1>5, <2>2
  <2> QED
    BY <2>1, <2>2, <2>3, <2>4, <2>5
<1>13. ASSUME NEW i \in L + 1 .. Len(s) PROVE v[i + 2] = s[i] /\ Text(s[i])
  <2>1. /\ i \in lf + lw + 1 .. lf + lw + lu /\ i - (lf + lw) \in 1 .. lu
        /\ i + 2 \in lf + (lw + 2) + 1 .. lf + (lw + 2) + lu
        /\ i + 2 - (lf + (lw + 2)) = i - (lf + lw)
    <3>1. Len(s) = lf + lw + lu
      BY <1>6
    <3>2. i \in lf + lw + 1 .. lf + lw + lu
      BY <1>l, <3>1
    <3> QED
      BY <3>2
  <2>2. s[i] = u[i - (lf + lw)]
    BY <1>6, <2>1
  <2>3. v[i + 2] = u[i + 2 - (lf + (lw + 2))]
    BY <1>7, <2>1
  <2>4. Text(u[i - (lf + lw)])
    BY <1>3, <2>1
  <2> QED
    BY <2>1, <2>2, <2>3, <2>4
<1>14. Into(s, v, L, k)
  <2>1. v[L + 1] = a /\ v[L + 2] = b
    BY <1>2, <1>12
  <2> QED
    BY <1>7, <1>10, <1>11, <1>13, <2>1 DEF Into, a, b
<1> QED
  BY <1>4, <1>14 DEF s, v, L, z, x, a, b

(* What a step on one side of the line leaves to the other.                       *)
LEMMA LineKept ==
  ASSUME InOrder, HandedFirst, Line' = Line, UNCHANGED <<handed, frames>>
  PROVE  InOrder' /\ HandedFirst'
  BY DEF InOrder, HandedFirst

LEMMA SendFrameStep == DInv /\ Reader!SendFrame => DInv'
<1> SUFFICES ASSUME DInv, Reader!SendFrame PROVE DInv'
  OBVIOUS
<1>1. /\ ~closed /\ frames' = frames + 1
      /\ wire' = wire \o <<Reader!Tok("$", frames + 1), Reader!Tok("pay", frames + 1)>>
      /\ split' = (split \/ Reader!Is(todo, "body"))
      /\ UNCHANGED <<demuxPc, buf, leftover, headTxt, reply, asked, handed, todo, closed>>
  BY DEF Reader!SendFrame, Reader!client
<1>2. DType
  BY DEF DInv
<1>3. /\ Front \in Seq(Token) /\ wire \in Seq(Token) /\ todo \in Seq(Token)
      /\ \A i \in 1 .. Len(todo) : Text(todo[i])
      /\ frames \in Nat /\ frames + 1 \in Nat /\ Line \in Seq(Token)
  BY <1>2, LineType DEF DType
<1>4. Front' = Front
  BY <1>1 DEF Front
<1> DEFINE L == Len(Front) + Len(wire)
<1>5. wire' \in Seq(Token) /\ Into(Line, Line', L, frames + 1)
  BY <1>1, <1>3, <1>4, FrameInto DEF Line
<1>6. DType'
  <2>1. split' \in BOOLEAN
    BY <1>1
  <2> QED
    BY <1>1, <1>2, <1>3, <1>5, <2>1 DEF DType
<1>7. ASSUME ~split'
      PROVE  HandedFirst' /\ InOrder' /\ Ahead' /\ reply' \in {Reader!None, Reader!Reply(asked')}
  <2>1. ~split /\ ~Reader!Is(todo, "body")
    BY <1>1, <1>7
  <2>2. HandedFirst /\ InOrder /\ Ahead /\ reply \in {Reader!None, Reader!Reply(asked)}
    BY <2>1 DEF DInv
  <2>3. L < Len(Line) => Line[L + 1].t # "body"
    <3> SUFFICES ASSUME L < Len(Line) PROVE Line[L + 1].t # "body"
      OBVIOUS
    <3>1. /\ Len(Line) = Len(Front) + Len(wire) + Len(todo)
          /\ \A i \in Len(Front) + Len(wire) + 1 .. Len(Front) + Len(wire) + Len(todo) :
               Line[i] = todo[i - (Len(Front) + Len(wire))]
      BY <1>3, LineIs DEF Line
    <3>2. Len(Front) \in Nat /\ Len(wire) \in Nat /\ Len(todo) \in Nat /\ Len(todo) > 0
      BY <1>3, <3>1
    <3>3. Line[L + 1] = todo[1]
      <4>1. PICK i \in Len(Front) + Len(wire) + 1 .. Len(Front) + Len(wire) + Len(todo) :
              i = L + 1
        BY <3>2
      <4>2. i - (Len(Front) + Len(wire)) = 1
        BY <3>2, <4>1
      <4> QED
        BY <3>1, <4>1, <4>2
    <3>4. todo # <<>>
      BY <3>2
    <3> QED
      BY <2>1, <3>3, <3>4 DEF Reader!Is
  <2> HIDE DEF L
  <2>4. Len(handed) \in Nat /\ Len(handed) + 1 \in Nat /\ Len(handed) <= frames
        /\ Len(handed) + 1 <= frames + 1
    BY <1>2, <1>3, <2>2 DEF DType, InOrder
  <2>5. Paired(Line) /\ Numbered(Line, Len(handed) + 1, frames)
    BY <2>2 DEF InOrder
  <2>6. Paired(Line') /\ Numbered(Line', Len(handed) + 1, frames + 1)
    BY <1>3, <1>5, <2>4, <2>5, PairedInto, NumberedInto
  <2>7. InOrder'
    <3>1. Len(handed) <= frames + 1
      BY <1>3, <2>4
    <3> QED
      BY <1>1, <2>6, <3>1 DEF InOrder
  <2>8. Ahead'
    <3>1. closed = FALSE /\ closed' = FALSE
      BY <1>1, <1>2 DEF DType
    <3>2. ASSUME demuxPc = "head"
          PROVE  headTxt \in {<<>>, <<Reader!Tok("head", asked)>>}
                 /\ HeadAhead(Line', headTxt, asked, FALSE)
      BY <1>3, <1>5, <2>2, <2>3, <3>1, <3>2, HeadInto DEF Ahead
    <3>3. ASSUME demuxPc = "body"
          PROVE  headTxt = <<Reader!Tok("head", asked)>> /\ BodyAhead(Line', asked, FALSE)
      BY <1>3, <1>5, <2>2, <2>3, <3>1, <3>3, BodyInto DEF Ahead
    <3>4. ASSUME demuxPc \in {"idle", "recv", "scan"} PROVE NoText(Line')
      BY <1>3, <1>5, <2>2, <3>4, NoTextInto DEF Ahead
    <3> QED
      BY <1>1, <3>1, <3>2, <3>3, <3>4 DEF Ahead
  <2>9. HandedFirst' /\ reply' \in {Reader!None, Reader!Reply(asked')}
    BY <1>1, <2>2 DEF HandedFirst
  <2> QED
    BY <2>7, <2>8, <2>9
<1> QED
  BY <1>6, <1>7 DEF DInv

LEMMA SendAnswerStep == DInv /\ Reader!SendAnswer => DInv'
<1> SUFFICES ASSUME DInv, Reader!SendAnswer PROVE DInv'
  OBVIOUS
<1>1. UNCHANGED <<demuxPc, buf, leftover, headTxt, reply, asked, handed, frames, closed, split>>
  BY DEF Reader!SendAnswer, Reader!client
<1>2. DType
  BY DEF DInv
<1>3. /\ wire' \in Seq(Token) /\ todo' \in Seq(Token)
      /\ \A i \in 1 .. Len(todo') : Text(todo'[i])
      /\ Front \o wire' \o todo' = Front \o wire \o todo /\ ~closed
  BY <1>2, AnswerIs, LineType
<1>4. Front' = Front
  BY <1>1 DEF Front
<1>5. Line' = Line
  BY <1>3, <1>4 DEF Line
<1>6. DType'
  BY <1>1, <1>2, <1>3 DEF DType
<1>7. ASSUME ~split'
      PROVE  HandedFirst' /\ InOrder' /\ Ahead' /\ reply' \in {Reader!None, Reader!Reply(asked')}
  <2>1. HandedFirst /\ InOrder /\ Ahead /\ reply \in {Reader!None, Reader!Reply(asked)}
    BY <1>1, <1>7 DEF DInv
  <2>2. HandedFirst' /\ InOrder'
    BY <1>1, <1>5, <2>1, LineKept
  <2>3. Ahead'
    BY <1>1, <1>5, <2>1 DEF Ahead
  <2> QED
    BY <1>1, <2>1, <2>2, <2>3
<1> QED
  BY <1>6, <1>7 DEF DInv

LEMMA CloseStep == DInv /\ Reader!CloseConnection => DInv'
<1> SUFFICES ASSUME DInv, Reader!CloseConnection PROVE DInv'
  OBVIOUS
<1>1. /\ closed' = TRUE /\ todo' = <<>>
      /\ UNCHANGED <<demuxPc, buf, leftover, headTxt, reply, asked, handed, wire, frames, split>>
  BY DEF Reader!CloseConnection, Reader!client
<1>2. DType
  BY DEF DInv
<1>3. /\ Front \in Seq(Token) /\ wire \in Seq(Token) /\ todo \in Seq(Token)
      /\ \A i \in 1 .. Len(todo) : Text(todo[i])
      /\ frames \in Nat /\ Line \in Seq(Token) /\ closed \in BOOLEAN /\ handed \in Seq(Nat)
  BY <1>2, LineType DEF DType
<1>4. Front' = Front
  BY <1>1 DEF Front
<1>5. Line' = (Front \o wire) \o <<>>
  BY <1>1, <1>4 DEF Line
<1>6. Cut(Line, Line')
  <2> DEFINE x == Front \o wire
  <2>1. x \in Seq(Token) /\ Len(x) = Len(Front) + Len(wire)
    BY <1>3, JoinIs
  <2>2. Line' = x
    BY <1>5, <2>1, ConcatEmptySeq
  <2>3. PICK l \in Nat, m \in Nat : l = Len(x) /\ m = Len(todo)
    BY <1>3, <2>1
  <2>4. /\ Len(Line) = l + m
        /\ \A i \in 1 .. l : Line[i] = x[i]
        /\ \A i \in l + 1 .. l + m : Line[i] = todo[i - l]
    BY <1>3, <2>1, <2>3, JoinIs DEF Line
  <2> HIDE DEF x
  <2>5. ASSUME NEW i \in l + 1 .. l + m PROVE Text(Line[i])
    <3>1. i - l \in 1 .. Len(todo)
      BY <2>3
    <3> QED
      BY <1>3, <2>4, <3>1
  <2> QED
    BY <2>1, <2>2, <2>3, <2>4, <2>5 DEF Cut
<1>7. DType'
  <2>1. <<>> \in Seq(Token) /\ Len(<<>>) = 0 /\ TRUE \in BOOLEAN
    OBVIOUS
  <2>2. \A i \in 1 .. Len(todo') : Text(todo'[i])
    BY <1>1, <2>1
  <2> QED
    BY <1>1, <1>2, <2>1, <2>2 DEF DType
<1>8. ASSUME ~split'
      PROVE  HandedFirst' /\ InOrder' /\ Ahead' /\ reply' \in {Reader!None, Reader!Reply(asked')}
  <2>1. HandedFirst /\ InOrder /\ Ahead /\ reply \in {Reader!None, Reader!Reply(asked)}
    BY <1>1, <1>8 DEF DInv
  <2>2. Len(handed) + 1 \in Nat
    BY <1>3
  <2>3. InOrder'
    BY <1>1, <1>3, <1>6, <2>1, <2>2, CutKeeps DEF InOrder
  <2>4. Ahead'
    <3>0. Line \in Seq(Token) /\ closed \in BOOLEAN /\ Cut(Line, Line')
      BY <1>3, <1>6
    <3>1. ASSUME demuxPc = "head"
          PROVE  headTxt \in {<<>>, <<Reader!Tok("head", asked)>>}
                 /\ HeadAhead(Line', headTxt, asked, TRUE)
      <4>1. headTxt \in {<<>>, <<Reader!Tok("head", asked)>>}
            /\ HeadAhead(Line, headTxt, asked, closed)
        BY <2>1, <3>1 DEF Ahead
      <4> QED
        BY <3>0, <4>1, CutAhead
    <3>2. ASSUME demuxPc = "body"
          PROVE  headTxt = <<Reader!Tok("head", asked)>> /\ BodyAhead(Line', asked, TRUE)
      <4>1. headTxt = <<Reader!Tok("head", asked)>> /\ BodyAhead(Line, asked, closed)
        BY <2>1, <3>2 DEF Ahead
      <4> QED
        BY <3>0, <4>1, CutAhead
    <3>3. ASSUME demuxPc \in {"idle", "recv", "scan"} PROVE NoText(Line')
      <4>1. NoText(Line)
        BY <2>1, <3>3 DEF Ahead
      <4> QED
        BY <3>0, <4>1, CutAhead
    <3> QED
      BY <1>1, <3>1, <3>2, <3>3 DEF Ahead
  <2>5. HandedFirst' /\ reply' \in {Reader!None, Reader!Reply(asked')}
    BY <1>1, <2>1 DEF HandedFirst
  <2> QED
    BY <2>3, <2>4, <2>5
<1> QED
  BY <1>7, <1>8 DEF DInv

--------------------------------------------------------------------------------
LEMMA NoTextFrom ==
  ASSUME NEW s \in Seq(Token), NEW d \in 0 .. Len(s), NoText(s), NEW v, Same(s, v, d)
  PROVE  NoText(v)
<1> SUFFICES ASSUME NEW i \in 1 .. Len(v) PROVE ~Text(v[i])
  BY DEF NoText
<1>1. PICK p \in 1 .. Len(s) : p = i + d
  BY DEF Same
<1>2. v[i] = s[p]
  BY <1>1 DEF Same
<1> QED
  BY <1>1, <1>2 DEF NoText

(* What begins the buffer begins the line.                                        *)
LEMMA FrontIs ==
  ASSUME DType, demuxPc # "idle"
  PROVE  /\ Front = buf /\ leftover = <<>> /\ buf \in Seq(Token) /\ Line \in Seq(Token)
         /\ Len(Line) = Len(buf) + Len(wire) + Len(todo)
         /\ \A i \in 1 .. Len(buf) : i \in 1 .. Len(Line) /\ Line[i] = buf[i]
<1>1. Front = buf /\ leftover = <<>>
  BY DEF DType, Front
<1>2. buf \in Seq(Token) /\ wire \in Seq(Token) /\ todo \in Seq(Token)
  BY DEF DType
<1>3. /\ Line \in Seq(Token) /\ Len(Line) = Len(buf) + Len(wire) + Len(todo)
      /\ \A i \in 1 .. Len(buf) : Line[i] = buf[i]
  BY <1>1, <1>2, LineIs DEF Line
<1>4. \A i \in 1 .. Len(buf) : i \in 1 .. Len(Line)
  BY <1>2, <1>3
<1> QED
  BY <1>1, <1>2, <1>3, <1>4

(* Nothing of an answer is left to send when no text is on the line.              *)
LEMMA NothingToSend ==
  ASSUME DType, NoText(Line)
  PROVE  todo = <<>> /\ Line = Front \o wire
<1>1. Front \in Seq(Token) /\ wire \in Seq(Token) /\ todo \in Seq(Token)
  BY LineType DEF DType
<1>2. todo = <<>>
  <2> SUFFICES ASSUME todo # <<>> PROVE FALSE
    OBVIOUS
  <2>1. PICK l \in Nat : l = Len(Front) + Len(wire)
    BY <1>1
  <2>2. Len(todo) \in Nat /\ Len(todo) > 0
    BY <1>1
  <2>3. /\ Len(Line) = l + Len(todo)
        /\ \A i \in l + 1 .. l + Len(todo) : Line[i] = todo[i - l]
    BY <1>1, <2>1, LineIs DEF Line
  <2>4. PICK i \in l + 1 .. l + Len(todo) : i = l + 1
    BY <2>2
  <2>5. i \in 1 .. Len(Line) /\ i - l = 1
    BY <2>1, <2>2, <2>3, <2>4
  <2>6. Line[i] = todo[1]
    BY <2>3, <2>5
  <2>7. Text(todo[1])
    BY <2>2 DEF DType
  <2> QED
    BY <2>5, <2>6, <2>7 DEF NoText
<1>3. Front \o wire \in Seq(Token)
  BY <1>1, JoinIs
<1> QED
  BY <1>2, <1>3, ConcatEmptySeq DEF Line

LEMMA AnswerComes ==
  ASSUME NEW n \in Nat
  PROVE  LET x == <<Reader!Tok("head", n), Reader!Tok("end", n)>> \o Reader!BodyOf(n)
         IN /\ x \in Seq(Token) /\ Len(x) = 2 + Body
            /\ x[1] = Reader!Tok("head", n) /\ x[2] = Reader!Tok("end", n)
            /\ \A i \in 3 .. 2 + Body : x[i] = Reader!Tok("body", n)
            /\ \A i \in 1 .. Len(x) : Text(x[i])
<1> DEFINE a == Reader!Tok("head", n)  b == Reader!Tok("end", n)  u == Reader!Tok("body", n)
           h == <<a, b>>  y == Reader!BodyOf(n)  x == h \o y
<1>1. a \in Token /\ b \in Token /\ u \in Token /\ a.t = "head" /\ b.t = "end" /\ u.t = "body"
  BY Tokens, TokIs
<1>2. y = [i \in 1 .. Body |-> u]
  BY DEF Reader!BodyOf
<1> HIDE DEF a, b, u
<1>3. h \in Seq(Token) /\ Len(h) = 2 /\ h[1] = a /\ h[2] = b
  BY <1>1
<1> HIDE DEF y
<1>4. y \in Seq(Token) /\ Len(y) = Body /\ \A i \in 1 .. Body : y[i] = u
  BY <1>1, <1>2, BodyUnits
<1> HIDE DEF h
<1>5. /\ x \in Seq(Token) /\ Len(x) = Len(h) + Len(y)
      /\ \A i \in 1 .. Len(h) : x[i] = h[i]
      /\ \A i \in Len(h) + 1 .. Len(h) + Len(y) : x[i] = y[i - Len(h)]
  <2>1. h \in Seq(Token) /\ y \in Seq(Token)
    BY <1>3, <1>4
  <2> QED
    BY <2>1, JoinIs, Zenon
<1> HIDE DEF x
<1>6. Len(x) = 2 + Body /\ x[1] = a /\ x[2] = b
  BY <1>3, <1>4, <1>5, BodyUnits
<1>7. ASSUME NEW i \in 3 .. 2 + Body PROVE x[i] = u
  <2>1. i \in Len(h) + 1 .. Len(h) + Len(y) /\ i - Len(h) \in 1 .. Body
    BY <1>3, <1>4, BodyUnits
  <2> QED
    BY <1>4, <1>5, <2>1
<1>8. ASSUME NEW i \in 1 .. Len(x) PROVE Text(x[i])
  <2>1. i = 1 \/ i = 2 \/ i \in 3 .. 2 + Body
    BY <1>6, BodyUnits
  <2>2. x[i] = a \/ x[i] = b \/ x[i] = u
    BY <2>1, <1>6, <1>7
  <2> QED
    BY <2>2, <1>1 DEF Text
<1>9. x \in Seq(Token)
  BY <1>5
<1> QED
  BY <1>6, <1>7, <1>8, <1>9 DEF x, h, y, a, b, u

LEMMA SendRequestStep == DInv /\ Reader!SendRequest => DInv'
<1> SUFFICES ASSUME DInv, Reader!SendRequest PROVE DInv'
  OBVIOUS
<1> DEFINE n == asked + 1
           x == <<Reader!Tok("head", n), Reader!Tok("end", n)>> \o Reader!BodyOf(n)
<1>1. /\ demuxPc = "idle" /\ demuxPc' = "head" /\ asked' = n
      /\ buf' = leftover /\ leftover' = <<>> /\ headTxt' = <<>> /\ reply' = Reader!None
      /\ todo' = IF closed THEN <<>> ELSE x
      /\ UNCHANGED <<handed, wire, frames, closed, split>>
  BY DEF Reader!SendRequest
<1>2. DType
  BY DEF DInv
<1>3. /\ leftover \in Seq(Token) /\ wire \in Seq(Token) /\ closed \in BOOLEAN
      /\ asked \in Nat /\ n \in Nat /\ frames \in Nat /\ handed \in Seq(Nat)
      /\ Line \in Seq(Token) /\ Front \in Seq(Token)
  BY <1>2, LineType DEF DType
<1>4. /\ x \in Seq(Token) /\ Len(x) = 2 + Body
      /\ x[1] = Reader!Tok("head", n) /\ x[2] = Reader!Tok("end", n)
      /\ \A i \in 3 .. 2 + Body : x[i] = Reader!Tok("body", n)
      /\ \A i \in 1 .. Len(x) : Text(x[i])
  BY <1>3, AnswerComes
<1> HIDE DEF x, n
<1>5. <<>> \in Seq(Token) /\ Len(<<>>) = 0
  OBVIOUS
<1>6. todo' \in Seq(Token) /\ \A i \in 1 .. Len(todo') : Text(todo'[i])
  BY <1>1, <1>4, <1>5
<1>7. DType'
  BY <1>1, <1>2, <1>3, <1>5, <1>6 DEF DType, DemuxPC
<1>8. Front' = Front
  BY <1>1 DEF Front
<1>9. ASSUME ~split'
      PROVE  HandedFirst' /\ InOrder' /\ Ahead' /\ reply' \in {Reader!None, Reader!Reply(asked')}
  <2>1. HandedFirst /\ InOrder /\ NoText(Line)
    BY <1>1, <1>9 DEF DInv, Ahead
  <2>2. todo = <<>> /\ Line = Front \o wire
    BY <1>2, <2>1, NothingToSend
  <2>3. CASE closed
    <3>1. Line' = Line
      BY <1>1, <1>8, <2>2, <2>3 DEF Line
    <3>2. InOrder' /\ HandedFirst'
      BY <1>1, <2>1, <3>1, LineKept
    <3>3. HeadAhead(Line, <<>>, n, TRUE)
      BY <1>3, <2>1, NothingComes
    <3>4. Ahead'
      BY <1>1, <2>3, <3>1, <3>3 DEF Ahead
    <3> QED
      BY <1>1, <3>2, <3>4
  <2>4. CASE ~closed
    <3>1. Line' = Line \o x
      BY <1>1, <1>8, <2>2, <2>4 DEF Line
    <3>2. Asks(Line, Line', n)
      <4>1. PICK l \in Nat : l = Len(Line)
        BY <1>3
      <4>2. /\ Line' \in Seq(Token) /\ Len(Line') = Len(Line) + Len(x)
            /\ \A i \in 1 .. Len(Line) : Line'[i] = Line[i]
            /\ \A i \in Len(Line) + 1 .. Len(Line) + Len(x) : Line'[i] = x[i - Len(Line)]
        BY <1>3, <1>4, <3>1, JoinIs
      <4>3. \A i \in l + 1 .. l + 2 + Body : Line'[i] = x[i - l]
        BY <1>4, <4>1, <4>2, BodyUnits
      <4>4. /\ l + 1 \in l + 1 .. l + 2 + Body /\ l + 2 \in l + 1 .. l + 2 + Body
            /\ (l + 1) - l = 1 /\ (l + 2) - l = 2
        BY BodyUnits
      <4>5. Line'[l + 1] = x[1] /\ Line'[l + 2] = x[2]
        BY <4>3, <4>4
      <4>6. ASSUME NEW i \in l + 3 .. l + 2 + Body PROVE Line'[i] = Reader!Tok("body", n)
        <5>1. i \in l + 1 .. l + 2 + Body /\ i - l \in 3 .. 2 + Body
          BY BodyUnits
        <5> QED
          BY <1>4, <4>3, <5>1
      <4>7. Len(Line') = Len(Line) + 2 + Body
        <5>1. Len(Line') = Len(Line) + Len(x)
          BY <4>2
        <5>2. Len(x) = 2 + Body
          BY <1>4
        <5> QED
          BY <4>1, <5>1, <5>2, BodyUnits
      <4> QED
        BY <1>4, <4>1, <4>2, <4>5, <4>6, <4>7 DEF Asks
    <3>3. Len(handed) + 1 \in Nat /\ Paired(Line) /\ Numbered(Line, Len(handed) + 1, frames)
          /\ Len(handed) <= frames
      BY <1>3, <2>1 DEF InOrder
    <3>4. /\ Paired(Line') /\ Numbered(Line', Len(handed) + 1, frames)
          /\ HeadAhead(Line', <<>>, n, FALSE)
      BY <1>3, <2>1, <3>2, <3>3, AskOpens
    <3>5. InOrder' /\ HandedFirst'
      BY <1>1, <2>1, <3>3, <3>4 DEF InOrder, HandedFirst
    <3>6. closed' = FALSE
      BY <1>1, <1>3, <2>4
    <3>7. Ahead'
      BY <1>1, <3>4, <3>6 DEF Ahead
    <3> QED
      BY <1>1, <3>5, <3>7
  <2> QED
    BY <2>3, <2>4
<1> QED
  BY <1>7, <1>9 DEF DInv

(* A step that only moves the line.                                               *)
LEMMA ReadStep ==
  ASSUME DInv, demuxPc # "idle", Reader!Receive, demuxPc' \in DemuxPC, demuxPc' # "idle",
         (demuxPc \in {"recv", "scan"} /\ demuxPc' \in {"recv", "scan"}) \/ demuxPc' = demuxPc
  PROVE  DInv'
<1>1. DType
  BY DEF DInv
<1>2. /\ buf' \in Seq(Token) /\ wire' \in Seq(Token)
      /\ buf' \o wire' \o todo' = buf \o wire \o todo
      /\ UNCHANGED <<leftover, headTxt, reply, asked, handed, todo, frames, closed, split>>
  BY <1>1, ReceiveIs
<1>3. Line' = Line
  BY <1>2 DEF Line, Front
<1>4. DType'
  BY <1>1, <1>2 DEF DType
<1>5. ASSUME ~split'
      PROVE  HandedFirst' /\ InOrder' /\ Ahead' /\ reply' \in {Reader!None, Reader!Reply(asked')}
  <2>1. HandedFirst /\ InOrder /\ Ahead /\ reply \in {Reader!None, Reader!Reply(asked)}
    BY <1>2, <1>5 DEF DInv
  <2>2. HandedFirst' /\ InOrder'
    BY <1>2, <1>3, <2>1, LineKept
  <2>3. Ahead'
    <3>1. CASE demuxPc' = demuxPc
      BY <1>2, <1>3, <2>1, <3>1 DEF Ahead
    <3>2. CASE demuxPc \in {"recv", "scan"} /\ demuxPc' \in {"recv", "scan"}
      BY <1>3, <2>1, <3>2 DEF Ahead
    <3> QED
      BY <3>1, <3>2
  <2> QED
    BY <1>2, <2>1, <2>2, <2>3
<1> QED
  BY <1>4, <1>5 DEF DInv

LEMMA RaiseStep == DInv /\ demuxPc # "idle" /\ Reader!Raise => DInv'
<1> SUFFICES ASSUME DInv, demuxPc # "idle", Reader!Raise PROVE DInv'
  OBVIOUS
<1>1. /\ demuxPc' = "raised"
      /\ UNCHANGED <<buf, leftover, headTxt, reply, asked, handed, wire, todo, frames, closed,
                     split>>
  BY DEF Reader!Raise, Reader!server
<1>2. DType
  BY DEF DInv
<1>3. Line' = Line
  BY <1>1 DEF Line, Front
<1>4. DType'
  BY <1>1, <1>2 DEF DType, DemuxPC
<1>5. ASSUME ~split'
      PROVE  HandedFirst' /\ InOrder' /\ Ahead' /\ reply' \in {Reader!None, Reader!Reply(asked')}
  <2>1. HandedFirst /\ InOrder /\ reply \in {Reader!None, Reader!Reply(asked)}
    BY <1>1, <1>5 DEF DInv
  <2>2. HandedFirst' /\ InOrder'
    BY <1>1, <1>3, <2>1, LineKept
  <2>3. Ahead'
    BY <1>1 DEF Ahead
  <2> QED
    BY <1>1, <2>1, <2>2, <2>3
<1> QED
  BY <1>4, <1>5 DEF DInv

LEMMA HeadRecvStep == DInv /\ Reader!HeadRecv => DInv'
<1> SUFFICES ASSUME DInv, Reader!HeadRecv PROVE DInv'
  OBVIOUS
<1>1. demuxPc = "head" /\ Reader!Short
  BY DEF Reader!HeadRecv
<1>2. DType
  BY DEF DInv
<1>3. CASE Reader!Receive /\ demuxPc' = demuxPc
  BY <1>1, <1>3, ReadStep DEF DemuxPC
<1>4. CASE Reader!Raise
  BY <1>1, <1>4, RaiseStep
<1>5. CASE /\ wire = <<>> /\ closed /\ demuxPc' = "idle" /\ buf' = <<>>
           /\ UNCHANGED <<leftover, headTxt, reply, asked, handed, Reader!server>>
  <2>1. UNCHANGED <<leftover, headTxt, reply, asked, handed, wire, todo, frames, closed, split>>
    BY <1>5 DEF Reader!server
  <2>2. /\ wire = <<>> /\ todo = <<>> /\ Len(<<>>) = 0
    BY <1>2, <1>5 DEF DType
  <2>3. DType'
    <3>1. <<>> \in Seq(Token)
      OBVIOUS
    <3> QED
      BY <1>2, <1>5, <2>1, <3>1 DEF DType, DemuxPC
  <2>4. ASSUME ~split'
        PROVE  HandedFirst' /\ InOrder' /\ Ahead'
               /\ reply' \in {Reader!None, Reader!Reply(asked')}
    <3>1. HandedFirst /\ InOrder /\ reply \in {Reader!None, Reader!Reply(asked)}
      BY <2>1, <2>4 DEF DInv
    <3>2. /\ buf \in Seq(Token) /\ leftover = <<>> /\ Front = buf
          /\ Len(Line) = Len(buf) + Len(wire) + Len(todo)
          /\ \A i \in 1 .. Len(buf) : Line[i] = buf[i]
      BY <1>1, <1>2, FrontIs
    <3>3. Len(buf) \in Nat /\ Len(Line) = Len(buf)
      BY <2>2, <3>2
    <3>4. buf = <<>>
      <4> SUFFICES ASSUME buf # <<>> PROVE FALSE
        OBVIOUS
      <4>1. buf[1].t = "$" /\ Len(buf) = 1
        BY <1>1 DEF Reader!Short, Reader!Is
      <4>0. \A i \in 1 .. Len(buf) : Line[i] = buf[i]
        BY <3>2
      <4>2. 1 \in 1 .. Len(Line) /\ Line[1] = buf[1] /\ Len(Line) = 1
        BY <3>3, <4>0, <4>1
      <4>3. 1 < Len(Line)
        BY <3>1, <4>1, <4>2 DEF InOrder, Paired
      <4> QED
        BY <4>2, <4>3
    <3>5. Line' = Line
      BY <1>5, <2>1, <2>2, <3>2, <3>4 DEF Line, Front
    <3>6. HandedFirst' /\ InOrder'
      BY <2>1, <3>1, <3>5, LineKept
    <3>7. NoText(Line)
      BY <3>3, <3>4, <2>2 DEF NoText
    <3>8. Ahead'
      BY <1>5, <3>5, <3>7 DEF Ahead
    <3> QED
      BY <2>1, <3>1, <3>6, <3>8
  <2> QED
    BY <2>3, <2>4 DEF DInv
<1> QED
  BY <1>3, <1>4, <1>5 DEF Reader!HeadRecv

(* The frame in front is the next one.                                            *)
LEMMA FrameTaken ==
  ASSUME DType, demuxPc # "idle", demuxPc' \in DemuxPC, demuxPc' # "idle",
         Reader!Is(buf, "$"), ~Reader!Short,
         handed' = Append(handed, buf[1].n), buf' = Reader!From(buf, 3),
         UNCHANGED <<leftover, headTxt, reply, asked, wire, todo, frames, closed, split>>
  PROVE  /\ DType'
         /\ HandedFirst /\ InOrder =>
              /\ HandedFirst' /\ InOrder' /\ 2 \in 0 .. Len(Line) /\ Same(Line, Line', 2)
              /\ \A i \in 1 .. 2 : ~Text(Line[i])
<1>1. /\ Front = buf /\ leftover = <<>> /\ buf \in Seq(Token) /\ Line \in Seq(Token)
      /\ Len(Line) = Len(buf) + Len(wire) + Len(todo)
      /\ \A i \in 1 .. Len(buf) : i \in 1 .. Len(Line) /\ Line[i] = buf[i]
  BY FrontIs
<1>2. buf # <<>> /\ buf[1].t = "$" /\ Len(buf) # 1
  BY DEF Reader!Is, Reader!Short
<1>3. Len(buf) \in Nat /\ Len(buf) >= 2 /\ 2 \in 0 .. Len(buf) /\ 3 \in 1 .. Len(buf) + 1
  <2>1. PICK l \in Nat : l = Len(buf)
    BY <1>1
  <2>2. l # 0 /\ l # 1
    BY <1>1, <1>2, <2>1
  <2> QED
    BY <2>1, <2>2
<1>4. buf' \in Seq(Token)
  BY <1>1, <1>3, FromIs
<1>5. handed \in Seq(Nat) /\ frames \in Nat /\ wire \in Seq(Token) /\ todo \in Seq(Token)
  BY DEF DType
<1>6. buf[1].n \in Nat
  <2>1. buf[1] \in Token
    BY <1>1, <1>3
  <2> QED
    BY <2>1 DEF Token
<1> DEFINE k == buf[1].n
<1> HIDE DEF k
<1>7. /\ handed' \in Seq(Nat) /\ Len(handed') = Len(handed) + 1 /\ Len(handed) \in Nat
      /\ \A i \in 1 .. Len(handed) : handed'[i] = handed[i]
      /\ handed'[Len(handed) + 1] = k
  <2>1. handed' = Append(handed, k) /\ k \in Nat
    BY <1>6 DEF k
  <2> QED
    BY <1>5, <2>1
<1>8. DType'
  BY <1>4, <1>7 DEF DType
<1>9. ASSUME HandedFirst, InOrder
      PROVE  /\ HandedFirst' /\ InOrder' /\ 2 \in 0 .. Len(Line) /\ Same(Line, Line', 2)
             /\ \A i \in 1 .. 2 : ~Text(Line[i])
  <2>1. Line' = Reader!From(buf, 2 + 1) \o wire \o todo
    BY DEF Line, Front
  <2>2. Same(Line, Line', 2)
    BY <1>1, <1>3, <1>5, <2>1, SameFrom DEF Line
  <2>3. Len(Line) \in Nat /\ Len(Line) >= 2 /\ 1 \in 1 .. Len(Line) /\ 2 \in 1 .. Len(Line)
    BY <1>1, <1>3, <1>5
  <2>4. Line[1].t = "$" /\ Line[1].n = k
    <3>1. \A i \in 1 .. Len(buf) : Line[i] = buf[i]
      BY <1>1
    <3>2. 1 \in 1 .. Len(buf)
      BY <1>3
    <3> QED
      BY <1>2, <3>1, <3>2 DEF k
  <2>5. /\ Paired(Line) /\ Numbered(Line, Len(handed) + 1, frames) /\ Len(handed) <= frames
        /\ Len(handed) + 1 \in Nat
    BY <1>7, <1>9 DEF InOrder
  <2>6. /\ Line[1].n = Len(handed) + 1 /\ Numbered(Line', Len(handed) + 1 + 1, frames)
        /\ Paired(Line')
    <3>1. Len(Line) > 0
      BY <2>3
    <3> QED
      BY <1>1, <1>5, <2>2, <2>4, <2>5, <3>1, FirstNumber
  <2>7. Line[1].n \in Len(handed) + 1 .. frames
    BY <2>3, <2>4, <2>5 DEF Numbered
  <2>8. InOrder'
    <3>1. Len(handed') + 1 = Len(handed) + 1 + 1 /\ Len(handed') <= frames
      BY <1>5, <1>7, <2>6, <2>7
    <3> QED
      BY <2>6, <3>1 DEF InOrder
  <2>9. HandedFirst'
    <3>1. ASSUME NEW i \in 1 .. Len(handed') PROVE handed'[i] = i
      <4>1. CASE i \in 1 .. Len(handed)
        <5>1. handed[i] = i
          BY <1>9, <4>1 DEF HandedFirst
        <5> QED
          BY <1>7, <4>1, <5>1
      <4>2. CASE i = Len(handed) + 1
        <5>1. k = Len(handed) + 1
          BY <2>4, <2>6
        <5>2. handed'[Len(handed) + 1] = k
          BY <1>7
        <5> QED
          BY <4>2, <5>1, <5>2
      <4> QED
        BY <1>7, <4>1, <4>2
    <3>2. handed' = [i \in 1 .. Len(handed') |-> handed'[i]]
      BY <1>7
    <3> QED
      BY <3>1, <3>2 DEF HandedFirst
  <2>10. ~Text(Line[1]) /\ ~Text(Line[2])
    <3>1. Line[2].t = "pay"
      <4>1. Line[1 + 1].t = "pay"
        BY <2>3, <2>4, <2>5 DEF Paired
      <4> QED
        BY <4>1
    <3> QED
      BY <2>4, <3>1 DEF Text
  <2>11. \A i \in 1 .. 2 : ~Text(Line[i])
    <3>1. \A i \in 1 .. 2 : i = 1 \/ i = 2
      OBVIOUS
    <3> QED
      BY <2>10, <3>1
  <2>12. 2 \in 0 .. Len(Line)
    BY <2>3
  <2> QED
    BY <2>2, <2>8, <2>9, <2>11, <2>12
<1> QED
  BY <1>8, <1>9

LEMMA HeadFrameStep == DInv /\ Reader!HeadFrame => DInv'
<1> SUFFICES ASSUME DInv, Reader!HeadFrame PROVE DInv'
  OBVIOUS
<1>1. /\ demuxPc = "head" /\ Reader!Is(buf, "$") /\ ~Reader!Short
      /\ handed' = Append(handed, buf[1].n) /\ buf' = Reader!From(buf, 3) /\ demuxPc' = "head"
      /\ UNCHANGED <<leftover, headTxt, reply, asked, wire, todo, frames, closed, split>>
  BY DEF Reader!HeadFrame, Reader!server
<1>2. DType
  BY DEF DInv
<1>3. demuxPc # "idle" /\ demuxPc' \in DemuxPC /\ demuxPc' # "idle"
  BY <1>1 DEF DemuxPC
<1>4. /\ DType'
      /\ HandedFirst /\ InOrder =>
           /\ HandedFirst' /\ InOrder' /\ 2 \in 0 .. Len(Line) /\ Same(Line, Line', 2)
           /\ \A i \in 1 .. 2 : ~Text(Line[i])
  BY <1>1, <1>2, <1>3, FrameTaken
<1>5. ASSUME ~split'
      PROVE  HandedFirst' /\ InOrder' /\ Ahead' /\ reply' \in {Reader!None, Reader!Reply(asked')}
  <2>1. HandedFirst /\ InOrder /\ Ahead /\ reply \in {Reader!None, Reader!Reply(asked)}
    BY <1>1, <1>5 DEF DInv
  <2>2. Line \in Seq(Token) /\ closed \in BOOLEAN
    BY <1>2, LineType DEF DType
  <2>3. headTxt \in {<<>>, <<Reader!Tok("head", asked)>>} /\ HeadAhead(Line, headTxt, asked, closed)
    BY <1>1, <2>1 DEF Ahead
  <2>4. HeadAhead(Line', headTxt, asked, closed)
    BY <1>4, <2>1, <2>2, <2>3, HeadFrom
  <2>5. Ahead'
    BY <1>1, <2>3, <2>4 DEF Ahead
  <2> QED
    BY <1>1, <1>4, <2>1, <2>5
<1> QED
  BY <1>4, <1>5 DEF DInv

LEMMA BodyRecvStep == DInv /\ Reader!BodyRecv => DInv'
<1> SUFFICES ASSUME DInv, Reader!BodyRecv PROVE DInv'
  OBVIOUS
<1>1. demuxPc = "body" /\ ((Reader!Receive /\ demuxPc' = demuxPc) \/ Reader!Raise)
  BY DEF Reader!BodyRecv
<1>2. CASE Reader!Receive /\ demuxPc' = demuxPc
  BY <1>1, <1>2, ReadStep DEF DemuxPC
<1>3. CASE Reader!Raise
  BY <1>1, <1>3, RaiseStep
<1> QED
  BY <1>1, <1>2, <1>3

LEMMA PacketsRecvStep == DInv /\ Reader!PacketsRecv => DInv'
<1> SUFFICES ASSUME DInv, Reader!PacketsRecv PROVE DInv'
  OBVIOUS
<1>1. demuxPc = "recv" /\ Reader!Receive /\ demuxPc' = "scan"
  BY DEF Reader!PacketsRecv
<1> QED
  BY <1>1, ReadStep DEF DemuxPC

(* What one call leaves the other takes up.                                       *)
LEMMA HandOverStep ==
  ASSUME DInv,
         Reader!StartPackets \/ Reader!PacketsEnd
  PROVE  DInv'
<1>1. /\ \/ demuxPc = "idle" /\ demuxPc' = "recv" /\ buf' = leftover /\ leftover' = <<>>
         \/ demuxPc = "recv" /\ demuxPc' = "idle" /\ leftover' = buf /\ buf' = <<>>
      /\ UNCHANGED <<headTxt, reply, asked, handed, wire, todo, frames, closed, split>>
  BY DEF Reader!StartPackets, Reader!PacketsEnd, Reader!server
<1>2. DType
  BY DEF DInv
<1>3. Line' = Line
  BY <1>1 DEF Line, Front
<1>4. DType'
  <2>1. <<>> \in Seq(Token)
    OBVIOUS
  <2> QED
    BY <1>1, <1>2, <2>1 DEF DType, DemuxPC
<1>5. ASSUME ~split'
      PROVE  HandedFirst' /\ InOrder' /\ Ahead' /\ reply' \in {Reader!None, Reader!Reply(asked')}
  <2>1. HandedFirst /\ InOrder /\ Ahead /\ reply \in {Reader!None, Reader!Reply(asked)}
    BY <1>1, <1>5 DEF DInv
  <2>2. HandedFirst' /\ InOrder'
    BY <1>1, <1>3, <2>1, LineKept
  <2>3. Ahead'
    BY <1>1, <1>3, <2>1 DEF Ahead
  <2> QED
    BY <1>1, <2>1, <2>2, <2>3
<1> QED
  BY <1>4, <1>5 DEF DInv

LEMMA ScanStep == DInv /\ Reader!Scan => DInv'
<1> SUFFICES ASSUME DInv, Reader!Scan PROVE DInv'
  OBVIOUS
<1>1. demuxPc = "scan" /\ DType
  BY DEF DInv, Reader!Scan
<1>2. UNCHANGED <<leftover, headTxt, reply, asked, wire, todo, frames, closed, split>>
  BY DEF Reader!Scan, Reader!server
<1>3. CASE Reader!Short
  <2>1. demuxPc' = "recv" /\ UNCHANGED <<buf, handed>>
    BY <1>3 DEF Reader!Scan
  <2>2. Line' = Line
    BY <1>1, <1>2, <2>1 DEF Line, Front
  <2>3. DType'
    BY <1>1, <1>2, <2>1 DEF DType, DemuxPC
  <2>4. ASSUME ~split'
        PROVE  HandedFirst' /\ InOrder' /\ Ahead'
               /\ reply' \in {Reader!None, Reader!Reply(asked')}
    <3>1. HandedFirst /\ InOrder /\ Ahead /\ reply \in {Reader!None, Reader!Reply(asked)}
      BY <1>2, <2>4 DEF DInv
    <3>2. HandedFirst' /\ InOrder'
      BY <1>2, <2>1, <2>2, <3>1, LineKept
    <3>3. Ahead'
      BY <1>1, <2>1, <2>2, <3>1 DEF Ahead
    <3> QED
      BY <1>2, <3>1, <3>2, <3>3
  <2> QED
    BY <2>3, <2>4 DEF DInv
<1>4. CASE ~Reader!Short /\ Reader!Is(buf, "$")
  <2>1. /\ handed' = Append(handed, buf[1].n) /\ buf' = Reader!From(buf, 3) /\ demuxPc' = "scan"
    BY <1>1, <1>4 DEF Reader!Scan
  <2>2. demuxPc # "idle" /\ demuxPc' \in DemuxPC /\ demuxPc' # "idle"
    BY <1>1, <2>1 DEF DemuxPC
  <2>3. /\ DType'
        /\ HandedFirst /\ InOrder =>
             /\ HandedFirst' /\ InOrder' /\ 2 \in 0 .. Len(Line) /\ Same(Line, Line', 2)
             /\ \A i \in 1 .. 2 : ~Text(Line[i])
    BY <1>1, <1>2, <1>4, <2>1, <2>2, FrameTaken
  <2>4. ASSUME ~split'
        PROVE  HandedFirst' /\ InOrder' /\ Ahead'
               /\ reply' \in {Reader!None, Reader!Reply(asked')}
    <3>1. HandedFirst /\ InOrder /\ NoText(Line) /\ reply \in {Reader!None, Reader!Reply(asked)}
      BY <1>1, <1>2, <2>4 DEF DInv, Ahead
    <3>2. Line \in Seq(Token)
      BY <1>1, LineType
    <3>3. NoText(Line')
      BY <2>3, <3>1, <3>2, NoTextFrom
    <3>4. Ahead'
      BY <2>1, <3>3 DEF Ahead
    <3> QED
      BY <1>2, <2>3, <3>1, <3>4
  <2> QED
    BY <2>3, <2>4 DEF DInv
<1>5. CASE ~Reader!Short /\ ~Reader!Is(buf, "$")
  <2>1. handed' = handed /\ buf' = Reader!From(buf, 2) /\ demuxPc' = "scan"
    BY <1>1, <1>5 DEF Reader!Scan
  <2>2. /\ buf \in Seq(Token) /\ Line \in Seq(Token) /\ buf # <<>>
        /\ Len(Line) = Len(buf) + Len(wire) + Len(todo)
        /\ \A i \in 1 .. Len(buf) : i \in 1 .. Len(Line) /\ Line[i] = buf[i]
    BY <1>1, <1>5, FrontIs DEF Reader!Short
  <2>3. Len(buf) \in Nat /\ 1 \in 1 .. Len(buf) /\ 2 \in 1 .. Len(buf) + 1
    BY <2>2
  <2>4. buf' \in Seq(Token)
    BY <2>1, <2>2, <2>3, FromIs
  <2>5. DType'
    BY <1>1, <1>2, <2>1, <2>4 DEF DType, DemuxPC
  <2>6. split'
    <3> SUFFICES ASSUME ~split' PROVE FALSE
      OBVIOUS
    <3>1. InOrder /\ NoText(Line)
      BY <1>1, <1>2 DEF DInv, Ahead
    <3>2. 1 \in 1 .. Len(Line) /\ Line[1] = buf[1]
      BY <2>2, <2>3
    <3>3. Line[1] \in Token /\ ~Text(Line[1]) /\ Line[1].t # "$"
      BY <1>5, <2>2, <3>1, <3>2 DEF NoText, Reader!Is
    <3>4. Line[1].t = "pay"
      BY <3>3 DEF Token, Text
    <3>5. 1 > 1
      BY <3>1, <3>2, <3>4 DEF InOrder, Paired
    <3> QED
      BY <3>5
  <2> QED
    BY <2>5, <2>6 DEF DInv
<1> QED
  BY <1>3, <1>4, <1>5

LEMMA BodyDoneStep == DInv /\ Reader!BodyDone => DInv'
<1> SUFFICES ASSUME DInv, Reader!BodyDone PROVE DInv'
  OBVIOUS
<1>1. /\ demuxPc = "body" /\ Len(buf) >= Body /\ demuxPc' = "idle"
      /\ reply' = [head |-> headTxt, body |-> SubSeq(buf, 1, Body)]
      /\ leftover' = Reader!From(buf, Body + 1) /\ buf' = <<>>
      /\ UNCHANGED <<headTxt, asked, handed, wire, todo, frames, closed, split>>
  BY DEF Reader!BodyDone, Reader!server
<1>2. DType /\ demuxPc # "idle"
  BY <1>1 DEF DInv
<1>3. /\ Front = buf /\ buf \in Seq(Token) /\ Line \in Seq(Token)
      /\ Len(Line) = Len(buf) + Len(wire) + Len(todo)
      /\ \A i \in 1 .. Len(buf) : i \in 1 .. Len(Line) /\ Line[i] = buf[i]
  BY <1>2, FrontIs
<1>4. /\ wire \in Seq(Token) /\ todo \in Seq(Token) /\ handed \in Seq(Nat) /\ frames \in Nat
      /\ asked \in Nat /\ closed \in BOOLEAN
  BY <1>2 DEF DType
<1>5. /\ Body \in 0 .. Len(buf) /\ Body + 1 \in 1 .. Len(buf) + 1 /\ Body <= Len(Line)
      /\ Body \in 0 .. Len(Line)
  <2>1. PICK l \in Nat, w \in Nat, u \in Nat : l = Len(buf) /\ w = Len(wire) /\ u = Len(todo)
    BY <1>3, <1>4
  <2>2. Len(Line) = l + w + u /\ l >= Body
    BY <1>1, <1>3, <2>1
  <2> QED
    BY <2>1, <2>2, BodyUnits
<1>6. leftover' \in Seq(Token)
  BY <1>1, <1>3, <1>5, FromIs
<1>7. DType'
  <2>1. <<>> \in Seq(Token)
    OBVIOUS
  <2> QED
    BY <1>1, <1>2, <1>6, <2>1 DEF DType, DemuxPC
<1>8. ASSUME ~split'
      PROVE  HandedFirst' /\ InOrder' /\ Ahead' /\ reply' \in {Reader!None, Reader!Reply(asked')}
  <2>1. HandedFirst /\ InOrder /\ headTxt = <<Reader!Tok("head", asked)>>
        /\ BodyAhead(Line, asked, closed)
    BY <1>1, <1>8 DEF DInv, Ahead
  <2>2. Line' = Reader!From(buf, Body + 1) \o wire \o todo
    BY <1>1 DEF Line, Front
  <2>3. Same(Line, Line', Body)
    BY <1>3, <1>4, <1>5, <2>2, SameFrom DEF Line
  <2>4. /\ NoText(Line') /\ \A i \in 1 .. Body : Line[i] = Reader!Tok("body", asked)
        /\ Body > 0 => Line[Body].t = "body"
    BY <1>3, <1>4, <1>5, <2>1, <2>3, BodyTaken
  <2>5. \A i \in 1 .. Body : Line[i].t # "$"
    <3>1. Reader!Tok("body", asked).t # "$"
      BY TokIs
    <3> QED
      BY <2>4, <3>1
  <2>6. /\ Paired(Line) /\ Numbered(Line, Len(handed) + 1, frames) /\ Len(handed) <= frames
        /\ Len(handed) + 1 \in Nat
    BY <1>4, <2>1 DEF InOrder
  <2>7. Paired(Line')
    <3>1. Body > 0 => Line[Body].t # "$"
      BY <2>4
    <3> QED
      BY <1>3, <1>5, <2>3, <2>6, <3>1, PairedFrom
  <2>8. Numbered(Line', Len(handed) + 1, frames)
    BY <1>3, <1>4, <1>5, <2>3, <2>5, <2>6, NumberedFrom
  <2>9. HandedFirst' /\ InOrder' /\ Ahead'
    BY <1>1, <2>1, <2>4, <2>6, <2>7, <2>8 DEF HandedFirst, InOrder, Ahead
  <2>10. reply' = Reader!Reply(asked')
    <3> DEFINE a == SubSeq(buf, 1, Body)  b == Reader!BodyOf(asked)  u == Reader!Tok("body", asked)
    <3>1. a \in Seq(Token) /\ Len(a) = Body /\ \A i \in 1 .. Body : a[i] = buf[i]
      BY <1>3, <1>5, CutJoins
    <3>2. u \in Token
      BY <1>4, Tokens
    <3>3. b = [i \in 1 .. Body |-> u]
      BY DEF Reader!BodyOf
    <3> HIDE DEF a, b, u
    <3>4. b \in Seq(Token) /\ Len(b) = Body /\ \A i \in 1 .. Body : b[i] = u
      BY <3>2, <3>3, BodyUnits
    <3>5. ASSUME NEW i \in 1 .. Body PROVE a[i] = b[i]
      <4>1. i \in 1 .. Len(buf)
        BY <1>3, <1>5
      <4>2. Line[i] = buf[i] /\ Line[i] = u
        BY <1>3, <2>4, <4>1 DEF u
      <4> QED
        BY <3>1, <3>4, <4>2
    <3>6. a = b
      BY <3>1, <3>4, <3>5, SeqEqual
    <3> QED
      BY <1>1, <2>1, <3>6 DEF a, b, Reader!Reply
  <2> QED
    BY <2>9, <2>10
<1> QED
  BY <1>7, <1>8 DEF DInv

(* What the text step finds, and what it makes of it.                             *)
LEMMA TextIs ==
  ASSUME DType, Reader!HeadText
  PROVE  \E m \in 1 .. Len(buf) + 1, e \in Nat, text \in Seq(Token) :
           /\ text = headTxt \o SubSeq(buf, 1, m - 1)
           /\ Len(text) = Len(headTxt) + (m - 1)
           /\ \A i \in 1 .. Len(headTxt) : text[i] = headTxt[i]
           /\ \A i \in Len(headTxt) + 1 .. Len(text) : text[i] = buf[i - Len(headTxt)]
           /\ \A i \in 1 .. m - 1 : buf[i].t # "$"
           /\ e \in 1 .. Len(text) + 1 /\ Reader!Found(text, "end", e)
           /\ headTxt' = SubSeq(text, 1, e - 1) /\ headTxt' \in Seq(Token)
           /\ buf' \in Seq(Token)
           /\ e > Len(text) => buf' = Reader!From(buf, m) /\ demuxPc' = "head"
           /\ e <= Len(text) =>
                buf' = Reader!From(headTxt \o buf, e + 1) /\ demuxPc' = "body"
           /\ m <= Len(buf) => buf[m].t = "$"
<1>1. /\ demuxPc = "head" /\ buf \in Seq(Token) /\ headTxt \in Seq(Token)
      /\ Len(buf) \in Nat /\ Len(headTxt) \in Nat
  BY DEF DType, Reader!HeadText
<1>2. PICK m \in 1 .. Len(buf) + 1 :
        \E e \in 1 .. Len(headTxt \o SubSeq(buf, 1, m - 1)) + 1 :
          /\ Reader!Found(buf, "$", m)
          /\ Reader!Found(headTxt \o SubSeq(buf, 1, m - 1), "end", e)
          /\ headTxt' = SubSeq(headTxt \o SubSeq(buf, 1, m - 1), 1, e - 1)
          /\ buf' = (IF e > Len(headTxt \o SubSeq(buf, 1, m - 1)) THEN <<>>
                     ELSE Reader!From(headTxt \o SubSeq(buf, 1, m - 1), e + 1))
                    \o Reader!From(buf, m)
          /\ demuxPc' = IF e > Len(headTxt \o SubSeq(buf, 1, m - 1)) THEN demuxPc ELSE "body"
  BY Zenon DEF Reader!HeadText
<1> DEFINE a == SubSeq(buf, 1, m - 1)  text == headTxt \o a  rest == Reader!From(buf, m)
<1>3. PICK e \in 1 .. Len(text) + 1 :
          /\ Reader!Found(buf, "$", m) /\ Reader!Found(text, "end", e)
          /\ headTxt' = SubSeq(text, 1, e - 1)
          /\ buf' = (IF e > Len(text) THEN <<>> ELSE Reader!From(text, e + 1)) \o rest
          /\ demuxPc' = IF e > Len(text) THEN demuxPc ELSE "body"
  BY <1>2, Zenon
<1>4. m - 1 \in 0 .. Len(buf) /\ (m - 1) + 1 = m
  BY <1>1
<1>5. /\ a \in Seq(Token) /\ Len(a) = m - 1 /\ \A i \in 1 .. m - 1 : a[i] = buf[i]
  BY <1>1, <1>4, CutJoins
<1>6. a \o rest = buf /\ rest \in Seq(Token)
  <2>1. a \o Reader!From(buf, (m - 1) + 1) = buf
    BY <1>1, <1>4, CutJoins
  <2> QED
    BY <1>1, <1>4, <2>1, FromIs
<1> HIDE DEF a, rest
<1>7. /\ text \in Seq(Token) /\ Len(text) = Len(headTxt) + Len(a)
      /\ \A i \in 1 .. Len(headTxt) : text[i] = headTxt[i]
      /\ \A i \in Len(headTxt) + 1 .. Len(headTxt) + Len(a) : text[i] = a[i - Len(headTxt)]
  <2>1. a \in Seq(Token)
    BY <1>5
  <2> QED
    BY <1>1, <2>1, JoinIs, Zenon
<1>8. text \o rest = headTxt \o buf
  <2>1. a \in Seq(Token) /\ rest \in Seq(Token)
    BY <1>5, <1>6
  <2> QED
    BY <1>1, <1>6, <2>1, JoinMoves
<1> HIDE DEF text
<1>9. Len(text) = Len(headTxt) + (m - 1) /\ Len(text) \in Nat
  BY <1>1, <1>4, <1>5, <1>7
<1>10. \A i \in Len(headTxt) + 1 .. Len(text) : text[i] = buf[i - Len(headTxt)]
  <2> SUFFICES ASSUME NEW i \in Len(headTxt) + 1 .. Len(text)
               PROVE  text[i] = buf[i - Len(headTxt)]
    OBVIOUS
  <2>1. i \in Len(headTxt) + 1 .. Len(headTxt) + Len(a) /\ i - Len(headTxt) \in 1 .. m - 1
    BY <1>1, <1>5, <1>9
  <2>2. text[i] = a[i - Len(headTxt)] /\ a[i - Len(headTxt)] = buf[i - Len(headTxt)]
    BY <1>5, <1>7, <2>1
  <2> QED
    BY <2>2
<1>11. headTxt' \in Seq(Token)
  <2>1. e - 1 \in 0 .. Len(text)
    BY <1>9
  <2> QED
    BY <1>3, <1>7, <2>1, CutJoins
<1>12. ASSUME e > Len(text) PROVE buf' = rest /\ demuxPc' = "head"
  <2>1. buf' = <<>> \o rest /\ demuxPc' = "head"
    BY <1>1, <1>3, <1>12
  <2>2. <<>> \o rest = rest
    BY <1>6, ConcatEmptySeq
  <2> QED
    BY <2>1, <2>2
<1>13. ASSUME e <= Len(text)
       PROVE  buf' = Reader!From(headTxt \o buf, e + 1) /\ demuxPc' = "body" /\ buf' \in Seq(Token)
  <2>0. ~(e > Len(text))
    BY <1>9, <1>13
  <2>1. buf' = Reader!From(text, e + 1) \o rest /\ demuxPc' = "body"
    BY <1>3, <2>0
  <2>2. e + 1 \in 1 .. Len(text) + 1
    BY <1>9, <1>13
  <2>3. Reader!From(text, e + 1) \o rest = Reader!From(text \o rest, e + 1)
    BY <1>6, <1>7, <2>2, FromJoin
  <2>4. Reader!From(text, e + 1) \in Seq(Token)
    BY <1>7, <2>2, FromIs
  <2>5. Reader!From(text, e + 1) \o rest \in Seq(Token)
    BY <1>6, <2>4, JoinIs
  <2> QED
    BY <1>8, <2>1, <2>3, <2>5
<1>14. buf' \in Seq(Token)
  <2>1. e > Len(text) \/ e <= Len(text)
    BY <1>9
  <2> QED
    BY <1>6, <1>12, <1>13, <2>1
<1>15. /\ \A i \in 1 .. m - 1 : buf[i].t # "$"
       /\ m <= Len(buf) => buf[m].t = "$"
  BY <1>3 DEF Reader!Found
<1>16. e \in Nat
  BY <1>9
<1>17. text = headTxt \o SubSeq(buf, 1, m - 1)
  BY DEF text, a
<1>18. rest = Reader!From(buf, m)
  BY DEF rest
<1> QED
  <2> e \in Nat /\ text \in Seq(Token)
    BY <1>7, <1>16
  <2> WITNESS m \in 1 .. Len(buf) + 1, e \in Nat, text \in Seq(Token)
  <2> QED
    BY <1>3, <1>7, <1>9, <1>10, <1>11, <1>12, <1>13, <1>14, <1>15, <1>17, <1>18

LEMMA BehindOne ==
  ASSUME NEW a \in Token, NEW s \in Seq(Token), Len(s) > 0
  PROVE  Reader!From(<<a>> \o s, 3) = Reader!From(s, 2)
<1> DEFINE x == <<a>>  v == x \o s  p == Reader!From(v, 3)  q == Reader!From(s, 2)
<1>1. x \in Seq(Token) /\ Len(x) = 1
  OBVIOUS
<1> HIDE DEF x
<1>2. /\ v \in Seq(Token) /\ Len(v) = Len(x) + Len(s)
      /\ \A i \in Len(x) + 1 .. Len(x) + Len(s) : v[i] = s[i - Len(x)]
  <2>1. x \in Seq(Token)
    BY <1>1
  <2> QED
    BY <2>1, JoinIs, Zenon
<1> HIDE DEF v
<1>3. PICK l \in Nat : l = Len(s)
  OBVIOUS
<1>4. Len(v) = 1 + l /\ \A i \in 2 .. 1 + l : v[i] = s[i - 1]
  BY <1>1, <1>2, <1>3
<1>5. 3 \in 1 .. Len(v) + 1 /\ 2 \in 1 .. Len(s) + 1
  BY <1>3, <1>4
<1>6. p \in Seq(Token) /\ Len(p) = Len(v) - 3 + 1 /\ \A i \in 1 .. Len(v) - 3 + 1 : p[i] = v[i + 3 - 1]
  BY <1>2, <1>5, FromIs
<1>7. q \in Seq(Token) /\ Len(q) = Len(s) - 2 + 1 /\ \A i \in 1 .. Len(s) - 2 + 1 : q[i] = s[i + 2 - 1]
  BY <1>5, FromIs
<1> HIDE DEF p, q
<1>8. Len(p) = l - 1 /\ Len(q) = l - 1
  BY <1>3, <1>4, <1>6, <1>7
<1>9. ASSUME NEW i \in 1 .. l - 1 PROVE p[i] = q[i]
  <2>1. PICK j \in Int, k \in Int : j = i + 2 /\ k = i + 1
    BY <1>3
  <2>2. j \in 2 .. 1 + l /\ j - 1 = k /\ i + 3 - 1 = j /\ i + 2 - 1 = k
        /\ i \in 1 .. Len(v) - 3 + 1 /\ i \in 1 .. Len(s) - 2 + 1
    BY <1>3, <1>4, <2>1
  <2>3. p[i] = v[j] /\ q[i] = s[k] /\ v[j] = s[k]
    BY <1>4, <1>6, <1>7, <2>2
  <2> QED
    BY <2>3
<1>10. p = q
  BY <1>6, <1>7, <1>8, <1>9, SeqEqual
<1> QED
  BY <1>10 DEF p, q, v, x

(* Text in front is the head of the answer asked for, or the end of it.           *)
LEMMA TextAhead ==
  ASSUME NEW s \in Seq(Token), NEW h, NEW n, NEW c \in BOOLEAN, HeadAhead(s, h, n, c),
         Paired(s), NEW m \in Nat, m > 1, m - 1 <= Len(s), \A i \in 1 .. m - 1 : s[i].t # "$"
  PROVE  /\ h = <<>> => s[1] = Reader!Tok("head", n) /\ (m > 2 => s[2].t = "end")
         /\ h # <<>> => s[1].t = "end"
<1>1. ASSUME NEW i \in 1 .. m - 1 PROVE i \in 1 .. Len(s) /\ Text(s[i])
  <2>1. i \in 1 .. Len(s) /\ s[i] \in Token
    OBVIOUS
  <2>2. s[i].t # "pay"
    <3> SUFFICES ASSUME s[i].t = "pay" PROVE FALSE
      OBVIOUS
    <3>1. i > 1 /\ s[i - 1].t = "$"
      BY <2>1 DEF Paired
    <3>2. PICK j \in 1 .. m - 1 : j = i - 1
      BY <3>1
    <3> QED
      BY <3>1, <3>2
  <2> QED
    BY <2>1, <2>2 DEF Token, Text
<1>2. 1 \in 1 .. Len(s) /\ Text(s[1])
  BY <1>1
<1>3. s[1].t # "body"
  BY <1>2 DEF HeadAhead
<1>4. ASSUME h = <<>>
      PROVE  s[1] = Reader!Tok("head", n) /\ (m > 2 => s[2].t = "end")
  <2>1. s[1].t # "end"
    BY <1>2, <1>4 DEF HeadAhead
  <2>2. s[1].t = "head"
    BY <1>2, <1>3, <2>1 DEF Text
  <2>3. s[1] = Reader!Tok("head", n)
    BY <1>2, <2>2 DEF HeadAhead
  <2>4. ASSUME m > 2 PROVE s[2].t = "end"
    <3>1. 2 \in 1 .. Len(s) /\ Text(s[2])
      <4>1. 2 \in 1 .. m - 1
        BY <2>4
      <4> QED
        BY <1>1, <4>1
    <3>2. s[2].t # "head"
      <4> SUFFICES ASSUME s[2].t = "head" PROVE FALSE
        OBVIOUS
      <4>1. \A i \in 1 .. 2 - 1 : ~Text(s[i])
        BY <3>1 DEF HeadAhead
      <4> QED
        BY <1>2, <4>1
    <3>3. s[2].t # "body"
      <4> SUFFICES ASSUME s[2].t = "body" PROVE FALSE
        OBVIOUS
      <4>1. \E i \in 1 .. 2 - 1 : s[i].t = "end"
        BY <3>1 DEF HeadAhead
      <4> QED
        BY <2>1, <4>1
    <3> QED
      BY <3>1, <3>2, <3>3 DEF Text
  <2> QED
    BY <2>3, <2>4
<1>5. ASSUME h # <<>> PROVE s[1].t = "end"
  <2>1. s[1].t # "head"
    BY <1>2, <1>5 DEF HeadAhead
  <2> QED
    BY <1>2, <1>3, <2>1 DEF Text
<1> QED
  BY <1>4, <1>5

LEMMA TextTaken ==
  ASSUME DType, Reader!HeadText, Paired(Line), HeadAhead(Line, headTxt, asked, closed),
         headTxt \in {<<>>, <<Reader!Tok("head", asked)>>}
  PROVE  /\ headTxt' = <<Reader!Tok("head", asked)>>
         /\ \E d \in 1 .. Len(buf) :
              /\ buf' = Reader!From(buf, d + 1)
              /\ \A i \in 1 .. d : Line[i].t # "$"
              /\ \/ demuxPc' = "head" /\ d = 1 /\ Line[1].t = "head"
                 \/ demuxPc' = "body" /\ Line[d].t = "end"
<1> DEFINE h == Reader!Tok("head", asked)
<1>1. demuxPc = "head" /\ demuxPc # "idle" /\ buf # <<>> /\ ~Reader!Is(buf, "$")
  BY DEF Reader!HeadText
<1>2. /\ buf \in Seq(Token) /\ Line \in Seq(Token) /\ Len(buf) \in Nat /\ Len(buf) > 0
      /\ Len(Line) = Len(buf) + Len(wire) + Len(todo)
      /\ \A i \in 1 .. Len(buf) : i \in 1 .. Len(Line) /\ Line[i] = buf[i]
  BY <1>1, FrontIs
<1>3. /\ headTxt \in Seq(Token) /\ asked \in Nat /\ closed \in BOOLEAN
      /\ Len(wire) \in Nat /\ Len(todo) \in Nat
  BY DEF DType
<1>4. h \in Token /\ h.t = "head"
  BY <1>3, Tokens, TokIs
<1>5. PICK m \in 1 .. Len(buf) + 1, e \in Nat, text \in Seq(Token) :
           /\ text = headTxt \o SubSeq(buf, 1, m - 1)
           /\ Len(text) = Len(headTxt) + (m - 1)
           /\ \A i \in 1 .. Len(headTxt) : text[i] = headTxt[i]
           /\ \A i \in Len(headTxt) + 1 .. Len(text) : text[i] = buf[i - Len(headTxt)]
           /\ \A i \in 1 .. m - 1 : buf[i].t # "$"
           /\ e \in 1 .. Len(text) + 1 /\ Reader!Found(text, "end", e)
           /\ headTxt' = SubSeq(text, 1, e - 1) /\ headTxt' \in Seq(Token)
           /\ buf' \in Seq(Token)
           /\ e > Len(text) => buf' = Reader!From(buf, m) /\ demuxPc' = "head"
           /\ e <= Len(text) =>
                buf' = Reader!From(headTxt \o buf, e + 1) /\ demuxPc' = "body"
           /\ m <= Len(buf) => buf[m].t = "$"
  BY TextIs
<1>6. m \in Nat /\ m > 1 /\ m - 1 <= Len(buf) /\ m - 1 <= Len(Line)
  <2>1. buf[1].t # "$"
    BY <1>1 DEF Reader!Is
  <2>2. m # 1
    <3> SUFFICES ASSUME m = 1 PROVE FALSE
      OBVIOUS
    <3>1. 1 <= Len(buf)
      BY <1>2
    <3>2. m <= Len(buf) => buf[m].t = "$"
      BY <1>5
    <3> QED
      BY <2>1, <3>1, <3>2
  <2>3. m \in Nat /\ m - 1 <= Len(buf)
    BY <1>2
  <2> QED
    BY <1>2, <1>3, <2>2, <2>3
<1>7. ASSUME NEW i \in 1 .. m - 1 PROVE Line[i] = buf[i] /\ Line[i].t # "$"
  <2>1. i \in 1 .. Len(buf)
    BY <1>2, <1>6
  <2> QED
    BY <1>2, <1>5, <2>1
<1>8. /\ headTxt = <<>> => Line[1] = h /\ (m > 2 => Line[2].t = "end")
      /\ headTxt # <<>> => Line[1].t = "end"
  BY <1>2, <1>3, <1>6, <1>7, TextAhead
<1>9. /\ \A i \in 1 .. e - 1 : text[i].t # "end"
      /\ e <= Len(text) => text[e].t = "end"
      /\ e \in 1 .. Len(text) + 1
  BY <1>5 DEF Reader!Found
<1>10. /\ Line[1] = buf[1] /\ Line[1].t # "$"
       /\ m > 2 => Line[2] = buf[2] /\ Line[2].t # "$"
  <2>1. 1 \in 1 .. m - 1 /\ (m > 2 => 2 \in 1 .. m - 1)
    BY <1>6
  <2> QED
    BY <1>7, <2>1
<1> HIDE DEF h
<1>11. ASSUME e = 2, text[1] = h, Len(text) >= 1 PROVE headTxt' = <<h>>
  <2> DEFINE g == SubSeq(text, 1, 1)
  <2>1. headTxt' = g
    BY <1>5, <1>11
  <2>2. 1 \in 0 .. Len(text)
    BY <1>11
  <2>3. g \in Seq(Token) /\ Len(g) = 1 /\ \A i \in 1 .. 1 : g[i] = text[i]
    BY <2>2, CutJoins
  <2> HIDE DEF g
  <2>4. g = <<h>>
    BY <1>11, <2>3
  <2> QED
    BY <2>1, <2>4
<1>12. CASE headTxt = <<>>
  <2>1. Len(headTxt) = 0 /\ Len(text) = m - 1
    BY <1>5, <1>6, <1>12
  <2>2. \A i \in 1 .. m - 1 : text[i] = buf[i]
    <3> SUFFICES ASSUME NEW i \in 1 .. m - 1 PROVE text[i] = buf[i]
      OBVIOUS
    <3>1. i \in Len(headTxt) + 1 .. Len(text) /\ i - Len(headTxt) = i
      BY <2>1
    <3>2. \A j \in Len(headTxt) + 1 .. Len(text) : text[j] = buf[j - Len(headTxt)]
      BY <1>5
    <3> QED
      BY <3>1, <3>2
  <2>3. text[1] = h
    <3>1. 1 \in 1 .. m - 1
      BY <1>6
    <3> QED
      BY <1>8, <1>10, <1>12, <2>2, <3>1
  <2>4. m > 2 => text[2].t = "end"
    <3>1. m > 2 => 2 \in 1 .. m - 1
      BY <1>6
    <3> QED
      BY <1>8, <1>10, <1>12, <2>2, <3>1
  <2>5. e # 1
    <3> SUFFICES ASSUME e = 1 PROVE FALSE
      OBVIOUS
    <3>1. e <= Len(text)
      BY <1>6, <2>1
    <3> QED
      BY <1>4, <1>9, <2>3, <3>1
  <2>6. e = 2
    <3> SUFFICES ASSUME e > 2 PROVE FALSE
      BY <2>5, <1>9, <2>1, <1>6
    <3>1. m > 2
      BY <1>6, <1>9, <2>1
    <3>2. 2 \in 1 .. e - 1
      OBVIOUS
    <3> QED
      BY <1>9, <2>4, <3>1, <3>2
  <2>7. headTxt' = <<h>>
    <3>1. Len(text) >= 1
      BY <1>6, <2>1
    <3> QED
      BY <1>11, <2>3, <2>6, <3>1
  <2>8. CASE m = 2
    <3>1. e > Len(text)
      BY <2>1, <2>6, <2>8
    <3>2. buf' = Reader!From(buf, 1 + 1) /\ demuxPc' = "head"
      BY <1>5, <2>8, <3>1
    <3>3. 1 \in 1 .. Len(buf) /\ Line[1].t = "head"
      BY <1>2, <1>4, <1>8, <1>12
    <3>4. \A i \in 1 .. 1 : Line[i].t # "$"
      BY <1>10
    <3> QED
      BY <2>7, <3>2, <3>3, <3>4 DEF h
  <2>9. CASE m > 2
    <3>1. e <= Len(text)
      BY <1>6, <2>1, <2>6, <2>9
    <3>2. buf' = Reader!From(headTxt \o buf, 2 + 1) /\ demuxPc' = "body"
      BY <1>5, <2>6, <3>1
    <3>3. headTxt \o buf = buf
      BY <1>2, <1>12, ConcatEmptySeq
    <3>4. 2 \in 1 .. Len(buf) /\ Line[2].t = "end"
      BY <1>2, <1>6, <1>8, <1>12, <2>9
    <3>5. \A i \in 1 .. 2 : Line[i].t # "$"
      <4>1. \A i \in 1 .. 2 : i = 1 \/ i = 2
        OBVIOUS
      <4> QED
        BY <1>10, <2>9, <4>1
    <3> QED
      BY <2>7, <3>2, <3>3, <3>4, <3>5 DEF h
  <2> QED
    BY <1>6, <2>8, <2>9
<1>13. CASE headTxt = <<h>>
  <2>0. headTxt # <<>> /\ Len(headTxt) = 1 /\ headTxt[1] = h
    BY <1>13
  <2>1. Len(text) = m /\ text[1] = h
    <3>1. Len(text) = 1 + (m - 1)
      BY <1>5, <2>0
    <3>2. \A i \in 1 .. Len(headTxt) : text[i] = headTxt[i]
      BY <1>5
    <3> QED
      BY <1>6, <2>0, <3>1, <3>2
  <2>2. text[2] = buf[1] /\ text[2].t = "end"
    <3>1. 2 \in Len(headTxt) + 1 .. Len(text) /\ 2 - Len(headTxt) = 1
      BY <1>6, <2>0, <2>1
    <3>2. \A i \in Len(headTxt) + 1 .. Len(text) : text[i] = buf[i - Len(headTxt)]
      BY <1>5
    <3>3. text[2] = buf[2 - Len(headTxt)]
      BY <3>1, <3>2
    <3> QED
      BY <1>8, <1>10, <2>0, <3>1, <3>3
  <2>3. e # 1
    <3> SUFFICES ASSUME e = 1 PROVE FALSE
      OBVIOUS
    <3>1. e <= Len(text)
      BY <1>6, <2>1
    <3> QED
      BY <1>4, <1>9, <2>1, <3>1
  <2>4. e = 2
    <3> SUFFICES ASSUME e > 2 PROVE FALSE
      BY <2>3, <1>9, <2>1, <1>6
    <3>1. 2 \in 1 .. e - 1
      OBVIOUS
    <3> QED
      BY <1>9, <2>2, <3>1
  <2>5. headTxt' = <<h>>
    <3>1. Len(text) >= 1
      BY <1>6, <2>1
    <3> QED
      BY <1>11, <2>1, <2>4, <3>1
  <2>6. buf' = Reader!From(headTxt \o buf, 3) /\ demuxPc' = "body"
    <3>1. e <= Len(text)
      BY <1>6, <2>1, <2>4
    <3> QED
      BY <1>5, <2>4, <3>1
  <2>7. buf' = Reader!From(buf, 1 + 1)
    <3>1. Reader!From(<<h>> \o buf, 3) = Reader!From(buf, 2)
      BY <1>2, <1>4, BehindOne
    <3> QED
      BY <1>13, <2>6, <3>1
  <2>8. 1 \in 1 .. Len(buf) /\ Line[1].t = "end" /\ \A i \in 1 .. 1 : Line[i].t # "$"
    BY <1>2, <1>8, <1>10, <2>0
  <2> QED
    BY <2>5, <2>6, <2>7, <2>8 DEF h
<1> QED
  BY <1>12, <1>13 DEF h

LEMMA HeadTextStep == DInv /\ Reader!HeadText => DInv'
<1> SUFFICES ASSUME DInv, Reader!HeadText PROVE DInv'
  OBVIOUS
<1>1. /\ demuxPc = "head"
      /\ UNCHANGED <<leftover, reply, asked, handed, wire, todo, frames, closed, split>>
  BY DEF Reader!HeadText, Reader!server
<1>2. DType
  BY DEF DInv
<1>3. headTxt' \in Seq(Token) /\ buf' \in Seq(Token) /\ demuxPc' \in {"head", "body"}
  <2>1. PICK m \in 1 .. Len(buf) + 1, e \in Nat, text \in Seq(Token) :
           /\ headTxt' \in Seq(Token) /\ buf' \in Seq(Token)
           /\ e > Len(text) => demuxPc' = "head"
           /\ e <= Len(text) => demuxPc' = "body"
    BY <1>2, TextIs, ZenonT(60)
  <2>2. e > Len(text) \/ e <= Len(text)
    OBVIOUS
  <2> QED
    BY <2>1, <2>2
<1>4. DType'
  BY <1>1, <1>2, <1>3 DEF DType, DemuxPC
<1>5. ASSUME ~split'
      PROVE  HandedFirst' /\ InOrder' /\ Ahead' /\ reply' \in {Reader!None, Reader!Reply(asked')}
  <2>1. /\ HandedFirst /\ InOrder /\ reply \in {Reader!None, Reader!Reply(asked)}
        /\ headTxt \in {<<>>, <<Reader!Tok("head", asked)>>}
        /\ HeadAhead(Line, headTxt, asked, closed)
    BY <1>1, <1>5 DEF DInv, Ahead
  <2>2. /\ Paired(Line) /\ Numbered(Line, Len(handed) + 1, frames) /\ Len(handed) <= frames
    BY <2>1 DEF InOrder
  <2>3. headTxt' = <<Reader!Tok("head", asked)>>
    BY <1>2, <2>1, <2>2, TextTaken
  <2>4. PICK d \in 1 .. Len(buf) :
              /\ buf' = Reader!From(buf, d + 1)
              /\ \A i \in 1 .. d : Line[i].t # "$"
              /\ \/ demuxPc' = "head" /\ d = 1 /\ Line[1].t = "head"
                 \/ demuxPc' = "body" /\ Line[d].t = "end"
    BY <1>2, <2>1, <2>2, TextTaken
  <2>5. /\ Front = buf /\ buf \in Seq(Token) /\ Line \in Seq(Token)
        /\ Len(Line) = Len(buf) + Len(wire) + Len(todo)
    <3>1. demuxPc # "idle"
      BY <1>1
    <3> QED
      BY <1>2, <3>1, FrontIs
  <2>6. /\ wire \in Seq(Token) /\ todo \in Seq(Token) /\ Len(handed) + 1 \in Nat /\ frames \in Nat
        /\ closed \in BOOLEAN
    BY <1>2 DEF DType
  <2>7. d \in 0 .. Len(buf) /\ d \in 1 .. Len(Line) /\ d \in 0 .. Len(Line)
    <3>1. PICK l \in Nat, w \in Nat, u \in Nat : l = Len(buf) /\ w = Len(wire) /\ u = Len(todo)
      BY <2>5, <2>6
    <3>2. Len(Line) = l + w + u
      BY <2>5, <3>1
    <3> QED
      BY <3>1, <3>2
  <2>8. Same(Line, Line', d)
    <3>1. Line' = Reader!From(buf, d + 1) \o wire \o todo
      BY <1>1, <1>3, <2>4 DEF Line, Front
    <3> QED
      BY <2>5, <2>6, <2>7, <3>1, SameFrom DEF Line
  <2>9. Paired(Line')
    BY <2>2, <2>4, <2>5, <2>7, <2>8, PairedFrom
  <2>10. Numbered(Line', Len(handed) + 1, frames)
    BY <2>2, <2>4, <2>5, <2>6, <2>7, <2>8, NumberedFrom
  <2>11. Ahead'
    <3>1. CASE demuxPc' = "head" /\ d = 1 /\ Line[1].t = "head"
      <4>0. /\ Line \in Seq(Token) /\ d \in 0 .. Len(Line) /\ closed \in BOOLEAN
            /\ HeadAhead(Line, headTxt, asked, closed) /\ Same(Line, Line', d)
            /\ d = 1 /\ Line[1].t = "head"
        BY <2>1, <2>5, <2>6, <2>7, <2>8, <3>1
      <4>1. HeadAhead(Line', <<Reader!Tok("head", asked)>>, asked, closed)
        BY <4>0, HeadFrom
      <4> QED
        BY <1>1, <2>3, <3>1, <4>1 DEF Ahead
    <3>2. CASE demuxPc' = "body" /\ Line[d].t = "end"
      <4>1. BodyAhead(Line', asked, closed)
        BY <2>1, <2>5, <2>6, <2>7, <2>8, <3>2, BodyBegins
      <4> QED
        BY <1>1, <2>3, <3>2, <4>1 DEF Ahead
    <3> QED
      BY <2>4, <3>1, <3>2
  <2>12. HandedFirst' /\ InOrder'
    BY <1>1, <2>1, <2>2, <2>9, <2>10 DEF HandedFirst, InOrder
  <2> QED
    BY <1>1, <2>1, <2>11, <2>12
<1> QED
  BY <1>4, <1>5 DEF DInv

LEMMA DemuxStep == DInv /\ [Reader!Next]_(Reader!vars) => DInv'
<1> SUFFICES ASSUME DInv, [Reader!Next]_(Reader!vars) PROVE DInv'
  OBVIOUS
<1>1. CASE Reader!SendFrame \/ Reader!SendAnswer \/ Reader!CloseConnection
  BY <1>1, SendFrameStep, SendAnswerStep, CloseStep
<1>2. CASE Reader!SendRequest
  BY <1>2, SendRequestStep
<1>3. CASE Reader!Request
  BY <1>3, HeadRecvStep, HeadFrameStep, HeadTextStep, BodyRecvStep, BodyDoneStep
     DEF Reader!Request
<1>4. CASE Reader!StartPackets
  BY <1>4, HandOverStep
<1>5. CASE Reader!Packets
  BY <1>5, PacketsRecvStep, ScanStep, HandOverStep DEF Reader!Packets
<1>6. CASE UNCHANGED Reader!vars
  <2>1. UNCHANGED <<demuxPc, buf, leftover, headTxt, reply, asked, handed, wire, todo, frames,
                    closed, split>>
    BY <1>6 DEF Reader!vars, Reader!client, Reader!server
  <2>2. Line' = Line
    BY <2>1 DEF Line, Front
  <2>3. DType' <=> DType
    BY <2>1 DEF DType
  <2>4. (HandedFirst' <=> HandedFirst) /\ (InOrder' <=> InOrder) /\ (Ahead' <=> Ahead)
    BY <2>1, <2>2 DEF HandedFirst, InOrder, Ahead
  <2> QED
    BY <2>1, <2>3, <2>4 DEF DInv
<1> QED
  BY <1>1, <1>2, <1>3, <1>4, <1>5, <1>6 DEF Reader!Next

(* request() returns the answer to its own request or none, for a server that     *)
(* sends any number of frames and closes when it likes, and bodies of any length, *)
(* however the stream is cut up (rtsplib.py:101-150, 153-156).                    *)
THEOREM AnswerCorrect == Reader!Spec => []AnswerIntact
<1>1. DInv => AnswerIntact
  BY DEF DInv, AnswerIntact, Reader!AnswerIntact
<1> QED
  BY <1>1, DemuxInit, DemuxStep, PTL DEF Reader!Spec

(* The frames handed out are the first ones, each once and in order, and all the  *)
(* others are on their way, for any number of requests and frames                 *)
(* (rtsplib.py:92-99, 118-131, 156, 239-258).                                     *)
THEOREM FramesCorrect == Reader!Spec => []FramesKept
<1>1. DInv => FramesKept
  <2> SUFFICES ASSUME DInv PROVE FramesKept
    OBVIOUS
  <2>1. DType
    BY DEF DInv
  <2>2. IF demuxPc = "idle" THEN buf = <<>> ELSE leftover = <<>>
    BY <2>1 DEF DType
  <2>3. ASSUME ~split
        PROVE  LET rest == leftover \o buf \o wire
                   starts == {i \in 1 .. Len(rest) : rest[i].t = "$"}
               IN /\ handed = [i \in 1 .. Len(handed) |-> i]
                  /\ {rest[i].n : i \in starts} = Len(handed) + 1 .. frames
                  /\ \A i, j \in starts : i < j => rest[i].n < rest[j].n
    <3> DEFINE rest == leftover \o buf \o wire
               starts == {i \in 1 .. Len(rest) : rest[i].t = "$"}
    <3>1. HandedFirst /\ InOrder
      BY <2>3 DEF DInv
    <3>2. /\ Front \in Seq(Token) /\ wire \in Seq(Token) /\ todo \in Seq(Token)
          /\ buf \in Seq(Token) /\ leftover \in Seq(Token)
          /\ \A i \in 1 .. Len(todo) : Text(todo[i])
      BY <2>1, LineType DEF DType
    <3>3. leftover \o buf = Front
      BY <2>2, <3>2, ConcatEmptySeq DEF Front
    <3>4. rest = Front \o wire /\ rest \in Seq(Token)
      BY <3>2, <3>3, JoinIs
    <3> HIDE DEF rest
    <3>5. Line = rest \o todo
      BY <3>4 DEF Line
    <3>6. PICK l \in Nat, u \in Nat : l = Len(rest) /\ u = Len(todo)
      BY <3>2, <3>4
    <3>7. /\ Len(Line) = l + u
          /\ \A i \in 1 .. l : Line[i] = rest[i]
          /\ \A i \in l + 1 .. l + u : Line[i] = todo[i - l]
      BY <3>2, <3>4, <3>5, <3>6, JoinIs
    <3>8. ASSUME NEW i \in 1 .. Len(Line), Line[i].t = "$" PROVE i \in starts /\ rest[i] = Line[i]
      <4>1. i <= l
        <5> SUFFICES ASSUME i > l PROVE FALSE
          BY <3>6
        <5>1. i \in l + 1 .. l + u /\ i - l \in 1 .. u
          BY <3>6, <3>7
        <5>2. Text(Line[i])
          BY <3>2, <3>6, <3>7, <5>1
        <5> QED
          BY <3>8, <5>2 DEF Text
      <4>2. i \in 1 .. l
        BY <4>1
      <4> QED
        BY <3>6, <3>7, <3>8, <4>2
    <3>9. ASSUME NEW i \in starts PROVE i \in 1 .. Len(Line) /\ Line[i].t = "$" /\ rest[i] = Line[i]
      <4>1. i \in 1 .. l /\ rest[i].t = "$"
        BY <3>6
      <4>2. i \in 1 .. Len(Line)
        BY <3>6, <3>7, <4>1
      <4> QED
        BY <3>7, <4>1, <4>2
    <3> HIDE DEF starts
    <3>10. Numbered(Line, Len(handed) + 1, frames)
      BY <3>1 DEF InOrder
    <3>11. ASSUME NEW k \in {rest[i].n : i \in starts} PROVE k \in Len(handed) + 1 .. frames
      <4>1. PICK i \in starts : k = rest[i].n
        OBVIOUS
      <4> QED
        BY <3>9, <3>10, <4>1 DEF Numbered
    <3>12. ASSUME NEW k \in Len(handed) + 1 .. frames PROVE k \in {rest[i].n : i \in starts}
      <4>1. PICK i \in 1 .. Len(Line) : Line[i].t = "$" /\ Line[i].n = k
        BY <3>10 DEF Numbered
      <4>2. i \in starts /\ rest[i].n = k
        BY <3>8, <4>1
      <4> QED
        BY <4>2
    <3>13. ASSUME NEW i \in starts, NEW j \in starts, i < j PROVE rest[i].n < rest[j].n
      BY <3>9, <3>10, <3>13 DEF Numbered
    <3>14. {rest[i].n : i \in starts} = Len(handed) + 1 .. frames
      BY <3>11, <3>12
    <3> QED
      BY <3>1, <3>13, <3>14 DEF HandedFirst, rest, starts
  <2> QED
    BY <2>2, <2>3 DEF FramesKept, Reader!FramesKept
<1> QED
  BY <1>1, DemuxInit, DemuxStep, PTL DEF Reader!Spec

(* What the mapped variables are, and a step none of them shows.                  *)
LEMMA Unseen ==
  ASSUME UNCHANGED <<reply, asked, handed, frames, closed, split>>,
         \/ demuxPc' = demuxPc
         \/ demuxPc \in {"head", "body"} /\ demuxPc' \in {"head", "body"}
         \/ demuxPc \in {"idle", "recv", "scan"} /\ demuxPc' \in {"idle", "recv", "scan"}
  PROVE  UNCHANGED Reader!Promise!vars
  BY DEF Reader!Promise!vars

(* All that was sent has been handed out when nothing has still to be read but    *)
(* the rest of an answer.                                                         *)
LEMMA AllHanded ==
  ASSUME DType, InOrder, demuxPc # "idle", wire = <<>>,
         \A i \in 1 .. Len(buf) : buf[i].t # "$"
  PROVE  Len(handed) = frames
<1>1. /\ Len(Line) = Len(buf) + Len(wire) + Len(todo) /\ Line = Front \o wire \o todo
      /\ \A i \in 1 .. Len(buf) : Line[i] = buf[i]
  BY FrontIs DEF Line
<1>2. /\ Front \in Seq(Token) /\ Front = buf /\ todo \in Seq(Token) /\ wire \in Seq(Token)
      /\ Len(wire) = 0 /\ \A i \in 1 .. Len(todo) : Text(todo[i])
  BY LineType, FrontIs DEF DType
<1>3. \A i \in Len(buf) + 1 .. Len(buf) + Len(todo) : Line[i] = todo[i - Len(buf)]
  <2>1. \A i \in Len(Front) + Len(wire) + 1 .. Len(Front) + Len(wire) + Len(todo) :
          Line[i] = todo[i - (Len(Front) + Len(wire))]
    BY <1>1, <1>2, LineIs
  <2>2. Len(Front) + Len(wire) = Len(buf)
    BY <1>2
  <2> QED
    BY <2>1, <2>2
<1>4. ASSUME NEW i \in 1 .. Len(Line) PROVE Line[i].t # "$"
  <2>0. Len(buf) \in Nat /\ Len(todo) \in Nat /\ Len(Line) = Len(buf) + Len(todo)
    BY <1>1, <1>2
  <2>1. CASE i <= Len(buf)
    BY <1>1, <2>0, <2>1
  <2>2. CASE i > Len(buf)
    <3>1. i \in Len(buf) + 1 .. Len(buf) + Len(todo) /\ i - Len(buf) \in 1 .. Len(todo)
      BY <2>0, <2>2
    <3> QED
      BY <1>2, <1>3, <3>1 DEF Text
  <2> QED
    BY <2>0, <2>1, <2>2
<1>5. Len(handed) \in Nat /\ frames \in Nat /\ Len(handed) <= frames
  BY DEF DType, InOrder
<1>6. ~(Len(handed) < frames)
  <2> SUFFICES ASSUME Len(handed) < frames PROVE FALSE
    OBVIOUS
  <2>1. Len(handed) + 1 \in Len(handed) + 1 .. frames
    BY <1>5
  <2>2. \E i \in 1 .. Len(Line) : Line[i].t = "$" /\ Line[i].n = Len(handed) + 1
    BY <2>1 DEF InOrder, Numbered
  <2> QED
    BY <1>4, <2>2
<1> QED
  BY <1>5, <1>6

(* Each step, on a connection that is not mixed, is one of the promise or unseen. *)
LEMMA SendMaps ==
  ASSUME DInv, ~split, Reader!SendFrame
  PROVE  Reader!Promise!Send
<1>1. /\ ~closed /\ asked > 0 /\ frames' = frames + 1
      /\ split' = (split \/ Reader!Is(todo, "body"))
      /\ UNCHANGED <<demuxPc, reply, asked, handed, closed>>
  BY DEF Reader!SendFrame, Reader!client
<1>2. DType /\ Ahead
  BY DEF DInv
<1>3. ASSUME split' PROVE demuxPc \notin {"idle", "recv", "scan"}
  <2> SUFFICES ASSUME demuxPc \in {"idle", "recv", "scan"} PROVE FALSE
    OBVIOUS
  <2>1. todo = <<>>
    BY <1>2, NothingToSend DEF Ahead
  <2> QED
    BY <1>1, <1>3, <2>1 DEF Reader!Is
<1>4. split' \in BOOLEAN /\ split = FALSE /\ demuxPc \in DemuxPC
  BY <1>1, <1>2 DEF DType
<1>5. CASE split'
  <2>1. demuxPc \in {"head", "body", "raised"} /\ split' = TRUE
    BY <1>3, <1>4, <1>5 DEF DemuxPC
  <2> QED
    BY <1>1, <1>4, <2>1 DEF Reader!Promise!Send
<1>6. CASE ~split'
  BY <1>1, <1>4, <1>6 DEF Reader!Promise!Send
<1> QED
  BY <1>5, <1>6

LEMMA DeliverMaps ==
  ASSUME DInv, ~split, Reader!Is(buf, "$"), ~Reader!Short, demuxPc \in {"head", "scan"},
         demuxPc' = demuxPc, handed' = Append(handed, buf[1].n),
         UNCHANGED <<reply, asked, frames, closed, split>>
  PROVE  Reader!Promise!Deliver
<1>1. DType /\ HandedFirst /\ InOrder /\ demuxPc # "idle"
  BY DEF DInv
<1>2. /\ Line \in Seq(Token) /\ buf \in Seq(Token)
      /\ \A i \in 1 .. Len(buf) : i \in 1 .. Len(Line) /\ Line[i] = buf[i]
  BY <1>1, FrontIs
<1>3. buf # <<>> /\ buf[1].t = "$"
  BY DEF Reader!Is
<1>4. 1 \in 1 .. Len(buf)
  BY <1>2, <1>3
<1>5. 1 \in 1 .. Len(Line) /\ Line[1] = buf[1]
  BY <1>2, <1>4
<1>6. Len(handed) \in Nat /\ frames \in Nat
  BY <1>1 DEF DType
<1>7. Line[1].n \in Len(handed) + 1 .. frames
  BY <1>1, <1>3, <1>5 DEF InOrder, Numbered
<1>8. Line[1].n = Len(handed) + 1
  <2>1. Len(handed) + 1 \in Len(handed) + 1 .. frames
    BY <1>6, <1>7
  <2>2. PICK i \in 1 .. Len(Line) : Line[i].t = "$" /\ Line[i].n = Len(handed) + 1
    BY <1>1, <2>1 DEF InOrder, Numbered
  <2>3. i > 1 => Line[1].n < Line[i].n
    BY <1>1, <1>3, <1>5, <2>2 DEF InOrder, Numbered
  <2> QED
    BY <1>5, <1>6, <1>7, <2>2, <2>3
<1>9. Len(handed) < frames /\ handed' = Append(handed, Len(handed) + 1)
  BY <1>5, <1>6, <1>7, <1>8
<1> QED
  BY <1>9 DEF Reader!Promise!Deliver

LEMMA RaiseMaps ==
  ASSUME DInv, ~split, Reader!Raise,
         (demuxPc = "head" /\ Reader!Short) \/ (demuxPc = "body" /\ Len(buf) < Body)
  PROVE  Reader!Promise!GiveUp
<1>1. /\ wire = <<>> /\ ~closed /\ demuxPc' = "raised"
      /\ UNCHANGED <<reply, asked, handed, frames, closed, split>>
  BY DEF Reader!Raise, Reader!server
<1>2. DType /\ InOrder /\ Ahead /\ demuxPc # "idle"
  BY DEF DInv
<1>3. /\ buf \in Seq(Token) /\ Line \in Seq(Token)
      /\ Len(Line) = Len(buf) + Len(wire) + Len(todo) /\ Front = buf
      /\ \A i \in 1 .. Len(buf) : i \in 1 .. Len(Line) /\ Line[i] = buf[i]
  BY <1>2, FrontIs
<1>4. ASSUME NEW i \in 1 .. Len(buf) PROVE buf[i].t # "$"
  <2>1. CASE demuxPc = "head" /\ Reader!Short
    <3> SUFFICES ASSUME buf[i].t = "$" PROVE FALSE
      OBVIOUS
    <3>1. Len(buf) = 1 /\ i = 1
      BY <1>3, <2>1 DEF Reader!Short
    <3>2. 1 < Len(Line) /\ Line[2].t = "pay"
      BY <1>2, <1>3, <3>1 DEF InOrder, Paired
    <3>3. /\ todo \in Seq(Token) /\ wire \in Seq(Token) /\ Len(wire) = 0
          /\ \A j \in 1 .. Len(todo) : Text(todo[j])
      BY <1>1, <1>2 DEF DType
    <3>4. \A j \in Len(Front) + Len(wire) + 1 .. Len(Front) + Len(wire) + Len(todo) :
            Line[j] = todo[j - (Len(Front) + Len(wire))]
      BY <1>3, <3>3, LineIs DEF Line
    <3>5. Line[2] = todo[1] /\ 1 \in 1 .. Len(todo)
      BY <1>3, <3>1, <3>2, <3>3, <3>4
    <3> QED
      BY <3>2, <3>3, <3>5 DEF Text
  <2>2. CASE demuxPc = "body" /\ Len(buf) < Body
    <3>1. BodyFrom(Line, 0, asked)
      BY <1>2, <2>2 DEF Ahead, BodyAhead
    <3>2. i \in 1 .. Len(Line) /\ i > 0 /\ i <= 0 + Body /\ Line[i] = buf[i]
      BY <1>3, <2>2, BodyUnits
    <3>3. Line[i] = Reader!Tok("body", asked)
      BY <3>1, <3>2 DEF BodyFrom
    <3> QED
      BY <3>2, <3>3 DEF Reader!Tok
  <2> QED
    BY <2>1, <2>2
<1>5. Len(handed) = frames
  BY <1>1, <1>2, <1>4, AllHanded
<1> QED
  BY <1>1, <1>5 DEF Reader!Promise!GiveUp

LEMMA EmptyMaps ==
  ASSUME DInv, ~split, demuxPc = "head", Reader!Short, wire = <<>>, closed,
         demuxPc' = "idle", UNCHANGED <<reply, asked, handed, frames, closed, split>>
  PROVE  Reader!Promise!GiveUp
<1>1. DType /\ InOrder
  BY DEF DInv
<1>2. /\ buf \in Seq(Token) /\ Line \in Seq(Token)
      /\ Len(Line) = Len(buf) + Len(wire) + Len(todo)
      /\ \A i \in 1 .. Len(buf) : i \in 1 .. Len(Line) /\ Line[i] = buf[i]
  BY <1>1, FrontIs
<1>3. Len(wire) = 0 /\ Len(todo) = 0
  BY <1>1 DEF DType
<1>4. ASSUME NEW i \in 1 .. Len(buf) PROVE buf[i].t # "$"
  <2> SUFFICES ASSUME buf[i].t = "$" PROVE FALSE
    OBVIOUS
  <2>1. Len(buf) = 1 /\ i = 1
    BY <1>2 DEF Reader!Short
  <2>2. 1 < Len(Line)
    BY <1>1, <1>2, <2>1 DEF InOrder, Paired
  <2> QED
    BY <1>2, <1>3, <2>1, <2>2
<1>5. Len(handed) = frames
  BY <1>1, <1>4, AllHanded
<1> QED
  BY <1>5 DEF Reader!Promise!GiveUp

LEMMA BodyDoneMaps ==
  ASSUME DInv, ~split, Reader!BodyDone
  PROVE  Reader!Promise!Answer
<1>1. /\ demuxPc = "body" /\ demuxPc' = "idle"
      /\ reply' = [head |-> headTxt, body |-> SubSeq(buf, 1, Body)]
      /\ UNCHANGED <<asked, handed, frames, closed, split>>
  BY DEF Reader!BodyDone, Reader!server
<1>2. reply' \in {Reader!None, Reader!Reply(asked)}
  BY <1>1, BodyDoneStep DEF DInv
<1>3. headTxt = <<Reader!Tok("head", asked)>>
  BY <1>1 DEF DInv, Ahead
<1>4. reply' # Reader!None
  BY <1>1, <1>3 DEF Reader!None
<1> QED
  BY <1>1, <1>2, <1>4 DEF Reader!Promise!Answer

LEMMA ReaderMaps ==
  ASSUME DInv, ~split, Reader!Next
  PROVE  Reader!Promise!Next \/ UNCHANGED Reader!Promise!vars
<1>1. CASE Reader!SendFrame
  BY <1>1, SendMaps DEF Reader!Promise!Next
<1>2. CASE Reader!SendAnswer
  <2>1. UNCHANGED <<demuxPc, reply, asked, handed, frames, closed, split>>
    BY <1>2 DEF Reader!SendAnswer, Reader!client
  <2> QED
    BY <2>1, Unseen
<1>3. CASE Reader!CloseConnection
  <2>1. closed' = TRUE /\ UNCHANGED <<demuxPc, reply, asked, handed, frames, split>>
    BY <1>3 DEF Reader!CloseConnection, Reader!client
  <2> QED
    BY <2>1 DEF Reader!Promise!Next, Reader!Promise!Shut
<1>4. CASE Reader!SendRequest
  <2>1. /\ demuxPc = "idle" /\ demuxPc' = "head" /\ asked' = asked + 1 /\ reply' = Reader!None
        /\ UNCHANGED <<handed, frames, closed, split>>
    BY <1>4 DEF Reader!SendRequest
  <2> QED
    BY <2>1 DEF Reader!Promise!Next, Reader!Promise!Ask
<1>5. CASE Reader!HeadRecv
  <2>1. demuxPc = "head" /\ Reader!Short
    BY <1>5 DEF Reader!HeadRecv
  <2>2. CASE Reader!Receive /\ demuxPc' = demuxPc
    <3>1. UNCHANGED <<reply, asked, handed, frames, closed, split>>
      BY <2>2 DEF Reader!Receive
    <3> QED
      BY <2>2, <3>1, Unseen
  <2>3. CASE Reader!Raise
    BY <2>1, <2>3, RaiseMaps DEF Reader!Promise!Next
  <2>4. CASE /\ wire = <<>> /\ closed /\ demuxPc' = "idle" /\ buf' = <<>>
             /\ UNCHANGED <<leftover, headTxt, reply, asked, handed, Reader!server>>
    <3>1. UNCHANGED <<reply, asked, handed, frames, closed, split>>
      BY <2>4 DEF Reader!server
    <3> QED
      BY <2>1, <2>4, <3>1, EmptyMaps DEF Reader!Promise!Next
  <2> QED
    BY <1>5, <2>2, <2>3, <2>4 DEF Reader!HeadRecv
<1>6. CASE Reader!HeadFrame
  <2>1. /\ demuxPc = "head" /\ Reader!Is(buf, "$") /\ ~Reader!Short /\ demuxPc' = demuxPc
        /\ handed' = Append(handed, buf[1].n)
        /\ UNCHANGED <<reply, asked, frames, closed, split>>
    BY <1>6 DEF Reader!HeadFrame, Reader!server
  <2> QED
    BY <2>1, DeliverMaps DEF Reader!Promise!Next
<1>7. CASE Reader!HeadText
  <2>1. /\ demuxPc = "head" /\ demuxPc' \in {"head", "body"}
        /\ UNCHANGED <<reply, asked, handed, frames, closed, split>>
    BY <1>7 DEF Reader!HeadText, Reader!server
  <2> QED
    BY <2>1, Unseen
<1>8. CASE Reader!BodyRecv
  <2>1. demuxPc = "body" /\ Len(buf) < Body
    BY <1>8 DEF Reader!BodyRecv
  <2>2. CASE Reader!Receive /\ demuxPc' = demuxPc
    <3>1. UNCHANGED <<reply, asked, handed, frames, closed, split>>
      BY <2>2 DEF Reader!Receive
    <3> QED
      BY <2>2, <3>1, Unseen
  <2>3. CASE Reader!Raise
    BY <2>1, <2>3, RaiseMaps DEF Reader!Promise!Next
  <2> QED
    BY <1>8, <2>2, <2>3 DEF Reader!BodyRecv
<1>9. CASE Reader!BodyDone
  BY <1>9, BodyDoneMaps DEF Reader!Promise!Next
<1>10. CASE Reader!StartPackets \/ Reader!PacketsEnd
  <2>1. /\ demuxPc \in {"idle", "recv"} /\ demuxPc' \in {"idle", "recv"}
        /\ UNCHANGED <<reply, asked, handed, frames, closed, split>>
    BY <1>10 DEF Reader!StartPackets, Reader!PacketsEnd, Reader!server
  <2> QED
    BY <2>1, Unseen
<1>11. CASE Reader!PacketsRecv
  <2>1. /\ demuxPc = "recv" /\ demuxPc' = "scan"
        /\ UNCHANGED <<reply, asked, handed, frames, closed, split>>
    BY <1>11 DEF Reader!PacketsRecv, Reader!Receive
  <2> QED
    BY <2>1, Unseen
<1>12. CASE Reader!Scan
  <2>1. demuxPc = "scan" /\ UNCHANGED <<reply, asked, frames, closed, split>>
    BY <1>12 DEF Reader!Scan, Reader!server
  <2>2. CASE Reader!Is(buf, "$") /\ ~Reader!Short
    <3>1. demuxPc' = demuxPc /\ handed' = Append(handed, buf[1].n)
      BY <1>12, <2>2 DEF Reader!Scan
    <3> QED
      BY <2>1, <2>2, <3>1, DeliverMaps DEF Reader!Promise!Next
  <2>3. CASE ~Reader!Is(buf, "$") \/ Reader!Short
    <3>1. demuxPc' \in {"recv", "scan"} /\ handed' = handed
      BY <1>12, <2>1, <2>3 DEF Reader!Scan
    <3> QED
      BY <2>1, <3>1, Unseen
  <2> QED
    BY <2>2, <2>3
<1> QED
  BY <1>1, <1>2, <1>3, <1>4, <1>5, <1>6, <1>7, <1>8, <1>9, <1>10, <1>11, <1>12
     DEF Reader!Next, Reader!Request, Reader!Packets

LEMMA SplitStays ==
  ASSUME Reader!Next, split
  PROVE  split'
<1>1. CASE Reader!SendFrame
  BY <1>1 DEF Reader!SendFrame
<1>2. CASE Reader!SendAnswer \/ Reader!CloseConnection
  BY <1>2 DEF Reader!SendAnswer, Reader!CloseConnection
<1>3. CASE Reader!SendRequest \/ Reader!StartPackets
  BY <1>3 DEF Reader!SendRequest, Reader!StartPackets, Reader!server
<1>4. CASE Reader!Request
  BY <1>4 DEF Reader!Request, Reader!HeadRecv, Reader!HeadFrame, Reader!HeadText,
              Reader!BodyRecv, Reader!BodyDone, Reader!Receive, Reader!Raise, Reader!server
<1>5. CASE Reader!Packets
  BY <1>5 DEF Reader!Packets, Reader!PacketsRecv, Reader!Scan, Reader!PacketsEnd,
              Reader!Receive, Reader!server
<1> QED
  BY <1>1, <1>2, <1>3, <1>4, <1>5 DEF Reader!Next

(* However the bytes are cut up, request() and packets() are one reader in the    *)
(* order the server sent: every frame once, a request answered by its own answer, *)
(* given up only when nothing is left to hand out, for any number of requests and *)
(* frames, bodies of any length, and a server that closes when it likes; of a     *)
(* connection on which a frame was mixed into an answer nothing is said           *)
(* (rtsplib.py:92-156, 239-258).                                                  *)
THEOREM ReaderCorrect == Reader!Spec => ReadsInOrder
<1>1. Reader!Init => Reader!Promise!Init
  BY DEF Reader!Init, Reader!Promise!Init
<1>2. DInv /\ [Reader!Next]_(Reader!vars) => [Reader!Promise!Next]_(Reader!Promise!vars)
  <2> SUFFICES ASSUME DInv, [Reader!Next]_(Reader!vars)
               PROVE  Reader!Promise!Next \/ UNCHANGED Reader!Promise!vars
    OBVIOUS
  <2>1. CASE Reader!Next /\ ~split
    BY <2>1, ReaderMaps
  <2>2. CASE Reader!Next /\ split
    BY <2>2, SplitStays DEF Reader!Promise!Next, Reader!Promise!Lapsed
  <2>3. CASE UNCHANGED Reader!vars
    <3>1. UNCHANGED <<demuxPc, reply, asked, handed, frames, closed, split>>
      BY <2>3 DEF Reader!vars, Reader!client, Reader!server
    <3> QED
      BY <3>1, Unseen
  <2> QED
    BY <2>1, <2>2, <2>3
<1> QED
  BY <1>1, <1>2, DemuxInit, DemuxStep, PTL
     DEF Reader!Spec, ReadsInOrder, Reader!ReadsInOrder, Reader!Promise!Spec

--------------------------------------------------------------------------------
(* Counting: how many entries of a history are in a set.                          *)
Hits(s, A) == {i \in DOMAIN s : s[i] \in A}
Tally(s, A) == Cardinality(Hits(s, A))

(* The probe's module has the operator from its own instance of FiniteSets.       *)
LEMMA CardIs == ASSUME NEW S PROVE Gaps!Cardinality(S) = Cardinality(S)
  BY DEF Gaps!Cardinality, Cardinality

LEMMA HitsFinite ==
  ASSUME NEW X, NEW s \in Seq(X), NEW A
  PROVE  /\ Hits(s, A) \subseteq 1 .. Len(s) /\ IsFiniteSet(Hits(s, A))
         /\ Tally(s, A) \in 0 .. Len(s)
<1>1. DOMAIN s = 1 .. Len(s) /\ Len(s) \in Nat
  OBVIOUS
<1>2. Hits(s, A) \subseteq 1 .. Len(s)
  BY <1>1 DEF Hits
<1>3. IsFiniteSet(1 .. Len(s)) /\ Cardinality(1 .. Len(s)) = Len(s)
  <2>1. 1 \in Int /\ Len(s) \in Int
    BY <1>1
  <2>2. IsFiniteSet(1 .. Len(s)) /\ Cardinality(1 .. Len(s)) = IF 1 > Len(s) THEN 0
          ELSE Len(s) - 1 + 1
    BY <2>1, FS_Interval
  <2> QED
    BY <1>1, <2>2
<1>4. IsFiniteSet(Hits(s, A)) /\ Cardinality(Hits(s, A)) <= Cardinality(1 .. Len(s))
  BY <1>2, <1>3, FS_Subset
<1>5. Cardinality(Hits(s, A)) \in Nat
  BY <1>4, FS_CardinalityType
<1> QED
  BY <1>1, <1>2, <1>3, <1>4, <1>5 DEF Tally

LEMMA TallyNone == \A A : Tally(<<>>, A) = 0
<1>1. \A A : Hits(<<>>, A) = {}
  BY DEF Hits
<1> QED
  BY <1>1, FS_EmptySet DEF Tally

(* An entry more is counted if it is in the set.                                  *)
LEMMA TallyAppend ==
  ASSUME NEW X, NEW s \in Seq(X), NEW e \in X, NEW A
  PROVE  Tally(Append(s, e), A) = Tally(s, A) + (IF e \in A THEN 1 ELSE 0)
<1> DEFINE t == Append(s, e)  n == Len(s) + 1
<1>1. /\ Len(s) \in Nat /\ DOMAIN s = 1 .. Len(s) /\ DOMAIN t = 1 .. n
      /\ t[n] = e /\ \A i \in 1 .. Len(s) : t[i] = s[i]
  OBVIOUS
<1>2. IsFiniteSet(Hits(s, A)) /\ Hits(s, A) \subseteq 1 .. Len(s) /\ Tally(s, A) \in Nat
  BY HitsFinite
<1>3. n \notin Hits(s, A) /\ 1 .. n = (1 .. Len(s)) \cup {n}
  BY <1>1, <1>2
<1> HIDE DEF t, n
<1>4. CASE e \in A
  <2>1. Hits(t, A) = Hits(s, A) \cup {n}
    BY <1>1, <1>3, <1>4 DEF Hits
  <2>2. Cardinality(Hits(t, A)) = Cardinality(Hits(s, A)) + 1
    BY <1>2, <1>3, <2>1, FS_AddElement
  <2> QED
    BY <1>4, <2>2 DEF Tally, t
<1>5. CASE e \notin A
  <2>1. Hits(t, A) = Hits(s, A)
    BY <1>1, <1>3, <1>5 DEF Hits
  <2> QED
    BY <1>2, <1>5, <2>1 DEF Tally, t
<1> QED
  BY <1>4, <1>5

(* Of two sets without a common member the counts are no more than the length.    *)
LEMMA TallyApart ==
  ASSUME NEW X, NEW s \in Seq(X), NEW A, NEW B, A \cap B = {}
  PROVE  Tally(s, A) + Tally(s, B) <= Len(s)
<1>1. /\ IsFiniteSet(Hits(s, A)) /\ IsFiniteSet(Hits(s, B))
      /\ Hits(s, A) \cup Hits(s, B) \in SUBSET (1 .. Len(s))
      /\ Tally(s, A) \in Nat /\ Tally(s, B) \in Nat
  BY HitsFinite
<1>2. Hits(s, A) \cap Hits(s, B) = {}
  BY DEF Hits
<1>3. Cardinality(Hits(s, A) \cup Hits(s, B)) = Tally(s, A) + Tally(s, B) - 0
  BY <1>1, <1>2, FS_Union, FS_EmptySet DEF Tally
<1>4. IsFiniteSet(1 .. Len(s)) /\ Cardinality(1 .. Len(s)) = Len(s)
  <2>1. Len(s) \in Nat /\ 1 \in Int
    OBVIOUS
  <2>2. IsFiniteSet(1 .. Len(s)) /\ Cardinality(1 .. Len(s)) = IF 1 > Len(s) THEN 0
          ELSE Len(s) - 1 + 1
    BY <2>1, FS_Interval
  <2> QED
    BY <2>1, <2>2
<1>5. Cardinality(Hits(s, A) \cup Hits(s, B)) <= Cardinality(1 .. Len(s))
  BY <1>1, <1>4, FS_Subset
<1> QED
  BY <1>1, <1>3, <1>4, <1>5

LEMMA TallyMore ==
  ASSUME NEW X, NEW s \in Seq(X), NEW A, NEW B, A \subseteq B
  PROVE  Tally(s, A) <= Tally(s, B)
<1>1. IsFiniteSet(Hits(s, B))
  BY HitsFinite
<1>2. Hits(s, A) \in SUBSET Hits(s, B)
  BY DEF Hits
<1> QED
  BY <1>1, <1>2, FS_Subset DEF Tally
--------------------------------------------------------------------------------
(* The triage of the timestamps.  What a packet adds to the jumps.                *)
LEMMA TsBounds ==
  /\ Far \in Nat /\ Far > 8 /\ TsWord \in Nat \ {0} /\ 9 * Far < TsWord
  BY StreamConstants DEF Gaps!ConstAssumption

(* The clock the probe takes from the SDP stays what it is; that of the hostile   *)
(* server is the track's.                                                         *)
ClockInv == clock \in {0, 1, Slower} /\ (mode # "any" => clock = 1)

LEMMA ClockInit == Gaps!Init => ClockInv
  BY DEF Gaps!Init, ClockInv

LEMMA ClockKept == ClockInv /\ [Gaps!Next]_(Gaps!vars) => ClockInv'
<1> SUFFICES ASSUME [Gaps!Next]_(Gaps!vars)
             PROVE  clock' = clock /\ mode' = mode
  BY DEF ClockInv
<1>1. CASE UNCHANGED Gaps!vars
  BY <1>1 DEF Gaps!vars
<1>2. CASE Gaps!Next
  BY <1>2 DEF Gaps!Next, Gaps!Frame, Gaps!SkipNumbers, Gaps!Repeat, Gaps!Stall,
              Gaps!Misstamp, Gaps!Send, Gaps!ServeNal
<1> QED
  BY <1>1, <1>2

LEMMA SlowerBounds == Slower \in Nat /\ Slower >= 3
  BY StreamConstants DEF Gaps!ConstAssumption

LEMMA SignedIs ==
  ASSUME NEW x \in Int, NEW d \in Int, - (4 * Far) - 1 <= d, d <= 4 * Far + 1,
         x % TsWord = d % TsWord
  PROVE  Gaps!Signed(x) = d
<1>1. CASE d >= 0
  <2>1. d \in 0 .. TsWord - 1 /\ d < TsWord \div 2
    BY <1>1, TsBounds
  <2>2. x % TsWord = d
    BY <2>1, TsBounds, ModSmall
  <2> QED
    BY <2>1, <2>2, TsBounds DEF Gaps!Signed
<1>2. CASE d < 0
  <2>1. d + TsWord \in 0 .. TsWord - 1 /\ d + TsWord >= TsWord \div 2
    BY <1>2, TsBounds
  <2>2. (TsWord * (- 1) + (d + TsWord)) % TsWord = d + TsWord
    BY <2>1, TsBounds, ModIs
  <2>3. TsWord * (- 1) + (d + TsWord) = d
    BY TsBounds
  <2>4. x % TsWord = d + TsWord /\ (d + TsWord) - TsWord = d
    BY <2>2, <2>3, TsBounds
  <2> QED
    BY <2>1, <2>4 DEF Gaps!Signed
<1> QED
  BY <1>1, <1>2

LEMMA SendJumps ==
  ASSUME ts \in 0 .. TsWord - 1, lastTs \in {-1, ts},
         NEW ds, NEW dt \in {-Far, -2, 0, 1, Far}, NEW wall, Gaps!Send(ds, dt, wall)
  PROVE  /\ mode = "any" /\ mode' = "any"
         /\ ts' \in 0 .. TsWord - 1 /\ lastTs' = ts'
         /\ jumps' = IF lastTs # -1 /\ dt # 0 THEN Append(jumps, <<dt, wall>>) ELSE jumps
<1>1. /\ mode = "any" /\ mode' = mode
      /\ ts' = (ts + dt) % TsWord
      /\ lastTs' = ts' % TsWord
      /\ jumps' = IF lastTs # -1 /\ Gaps!Signed(ts' - lastTs) # 0
                  THEN Append(jumps, <<Gaps!Signed(ts' - lastTs), wall>>) ELSE jumps
  BY DEF Gaps!Send, Gaps!Take
<1>2. ts \in Int /\ dt \in Int /\ ts + dt \in Int /\ -ts \in Int
  BY TsBounds
<1>3. ts' \in 0 .. TsWord - 1
  BY <1>1, <1>2, TsBounds, ModOf
<1>4. lastTs' = ts'
  BY <1>1, <1>3, TsBounds, ModSmall
<1>5. (ts' - ts) % TsWord = dt % TsWord
  <2>1. (((ts + dt) % TsWord) - ts) % TsWord = ((ts + dt) + (- ts)) % TsWord
    BY <1>2, TsBounds, ModAdd
  <2>2. (ts + dt) + (- ts) = dt
    BY <1>2
  <2> QED
    BY <1>1, <2>1, <2>2
<1>6. Gaps!Signed(ts' - ts) = dt
  <2>1. - (4 * Far) - 1 <= dt /\ dt <= 4 * Far + 1 /\ ts' - ts \in Int
    BY <1>2, <1>3, TsBounds
  <2> QED
    BY <1>2, <1>5, <2>1, SignedIs
<1> QED
  BY <1>1, <1>3, <1>4, <1>6

(* The kinds of jumps: of a frame on time, behind a stall, and around a wrong     *)
(* stamp, which may be far off, from the past, or both.                           *)
OnTime == {<<1, 1>>}
Stalled == {<<Far, Far - 1>>, <<Far, Far>>, <<Far, Far + 2>>}
FarOff == {<<Far, 1>>, <<-Far, 1>>}
FromPast == {<<-2, 1>>, <<-Far, 1>>}
Jump == OnTime \cup Stalled \cup FarOff \cup FromPast
Offset == {Far, -2, -Far}

(* The jumps of a history say what happened in it.                                *)
Noted(s, w, n) ==
  /\ s \in Seq(Jump) /\ w \in Seq(Offset) /\ n \in Nat
  /\ Tally(s, Stalled) = n
  /\ Tally(s, FromPast) = Tally(w, {-2, -Far})
  /\ Tally(s, FarOff) = Tally(w, {Far, -Far})
  /\ Tally(s, OnTime) + n + Len(w) = Len(s)

LEMMA NotedNone == Noted(<<>>, <<>>, 0)
  BY TallyNone DEF Noted

LEMMA NotedFrame ==
  ASSUME NEW s, NEW w, NEW n, Noted(s, w, n)
  PROVE  Noted(Append(s, <<1, 1>>), w, n)
<1> DEFINE e == <<1, 1>>
<1>1. /\ e \in Jump /\ e \in OnTime /\ e \notin Stalled /\ e \notin FarOff
           /\ e \notin FromPast
  BY TsBounds DEF OnTime, Stalled, FarOff, FromPast, Jump
<1> HIDE DEF e
<1>2. s \in Seq(Jump) /\ w \in Seq(Offset) /\ n \in Nat
  BY DEF Noted
<1>3. /\ Append(s, e) \in Seq(Jump) /\ Len(Append(s, e)) = Len(s) + 1 /\ Len(s) \in Nat
           /\ Len(w) \in Nat
  BY <1>1, <1>2
<1>4. /\ Tally(Append(s, e), OnTime) = Tally(s, OnTime) + 1
      /\ Tally(Append(s, e), Stalled) = Tally(s, Stalled) + 0
      /\ Tally(Append(s, e), FarOff) = Tally(s, FarOff) + 0
      /\ Tally(Append(s, e), FromPast) = Tally(s, FromPast) + 0
  BY <1>1, <1>2, TallyAppend
<1>5. /\ Tally(s, OnTime) \in Nat /\ Tally(s, Stalled) \in Nat
      /\ Tally(s, FarOff) \in Nat /\ Tally(s, FromPast) \in Nat
  BY <1>2, HitsFinite
<1> QED
  BY <1>2, <1>3, <1>4, <1>5 DEF Noted, e

LEMMA NotedStall ==
  ASSUME NEW s, NEW w, NEW n, Noted(s, w, n), NEW jitter \in {-1, 0, 2}
  PROVE  Noted(Append(s, <<Far, Far + jitter>>), w, n + 1)
<1> DEFINE e == <<Far, Far + jitter>>
<1>1. /\ e \in Jump /\ e \notin OnTime /\ e \in Stalled /\ e \notin FarOff
           /\ e \notin FromPast
  <2>1. e \in Stalled
    BY TsBounds DEF Stalled
  <2>2. Far # 1 /\ Far # -2 /\ Far + jitter # 1
    BY TsBounds
  <2> QED
    BY <2>1, <2>2 DEF OnTime, FarOff, FromPast, Jump
<1> HIDE DEF e
<1>2. s \in Seq(Jump) /\ w \in Seq(Offset) /\ n \in Nat
  BY DEF Noted
<1>3. /\ Append(s, e) \in Seq(Jump) /\ Len(Append(s, e)) = Len(s) + 1 /\ Len(s) \in Nat
           /\ Len(w) \in Nat
  BY <1>1, <1>2
<1>4. /\ Tally(Append(s, e), OnTime) = Tally(s, OnTime) + 0
      /\ Tally(Append(s, e), Stalled) = Tally(s, Stalled) + 1
      /\ Tally(Append(s, e), FarOff) = Tally(s, FarOff) + 0
      /\ Tally(Append(s, e), FromPast) = Tally(s, FromPast) + 0
  BY <1>1, <1>2, TallyAppend
<1>5. /\ Tally(s, OnTime) \in Nat /\ Tally(s, Stalled) \in Nat
      /\ Tally(s, FarOff) \in Nat /\ Tally(s, FromPast) \in Nat
  BY <1>2, HitsFinite
<1> QED
  BY <1>2, <1>3, <1>4, <1>5 DEF Noted, e

LEMMA NotedOff ==
  ASSUME NEW s, NEW w, NEW n, Noted(s, w, n), NEW off \in Offset
  PROVE  Noted(Append(s, <<off, 1>>), Append(w, off), n)
<1> DEFINE e == <<off, 1>>
<1>0. off \in Int /\ Far # 1 /\ Far # -2 /\ -Far # 1 /\ -Far # -2 /\ Far # -Far /\ off # 1
      /\ Far - 1 # 1 /\ Far + 2 # 1
  BY TsBounds DEF Offset
<1>1. /\ e \in Jump /\ e \notin OnTime /\ e \notin Stalled
      /\ e \in FarOff <=> off \in {Far, -Far}
      /\ e \in FromPast <=> off \in {-2, -Far}
  <2>1. e \notin OnTime /\ e \notin Stalled
    BY <1>0 DEF OnTime, Stalled
  <2>2. /\ e \in FarOff <=> off \in {Far, -Far}
        /\ e \in FromPast <=> off \in {-2, -Far}
    BY <1>0 DEF FarOff, FromPast
  <2> QED
    BY <2>1, <2>2 DEF Jump, Offset
<1> HIDE DEF e
<1>2. s \in Seq(Jump) /\ w \in Seq(Offset) /\ n \in Nat
  BY DEF Noted
<1>3. /\ Append(s, e) \in Seq(Jump) /\ Len(Append(s, e)) = Len(s) + 1 /\ Len(s) \in Nat
           /\ Len(w) \in Nat
      /\ Append(w, off) \in Seq(Offset) /\ Len(Append(w, off)) = Len(w) + 1
  BY <1>1, <1>2
<1>4. /\ Tally(Append(s, e), OnTime) = Tally(s, OnTime) + 0
      /\ Tally(Append(s, e), Stalled) = Tally(s, Stalled) + 0
  BY <1>1, <1>2, TallyAppend
<1>5. /\ Tally(Append(s, e), FarOff) = Tally(s, FarOff) + (IF e \in FarOff THEN 1 ELSE 0)
      /\ Tally(Append(w, off), {Far, -Far})
           = Tally(w, {Far, -Far}) + (IF off \in {Far, -Far} THEN 1 ELSE 0)
  BY <1>1, <1>2, TallyAppend
<1>6. /\ Tally(Append(s, e), FromPast)
           = Tally(s, FromPast) + (IF e \in FromPast THEN 1 ELSE 0)
      /\ Tally(Append(w, off), {-2, -Far})
           = Tally(w, {-2, -Far}) + (IF off \in {-2, -Far} THEN 1 ELSE 0)
  BY <1>1, <1>2, TallyAppend
<1>7. /\ Tally(s, OnTime) \in Nat /\ Tally(s, Stalled) \in Nat
      /\ Tally(s, FarOff) = Tally(w, {Far, -Far}) /\ Tally(s, FromPast) = Tally(w, {-2, -Far})
      /\ Tally(s, Stalled) = n /\ Tally(s, OnTime) + n + Len(w) = Len(s)
  BY <1>2, HitsFinite DEF Noted
<1>8. /\ Tally(Append(s, e), FarOff) = Tally(Append(w, off), {Far, -Far})
      /\ Tally(Append(s, e), FromPast) = Tally(Append(w, off), {-2, -Far})
  BY <1>1, <1>5, <1>6, <1>7
<1>9. /\ Tally(Append(s, e), Stalled) = n
      /\ Tally(Append(s, e), OnTime) + n + Len(Append(w, off)) = Len(Append(s, e))
  BY <1>2, <1>3, <1>4, <1>7
<1> QED
  BY <1>2, <1>3, <1>8, <1>9 DEF Noted, e

(* Behind the first packet the probe's last stamp is the source's.                *)
TriInv ==
  mode = "any" =>
    /\ ts \in 0 .. TsWord - 1 /\ lastTs \in {-1, ts}
    /\ Noted(jumps, wrong, stalls)

LEMMA TriInit == Gaps!Init => TriInv
  BY TsBounds, NotedNone DEF Gaps!Init, TriInv

LEMMA TriStep == TriInv /\ [Gaps!Next]_(Gaps!vars) => TriInv'
<1> SUFFICES ASSUME TriInv, [Gaps!Next]_(Gaps!vars), mode' = "any"
             PROVE  TriInv'
  BY DEF TriInv
<1>0. ASSUME mode = "any"
      PROVE  ts \in 0 .. TsWord - 1 /\ lastTs \in {-1, ts} /\ Noted(jumps, wrong, stalls)
  BY <1>0 DEF TriInv
<1> DEFINE Good(s, w, n) == ts' \in 0 .. TsWord - 1 /\ lastTs' \in {-1, ts'} /\ jumps' = s
                            /\ wrong' = w /\ stalls' = n /\ Noted(s, w, n)
<1>g. ASSUME NEW s, NEW w, NEW n, Good(s, w, n) PROVE TriInv'
  BY <1>g DEF TriInv
<1>1. CASE UNCHANGED Gaps!vars
  BY <1>1 DEF Gaps!vars, Gaps!source, Gaps!history, Gaps!probe, TriInv
<1>2. ASSUME NEW ds, Gaps!Send(ds, 1, 1), wrong' = wrong, stalls' = stalls PROVE TriInv'
  <2>1. mode = "any"
    BY <1>2 DEF Gaps!Send
  <2>2. /\ ts' \in 0 .. TsWord - 1 /\ lastTs' = ts'
        /\ jumps' = IF lastTs # -1 THEN Append(jumps, <<1, 1>>) ELSE jumps
    BY <1>0, <1>2, <2>1, SendJumps
  <2>3. Noted(jumps', wrong, stalls)
    BY <1>0, <2>1, <2>2, NotedFrame
  <2> QED
    BY <1>2, <2>2, <2>3, <1>g
<1>3. CASE Gaps!Frame
  BY <1>2, <1>3 DEF Gaps!Frame, Gaps!history
<1>4. CASE Gaps!SkipNumbers
  BY <1>2, <1>4 DEF Gaps!SkipNumbers
<1>5. CASE Gaps!Repeat
  <2>1. mode = "any" /\ Gaps!Send(0, 0, 0) /\ wrong' = wrong /\ stalls' = stalls
    BY <1>5 DEF Gaps!Repeat, Gaps!Send
  <2>2. ts' \in 0 .. TsWord - 1 /\ lastTs' = ts' /\ jumps' = jumps
    BY <1>0, <2>1, SendJumps
  <2> QED
    BY <1>0, <2>1, <2>2, <1>g
<1>6. CASE Gaps!Stall
  <2>1. PICK jitter \in {-1, 0, 2} :
          Gaps!Send(1, Far, Far + jitter) /\ lastTs # -1 /\ stalls' = stalls + 1
            /\ wrong' = wrong
    BY <1>6 DEF Gaps!Stall
  <2>2. mode = "any"
    BY <2>1 DEF Gaps!Send
  <2>3. ts' \in 0 .. TsWord - 1 /\ lastTs' = ts'
          /\ jumps' = Append(jumps, <<Far, Far + jitter>>)
    <3>1. /\ ts' \in 0 .. TsWord - 1 /\ lastTs' = ts'
          /\ jumps' = IF lastTs # -1 /\ Far # 0 THEN Append(jumps, <<Far, Far + jitter>>)
               ELSE jumps
      BY <1>0, <2>1, <2>2, SendJumps
    <3> QED
      BY <2>1, <3>1, TsBounds
  <2>4. Noted(jumps', wrong, stalls + 1)
    BY <1>0, <2>2, <2>3, NotedStall
  <2> QED
    BY <2>1, <2>3, <2>4, <1>g
<1>7. CASE Gaps!Misstamp
  <2>1. PICK off \in {Far, -2, -Far} :
          Gaps!Send(1, off, 1) /\ lastTs # -1 /\ stalls' = stalls
            /\ wrong' = Append(wrong, off)
    BY <1>7 DEF Gaps!Misstamp
  <2>2. mode = "any"
    BY <2>1 DEF Gaps!Send
  <2>3. ts' \in 0 .. TsWord - 1 /\ lastTs' = ts' /\ jumps' = Append(jumps, <<off, 1>>)
    <3>1. /\ ts' \in 0 .. TsWord - 1 /\ lastTs' = ts'
          /\ jumps' = IF lastTs # -1 /\ off # 0 THEN Append(jumps, <<off, 1>>) ELSE jumps
      BY <1>0, <2>1, <2>2, SendJumps
    <3> QED
      BY <2>1, <3>1, TsBounds
  <2>4. Noted(jumps', Append(wrong, off), stalls)
    BY <1>0, <2>2, <2>3, NotedOff DEF Offset
  <2> QED
    BY <2>1, <2>3, <2>4, <1>g
<1>8. CASE Gaps!ServeNal
  BY <1>8 DEF Gaps!ServeNal
<1> QED
  BY <1>1, <1>3, <1>4, <1>5, <1>6, <1>7, <1>8 DEF Gaps!Next

(* What ts_summary counts are counts of the jumps.                                *)
LEMMA TimesIs ==
  ASSUME NEW X, jumps \in Seq(X), NEW d
  PROVE  /\ Gaps!Times(d) = Tally(jumps, {j \in X : j[1] = d})
         /\ Gaps!Times(d) \in 0 .. Len(jumps)
         /\ d \in Gaps!Range(Gaps!Steps) <=> \E i \in 1 .. Len(jumps) : jumps[i][1] = d
<1> DEFINE A == {j \in X : j[1] = d}
<1>1. Len(jumps) \in Nat /\ DOMAIN jumps = 1 .. Len(jumps)
        /\ \A i \in 1 .. Len(jumps) : jumps[i] \in X
  OBVIOUS
<1>2. DOMAIN Gaps!Steps = 1 .. Len(jumps)
        /\ \A i \in 1 .. Len(jumps) : Gaps!Steps[i] = jumps[i][1]
  BY DEF Gaps!Steps
<1>3. {i \in DOMAIN Gaps!Steps : Gaps!Steps[i] = d} = Hits(jumps, A)
  BY <1>1, <1>2 DEF Hits
<1>4. Gaps!Times(d) = Tally(jumps, A)
  <2> HIDE DEF A
  <2>1. Cardinality({i \in DOMAIN Gaps!Steps : Gaps!Steps[i] = d})
          = Cardinality(Hits(jumps, A))
    BY <1>3
  <2> QED
    BY <2>1, CardIs DEF Gaps!Times, Tally
<1>5. Tally(jumps, A) \in 0 .. Len(jumps)
  BY HitsFinite
<1> QED
  BY <1>2, <1>4, <1>5 DEF Gaps!Range

(* The step seen more often than every other is the modal one.                    *)
LEMMA ModalIs ==
  ASSUME NEW X, jumps \in Seq(X), NEW d,
         \E i \in 1 .. Len(jumps) : jumps[i][1] = d,
         \A e : e # d => Gaps!Times(e) < Gaps!Times(d)
  PROVE  Gaps!Modal = d
<1> DEFINE R == Gaps!Range(Gaps!Steps)
           Best(b) == \A e \in R \ {b} : Gaps!Times(b) > Gaps!Times(e)
                        \/ (Gaps!Times(b) = Gaps!Times(e) /\ Gaps!First(b) < Gaps!First(e))
<1>1. d \in R
  BY TimesIs
<1>2. \A e : Gaps!Times(e) \in Int
  <2> TAKE e
  <2>1. Gaps!Times(e) \in 0 .. Len(jumps)
    BY TimesIs
  <2>2. Len(jumps) \in Int
    OBVIOUS
  <2> QED
    BY <2>1, <2>2
<1>3. Best(d)
  BY <1>2
<1>4. ASSUME NEW b \in R, Best(b) PROVE b = d
  <2>1. SUFFICES ASSUME b # d PROVE FALSE
    OBVIOUS
  <2>2. d \in R \ {b} /\ Gaps!Times(b) < Gaps!Times(d)
    BY <1>1, <2>1
  <2>3. Gaps!Times(b) > Gaps!Times(d) \/ Gaps!Times(b) = Gaps!Times(d)
    BY <1>4, <2>2
  <2> QED
    BY <1>2, <2>2, <2>3
<1>5. Gaps!Modal = CHOOSE b \in R : Best(b)
  BY DEF Gaps!Modal
<1> HIDE DEF R, Best
<1> QED
  BY <1>1, <1>3, <1>4, <1>5

LEMMA MaxIs ==
  ASSUME NEW d \in Nat
  PROVE  Gaps!Max({12, d}) = IF d > 12 THEN d ELSE 12
<1>1. CASE d > 12
  <2>1. \A x \in {12, d} : (\A y \in {12, d} : x >= y) <=> x = d
    BY <1>1
  <2>2. (CHOOSE x \in {12, d} : \A y \in {12, d} : x >= y) = d
    BY <2>1
  <2> QED
    BY <1>1, <2>2 DEF Gaps!Max
<1>2. CASE ~(d > 12)
  <2>1. \A x \in {12, d} : (\A y \in {12, d} : x >= y) <=> x = 12
    BY <1>2
  <2>2. (CHOOSE x \in {12, d} : \A y \in {12, d} : x >= y) = 12
    BY <2>1
  <2> QED
    BY <1>2, <2>2 DEF Gaps!Max
<1> QED
  BY <1>1, <1>2

(* Behind a modal step of one frame a jump is big beyond eight frames, and by the *)
(* track's own clock matched when the wall clock is near.                         *)
LEMMA BigIs ==
  ASSUME NEW X \in SUBSET (Int \X Int), jumps \in Seq(X), Gaps!Modal = 1,
         NEW i \in 1 .. Len(jumps), NEW d \in Int, NEW w \in Int, jumps[i] = <<d, w>>
  PROVE  /\ Gaps!Big(i) <=> (d > 8 \/ d < -8)
         /\ clock = 1 => (Gaps!Matched(i) <=>
              LET a == IF d < 0 THEN -d ELSE d
                  g == IF a - w < 0 THEN w - a ELSE a - w
              IN  2 * g < 12 \/ 2 * g < a)
<1> DEFINE a == IF d < 0 THEN -d ELSE d
           g == IF a - w < 0 THEN w - a ELSE a - w
<1>1. jumps[i][1] = d /\ jumps[i][2] = w
  OBVIOUS
<1>2. Gaps!Abs(jumps[i][1]) = a /\ a \in Nat /\ Gaps!Abs(Gaps!Modal) = 1
        /\ Gaps!Abs(a - w) = g /\ g \in Nat
  BY <1>1 DEF Gaps!Abs
<1>3. Gaps!Big(i) <=> a > 8
  <2>1. Gaps!Big(i) <=> a > 8 * 1
    BY <1>2 DEF Gaps!Big
  <2> QED
    BY <1>2, <2>1
<1>4. ASSUME clock = 1 PROVE Gaps!Matched(i) <=> 2 * g < Gaps!Max({12, a})
  <2>1. Gaps!Matched(i)
          <=> 2 * Gaps!Abs(Gaps!Abs(jumps[i][1]) - jumps[i][2])
                < Gaps!Max({12, Gaps!Abs(jumps[i][1])})
    <3>1. clock * Gaps!Abs(jumps[i][1]) = Gaps!Abs(jumps[i][1]) /\ clock # 0
      BY <1>2, <1>4
    <3> QED
      BY <3>1 DEF Gaps!Matched
  <2> QED
    BY <1>1, <1>2, <2>1
<1>5. Gaps!Max({12, a}) = IF a > 12 THEN a ELSE 12
  BY <1>2, MaxIs
<1>6. 2 * g < Gaps!Max({12, a}) <=> (2 * g < 12 \/ 2 * g < a)
  <2> HIDE DEF a, g
  <2> QED
    BY <1>2, <1>5
<1>7. a > 8 <=> (d > 8 \/ d < -8)
  OBVIOUS
<1> QED
  BY <1>3, <1>4, <1>6, <1>7

(* A slower clock makes three times as much of a step, or more.                   *)
LEMMA SlowerTimes ==
  ASSUME NEW a \in Nat
  PROVE  Slower * a \in Nat /\ Slower * a >= 3 * a
<1>1. PICK k \in Nat : Slower = k + 3
  <2>1. Slower - 3 \in Nat /\ Slower = (Slower - 3) + 3
    BY SlowerBounds
  <2> QED
    BY <2>1
<1>2. k * a \in Nat
  OBVIOUS
<1>3. (k + 3) * a = k * a + 3 * a
  OBVIOUS
<1> QED
  BY <1>1, <1>2, <1>3

LEMMA FarFromWall ==
  ASSUME NEW a \in Nat, a > 8, NEW s \in Nat, s >= 3 * a, NEW w \in Nat, w <= a + 2
  PROVE  ~(2 * Gaps!Abs(s - w) < Gaps!Max({12, s}))
<1>1. s > 12 /\ Gaps!Max({12, s}) = s
  BY MaxIs
<1>2. Gaps!Abs(s - w) = s - w
  BY DEF Gaps!Abs
<1> QED
  BY <1>1, <1>2

(* By no clock, or by a slower one, no step of a stall nor of a wrong stamp is    *)
(* matched.                                                                       *)
LEMMA UnmatchedIs ==
  ASSUME NEW X \in SUBSET (Int \X Int), jumps \in Seq(X), clock \in {0, Slower},
         NEW i \in 1 .. Len(jumps), NEW d \in Int, NEW w \in Nat, jumps[i] = <<d, w>>,
         (d > 8 \/ d < -8), w <= (IF d < 0 THEN -d ELSE d) + 2
  PROVE  ~Gaps!Matched(i)
<1>1. PICK a \in Nat : a = (IF d < 0 THEN -d ELSE d)
  OBVIOUS
<1>2. jumps[i][1] = d /\ jumps[i][2] = w /\ Gaps!Abs(d) = a /\ a > 8 /\ w <= a + 2
  BY <1>1 DEF Gaps!Abs
<1>3. CASE clock = 0
  BY <1>3 DEF Gaps!Matched
<1>4. CASE clock = Slower
  <2>1. Slower * a \in Nat /\ Slower * a >= 3 * a
    BY SlowerTimes
  <2>2. ~(2 * Gaps!Abs(Slower * a - w) < Gaps!Max({12, Slower * a}))
    BY <1>2, <2>1, FarFromWall, Zenon
  <2> QED
    BY <1>2, <1>4, <2>2, Zenon DEF Gaps!Matched
<1> QED
  BY <1>3, <1>4

(* Less than half of the steps are faults: the modal step is the frame on time.   *)
LEMMA ModalOnTime ==
  ASSUME Noted(jumps, wrong, stalls), Len(jumps) > 0,
         2 * (stalls + Len(wrong)) < Len(jumps)
  PROVE  Gaps!Modal = 1
<1>1. /\ jumps \in Seq(Jump) /\ Len(jumps) \in Nat /\ Len(wrong) \in Nat /\ stalls \in Nat
      /\ Tally(jumps, OnTime) + stalls + Len(wrong) = Len(jumps)
  BY DEF Noted
<1>2. ASSUME NEW e, e # 1
      PROVE  Gaps!Times(e) + Tally(jumps, OnTime) <= Len(jumps)
  <2>1. {j \in Jump : j[1] = e} \cap OnTime = {}
    BY <1>2 DEF OnTime
  <2> QED
    BY <1>1, <2>1, TallyApart, TimesIs
<1>3. Gaps!Times(1) >= Tally(jumps, OnTime)
  <2>1. OnTime \subseteq {j \in Jump : j[1] = 1}
    BY DEF OnTime, Jump
  <2>2. Tally(jumps, OnTime) <= Tally(jumps, {j \in Jump : j[1] = 1})
    BY <1>1, <2>1, TallyMore
  <2>3. Gaps!Times(1) = Tally(jumps, {j \in Jump : j[1] = 1}) /\ Gaps!Times(1) \in Int
    BY <1>1, TimesIs
  <2>4. Tally(jumps, OnTime) \in Int
    BY <1>1, HitsFinite
  <2> QED
    BY <2>2, <2>3, <2>4
<1>4. Tally(jumps, OnTime) \in Int /\ \A e : Gaps!Times(e) \in Int
  <2>1. Tally(jumps, OnTime) \in Int
    BY <1>1, HitsFinite
  <2>2. ASSUME NEW e PROVE Gaps!Times(e) \in Int
    <3>1. Gaps!Times(e) \in 0 .. Len(jumps)
      BY <1>1, TimesIs
    <3> QED
      BY <1>1, <3>1
  <2> QED
    BY <2>1, <2>2
<1>5. \A e : e # 1 => Gaps!Times(e) < Gaps!Times(1)
  <2> TAKE e
  <2> HAVE e # 1
  <2>1. PICK n \in Int, m \in Int, o \in Int :
          n = Gaps!Times(e) /\ m = Gaps!Times(1) /\ o = Tally(jumps, OnTime)
    BY <1>4
  <2>2. n + o <= Len(jumps) /\ m >= o
    BY <1>2, <1>3, <2>1
  <2> QED
    BY <1>1, <2>1, <2>2
<1>6. \E i \in 1 .. Len(jumps) : jumps[i][1] = 1
  <2>1. Tally(jumps, OnTime) # 0
    BY <1>1
  <2>2. Hits(jumps, OnTime) # {}
    BY <2>1, FS_EmptySet DEF Tally
  <2>3. PICK i \in Hits(jumps, OnTime) : TRUE
    BY <2>2
  <2> QED
    BY <1>1, <2>3 DEF Hits, OnTime
<1> QED
  BY <1>1, <1>5, <1>6, ModalIs

(* The triage is exact, whatever the width of the stamp and across its wrap, for  *)
(* any number of faults as long as most steps are of one frame: by the track's    *)
(* own clock a stall is an honest gap and no spike, by none or a slower one a     *)
(* spike and no honest gap, and by any a wrong stamp is a spike and no honest gap *)
(* (seq_gap.py:22-32, 63-68, 76-91).                                              *)
THEOREM TriageCorrect == Gaps!Spec => []TriageExact
<1>1. TriInv /\ ClockInv => TriageExact
  <2> SUFFICES ASSUME TriInv, ClockInv, mode = "any", Len(jumps) >= Gaps!Few,
                      2 * (stalls + Len(wrong)) < Len(jumps)
               PROVE  LET far == Gaps!Cardinality({i \in DOMAIN wrong :
                                                     Gaps!Abs(wrong[i]) = Far})
                      IN  /\ Gaps!Backward
                               = Gaps!Cardinality({i \in DOMAIN wrong : wrong[i] < 0})
                          /\ clock = 1 => Gaps!Honest = stalls /\ Gaps!Spikes = far
                          /\ clock # 1 => Gaps!Honest = 0 /\ Gaps!Spikes = stalls + far
    BY DEF TriageExact, Gaps!TriageExact
  <2>1. Noted(jumps, wrong, stalls)
    BY DEF TriInv
  <2>2. /\ jumps \in Seq(Jump) /\ wrong \in Seq(Offset)
        /\ DOMAIN jumps = 1 .. Len(jumps) /\ DOMAIN wrong = 1 .. Len(wrong)
        /\ Len(jumps) \in Nat /\ Len(wrong) \in Nat
        /\ \A i \in 1 .. Len(jumps) : jumps[i] \in Jump
        /\ \A i \in 1 .. Len(wrong) : wrong[i] \in Offset
    BY <2>1 DEF Noted
  <2>3. Gaps!Modal = 1
    BY <2>1, <2>2, ModalOnTime DEF Gaps!Few
  <2>4. Jump \in SUBSET (Int \X Int)
    BY TsBounds DEF Jump, OnTime, Stalled, FarOff, FromPast
  <2>5. ASSUME NEW i \in 1 .. Len(jumps)
        PROVE  /\ Gaps!Big(i) <=> jumps[i] \in Stalled \cup FarOff
               /\ Gaps!Big(i) => (Gaps!Matched(i) <=> clock = 1 /\ jumps[i] \in Stalled)
               /\ jumps[i] \notin Stalled \cap FarOff
               /\ jumps[i][1] < 0 <=> jumps[i] \in FromPast
    <3>1. jumps[i] \in OnTime \cup Stalled \cup FarOff \cup FromPast
      BY <2>2 DEF Jump
    <3>2. ASSUME NEW d \in Int, NEW w \in Int, jumps[i] = <<d, w>>
          PROVE  /\ Gaps!Big(i) <=> (d > 8 \/ d < -8)
                 /\ clock = 1 => (Gaps!Matched(i) <=>
                      LET a == IF d < 0 THEN -d ELSE d
                          g == IF a - w < 0 THEN w - a ELSE a - w
                      IN  2 * g < 12 \/ 2 * g < a)
      BY <2>2, <2>3, <2>4, <3>2, BigIs
    <3>6. ASSUME NEW d \in Int, NEW w \in Nat, jumps[i] = <<d, w>>, clock # 1,
                 (d > 8 \/ d < -8), w <= (IF d < 0 THEN -d ELSE d) + 2
          PROVE  ~Gaps!Matched(i)
      <4>1. clock \in {0, Slower}
        BY <3>6 DEF ClockInv
      <4> QED
        BY <2>2, <2>4, <3>6, <4>1, UnmatchedIs
    <3>3. CASE jumps[i] \in OnTime
      <4>1. jumps[i] = <<1, 1>>
        BY <3>3 DEF OnTime
      <4>2. ~Gaps!Big(i)
        BY <3>2, <4>1
      <4> QED
        BY <4>1, <4>2, TsBounds DEF Stalled, FarOff, FromPast
    <3>4. CASE jumps[i] \in Stalled
      <4>1. PICK k \in {-1, 0, 2} : jumps[i] = <<Far, Far + k>>
        BY <3>4, TsBounds DEF Stalled
      <4>2. Gaps!Big(i) /\ (clock = 1 => Gaps!Matched(i))
        BY <3>2, <4>1, TsBounds
      <4>3. jumps[i] \notin FarOff /\ jumps[i] \notin FromPast /\ ~(jumps[i][1] < 0)
        BY <4>1, TsBounds DEF FarOff, FromPast
      <4>4. clock # 1 => ~Gaps!Matched(i)
        <5>1. Far \in Int /\ Far + k \in Nat /\ Far > 8 /\ ~(Far < 0) /\ Far + k <= Far + 2
          BY TsBounds
        <5> QED
          BY <3>6, <4>1, <5>1
      <4> QED
        BY <3>4, <4>2, <4>3, <4>4
    <3>5. CASE jumps[i] \in FarOff \cup FromPast
      <4>1. PICK d \in Offset : jumps[i] = <<d, 1>>
        BY <3>5 DEF FarOff, FromPast, Offset
      <4>2. d \in Int
        BY TsBounds DEF Offset
      <4>3. jumps[i] \notin Stalled
        BY <4>1, TsBounds DEF Stalled
      <4>4. jumps[i] \in FarOff <=> (d = Far \/ d = -Far)
        BY <4>1, TsBounds DEF FarOff
      <4>5. jumps[i] \in FromPast <=> (d = -2 \/ d = -Far)
        BY <4>1, TsBounds DEF FromPast
      <4>6. CASE d = -2
        <5>1. ~Gaps!Big(i)
          BY <3>2, <4>1, <4>2, <4>6
        <5> QED
          BY <4>1, <4>3, <4>4, <4>5, <4>6, <5>1, TsBounds
      <4>7. CASE d # -2
        <5>1. (d = Far \/ d = -Far) /\ Gaps!Big(i)
          BY <3>2, <4>1, <4>2, <4>7, TsBounds DEF Offset
        <5>2. clock = 1 => ~Gaps!Matched(i)
          BY <3>2, <4>1, <4>2, <5>1, TsBounds
        <5>3. jumps[i][1] < 0 <=> (d = -2 \/ d = -Far)
          BY <4>1, <4>2, <4>7, <5>1, TsBounds
        <5>4. clock # 1 => ~Gaps!Matched(i)
          <6>1. 1 \in Nat /\ (d > 8 \/ d < -8) /\ 1 <= (IF d < 0 THEN -d ELSE d) + 2
            BY <4>2, <5>1, TsBounds
          <6> QED
            BY <3>6, <4>1, <4>2, <6>1
        <5> QED
          BY <4>3, <4>4, <4>5, <5>1, <5>2, <5>3, <5>4
      <4> QED
        BY <4>6, <4>7
    <3> QED
      BY <3>1, <3>3, <3>4, <3>5
  <2>6. ASSUME NEW i \in 1 .. Len(wrong)
        PROVE  /\ wrong[i] < 0 <=> wrong[i] \in {-2, -Far}
               /\ Gaps!Abs(wrong[i]) = Far <=> wrong[i] \in {Far, -Far}
    <3>1. wrong[i] \in {Far, -2, -Far}
      BY <2>2 DEF Offset
    <3> QED
      BY <3>1, TsBounds DEF Gaps!Abs
  <2>7. clock = 1 => Gaps!Honest = Tally(jumps, Stalled) /\ Gaps!Spikes = Tally(jumps, FarOff)
    <3> SUFFICES ASSUME clock = 1
                 PROVE  Gaps!Honest = Tally(jumps, Stalled)
                          /\ Gaps!Spikes = Tally(jumps, FarOff)
      OBVIOUS
    <3>1. {i \in DOMAIN jumps : Gaps!Big(i) /\ Gaps!Matched(i)} = Hits(jumps, Stalled)
      BY <2>2, <2>5 DEF Hits
    <3>2. {i \in DOMAIN jumps : Gaps!Big(i) /\ ~Gaps!Matched(i)} = Hits(jumps, FarOff)
      BY <2>2, <2>5 DEF Hits
    <3> QED
      BY <3>1, <3>2, CardIs DEF Gaps!Honest, Gaps!Spikes, Tally
  <2>8. clock # 1 => /\ Gaps!Honest = 0
                     /\ Gaps!Spikes = Tally(jumps, Stalled) + Tally(jumps, FarOff)
    <3> SUFFICES ASSUME clock # 1
                 PROVE  /\ Gaps!Honest = 0
                        /\ Gaps!Spikes = Tally(jumps, Stalled) + Tally(jumps, FarOff)
      OBVIOUS
    <3>1. {i \in DOMAIN jumps : Gaps!Big(i) /\ Gaps!Matched(i)} = {}
      BY <2>2, <2>5
    <3>2. {i \in DOMAIN jumps : Gaps!Big(i) /\ ~Gaps!Matched(i)}
            = Hits(jumps, Stalled) \cup Hits(jumps, FarOff)
      BY <2>2, <2>5 DEF Hits
    <3>3. Hits(jumps, Stalled) \cap Hits(jumps, FarOff) = {}
      BY <2>2, <2>5 DEF Hits
    <3>4. Cardinality(Hits(jumps, Stalled) \cup Hits(jumps, FarOff))
            = Cardinality(Hits(jumps, Stalled)) + Cardinality(Hits(jumps, FarOff))
      <4>1. /\ IsFiniteSet(Hits(jumps, Stalled)) /\ IsFiniteSet(Hits(jumps, FarOff))
            /\ Cardinality(Hits(jumps, Stalled)) \in Nat
            /\ Cardinality(Hits(jumps, FarOff)) \in Nat
        BY <2>2, HitsFinite, FS_CardinalityType
      <4>2. Cardinality(Hits(jumps, Stalled) \cap Hits(jumps, FarOff)) = 0
        BY <3>3, FS_EmptySet
      <4>3. Cardinality(Hits(jumps, Stalled) \cup Hits(jumps, FarOff))
              = Cardinality(Hits(jumps, Stalled)) + Cardinality(Hits(jumps, FarOff))
                  - Cardinality(Hits(jumps, Stalled) \cap Hits(jumps, FarOff))
        BY <4>1, FS_Union
      <4> QED
        BY <4>1, <4>2, <4>3
    <3>5. Cardinality({}) = 0
      BY FS_EmptySet
    <3> QED
      BY <3>1, <3>2, <3>4, <3>5, CardIs DEF Gaps!Honest, Gaps!Spikes, Tally
  <2>9. Gaps!Backward = Tally(jumps, FromPast)
    <3>1. {i \in DOMAIN jumps : jumps[i][1] < 0} = Hits(jumps, FromPast)
      BY <2>2, <2>5 DEF Hits
    <3> QED
      BY <3>1, CardIs DEF Gaps!Backward, Tally
  <2>10. Gaps!Cardinality({i \in DOMAIN wrong : wrong[i] < 0}) = Tally(wrong, {-2, -Far})
    <3>1. {i \in DOMAIN wrong : wrong[i] < 0} = Hits(wrong, {-2, -Far})
      BY <2>2, <2>6 DEF Hits
    <3> QED
      BY <3>1, CardIs DEF Tally
  <2>11. Gaps!Cardinality({i \in DOMAIN wrong : Gaps!Abs(wrong[i]) = Far})
           = Tally(wrong, {Far, -Far})
    <3>1. {i \in DOMAIN wrong : Gaps!Abs(wrong[i]) = Far} = Hits(wrong, {Far, -Far})
      BY <2>2, <2>6 DEF Hits
    <3> QED
      BY <3>1, CardIs DEF Tally
  <2> QED
    BY <2>1, <2>7, <2>8, <2>9, <2>10, <2>11 DEF Noted
<1> QED
  BY <1>1, TriInit, TriStep, ClockInit, ClockKept, PTL DEF Gaps!Spec

--------------------------------------------------------------------------------
(* The hostile server's modes.  Its numbers: what was left out behind the last    *)
(* packet shows in front of the next one.                                         *)
LEMMA ModeBounds ==
  /\ Skip \in Nat \ {0} /\ SeqWord \in Nat \ {0} /\ 3 * Skip + 1 < SeqWord
  /\ GapCycle \in Nat \ {0} /\ GapCycle >= 4
  /\ Drop \in Nat /\ Drop > 1 /\ Drop < GapCycle + GapCycle \div 2
  BY StreamConstants DEF Gaps!ConstAssumption

Behind == {0, Skip, 2 * Skip, 3 * Skip}

(* A gap of p numbers is open behind the last packet.                             *)
Open(p) ==
  /\ p \in Behind
  /\ mode # "seqdrop" => p = 0 /\ gaps = 0
  /\ \/ last = -1 /\ gaps = 0 /\ p = 0
     \/ last \in 0 .. SeqWord - 1 /\ last = (seq - 1 - p) % SeqWord
  /\ gaps = 0 => \/ p = 0 /\ seq = 1 + count /\ (mode = "seqdrop" => seq < Drop)
                 \/ p > 0 /\ count <= Drop + 1

NumInv ==
  mode # "any" =>
    /\ seq \in Nat /\ count \in Nat /\ gaps \in Nat /\ fno \in Nat /\ nal \in 0 .. 2
    /\ count >= fno + nal
    /\ \E p \in Behind : Open(p)

LEMMA PastIs ==
  ASSUME NEW s \in Nat
  PROVE  /\ Gaps!Past(s) \in {s + 1, s + 1 + Skip} /\ Gaps!Past(s) \in Nat
         /\ mode # "seqdrop" => Gaps!Past(s) = s + 1
         /\ mode = "seqdrop" /\ s < Drop /\ Gaps!Past(s) = s + 1 => s + 1 < Drop
<1>1. /\ mode = "seqdrop" /\ (s + 1) % Drop = 0 => Gaps!Past(s) = s + 1 + Skip
      /\ ~(mode = "seqdrop" /\ (s + 1) % Drop = 0) => Gaps!Past(s) = s + 1
  BY DEF Gaps!Past
<1>2. Gaps!Past(s) \in {s + 1, s + 1 + Skip} /\ Gaps!Past(s) \in Nat
  BY <1>1, ModeBounds
<1>3. ASSUME mode = "seqdrop", s < Drop, Gaps!Past(s) = s + 1 PROVE s + 1 < Drop
  <2>1. SUFFICES ASSUME s + 1 = Drop PROVE FALSE
    BY <1>3, ModeBounds
  <2>2. Drop % Drop = 0
    <3>1. Drop \in Nat \ {0} /\ 0 \in 0 .. Drop - 1
      BY ModeBounds
    <3>2. (Drop * 1 + 0) % Drop = 0
      BY <3>1, ModIs
    <3> QED
      BY <3>1, <3>2
  <2>3. Gaps!Past(s) = s + 1 + Skip
    BY <1>1, <1>3, <2>1, <2>2
  <2> QED
    BY <1>3, <2>3, ModeBounds
<1> QED
  BY <1>1, <1>2, <1>3

(* The numbers behind a NAL of one or of three packets.                           *)
LEMMA NalNumbers ==
  ASSUME NEW s \in Nat, NEW n \in {1, 3}
  PROVE  LET t == IF n = 1 THEN Gaps!Past(s) ELSE Gaps!Past(Gaps!Past(Gaps!Past(s)))
         IN  \E p \in Behind :
               /\ t = s + n + p /\ t \in Nat
               /\ mode # "seqdrop" => p = 0
               /\ mode = "seqdrop" /\ s < Drop /\ p = 0 => t < Drop
<1>1. CASE n = 1
  <2>1. PICK p \in {0, Skip} : Gaps!Past(s) = s + 1 + p
    BY PastIs, ModeBounds
  <2>2. /\ Gaps!Past(s) \in Nat
        /\ mode # "seqdrop" => Gaps!Past(s) = s + 1
        /\ mode = "seqdrop" /\ s < Drop /\ Gaps!Past(s) = s + 1 => s + 1 < Drop
    BY PastIs
  <2>3. p \in Behind /\ p \in Int
    BY ModeBounds DEF Behind
  <2>4. /\ mode # "seqdrop" => p = 0
        /\ mode = "seqdrop" /\ s < Drop /\ p = 0 => Gaps!Past(s) < Drop
    BY <2>1, <2>2, <2>3
  <2> QED
    BY <1>1, <2>1, <2>2, <2>3, <2>4
<1>2. CASE n = 3
  <2>1. PICK a \in Nat : /\ a = Gaps!Past(s) /\ a \in {s + 1, s + 1 + Skip}
                         /\ mode # "seqdrop" => a = s + 1
                         /\ mode = "seqdrop" /\ s < Drop /\ a = s + 1 => s + 1 < Drop
    BY PastIs
  <2>2. PICK b \in Nat : /\ b = Gaps!Past(a) /\ b \in {a + 1, a + 1 + Skip}
                         /\ mode # "seqdrop" => b = a + 1
                         /\ mode = "seqdrop" /\ a < Drop /\ b = a + 1 => a + 1 < Drop
    BY PastIs
  <2>3. PICK c \in Nat : /\ c = Gaps!Past(b) /\ c \in {b + 1, b + 1 + Skip}
                         /\ mode # "seqdrop" => c = b + 1
                         /\ mode = "seqdrop" /\ b < Drop /\ c = b + 1 => b + 1 < Drop
    BY PastIs
  <2>4. c = Gaps!Past(Gaps!Past(Gaps!Past(s)))
    BY <2>1, <2>2, <2>3
  <2>5. PICK p \in Behind : c = s + 3 + p
    <3>1. c \in {s + 3, s + 3 + Skip, s + 3 + 2 * Skip, s + 3 + 3 * Skip}
      BY <2>1, <2>2, <2>3, ModeBounds
    <3> QED
      BY <3>1, ModeBounds DEF Behind
  <2>6. mode # "seqdrop" => p = 0
    BY <2>1, <2>2, <2>3, <2>5, ModeBounds DEF Behind
  <2>7. ASSUME mode = "seqdrop", s < Drop, p = 0 PROVE c < Drop
    <3>1. a = s + 1 /\ b = a + 1 /\ c = b + 1
      BY <2>1, <2>2, <2>3, <2>5, <2>7, ModeBounds
    <3> QED
      BY <2>1, <2>2, <2>3, <2>7, <3>1
  <2> QED
    BY <1>2, <2>4, <2>5, <2>6, <2>7
<1> QED
  BY <1>1, <1>2

LEMMA NumInit == Gaps!Init => NumInv
<1> SUFFICES ASSUME Gaps!Init, mode # "any" PROVE NumInv
  BY DEF NumInv
<1>1. seq = 1 /\ count = 0 /\ gaps = 0 /\ fno = 0 /\ nal = 0 /\ last = -1
  BY DEF Gaps!Init
<1>2. 0 \in Behind /\ Open(0)
  BY <1>1, ModeBounds DEF Open, Behind
<1> QED
  BY <1>1, <1>2 DEF NumInv

LEMMA NumStep == NumInv /\ [Gaps!Next]_(Gaps!vars) => NumInv'
<1> SUFFICES ASSUME NumInv, [Gaps!Next]_(Gaps!vars), mode' # "any"
             PROVE  NumInv'
  BY DEF NumInv
<1>1. CASE UNCHANGED Gaps!vars
  BY <1>1 DEF Gaps!vars, Gaps!source, Gaps!history, Gaps!probe, NumInv, Open
<1>2. CASE Gaps!ServeNal
  <2>1. PICK n \in {1, 3} :
          /\ mode # "any" /\ mode' = mode
          /\ Gaps!Take(seq, n, Gaps!Stamp, IF nal = 0 THEN 1 ELSE 0)
          /\ seq' = IF n = 1 THEN Gaps!Past(seq) ELSE Gaps!Past(Gaps!Past(Gaps!Past(seq)))
          /\ \/ nal < (IF fno % GapCycle = 0 THEN 2 ELSE 0) /\ nal' = nal + 1 /\ fno' = fno
             \/ nal' = 0 /\ fno' = fno + 1
    BY <1>2 DEF Gaps!ServeNal
  <2>2. /\ seq \in Nat /\ count \in Nat /\ gaps \in Nat /\ fno \in Nat /\ nal \in 0 .. 2
        /\ count >= fno + nal
        /\ \E p \in Behind : Open(p)
    BY <2>1 DEF NumInv
  <2>3. PICK p \in Behind : Open(p)
    BY <2>2
  <2>4. PICK q \in Behind :
          /\ seq' = seq + n + q /\ seq' \in Nat
          /\ mode # "seqdrop" => q = 0
          /\ mode = "seqdrop" /\ seq < Drop /\ q = 0 => seq' < Drop
    BY <2>1, <2>2, NalNumbers
  <2>5. /\ last' = (seq + n - 1) % SeqWord /\ count' = count + n
        /\ gaps' = IF last # -1 /\ (seq - last) % SeqWord # 1
                   THEN gaps + ((seq - last) % SeqWord) - 1 ELSE gaps
    BY <2>1 DEF Gaps!Take
  <2>6. p \in Nat /\ q \in Nat /\ 1 + p \in 0 .. SeqWord - 1 /\ n \in Nat /\ n <= 3 /\ n >= 1
    BY ModeBounds DEF Behind
  <2>7. gaps' = gaps + p
    <3>1. CASE last = -1
      BY <2>2, <2>3, <2>5, <3>1 DEF Open
    <3>2. CASE last # -1
      <4>1. last = (seq - 1 - p) % SeqWord /\ last \in 0 .. SeqWord - 1
        BY <2>3, <3>2 DEF Open
      <4>2. (seq - last) % SeqWord = (1 + p) % SeqWord
        <5> DEFINE u == seq - 1 - p
        <5>1. u \in Int /\ 1 + p \in Int
          BY <2>2, <2>6
        <5>2. PICK k \in Int : u = SeqWord * k + last
          BY <4>1, <5>1, ModOf, ModeBounds
        <5>3. seq - last = SeqWord * k + (1 + p)
          <6>1. SeqWord * k \in Int
            BY <5>2, ModeBounds
          <6> QED
            BY <2>2, <2>6, <4>1, <5>2, <6>1
        <5>4. (SeqWord * k + (1 + p)) % SeqWord = 1 + p
          BY <2>6, ModIs, ModeBounds
        <5>5. (1 + p) % SeqWord = 1 + p
          BY <2>6, ModSmall, ModeBounds
        <5> QED
          BY <5>3, <5>4, <5>5
      <4>3. (1 + p) % SeqWord = 1 + p
        BY <2>6, ModSmall, ModeBounds
      <4> QED
        BY <2>2, <2>5, <2>6, <3>2, <4>2, <4>3
    <3> QED
      BY <3>1, <3>2
  <2>8. gaps' \in Nat /\ count' \in Nat /\ fno' \in Nat /\ nal' \in 0 .. 2
          /\ count' >= fno' + nal'
    BY <2>1, <2>2, <2>5, <2>6, <2>7
  <2>9. last' \in 0 .. SeqWord - 1 /\ last' = (seq' - 1 - q) % SeqWord
    <3>1. seq + n - 1 \in Int /\ seq + n - 1 = seq' - 1 - q
      BY <2>2, <2>4, <2>6
    <3> QED
      BY <2>5, <3>1, ModOf, ModeBounds
  <2>10. mode' # "seqdrop" => q = 0 /\ gaps' = 0
    BY <2>1, <2>3, <2>4, <2>6, <2>7 DEF Open
  <2>11. ASSUME gaps' = 0
         PROVE  \/ q = 0 /\ seq' = 1 + count' /\ (mode' = "seqdrop" => seq' < Drop)
                \/ q > 0 /\ count' <= Drop + 1
    <3>1. gaps = 0 /\ p = 0
      BY <2>2, <2>6, <2>7, <2>11
    <3>2. seq = 1 + count /\ (mode = "seqdrop" => seq < Drop)
      BY <2>3, <3>1 DEF Open
    <3>3. CASE q = 0
      BY <2>1, <2>2, <2>4, <2>5, <2>6, <3>2, <3>3
    <3>4. CASE q # 0
      <4>1. mode = "seqdrop" /\ q > 0
        BY <2>4, <2>6, <3>4
      <4> QED
        BY <2>2, <2>5, <2>6, <3>2, <4>1, ModeBounds
    <3> QED
      BY <3>3, <3>4
  <2>12. Open(q)'
    BY <2>9, <2>10, <2>11 DEF Open, Behind
  <2> QED
    BY <2>4, <2>8, <2>12 DEF NumInv
<1>3. CASE mode = "any"
  BY <1>3 DEF Gaps!Next, Gaps!Frame, Gaps!SkipNumbers, Gaps!Repeat, Gaps!Stall, Gaps!Misstamp,
              Gaps!Send, Gaps!ServeNal, Gaps!vars
<1>4. CASE mode # "any"
  BY <1>1, <1>2, <1>4 DEF Gaps!Next, Gaps!Frame, Gaps!SkipNumbers, Gaps!Repeat, Gaps!Stall,
              Gaps!Misstamp, Gaps!Send
<1> QED
  BY <1>3, <1>4

(* Past a cycle and a half seqdrop has shown, and nothing else has.               *)
LEMMA NumbersShow ==
  ASSUME NumInv, mode # "any", fno > GapCycle + GapCycle \div 2, nal = 0
  PROVE  gaps > 0 <=> mode = "seqdrop"
<1>1. /\ seq \in Nat /\ count \in Nat /\ gaps \in Nat /\ fno \in Nat
      /\ count >= fno + nal /\ \E p \in Behind : Open(p)
  BY DEF NumInv
<1>2. PICK p \in Behind : Open(p)
  BY <1>1
<1>3. GapCycle \div 2 \in Nat /\ count >= Drop + 2
  BY <1>1, ModeBounds
<1>4. CASE mode # "seqdrop"
  BY <1>1, <1>2, <1>4 DEF Open
<1>5. CASE mode = "seqdrop"
  <2>1. gaps # 0
    BY <1>1, <1>2, <1>3, <1>5, ModeBounds DEF Open
  <2> QED
    BY <1>1, <1>5, <2>1
<1> QED
  BY <1>4, <1>5

--------------------------------------------------------------------------------
(* Its stamps: every cycle has one wrong frame, a step into it and one out of it. *)
Half == GapCycle \div 2
WrongAt(k) == k % GapCycle = Half

(* How far the frame is behind the last wrong one.                                *)
Phase(k) == (k - Half) % GapCycle

(* Of the steps to frame k, a are of one frame, b lead into a wrong stamp and o   *)
(* out of one.  Between two wrong frames there are two steps of one frame or more.*)
Beat(a, b, o, k) ==
  /\ a \in Nat /\ b \in Nat /\ o \in Nat /\ a + b + o = k
  /\ k < Half => b = 0 /\ o = 0
  /\ k >= Half => /\ b >= 1 /\ o = (IF Phase(k) = 0 THEN b - 1 ELSE b)
                  /\ a >= 2 * b - 1 + (CASE Phase(k) \in {0, 1} -> 0
                                         [] Phase(k) = 2 -> 1
                                         [] OTHER -> 2)
  /\ k > Half => o >= 1

LEMMA HalfIs == Half \in Nat /\ Half >= 2 /\ Half + 2 <= GapCycle
  BY ModeBounds DEF Half

LEMMA PhaseIs ==
  ASSUME NEW k \in Nat
  PROVE  /\ Phase(k) \in 0 .. GapCycle - 1
         /\ Phase(k) = 0 <=> WrongAt(k)
         /\ Phase(k + 1) = IF Phase(k) = GapCycle - 1 THEN 0 ELSE Phase(k) + 1
         /\ k < Half => ~WrongAt(k)
         /\ WrongAt(Half)
<1> DEFINE p == (k - Half) % GapCycle  q == (k - Half) \div GapCycle
<1>1. k - Half \in Int /\ GapCycle \in Nat \ {0}
  BY HalfIs, ModeBounds
<1>2. p \in 0 .. GapCycle - 1 /\ q \in Int /\ k - Half = GapCycle * q + p
  BY <1>1, ModOf
<1>3. Phase(k) = p
  BY DEF Phase
<1>4. Half % GapCycle = Half
  BY HalfIs, ModeBounds, ModSmall
<1>5. Phase(k) = 0 <=> WrongAt(k)
  <2>1. (Half + (k - Half)) % GapCycle = Half % GapCycle <=> (k - Half) % GapCycle = 0
    <3>1. \A W \in Nat \ {0} : \A a, d \in Int : (a + d) % W = a % W <=> d % W = 0
      BY ModSame
    <3>2. Half \in Int
      BY HalfIs
    <3> QED
      BY <1>1, <3>1, <3>2
  <2>2. Half + (k - Half) = k
    BY HalfIs
  <2> QED
    BY <1>4, <2>1, <2>2 DEF Phase, WrongAt
<1> HIDE DEF p, q
<1>6. GapCycle * q \in Int /\ GapCycle * (q + 1) = GapCycle * q + GapCycle
  BY <1>1, <1>2
<1>7. ASSUME p = GapCycle - 1 PROVE Phase(k + 1) = 0
  <2>1. (k + 1) - Half = GapCycle * (q + 1) + 0 /\ q + 1 \in Int /\ 0 \in 0 .. GapCycle - 1
    BY <1>1, <1>2, <1>6, <1>7, HalfIs
  <2>2. ((k + 1) - Half) % GapCycle = 0
    BY <1>1, <2>1, ModIs
  <2> QED
    BY <2>2 DEF Phase
<1>8. ASSUME p # GapCycle - 1 PROVE Phase(k + 1) = Phase(k) + 1
  <2>1. (k + 1) - Half = GapCycle * q + (p + 1) /\ p + 1 \in 0 .. GapCycle - 1
    BY <1>1, <1>2, <1>6, <1>8, HalfIs
  <2>2. ((k + 1) - Half) % GapCycle = p + 1
    BY <1>1, <1>2, <2>1, ModIs
  <2> QED
    BY <1>3, <2>2 DEF Phase
<1>9. k < Half => ~WrongAt(k)
  <2> SUFFICES ASSUME k < Half PROVE ~WrongAt(k)
    OBVIOUS
  <2>1. k \in 0 .. GapCycle - 1
    BY HalfIs, ModeBounds
  <2>2. k % GapCycle = k
    BY <1>1, <2>1, ModSmall
  <2> QED
    BY <2>2, HalfIs DEF WrongAt
<1> QED
  <2>1. Phase(k + 1) = IF Phase(k) = GapCycle - 1 THEN 0 ELSE Phase(k) + 1
    BY <1>3, <1>7, <1>8
  <2>2. Phase(k) \in 0 .. GapCycle - 1 /\ WrongAt(Half)
    BY <1>2, <1>3, <1>4 DEF WrongAt
  <2> QED
    BY <1>5, <1>9, <2>1, <2>2

LEMMA BeatFirst == Beat(0, 0, 0, 0)
  BY HalfIs DEF Beat

LEMMA BeatNext ==
  ASSUME NEW a, NEW b, NEW o, NEW k \in Nat, Beat(a, b, o, k)
  PROVE  /\ WrongAt(k) => Beat(a, b, o + 1, k + 1)
         /\ WrongAt(k + 1) => Beat(a, b + 1, o, k + 1)
         /\ ~WrongAt(k) /\ ~WrongAt(k + 1) => Beat(a + 1, b, o, k + 1)
         /\ ~(WrongAt(k) /\ WrongAt(k + 1))
<1> DEFINE p == Phase(k)  q == Phase(k + 1)
           G(x) == CASE x \in {0, 1} -> 0 [] x = 2 -> 1 [] OTHER -> 2
<1>1. /\ p \in 0 .. GapCycle - 1 /\ q \in 0 .. GapCycle - 1
      /\ p = 0 <=> WrongAt(k)
      /\ q = 0 <=> WrongAt(k + 1)
      /\ q = IF p = GapCycle - 1 THEN 0 ELSE p + 1
      /\ k < Half => ~WrongAt(k)
      /\ k + 1 < Half => ~WrongAt(k + 1)
      /\ WrongAt(Half)
  <2>1. k + 1 \in Nat
    OBVIOUS
  <2> QED
    BY <2>1, PhaseIs
<1>2. /\ a \in Nat /\ b \in Nat /\ o \in Nat /\ a + b + o = k
      /\ k < Half => b = 0 /\ o = 0
      /\ k >= Half => b >= 1 /\ o = (IF p = 0 THEN b - 1 ELSE b) /\ a >= 2 * b - 1 + G(p)
      /\ k > Half => o >= 1
  BY DEF Beat
<1>3. ASSUME NEW c \in Nat, NEW d \in Nat, NEW e \in Nat, c + d + e = k + 1,
             k + 1 < Half => d = 0 /\ e = 0,
             k + 1 >= Half
               => d >= 1 /\ e = (IF q = 0 THEN d - 1 ELSE d) /\ c >= 2 * d - 1 + G(q),
             k + 1 > Half => e >= 1
      PROVE  Beat(c, d, e, k + 1)
  BY <1>3 DEF Beat
<1>4. /\ G(0) = 0 /\ G(1) = 0 /\ G(2) = 1 /\ \A x \in Nat : x > 2 => G(x) = 2
  OBVIOUS
<1> HIDE DEF p, q, G
<1>h. GapCycle \in Nat /\ GapCycle >= 4 /\ Half \in Nat /\ Half >= 2 /\ Half + 2 <= GapCycle
  BY HalfIs, ModeBounds
<1>5. ASSUME WrongAt(k) PROVE Beat(a, b, o + 1, k + 1)
  <2>1. k >= Half /\ p = 0 /\ q = 1
    BY <1>1, <1>5, <1>h
  <2>2. b >= 1 /\ o = b - 1 /\ a >= 2 * b - 1
    BY <1>2, <1>4, <2>1
  <2> QED
    BY <1>2, <1>3, <1>4, <1>h, <2>1, <2>2
<1>6. ASSUME WrongAt(k + 1) PROVE Beat(a, b + 1, o, k + 1)
  <2>1. q = 0 /\ p = GapCycle - 1 /\ p > 2 /\ k + 1 >= Half
    BY <1>1, <1>6, <1>h
  <2>2. G(p) = 2
    BY <1>1, <1>4, <2>1
  <2>3. CASE k >= Half
    <3>1. b >= 1 /\ o = b /\ a >= 2 * b + 1
      BY <1>2, <1>h, <2>1, <2>2, <2>3
    <3> QED
      BY <1>2, <1>3, <1>4, <1>h, <2>1, <2>3, <3>1
  <2>4. CASE k < Half
    <3>1. b = 0 /\ o = 0 /\ a = k /\ k + 1 = Half
      BY <1>2, <1>h, <2>1, <2>4
    <3> QED
      BY <1>2, <1>3, <1>4, <1>h, <2>1, <3>1
  <2> QED
    BY <2>3, <2>4, <1>h
<1>7. ASSUME ~WrongAt(k), ~WrongAt(k + 1) PROVE Beat(a + 1, b, o, k + 1)
  <2>1. p # 0 /\ q # 0 /\ q = p + 1 /\ k + 1 # Half
    BY <1>1, <1>7
  <2>2. CASE k >= Half
    <3>1. b >= 1 /\ o = b /\ a >= 2 * b - 1 + G(p)
      BY <1>2, <2>1, <2>2
    <3>2. G(p) \in Nat /\ G(q) <= G(p) + 1 /\ G(q) \in Nat
      BY <1>1, <1>4, <2>1
    <3> QED
      BY <1>2, <1>3, <1>h, <2>1, <2>2, <3>1, <3>2
  <2>3. CASE k < Half
    <3>1. k + 1 < Half /\ b = 0 /\ o = 0 /\ a = k
      BY <1>2, <1>h, <2>1, <2>3
    <3> QED
      BY <1>3, <1>h, <3>1
  <2> QED
    BY <2>2, <2>3, <1>h
<1>8. ~(WrongAt(k) /\ WrongAt(k + 1))
  BY <1>1, <1>h
<1> QED
  BY <1>5, <1>6, <1>7, <1>8

(* What a mode m does to the stamp of a frame, and the steps that makes.          *)
Bad(m) == m \in {"tsback", "tsspike"}
Shift(m) == IF m = "tsback" THEN -20 ELSE 4 * Far
Off(m, k) == IF Bad(m) /\ WrongAt(k) THEN Shift(m) ELSE 0

Astray(m) == {<<1 + Shift(m), 1>>}
Back(m) == {<<1 - Shift(m), 1>>}
Pace(m) == OnTime \cup Astray(m) \cup Back(m)

(* The steps to frame k.                                                          *)
Rhythm(m, s, k) ==
  /\ Len(s) = k
  /\ Bad(m) => /\ s \in Seq(Pace(m))
               /\ Beat(Tally(s, OnTime), Tally(s, Astray(m)), Tally(s, Back(m)), k)
  /\ ~Bad(m) => s \in Seq(OnTime)

LEMMA ShiftIs ==
  ASSUME NEW m
  PROVE  /\ Shift(m) \in Int /\ Shift(m) # 0
         /\ (Shift(m) > 11 \/ Shift(m) < -11)
         /\ -4 * Far <= Shift(m) /\ Shift(m) <= 4 * Far
         /\ Pace(m) \in SUBSET (Int \X Int)
<1>1. Far \in Nat /\ Far > 8
  BY TsBounds
<1>2. /\ Shift(m) \in Int /\ Shift(m) # 0
      /\ (Shift(m) > 11 \/ Shift(m) < -11)
      /\ -4 * Far <= Shift(m) /\ Shift(m) <= 4 * Far
  BY <1>1 DEF Shift
<1>3. 1 + Shift(m) \in Int /\ 1 - Shift(m) \in Int
  BY <1>2
<1> QED
  BY <1>2, <1>3 DEF Pace, OnTime, Astray, Back

LEMMA RhythmFirst == \A m : Rhythm(m, <<>>, 0)
  BY TallyNone, BeatFirst DEF Rhythm

LEMMA RhythmNext ==
  ASSUME NEW m, NEW s, NEW k \in Nat, Rhythm(m, s, k)
  PROVE  Rhythm(m, Append(s, <<1 + Off(m, k + 1) - Off(m, k), 1>>), k + 1)
<1> DEFINE e == <<1 + Off(m, k + 1) - Off(m, k), 1>>  D == Shift(m)
<1>1. D \in Int /\ D # 0 /\ 1 + D # 1 /\ 1 - D # 1 /\ 1 + D # 1 - D
  BY ShiftIs
<1>2. CASE ~Bad(m)
  <2>1. e = <<1, 1>> /\ e \in OnTime
    BY <1>2 DEF Off, OnTime
  <2>2. s \in Seq(OnTime) /\ Len(s) = k
    BY <1>2 DEF Rhythm
  <2> HIDE DEF e
  <2>3. Append(s, e) \in Seq(OnTime) /\ Len(Append(s, e)) = k + 1
    BY <2>1, <2>2
  <2> QED
    BY <1>2, <2>3 DEF Rhythm, e
<1>3. CASE Bad(m)
  <2> DEFINE a == Tally(s, OnTime)  b == Tally(s, Astray(m))  o == Tally(s, Back(m))
             IsIn(x) == e \in x
  <2>1. s \in Seq(Pace(m)) /\ Len(s) = k /\ Beat(a, b, o, k)
    BY <1>3 DEF Rhythm
  <2>2. /\ WrongAt(k) => Beat(a, b, o + 1, k + 1)
        /\ WrongAt(k + 1) => Beat(a, b + 1, o, k + 1)
        /\ ~WrongAt(k) /\ ~WrongAt(k + 1) => Beat(a + 1, b, o, k + 1)
        /\ ~(WrongAt(k) /\ WrongAt(k + 1))
    BY <2>1, BeatNext
  <2>3. a \in Nat /\ b \in Nat /\ o \in Nat
    BY <2>1 DEF Beat
  <2>4. ASSUME NEW f \in Pace(m)
        PROVE  /\ Append(s, f) \in Seq(Pace(m)) /\ Len(Append(s, f)) = k + 1
               /\ Tally(Append(s, f), OnTime) = a + (IF f \in OnTime THEN 1 ELSE 0)
               /\ Tally(Append(s, f), Astray(m)) = b + (IF f \in Astray(m) THEN 1 ELSE 0)
               /\ Tally(Append(s, f), Back(m)) = o + (IF f \in Back(m) THEN 1 ELSE 0)
    BY <2>1, TallyAppend
  <2> HIDE DEF a, b, o
  <2>5. CASE WrongAt(k)
    <3>1. e = <<1 - D, 1>>
      BY <1>1, <1>3, <2>2, <2>5 DEF Off
    <3>2. e \in Pace(m) /\ e \notin OnTime /\ e \notin Astray(m) /\ e \in Back(m)
      BY <1>1, <3>1 DEF OnTime, Astray, Back, Pace
    <3> HIDE DEF e
    <3>3. /\ Tally(Append(s, e), OnTime) = a
          /\ Tally(Append(s, e), Astray(m)) = b
          /\ Tally(Append(s, e), Back(m)) = o + 1
      BY <2>3, <2>4, <3>2
    <3>4. Append(s, e) \in Seq(Pace(m)) /\ Len(Append(s, e)) = k + 1
      BY <2>4, <3>2
    <3> QED
      BY <1>3, <2>2, <2>5, <3>3, <3>4 DEF Rhythm, e
  <2>6. CASE WrongAt(k + 1)
    <3>1. e = <<1 + D, 1>>
      BY <1>1, <1>3, <2>2, <2>6 DEF Off
    <3>2. e \in Pace(m) /\ e \notin OnTime /\ e \in Astray(m) /\ e \notin Back(m)
      BY <1>1, <3>1 DEF OnTime, Astray, Back, Pace
    <3> HIDE DEF e
    <3>3. /\ Tally(Append(s, e), OnTime) = a
          /\ Tally(Append(s, e), Astray(m)) = b + 1
          /\ Tally(Append(s, e), Back(m)) = o
      BY <2>3, <2>4, <3>2
    <3>4. Append(s, e) \in Seq(Pace(m)) /\ Len(Append(s, e)) = k + 1
      BY <2>4, <3>2
    <3> QED
      BY <1>3, <2>2, <2>6, <3>3, <3>4 DEF Rhythm, e
  <2>7. CASE ~WrongAt(k) /\ ~WrongAt(k + 1)
    <3>1. e = <<1, 1>>
      BY <2>7 DEF Off
    <3>2. e \in Pace(m) /\ e \in OnTime /\ e \notin Astray(m) /\ e \notin Back(m)
      BY <1>1, <3>1 DEF OnTime, Astray, Back, Pace
    <3> HIDE DEF e
    <3>3. /\ Tally(Append(s, e), OnTime) = a + 1
          /\ Tally(Append(s, e), Astray(m)) = b
          /\ Tally(Append(s, e), Back(m)) = o
      BY <2>3, <2>4, <3>2
    <3>4. Append(s, e) \in Seq(Pace(m)) /\ Len(Append(s, e)) = k + 1
      BY <2>4, <3>2
    <3> QED
      BY <1>3, <2>2, <2>7, <3>3, <3>4 DEF Rhythm, e
  <2> QED
    BY <2>5, <2>6, <2>7
<1> QED
  BY <1>2, <1>3

(* The last frame begun, and the stamps so far.                                   *)
Seen == IF nal = 0 THEN fno - 1 ELSE fno

StampInv ==
  mode # "any" =>
    /\ fno \in Nat /\ nal \in 0 .. 2 /\ ts \in Int
    /\ Seen = -1 => lastTs = -1 /\ jumps = <<>>
    /\ Seen # -1 => /\ lastTs = ((IF nal = 0 THEN ts - 1 ELSE ts) + Off(mode, Seen)) % TsWord
                    /\ Rhythm(mode, jumps, Seen)

LEMMA StampInit == Gaps!Init => StampInv
  BY DEF Gaps!Init, StampInv, Seen

LEMMA StampStep == StampInv /\ [Gaps!Next]_(Gaps!vars) => StampInv'
<1> SUFFICES ASSUME StampInv, [Gaps!Next]_(Gaps!vars), mode' # "any"
             PROVE  StampInv'
  BY DEF StampInv
<1>1. CASE UNCHANGED Gaps!vars
  BY <1>1 DEF Gaps!vars, Gaps!source, Gaps!history, Gaps!probe, StampInv, Seen
<1>2. CASE Gaps!ServeNal
  <2> DEFINE stamp == ts + Off(mode, fno)
  <2>a. mode # "any" /\ mode' = mode /\ fno \in Nat /\ nal \in 0 .. 2 /\ ts \in Int
    BY <1>2 DEF Gaps!ServeNal, StampInv
  <2>0. Gaps!Stamp = ts + Off(mode, fno)
    <3>1. WrongAt(fno) <=> fno % GapCycle = GapCycle \div 2
      BY DEF WrongAt, Half
    <3>2. CASE mode = "tsback" /\ WrongAt(fno)
      BY <2>a, <3>1, <3>2 DEF Gaps!Stamp, Off, Bad, Shift
    <3>3. CASE mode = "tsspike" /\ WrongAt(fno)
      BY <2>a, <3>1, <3>3 DEF Gaps!Stamp, Off, Bad, Shift
    <3>4. CASE ~(mode \in {"tsback", "tsspike"} /\ WrongAt(fno))
      BY <2>a, <3>1, <3>4 DEF Gaps!Stamp, Off, Bad
    <3> QED
      BY <3>2, <3>3, <3>4
  <2>1. /\ mode # "any" /\ mode' = mode
        /\ \/ nal' = nal + 1 /\ ts' = ts /\ fno' = fno /\ nal < 2
           \/ nal' = 0 /\ ts' = ts + 1 /\ fno' = fno + 1
    BY <1>2, <2>a DEF Gaps!ServeNal
  <2>2. PICK n \in {1, 3} : Gaps!Take(seq, n, Gaps!Stamp, IF nal = 0 THEN 1 ELSE 0)
    BY <1>2 DEF Gaps!ServeNal
  <2>3. /\ lastTs' = Gaps!Stamp % TsWord
        /\ jumps' = IF lastTs # -1 /\ Gaps!Signed(Gaps!Stamp - lastTs) # 0
                    THEN Append(jumps, <<Gaps!Signed(Gaps!Stamp - lastTs), IF nal = 0 THEN 1 ELSE 0>>)
                    ELSE jumps
    BY <2>2 DEF Gaps!Take
  <2>4. /\ fno \in Nat /\ nal \in 0 .. 2 /\ ts \in Int
        /\ Seen = -1 => lastTs = -1 /\ jumps = <<>>
        /\ Seen # -1 =>
             /\ lastTs = ((IF nal = 0 THEN ts - 1 ELSE ts) + Off(mode, Seen)) % TsWord
                        /\ Rhythm(mode, jumps, Seen)
    BY <2>1 DEF StampInv
  <2>5. /\ Off(mode, fno) \in Int /\ -4 * Far <= Off(mode, fno) /\ Off(mode, fno) <= 4 * Far
        /\ \A k : Off(mode, k) \in {0, Shift(mode)} /\ Off(mode, k) \in Int
    BY ShiftIs, TsBounds DEF Off
  <2>6. stamp = Gaps!Stamp /\ stamp \in Int
    BY <2>0, <2>4, <2>5
  <2>7. Seen' = fno /\ ts = (IF nal' = 0 THEN ts' - 1 ELSE ts')
    BY <2>1, <2>4 DEF Seen
  <2>8. fno' \in Nat /\ nal' \in 0 .. 2 /\ ts' \in Int
    BY <2>1, <2>4
  <2>9. SUFFICES Rhythm(mode, jumps', fno)
    <3>1. lastTs' = (ts + Off(mode, fno)) % TsWord
      BY <2>0, <2>3
    <3>2. lastTs' = ((IF nal' = 0 THEN ts' - 1 ELSE ts') + Off(mode', Seen')) % TsWord
      BY <2>1, <2>7, <3>1
    <3>3. Seen' # -1
      BY <2>4, <2>7
    <3>4. Rhythm(mode', jumps', Seen')
      BY <2>1, <2>7, <2>9
    <3> QED
      BY <2>8, <3>2, <3>3, <3>4 DEF StampInv
  <2> HIDE DEF stamp
  <2>10. CASE nal = 0 /\ fno = 0
    <3>1. lastTs = -1 /\ jumps = <<>>
      BY <2>4, <2>10 DEF Seen
    <3> QED
      BY <2>3, <2>10, <3>1, RhythmFirst
  <2>11. CASE nal # 0
    <3>1. Seen = fno /\ Seen # -1
      BY <2>4, <2>11 DEF Seen
    <3>2. lastTs = stamp % TsWord /\ Rhythm(mode, jumps, fno)
      BY <2>4, <2>11, <3>1 DEF stamp
    <3>3. (stamp - lastTs) % TsWord = 0 % TsWord /\ stamp - lastTs \in Int
      <4>1. PICK q \in Int : stamp = TsWord * q + lastTs /\ lastTs \in 0 .. TsWord - 1
        BY <2>6, <3>2, TsBounds, ModOf
      <4>2. TsWord * q \in Int /\ stamp - lastTs = TsWord * q + 0 /\ 0 \in 0 .. TsWord - 1
        BY <4>1, TsBounds
      <4>3. (TsWord * q + 0) % TsWord = 0 /\ 0 % TsWord = 0
        BY <4>1, <4>2, TsBounds, ModIs, ModSmall
      <4> QED
        BY <4>1, <4>2, <4>3
    <3>4. Gaps!Signed(stamp - lastTs) = 0
      BY <3>3, SignedIs, TsBounds
    <3> QED
      BY <2>3, <2>6, <3>2, <3>4
  <2>12. CASE nal = 0 /\ fno # 0
    <3> DEFINE k == fno - 1  d == 1 + Off(mode, k + 1) - Off(mode, k)
    <3>1. k \in Nat /\ Seen = k /\ Seen # -1 /\ k + 1 = fno
      BY <2>4, <2>12 DEF Seen
    <3>2. lastTs = (ts - 1 + Off(mode, k)) % TsWord /\ Rhythm(mode, jumps, k)
      BY <2>4, <2>12, <3>1
    <3>3. d \in Int /\ -4 * Far - 1 <= d /\ d <= 4 * Far + 1 /\ d # 0
      <4>1. ~(WrongAt(k) /\ WrongAt(k + 1))
        <5>1. /\ Phase(k) = 0 <=> WrongAt(k)
              /\ Phase(k + 1) = IF Phase(k) = GapCycle - 1 THEN 0 ELSE Phase(k) + 1
          BY <3>1, PhaseIs
        <5>2. Phase(k + 1) = 0 <=> WrongAt(k + 1)
          <6>1. k + 1 \in Nat
            BY <3>1
          <6> QED
            BY <6>1, PhaseIs
        <5> QED
          BY <5>1, <5>2, ModeBounds
      <4>2. Off(mode, k) = 0 \/ Off(mode, k + 1) = 0
        BY <4>1 DEF Off
      <4>3. /\ Shift(mode) \in Int
            /\ Shift(mode) > 11 \/ Shift(mode) < -11
            /\ -4 * Far <= Shift(mode) /\ Shift(mode) <= 4 * Far
        BY ShiftIs
      <4>4. Off(mode, k) \in {0, Shift(mode)} /\ Off(mode, k + 1) \in {0, Shift(mode)}
        BY <2>5
      <4>5. Shift(mode) \in Int
        BY ShiftIs
      <4>6. Shift(mode) >= -20
        BY TsBounds DEF Shift
      <4> QED
        BY <4>2, <4>3, <4>4, <4>5, <4>6, TsBounds
    <3>4. (stamp - lastTs) % TsWord = d % TsWord /\ stamp - lastTs \in Int
      <4> DEFINE u == ts - 1 + Off(mode, k)
      <4>1. u \in Int /\ stamp = u + d
        BY <2>4, <2>5, <3>1 DEF stamp
      <4>2. PICK q \in Int : u = TsWord * q + lastTs /\ lastTs \in 0 .. TsWord - 1
        BY <3>2, <4>1, TsBounds, ModOf
      <4> HIDE DEF u
      <4>3. stamp - lastTs = TsWord * q + d
        <5>1. TsWord * q \in Int
          BY <4>2, TsBounds
        <5> QED
          BY <3>3, <4>1, <4>2, <5>1
      <4>4. (TsWord * q + d) % TsWord = d % TsWord
        <5>1. PICK v \in Int : d = TsWord * v + (d % TsWord) /\ d % TsWord \in 0 .. TsWord - 1
          BY <3>3, TsBounds, ModOf
        <5>2. PICK r \in Int : r = d % TsWord
          BY <5>1
        <5>3. TsWord * q + d = TsWord * (q + v) + r
          BY <4>2, <5>1, <5>2, <3>3, TsBounds
        <5>4. (TsWord * (q + v) + r) % TsWord = r
          <6>1. q + v \in Int /\ r \in 0 .. TsWord - 1
            BY <4>2, <5>1, <5>2
          <6> QED
            BY <6>1, ModIs, TsBounds
        <5> QED
          BY <5>2, <5>3, <5>4
      <4>5. stamp - lastTs \in Int
        BY <2>6, <4>2
      <4> QED
        BY <4>3, <4>4, <4>5
    <3>5. Gaps!Signed(stamp - lastTs) = d
      <4> HIDE DEF d
      <4> QED
        BY <3>3, <3>4, SignedIs, TsBounds
    <3>6. lastTs # -1
      <4>1. ts - 1 + Off(mode, k) \in Int
        BY <2>4, <2>5
      <4>2. lastTs \in 0 .. TsWord - 1
        BY <3>2, <4>1, TsBounds, ModOf
      <4> QED
        BY <4>2, TsBounds
    <3>7. jumps' = Append(jumps, <<d, 1>>)
      BY <2>3, <2>6, <2>12, <3>3, <3>5, <3>6
    <3>8. Rhythm(mode, Append(jumps, <<d, 1>>), k + 1)
      BY <3>1, <3>2, RhythmNext
    <3> QED
      BY <3>1, <3>7, <3>8
  <2> QED
    BY <2>4, <2>10, <2>11, <2>12
<1>3. CASE mode = "any"
  BY <1>3 DEF Gaps!Next, Gaps!Frame, Gaps!SkipNumbers, Gaps!Repeat, Gaps!Stall, Gaps!Misstamp,
              Gaps!Send, Gaps!ServeNal, Gaps!vars
<1>4. CASE mode # "any"
  BY <1>1, <1>2, <1>4 DEF Gaps!Next, Gaps!Frame, Gaps!SkipNumbers, Gaps!Repeat, Gaps!Stall,
              Gaps!Misstamp, Gaps!Send
<1> QED
  BY <1>3, <1>4



LEMMA TallyPositive ==
  ASSUME NEW X, NEW s \in Seq(X), NEW A
  PROVE  /\ Tally(s, A) \in Nat
         /\ Tally(s, A) > 0 <=> \E i \in 1 .. Len(s) : s[i] \in A
<1>1. IsFiniteSet(Hits(s, A)) /\ Tally(s, A) \in 0 .. Len(s) /\ Len(s) \in Nat
        /\ DOMAIN s = 1 .. Len(s)
  BY HitsFinite
<1>2. Tally(s, A) = 0 <=> Hits(s, A) = {}
  BY <1>1, FS_EmptySet DEF Tally
<1>3. Hits(s, A) = {} <=> ~\E i \in 1 .. Len(s) : s[i] \in A
  BY <1>1 DEF Hits
<1> QED
  BY <1>1, <1>2, <1>3

(* Past a cycle and a half most steps are still of one frame.                     *)
LEMMA PaceModal ==
  ASSUME StampInv, mode # "any", nal = 0, fno > GapCycle + GapCycle \div 2
  PROVE  /\ jumps \in Seq(Pace(mode)) /\ Gaps!Modal = 1
         /\ ~Bad(mode) => jumps \in Seq(OnTime)
         /\ Bad(mode) => Tally(jumps, Astray(mode)) > 0 /\ Tally(jumps, Back(mode)) > 0
<1> DEFINE k == fno - 1  D == Shift(mode)
<1>1. fno \in Nat /\ k \in Nat /\ k >= GapCycle + Half /\ k > Half /\ k >= 4
        /\ Rhythm(mode, jumps, k)
  BY HalfIs, ModeBounds DEF StampInv, Seen, Half
<1>0. Len(jumps) = k
  BY <1>1 DEF Rhythm
<1> HIDE DEF k
<1>2. D \in Int /\ D # 0 /\ 1 + D # 1 /\ 1 - D # 1 /\ 1 + D # 1 - D
  BY ShiftIs
<1> HIDE DEF D
<1>3. CASE ~Bad(mode)
  <2>1. jumps \in Seq(OnTime) /\ OnTime \subseteq Pace(mode)
    BY <1>1, <1>3 DEF Rhythm, Pace
  <2>2. jumps \in Seq(Pace(mode))
    BY <2>1, SeqMonotonic
  <2>3. 1 \in 1 .. Len(jumps) /\ jumps[1][1] = 1 /\ jumps[1] \in {j \in OnTime : j[1] = 1}
    <3>1. 1 \in 1 .. Len(jumps)
      BY <1>0, <1>1
    <3>2. jumps[1] \in OnTime
      BY <2>1, <3>1, ElementOfSeq
    <3> QED
      BY <3>1, <3>2 DEF OnTime
  <2>4. Gaps!Times(1) > 0 /\ Gaps!Times(1) \in Nat
    <3>1. Gaps!Times(1) = Tally(jumps, {j \in OnTime : j[1] = 1})
      BY <2>1, TimesIs
    <3>2. \E i \in 1 .. Len(jumps) : jumps[i] \in {j \in OnTime : j[1] = 1}
      BY <2>3
    <3> QED
      BY <2>1, <3>1, <3>2, TallyPositive
  <2>5. \A e : e # 1 => Gaps!Times(e) = 0
    <3> SUFFICES ASSUME NEW e, e # 1 PROVE Gaps!Times(e) = 0
      OBVIOUS
    <3>1. {j \in OnTime : j[1] = e} = {}
      BY DEF OnTime
    <3>2. Gaps!Times(e) = Tally(jumps, {})
      BY <2>1, <3>1, TimesIs
    <3>3. Tally(jumps, {}) \in Nat /\ ~(Tally(jumps, {}) > 0)
      BY <2>1, TallyPositive
    <3> QED
      BY <3>2, <3>3
  <2>6. Gaps!Modal = 1
    BY <2>1, <2>3, <2>4, <2>5, ModalIs
  <2> QED
    BY <1>3, <2>1, <2>2, <2>6
<1>4. CASE Bad(mode)
  <2> DEFINE a == Tally(jumps, OnTime)  b == Tally(jumps, Astray(mode))
             o == Tally(jumps, Back(mode))
  <2>1. jumps \in Seq(Pace(mode)) /\ Beat(a, b, o, k)
    BY <1>1, <1>4 DEF Rhythm
  <2>2. a \in Nat /\ b \in Nat /\ o \in Nat /\ b >= 1 /\ o >= 1 /\ b < a /\ o < a
    <3> HIDE DEF a, b, o
    <3>1. /\ a \in Nat /\ b \in Nat /\ o \in Nat /\ a + b + o = k
          /\ b >= 1 /\ o = (IF Phase(k) = 0 THEN b - 1 ELSE b) /\ o >= 1
      BY <1>1, <2>1, HalfIs DEF Beat
    <3>2. a >= 2 * b - 1
      <4>1. a >= 2 * b - 1 + (CASE Phase(k) \in {0, 1} -> 0 [] Phase(k) = 2 -> 1 [] OTHER -> 2)
        BY <1>1, <2>1, HalfIs DEF Beat
      <4> QED
        BY <3>1, <4>1
    <3>3. o <= b /\ k >= 6
      BY <1>1, <3>1, HalfIs, ModeBounds
    <3> QED
      BY <1>1, <3>1, <3>2, <3>3
  <2>3. /\ {j \in Pace(mode) : j[1] = 1} = OnTime
        /\ {j \in Pace(mode) : j[1] = 1 + D} = Astray(mode)
        /\ {j \in Pace(mode) : j[1] = 1 - D} = Back(mode)
        /\ \A e : e # 1 /\ e # 1 + D /\ e # 1 - D => {j \in Pace(mode) : j[1] = e} = {}
    <3>1. OnTime = {<<1, 1>>} /\ Astray(mode) = {<<1 + D, 1>>} /\ Back(mode) = {<<1 - D, 1>>}
          /\ Pace(mode) = {<<1, 1>>, <<1 + D, 1>>, <<1 - D, 1>>}
      BY DEF OnTime, Astray, Back, Pace, D
    <3> QED
      BY <1>2, <3>1
  <2>4. /\ Gaps!Times(1) = a /\ Gaps!Times(1 + D) = b /\ Gaps!Times(1 - D) = o
        /\ \A e : e # 1 /\ e # 1 + D /\ e # 1 - D => Gaps!Times(e) = Tally(jumps, {})
    BY <2>1, <2>3, TimesIs
  <2>5. Tally(jumps, {}) \in Nat /\ ~(Tally(jumps, {}) > 0)
    BY <2>1, TallyPositive
  <2> HIDE DEF a, b, o
  <2>6. \A e : e # 1 => Gaps!Times(e) < Gaps!Times(1)
    <3> SUFFICES ASSUME NEW e, e # 1 PROVE Gaps!Times(e) < Gaps!Times(1)
      OBVIOUS
    <3>1. CASE e = 1 + D
      BY <2>2, <2>4, <3>1
    <3>2. CASE e = 1 - D
      BY <2>2, <2>4, <3>2
    <3>3. CASE e # 1 + D /\ e # 1 - D
      <4>1. Gaps!Times(e) = Tally(jumps, {})
        BY <2>4, <3>3
      <4> QED
        BY <2>2, <2>4, <2>5, <4>1
    <3> QED
      BY <3>1, <3>2, <3>3
  <2>7. \E i \in 1 .. Len(jumps) : jumps[i][1] = 1
    <3>1. \E i \in 1 .. Len(jumps) : jumps[i] \in OnTime
      BY <2>1, <2>2, TallyPositive DEF a
    <3> QED
      BY <3>1 DEF OnTime
  <2>8. Gaps!Modal = 1
    BY <2>1, <2>6, <2>7, ModalIs
  <2> QED
    BY <1>4, <2>1, <2>2, <2>8 DEF b, o
<1> QED
  BY <1>3, <1>4

(* What ts_summary says of a jump of the server's.                                *)
LEMMA PaceTriage ==
  ASSUME jumps \in Seq(Pace(mode)), Gaps!Modal = 1, clock = 1, NEW i \in 1 .. Len(jumps)
  PROVE  /\ ~(Gaps!Big(i) /\ Gaps!Matched(i))
         /\ Gaps!Big(i) <=> jumps[i] \in Astray(mode) \cup Back(mode)
         /\ jumps[i] \in OnTime => ~(jumps[i][1] < 0)
         /\ jumps[i] \in Astray(mode) => (jumps[i][1] < 0 <=> Shift(mode) < 0)
         /\ jumps[i] \in Back(mode) => (jumps[i][1] < 0 <=> Shift(mode) > 0)
<1> DEFINE D == Shift(mode)
<1>1. D \in Int /\ (D > 11 \/ D < -11)
  BY ShiftIs
<1>2. Pace(mode) \in SUBSET (Int \X Int)
  BY ShiftIs
<1>3. jumps[i] \in Pace(mode)
  BY ElementOfSeq
<1> HIDE DEF D
<1>4. PICK d \in {1, 1 + D, 1 - D} : jumps[i] = <<d, 1>>
  BY <1>3 DEF Pace, OnTime, Astray, Back, D
<1>5. d \in Int /\ jumps[i][1] = d
  BY <1>1, <1>4
<1>6. /\ jumps[i] \in OnTime <=> d = 1
      /\ jumps[i] \in Astray(mode) <=> d = 1 + D
      /\ jumps[i] \in Back(mode) <=> d = 1 - D
  BY <1>4, <1>5 DEF OnTime, Astray, Back, D
<1>7. /\ Gaps!Big(i) <=> (d > 8 \/ d < -8)
      /\ Gaps!Matched(i) <=>
           LET a == IF d < 0 THEN -d ELSE d
               g == IF a - 1 < 0 THEN 1 - a ELSE a - 1
           IN  2 * g < 12 \/ 2 * g < a
  <2>1. ASSUME NEW w \in Int, jumps[i] = <<d, w>>
        PROVE  /\ Gaps!Big(i) <=> (d > 8 \/ d < -8)
               /\ Gaps!Matched(i) <=>
                    LET a == IF d < 0 THEN -d ELSE d
                        g == IF a - w < 0 THEN w - a ELSE a - w
                    IN  2 * g < 12 \/ 2 * g < a
    BY <1>2, <1>5, <2>1, BigIs
  <2>2. 1 \in Int
    OBVIOUS
  <2> QED
    BY <1>4, <2>1, <2>2
<1>8. Gaps!Big(i) <=> d # 1
  BY <1>1, <1>4, <1>5, <1>7
<1>9. d # 1 => (d > 10 \/ d < -10)
  BY <1>1, <1>4, <1>5
<1>10. ASSUME d # 1 PROVE ~Gaps!Matched(i)
  BY <1>5, <1>7, <1>9, <1>10
<1>11. /\ d = 1 => ~(d < 0)
       /\ d = 1 + D => (d < 0 <=> D < 0)
       /\ d = 1 - D => (d < 0 <=> D > 0)
       /\ 1 + D # 1 /\ 1 - D # 1
  BY <1>1
<1> QED
  BY <1>4, <1>5, <1>6, <1>8, <1>10, <1>11 DEF D

(* The self-check reads the probe rightly: past a cycle and a half of frames lost *)
(* numbers show seqdrop and no other mode, and a step back and spikes, together,  *)
(* the two modes that break the stamps, for any sizes of the server's periods and *)
(* of the words (evil_server.py:134-172, seq_gap.py).                             *)
THEOREM ModesCorrect == Gaps!Spec => []ModeShows
<1>1. NumInv /\ StampInv /\ ClockInv => ModeShows
  <2> SUFFICES ASSUME NumInv, StampInv, ClockInv, mode # "any", fno > GapCycle + GapCycle \div 2, nal
                        = 0
               PROVE  /\ gaps > 0 <=> mode = "seqdrop"
                      /\ Gaps!Backward > 0 <=> mode \in {"tsback", "tsspike"}
                      /\ Gaps!Spikes > 0 <=> mode \in {"tsback", "tsspike"}
                      /\ Gaps!Honest = 0
    BY DEF ModeShows, Gaps!ModeShows
  <2>1. gaps > 0 <=> mode = "seqdrop"
    BY NumbersShow
  <2>2. /\ jumps \in Seq(Pace(mode)) /\ Gaps!Modal = 1
        /\ ~Bad(mode) => jumps \in Seq(OnTime)
        /\ Bad(mode) => Tally(jumps, Astray(mode)) > 0 /\ Tally(jumps, Back(mode)) > 0
    BY PaceModal
  <2>3. ASSUME NEW i \in 1 .. Len(jumps)
        PROVE  /\ ~(Gaps!Big(i) /\ Gaps!Matched(i))
               /\ Gaps!Big(i) <=> jumps[i] \in Astray(mode) \cup Back(mode)
               /\ jumps[i] \in OnTime => ~(jumps[i][1] < 0)
               /\ jumps[i] \in Astray(mode) => (jumps[i][1] < 0 <=> Shift(mode) < 0)
               /\ jumps[i] \in Back(mode) => (jumps[i][1] < 0 <=> Shift(mode) > 0)
    BY <2>2, PaceTriage DEF ClockInv
  <2>4. DOMAIN jumps = 1 .. Len(jumps) /\ Len(jumps) \in Nat
    BY <2>2
  <2> DEFINE back == {i \in DOMAIN jumps : jumps[i][1] < 0}
             spikes == {i \in DOMAIN jumps : Gaps!Big(i) /\ ~Gaps!Matched(i)}
             honest == {i \in DOMAIN jumps : Gaps!Big(i) /\ Gaps!Matched(i)}
  <2>5. /\ Gaps!Backward = Cardinality(back) /\ Gaps!Spikes = Cardinality(spikes)
        /\ Gaps!Honest = Cardinality(honest)
    BY CardIs DEF Gaps!Backward, Gaps!Spikes, Gaps!Honest
  <2>6. ASSUME NEW S \in SUBSET (1 .. Len(jumps))
        PROVE  Cardinality(S) \in Nat /\ (Cardinality(S) = 0 <=> S = {})
    <3>1. IsFiniteSet(1 .. Len(jumps))
      <4>1. 1 \in Int /\ Len(jumps) \in Int
        BY <2>4
      <4> QED
        BY <4>1, FS_Interval
    <3>2. IsFiniteSet(S)
      BY <3>1, FS_Subset
    <3> QED
      BY <3>2, FS_EmptySet, FS_CardinalityType
  <2>7. honest = {}
    BY <2>3, <2>4
  <2>8. spikes = {} <=> ~Bad(mode)
    <3>1. ASSUME ~Bad(mode) PROVE spikes = {}
      <4>1. ASSUME NEW i \in 1 .. Len(jumps) PROVE ~Gaps!Big(i)
        <5>1. jumps[i] \in OnTime
          BY <2>2, <3>1, ElementOfSeq
        <5>2. Shift(mode) \in Int /\ Shift(mode) # 0
          BY ShiftIs
        <5>3. jumps[i] = <<1, 1>> /\ 1 + Shift(mode) # 1 /\ 1 - Shift(mode) # 1
          BY <5>1, <5>2 DEF OnTime
        <5>4. jumps[i] \notin Astray(mode) \cup Back(mode)
          BY <5>3 DEF Astray, Back
        <5> QED
          BY <2>3, <5>4
      <4> QED
        BY <2>4, <4>1
    <3>2. ASSUME Bad(mode) PROVE spikes # {}
      <4>1. PICK i \in 1 .. Len(jumps) : jumps[i] \in Astray(mode)
        BY <2>2, <3>2, TallyPositive
      <4> QED
        BY <2>3, <2>4, <4>1
    <3> QED
      BY <3>1, <3>2
  <2>9. back = {} <=> ~Bad(mode)
    <3>1. ASSUME ~Bad(mode) PROVE back = {}
      <4>1. ASSUME NEW i \in 1 .. Len(jumps) PROVE ~(jumps[i][1] < 0)
        <5>1. jumps[i] \in OnTime
          BY <2>2, <3>1, ElementOfSeq
        <5> QED
          BY <2>3, <5>1
      <4> QED
        BY <2>4, <4>1
    <3>2. ASSUME Bad(mode) PROVE back # {}
      <4>1. PICK i \in 1 .. Len(jumps) : jumps[i] \in Astray(mode)
        BY <2>2, <3>2, TallyPositive
      <4>2. PICK j \in 1 .. Len(jumps) : jumps[j] \in Back(mode)
        BY <2>2, <3>2, TallyPositive
      <4>3. Shift(mode) < 0 \/ Shift(mode) > 0
        BY ShiftIs
      <4>4. jumps[i][1] < 0 \/ jumps[j][1] < 0
        BY <2>3, <4>1, <4>2, <4>3
      <4> QED
        BY <2>4, <4>4
    <3> QED
      BY <3>1, <3>2
  <2>10. honest \in SUBSET (1 .. Len(jumps)) /\ spikes \in SUBSET (1 .. Len(jumps))
         /\ back \in SUBSET (1 .. Len(jumps))
    BY <2>4
  <2> HIDE DEF honest, spikes, back
  <2>11. Gaps!Honest = 0
    BY <2>5, <2>6, <2>7, <2>10
  <2>12. (Gaps!Spikes > 0 <=> Bad(mode)) /\ (Gaps!Backward > 0 <=> Bad(mode))
    <3>1. PICK n \in Nat : n = Gaps!Spikes /\ (n = 0 <=> ~Bad(mode))
      BY <2>5, <2>6, <2>8, <2>10
    <3>2. PICK n2 \in Nat : n2 = Gaps!Backward /\ (n2 = 0 <=> ~Bad(mode))
      BY <2>5, <2>6, <2>9, <2>10
    <3> QED
      BY <3>1, <3>2
  <2> QED
    BY <2>1, <2>11, <2>12 DEF Bad
<1> QED
  BY <1>1, NumInit, NumStep, StampInit, StampStep, ClockInit, ClockKept, PTL DEF Gaps!Spec

--------------------------------------------------------------------------------
(* What the census has noted of the muxer: every clock reference and every table  *)
(* with the place it had, in order; what is between two references is around one  *)
(* of them; and a table went out no later than the muxer has fallen behind.       *)
Ordered ==
  \A j, k \in 1 .. Len(pcr_samples) : j < k => pcr_samples[j][1] < pcr_samples[k][1]
Covered ==
  \A i \in Nat : /\ Len(pcr_samples) >= 2 /\ pcr_samples[1][1] <= i
                 /\ i <= pcr_samples[Len(pcr_samples)][1]
                 => Muxed!Around(i) # {}
RefInv ==
  /\ pcr_samples \in Seq(Nat \X Nat)
  /\ \A k \in 1 .. Len(pcr_samples) : pcr_samples[k][1] < at
  /\ pcr_samples # <<>> => pcr_samples[Len(pcr_samples)][2] <= now
  /\ Ordered /\ Covered

WrittenAt(x, y, a, n) ==
  /\ x \in Seq(Nat) /\ y \in Seq(Nat) /\ Len(x) = Len(y)
  /\ \A j \in 1 .. Len(x) : x[j] < a /\ x[j] + 1 <= y[j] /\ y[j] <= x[j] + 1 + (n - a)

NotedInv ==
  /\ DOMAIN table_at = Muxed!Pid /\ DOMAIN tableTimes = Muxed!Pid
  /\ \A p \in Muxed!Pid : WrittenAt(table_at[p], tableTimes[p], at, now)
  /\ pmt_known <=> tableTimes["pat"] # <<>>
  /\ "video" \in streams <=> table_at["pmt"] # <<>>

PlaceInv == at \in Nat /\ now \in Nat /\ at <= now /\ RefInv /\ NotedInv

LEMMA PlaceInit == Muxed!Init => PlaceInv
<1> SUFFICES ASSUME Muxed!Init
             PROVE  PlaceInv
  OBVIOUS
<1>1. /\ at = 0 /\ now = 0 /\ pcr_samples = <<>> /\ pmt_known = FALSE /\ streams = {}
      /\ table_at = [p \in Muxed!Pid |-> <<>>] /\ tableTimes = [p \in Muxed!Pid |-> <<>>]
  BY DEF Muxed!Init
<1>2. RefInv
  <2>1. pcr_samples \in Seq(Nat \X Nat) /\ Len(pcr_samples) = 0
    BY <1>1
  <2>2. Ordered /\ Covered
    BY <2>1 DEF Ordered, Covered
  <2>3. \A k \in 1 .. Len(pcr_samples) : pcr_samples[k][1] < at
    BY <2>1
  <2>4. pcr_samples = <<>>
    BY <1>1
  <2> QED
    BY <2>1, <2>2, <2>3, <2>4 DEF RefInv
<1>3. NotedInv
  <2>1. "pat" \in Muxed!Pid /\ "pmt" \in Muxed!Pid
    BY DEF Muxed!Pid
  <2>2. WrittenAt(<<>>, <<>>, 0, 0)
    BY DEF WrittenAt
  <2>3. \A p \in Muxed!Pid : table_at[p] = <<>> /\ tableTimes[p] = <<>>
    BY <1>1
  <2>4. tableTimes["pat"] = <<>> /\ table_at["pmt"] = <<>> /\ ~pmt_known
          /\ "video" \notin streams
    BY <1>1, <2>1, <2>3, Zenon
  <2> QED
    BY <1>1, <2>2, <2>3, <2>4 DEF NotedInv
<1> QED
  BY <1>1, <1>2, <1>3 DEF PlaceInv

(* One reference more.                                                            *)
LEMMA RefAppend ==
  ASSUME at \in Nat, now \in Nat, RefInv, NEW v \in Nat,
         at' = at + 1, now' \in Nat, v <= now',
         pcr_samples' = Append(pcr_samples, <<at, v>>)
  PROVE  RefInv'
<1> DEFINE s == pcr_samples  t == pcr_samples'  n == Len(pcr_samples)
<1>1. /\ s \in Seq(Nat \X Nat) /\ n \in Nat /\ \A k \in 1 .. n : s[k][1] < at
      /\ \A k \in 1 .. n : s[k] \in Nat \X Nat
  BY DEF RefInv
<1>2. /\ t \in Seq(Nat \X Nat) /\ Len(t) = n + 1 /\ t[n + 1] = <<at, v>>
      /\ \A k \in 1 .. n : t[k] = s[k]
  <2>1. <<at, v>> \in Nat \X Nat
    OBVIOUS
  <2> QED
    BY <1>1, <2>1
<1>3. \A k \in 1 .. n + 1 : t[k][1] < at'
  <2>1. \A k \in 1 .. n : t[k][1] < at + 1
    BY <1>1, <1>2
  <2>2. t[n + 1][1] < at + 1
    BY <1>2
  <2> QED
    BY <1>1, <2>1, <2>2
<1>4. Ordered'
  <2> SUFFICES ASSUME NEW j \in 1 .. n + 1, NEW k \in 1 .. n + 1, j < k
               PROVE  t[j][1] < t[k][1]
    BY <1>2 DEF Ordered
  <2>1. CASE k = n + 1
    BY <1>1, <1>2, <2>1
  <2>2. CASE k \in 1 .. n
    <3>1. j \in 1 .. n
      BY <2>2
    <3>2. s[j][1] < s[k][1]
      BY <2>2, <3>1 DEF RefInv, Ordered
    <3> QED
      BY <1>2, <2>2, <3>1, <3>2
  <2> QED
    BY <1>1, <2>1, <2>2
<1>5. Covered'
  <2> SUFFICES ASSUME NEW i \in Nat, n + 1 >= 2, t[1][1] <= i, i <= t[n + 1][1]
               PROVE  \E k \in 1 .. n : t[k][1] <= i /\ i <= t[k + 1][1]
    <3>1. \A i \in Nat : Muxed!Around(i)' = {k \in 1 .. n : t[k][1] <= i /\ i <= t[k + 1][1]}
      <4>1. (Len(t) - 1) = n
        BY <1>1, <1>2
      <4> QED
        BY <4>1 DEF Muxed!Around
    <3> QED
      BY <1>2, <3>1 DEF Covered
  <2>1. n >= 1 /\ t[1] = s[1] /\ t[n] = s[n] /\ i <= at
    BY <1>1, <1>2
  <2>2. CASE s[n][1] <= i
    BY <1>1, <1>2, <2>1, <2>2
  <2>3. CASE i < s[n][1]
    <3>1. n >= 2
      BY <1>1, <2>1, <2>3
    <3>2. Muxed!Around(i) # {}
      <4>1. s[n][1] \in Nat /\ s[1][1] <= i
        BY <1>1, <2>1
      <4>2. i <= s[n][1]
        BY <2>3, <4>1
      <4>3. Covered
        BY DEF RefInv
      <4> QED
        BY <3>1, <4>1, <4>2, <4>3 DEF Covered
    <3>3. PICK k \in 1 .. n - 1 : s[k][1] <= i /\ i <= s[k + 1][1]
      BY <3>2 DEF Muxed!Around
    <3>4. k \in 1 .. n /\ k + 1 \in 1 .. n
      BY <1>1
    <3> QED
      BY <1>2, <3>3, <3>4
  <2> QED
    BY <1>1, <2>1, <2>2, <2>3
<1>6. t[Len(t)][2] <= now'
  BY <1>1, <1>2
<1> QED
  BY <1>2, <1>3, <1>4, <1>5, <1>6 DEF RefInv

(* The references are as they were, and time goes on.                             *)
LEMMA RefKeep ==
  ASSUME at \in Nat, now \in Nat, RefInv, at' = at + 1, now' \in Nat, now <= now',
         pcr_samples' = pcr_samples
  PROVE  RefInv'
<1>1. pcr_samples \in Seq(Nat \X Nat) /\ Len(pcr_samples) \in Nat
  BY DEF RefInv
<1>2. \A k \in 1 .. Len(pcr_samples) : pcr_samples[k][1] \in Nat /\ pcr_samples[k][2] \in Nat
  BY <1>1
<1>3. \A k \in 1 .. Len(pcr_samples) : pcr_samples[k][1] < at'
  BY <1>2 DEF RefInv
<1>4. pcr_samples # <<>> => pcr_samples[Len(pcr_samples)][2] <= now'
  <2>1. pcr_samples # <<>> => Len(pcr_samples) \in 1 .. Len(pcr_samples)
    BY <1>1
  <2> QED
    BY <1>2, <2>1 DEF RefInv
<1>5. Ordered' /\ Covered'
  BY DEF RefInv, Ordered, Covered, Muxed!Around
<1> QED
  BY <1>1, <1>3, <1>4, <1>5 DEF RefInv

LEMMA WrittenLater ==
  ASSUME NEW x, NEW y, NEW a \in Nat, NEW n \in Nat, NEW m \in Nat,
         WrittenAt(x, y, a, n), n + 1 <= m
  PROVE  WrittenAt(x, y, a + 1, m)
<1>1. \A j \in 1 .. Len(x) : x[j] \in Nat /\ y[j] \in Nat
  BY DEF WrittenAt
<1> QED
  BY <1>1 DEF WrittenAt

LEMMA WrittenAppend ==
  ASSUME NEW x, NEW y, NEW a \in Nat, NEW n \in Nat, NEW m \in Nat, a <= n,
         WrittenAt(x, y, a, n), n + 1 <= m
  PROVE  WrittenAt(Append(x, a), Append(y, m), a + 1, m)
<1> DEFINE X == Append(x, a)  Y == Append(y, m)  l == Len(x)
<1>1. x \in Seq(Nat) /\ y \in Seq(Nat) /\ Len(y) = l /\ l \in Nat
  BY DEF WrittenAt
<1>2. /\ X \in Seq(Nat) /\ Y \in Seq(Nat) /\ Len(X) = l + 1 /\ Len(Y) = l + 1
      /\ X[l + 1] = a /\ Y[l + 1] = m
      /\ \A j \in 1 .. l : X[j] = x[j] /\ Y[j] = y[j]
  BY <1>1
<1>3. \A j \in 1 .. l : x[j] < a + 1 /\ x[j] + 1 <= y[j] /\ y[j] <= x[j] + 1 + (m - (a + 1))
  BY WrittenLater DEF WrittenAt
<1> HIDE DEF X, Y
<1>4. \A j \in 1 .. l + 1 : X[j] < a + 1 /\ X[j] + 1 <= Y[j]
        /\ Y[j] <= X[j] + 1 + (m - (a + 1))
  <2>1. X[l + 1] < a + 1 /\ X[l + 1] + 1 <= Y[l + 1]
          /\ Y[l + 1] <= X[l + 1] + 1 + (m - (a + 1))
    BY <1>2
  <2>2. \A j \in 1 .. l + 1 : j = l + 1 \/ j \in 1 .. l
    BY <1>1
  <2>3. \A j \in 1 .. l : X[j] < a + 1 /\ X[j] + 1 <= Y[j] /\ Y[j] <= X[j] + 1 + (m - (a + 1))
    BY <1>2, <1>3
  <2> QED
    BY <2>1, <2>2, <2>3
<1>5. WrittenAt(X, Y, a + 1, m)
  BY <1>2, <1>4 DEF WrittenAt
<1> QED
  BY <1>5 DEF X, Y

--------------------------------------------------------------------------------
(* The muxer's cycle, by the place of the packet.                                 *)
LEMMA KindIs ==
  ASSUME at \in Nat
  PROVE  /\ Muxed!Kind \in {"pat", "pmt", "start", "cont"}
         /\ Muxed!Kind = "pat" <=> at % 4 = 0
         /\ Muxed!Kind = "pmt" <=> at % 4 = 1
         /\ Muxed!Kind = "start" <=> at % 4 = 2
         /\ Muxed!PidOf(Muxed!Kind) = "pat" <=> Muxed!Kind = "pat"
         /\ Muxed!PidOf(Muxed!Kind) = "pmt" <=> Muxed!Kind = "pmt"
         /\ Muxed!Kind \in {"pat", "pmt"} => Muxed!PidOf(Muxed!Kind) = Muxed!Kind
<1>1. at % 4 \in 0 .. 3
  OBVIOUS
<1>2. Muxed!Kind = IF at % 4 = 0 THEN "pat" ELSE IF at % 4 = 1 THEN "pmt"
                   ELSE IF at % 4 = 2 THEN "start" ELSE "cont"
  <2>1. at % 4 = 0 \/ at % 4 = 1 \/ at % 4 = 2 \/ at % 4 = 3
    BY <1>1
  <2> QED
    BY <2>1 DEF Muxed!Kind, Muxed!Cycle
<1> QED
  BY <1>1, <1>2 DEF Muxed!PidOf

(* The packet starts a table the census notes.                                    *)
Table == Muxed!Kind = "pat" \/ (Muxed!Kind = "pmt" /\ pmt_known)
Looked == Muxed!Kind = "start" /\ "video" \in streams

(* What the writing of a packet does to the notes.                                *)
LEMMA WriteIs ==
  ASSUME at \in Nat, NotedInv, NEW k, NEW delay, NEW skew, NEW aligned,
         Muxed!Write(k, delay, skew, aligned)
  PROVE  /\ at' = at + 1 /\ now' = now + 1 + delay /\ bad_sync' = bad_sync
         /\ pcr_samples' = IF Muxed!Kind = "start"
                           THEN Append(pcr_samples, <<at, now' + skew>>) ELSE pcr_samples
         /\ table_at' = IF Table THEN [table_at EXCEPT ![Muxed!Kind] = Append(@, at)]
                        ELSE table_at
         /\ tableTimes' = IF Table THEN [tableTimes EXCEPT ![Muxed!Kind] = Append(@, now')]
                          ELSE tableTimes
         /\ pmt_known' <=> (pmt_known \/ Muxed!Kind = "pat")
         /\ streams' = IF Table /\ Muxed!Kind = "pmt" THEN streams \cup {"video"} ELSE streams
         /\ pusi_seen' = IF Looked THEN pusi_seen + 1 ELSE pusi_seen
         /\ pes_misaligned' = IF Looked /\ ~aligned THEN pes_misaligned + 1
              ELSE pes_misaligned
<1>1. /\ at' = at + 1 /\ now' = now + 1 + delay
      /\ Muxed!Census(Muxed!Kind, cc'[Muxed!PidOf(Muxed!Kind)], id', now' + skew, aligned)
  BY Zenon DEF Muxed!Write
<1>2. /\ Muxed!Pcr(Muxed!Kind, now' + skew) /\ Muxed!Payload(Muxed!Kind, aligned)
      /\ bad_sync' = bad_sync
  BY <1>1, Zenon DEF Muxed!Census
<1>3. pcr_samples' = IF Muxed!Kind = "start"
                     THEN Append(pcr_samples, <<at, now' + skew>>) ELSE pcr_samples
  BY <1>2, Zenon DEF Muxed!Pcr
<1>4. /\ table_at' = IF Table THEN [table_at EXCEPT ![Muxed!Kind] = Append(@, at)]
                     ELSE table_at
      /\ pmt_known' <=> (pmt_known \/ Muxed!Kind = "pat")
      /\ streams' = IF Table /\ Muxed!Kind = "pmt" THEN streams \cup {"video"} ELSE streams
  BY <1>2, Zenon DEF Muxed!Payload, Table
<1>5. /\ pusi_seen' = IF Looked THEN pusi_seen + 1 ELSE pusi_seen
      /\ pes_misaligned' = IF Looked /\ ~aligned THEN pes_misaligned + 1 ELSE pes_misaligned
  BY <1>2, Zenon DEF Muxed!Payload, Looked
<1>6. tableTimes' = IF Table THEN [tableTimes EXCEPT ![Muxed!Kind] = Append(@, now')]
                    ELSE tableTimes
  <2> DEFINE p == Muxed!PidOf(Muxed!Kind)
  <2>1. tableTimes' = IF p = "pat" \/ (p = "pmt" /\ tableTimes["pat"] # <<>>)
                      THEN [tableTimes EXCEPT ![p] = Append(@, now')] ELSE tableTimes
    BY Zenon DEF Muxed!Write
  <2>2. p = "pat" <=> Muxed!Kind = "pat"
    BY KindIs, Zenon
  <2>3. p = "pmt" <=> Muxed!Kind = "pmt"
    BY KindIs, Zenon
  <2>4. tableTimes["pat"] # <<>> <=> pmt_known
    BY Zenon DEF NotedInv
  <2>5. Table => p = Muxed!Kind
    BY KindIs, Zenon DEF Table
  <2> QED
    BY <2>1, <2>2, <2>3, <2>4, <2>5, Zenon DEF Table
<1> QED
  BY <1>1, <1>2, <1>3, <1>4, <1>5, <1>6, Zenon

(* The other packets leave no note.                                               *)
LEMMA UnwrittenIs ==
  ASSUME Muxed!Damage \/ Muxed!Stuff \/ Muxed!Repeat
  PROVE  /\ at' = at + 1 /\ now' = now + 1
         /\ pcr_samples' = pcr_samples /\ table_at' = table_at /\ tableTimes' = tableTimes
         /\ pmt_known' = pmt_known /\ streams' = streams
         /\ pusi_seen' = pusi_seen /\ pes_misaligned' = pes_misaligned
         /\ bad_sync' = IF Muxed!Damage THEN bad_sync + 1 ELSE bad_sync
<1>1. CASE Muxed!Damage
  BY <1>1 DEF Muxed!Damage, Muxed!Unsynced
<1>2. CASE Muxed!Stuff /\ ~Muxed!Damage
  BY <1>2 DEF Muxed!Stuff, Muxed!census
<1>3. CASE Muxed!Repeat /\ ~Muxed!Damage
  BY <1>3 DEF Muxed!Repeat
<1> QED
  BY <1>1, <1>2, <1>3

(* The notes of the tables, a packet later.                                       *)
LEMMA NotedWrite ==
  ASSUME at \in Nat, now \in Nat, at <= now, NotedInv, NEW k, NEW delay \in Nat, NEW skew,
         NEW aligned, Muxed!Write(k, delay, skew, aligned)
  PROVE  NotedInv'
<1>1. /\ at' = at + 1 /\ now' \in Nat /\ now + 1 <= now'
      /\ DOMAIN table_at = Muxed!Pid /\ DOMAIN tableTimes = Muxed!Pid
      /\ \A p \in Muxed!Pid : WrittenAt(table_at[p], tableTimes[p], at, now)
  BY WriteIs DEF NotedInv
<1>2. Table => Muxed!Kind \in {"pat", "pmt"} /\ {"pat", "pmt"} \subseteq Muxed!Pid
  BY Zenon DEF Table, Muxed!Pid
<1>3. /\ table_at' = IF Table THEN [table_at EXCEPT ![Muxed!Kind] = Append(@, at)]
                     ELSE table_at
      /\ tableTimes' = IF Table THEN [tableTimes EXCEPT ![Muxed!Kind] = Append(@, now')]
                       ELSE tableTimes
  BY WriteIs, Zenon
<1>4. DOMAIN table_at' = Muxed!Pid /\ DOMAIN tableTimes' = Muxed!Pid
  BY <1>1, <1>3
<1>5. ASSUME NEW p \in Muxed!Pid
      PROVE  /\ WrittenAt(table_at'[p], tableTimes'[p], at', now')
             /\ table_at'[p] # <<>> <=> table_at[p] # <<>> \/ (Table /\ p = Muxed!Kind)
             /\ tableTimes'[p] # <<>> <=> tableTimes[p] # <<>> \/ (Table /\ p = Muxed!Kind)
  <2>1. WrittenAt(table_at[p], tableTimes[p], at, now)
    BY <1>1
  <2>2. CASE Table /\ p = Muxed!Kind
    <3>1. table_at'[p] = Append(table_at[p], at)
            /\ tableTimes'[p] = Append(tableTimes[p], now')
      BY <1>1, <1>3, <2>2
    <3>2. WrittenAt(Append(table_at[p], at), Append(tableTimes[p], now'), at + 1, now')
      BY <1>1, <2>1, WrittenAppend
    <3>3. Append(table_at[p], at) # <<>> /\ Append(tableTimes[p], now') # <<>>
      <4>1. table_at[p] \in Seq(Nat) /\ tableTimes[p] \in Seq(Nat)
        BY <2>1 DEF WrittenAt
      <4>2. /\ Len(Append(table_at[p], at)) = Len(table_at[p]) + 1
            /\ Len(Append(tableTimes[p], now')) = Len(tableTimes[p]) + 1
            /\ Len(table_at[p]) \in Nat /\ Len(tableTimes[p]) \in Nat /\ Len(<<>>) = 0
        BY <1>1, <4>1
      <4> QED
        BY <4>2
    <3> QED
      BY <1>1, <2>2, <3>1, <3>2, <3>3
  <2>3. CASE ~(Table /\ p = Muxed!Kind)
    <3>1. table_at'[p] = table_at[p] /\ tableTimes'[p] = tableTimes[p]
      BY <1>1, <1>2, <1>3, <2>3
    <3>2. WrittenAt(table_at[p], tableTimes[p], at + 1, now')
      BY <1>1, <2>1, WrittenLater
    <3> QED
      BY <1>1, <2>3, <3>1, <3>2
  <2> QED
    BY <2>2, <2>3
<1>6. pmt_known' <=> tableTimes'["pat"] # <<>>
  <2>1. "pat" \in Muxed!Pid /\ (pmt_known <=> tableTimes["pat"] # <<>>)
    BY DEF NotedInv, Muxed!Pid
  <2>2. pmt_known' <=> (pmt_known \/ Muxed!Kind = "pat")
    BY WriteIs, Zenon
  <2>3. tableTimes'["pat"] # <<>>
          <=> tableTimes["pat"] # <<>> \/ (Table /\ "pat" = Muxed!Kind)
    BY <1>5, <2>1, Zenon
  <2> QED
    BY <2>1, <2>2, <2>3, Zenon DEF Table
<1>7. "video" \in streams' <=> table_at'["pmt"] # <<>>
  <2>1. "pmt" \in Muxed!Pid /\ ("video" \in streams <=> table_at["pmt"] # <<>>)
    BY DEF NotedInv, Muxed!Pid
  <2>2. streams' = IF Table /\ Muxed!Kind = "pmt" THEN streams \cup {"video"} ELSE streams
    BY WriteIs, Zenon
  <2>3. "video" \in streams' <=> "video" \in streams \/ (Table /\ Muxed!Kind = "pmt")
    BY <2>2, Zenon
  <2>4. table_at'["pmt"] # <<>> <=> table_at["pmt"] # <<>> \/ (Table /\ "pmt" = Muxed!Kind)
    BY <1>5, <2>1, Zenon
  <2> QED
    BY <2>1, <2>3, <2>4, Zenon
<1> QED
  BY <1>4, <1>5, <1>6, <1>7, Zenon DEF NotedInv

(* Every value a clock reference may have is no later than the packet.            *)
Stamp(delay, skew) ==
  delay \in Nat /\ skew \in Int /\ now + 1 + delay + skew \in 0 .. now + 1 + delay

LEMMA PlaceWrite ==
  ASSUME PlaceInv, NEW k, NEW delay, NEW skew, NEW aligned, Stamp(delay, skew),
         Muxed!Write(k, delay, skew, aligned)
  PROVE  PlaceInv'
<1>1. at \in Nat /\ now \in Nat /\ at <= now /\ RefInv /\ NotedInv
  BY DEF PlaceInv
<1>2. at' = at + 1 /\ now' = now + 1 + delay
  BY <1>1, WriteIs
<1>3. /\ delay \in Nat /\ now' \in Nat /\ at' \in Nat /\ at' <= now'
      /\ now' + skew \in Nat /\ now' + skew <= now' /\ now <= now'
  BY <1>1, <1>2 DEF Stamp
<1>4. NotedInv'
  BY <1>1, <1>3, NotedWrite
<1>5. RefInv'
  <2>1. CASE Muxed!Kind = "start"
    <3>1. pcr_samples' = Append(pcr_samples, <<at, now' + skew>>)
      BY <1>1, <2>1, WriteIs, Zenon
    <3> QED
      BY <1>1, <1>2, <1>3, <3>1, RefAppend
  <2>2. CASE Muxed!Kind # "start"
    <3>1. pcr_samples' = pcr_samples
      BY <1>1, <2>2, WriteIs, Zenon
    <3> QED
      BY <1>1, <1>2, <1>3, <3>1, RefKeep
  <2> QED
    BY <2>1, <2>2
<1> QED
  BY <1>3, <1>4, <1>5 DEF PlaceInv

LEMMA PlaceUnwritten ==
  ASSUME PlaceInv, Muxed!Damage \/ Muxed!Stuff \/ Muxed!Repeat
  PROVE  PlaceInv'
<1>1. at \in Nat /\ now \in Nat /\ at <= now /\ RefInv /\ NotedInv
  BY DEF PlaceInv
<1>2. /\ at' = at + 1 /\ now' = now + 1
      /\ pcr_samples' = pcr_samples /\ table_at' = table_at /\ tableTimes' = tableTimes
      /\ pmt_known' = pmt_known /\ streams' = streams
  BY UnwrittenIs, Zenon
<1>3. now' \in Nat /\ at' \in Nat /\ at' <= now' /\ now <= now' /\ now + 1 <= now'
  BY <1>1, <1>2
<1>4. RefInv'
  BY <1>1, <1>2, <1>3, RefKeep
<1>5. NotedInv'
  <2>1. \A p \in Muxed!Pid : WrittenAt(table_at[p], tableTimes[p], at, now)
    BY <1>1 DEF NotedInv
  <2>2. \A p \in Muxed!Pid : WrittenAt(table_at[p], tableTimes[p], at + 1, now')
    BY <1>1, <1>3, <2>1, WrittenLater
  <2> QED
    BY <1>1, <1>2, <2>2, Zenon DEF NotedInv
<1> QED
  BY <1>3, <1>4, <1>5 DEF PlaceInv

--------------------------------------------------------------------------------
(* What a step of the muxer is: a packet it writes, one of the faults it writes   *)
(* with, or a packet the census does not note; and what it adds to the faults.    *)
Wrote(fault) ==
  \/ /\ fault = "none" /\ Muxed!Write(0, 0, 0, TRUE)
  \/ /\ fault \in {"loss", "turn"} /\ \E k \in Int : Muxed!Write(k, 0, 0, TRUE)
  \/ /\ fault = "late" /\ Muxed!Write(0, PcrMax, 0, TRUE)
  \/ /\ fault = "pes" /\ Muxed!Kind = "start" /\ Muxed!Write(0, 0, 0, FALSE)
Stands ==
  /\ Muxed!Kind = "start"
  /\ \E value \in {0} \cup {pcr_samples[k][2] : k \in {Len(pcr_samples)} \ {0}} :
       Muxed!Write(0, 0, value - (now + 1), TRUE)

LEMMA StepIs ==
  ASSUME Muxed!Next
  PROVE  \/ Wrote("none") /\ made' = made
         \/ \E fault \in {"loss", "turn", "late", "pes"} :
              Wrote(fault) /\ made' = made \cup {<<fault, at>>}
         \/ Stands /\ made' = made \cup {<<"back", at>>}
         \/ Muxed!Damage /\ made' = made \cup {<<"sync", at>>}
         \/ Muxed!Stuff /\ made' = made \cup {<<"stuff", at>>}
         \/ Muxed!Repeat /\ made' = made \cup {<<"repeat", at>>}
<1>1. CASE Muxed!Sound
  BY <1>1, Zenon DEF Muxed!Sound, Wrote
<1>2. CASE Muxed!Lose
  <2>1. PICK k \in {1, CcWord - 1, CcWord} :
          Muxed!Fault(IF k = CcWord THEN "turn" ELSE "loss") /\ Muxed!Write(k, 0, 0, TRUE)
    BY <1>2, Zenon DEF Muxed!Lose
  <2>2. k \in Int
    BY WordBounds
  <2>3. PICK fault \in {"loss", "turn"} : Muxed!Fault(fault)
    BY <2>1, Zenon
  <2>4. Wrote(fault) /\ made' = made \cup {<<fault, at>>}
    BY <2>1, <2>2, <2>3, Zenon DEF Wrote, Muxed!Fault
  <2>5. fault \in {"loss", "turn", "late", "pes"}
    BY <2>3, Zenon
  <2> QED
    BY <2>4, <2>5, Zenon
<1>3. CASE Muxed!Late
  BY <1>3, Zenon DEF Muxed!Late, Muxed!Fault, Wrote
<1>4. CASE Muxed!BackPcr
  BY <1>4, Zenon DEF Muxed!BackPcr, Muxed!Fault, Stands
<1>5. CASE Muxed!Misalign
  BY <1>5, Zenon DEF Muxed!Misalign, Muxed!Fault, Wrote
<1>6. CASE Muxed!Damage
  BY <1>6, Zenon DEF Muxed!Damage, Muxed!Fault
<1>7. CASE Muxed!Stuff
  BY <1>7, Zenon DEF Muxed!Stuff, Muxed!Fault
<1>8. CASE Muxed!Repeat
  BY <1>8, Zenon DEF Muxed!Repeat, Muxed!Fault
<1> QED
  BY <1>1, <1>2, <1>3, <1>4, <1>5, <1>6, <1>7, <1>8, Zenon DEF Muxed!Next

--------------------------------------------------------------------------------
(* What is between the first reference and the last is what has a time.           *)
LEMMA AroundIs ==
  ASSUME PlaceInv, Len(pcr_samples) >= 2, NEW i \in Nat
  PROVE  Muxed!Around(i) # {}
           <=> pcr_samples[1][1] <= i /\ i <= pcr_samples[Len(pcr_samples)][1]
<1> DEFINE s == pcr_samples  n == Len(pcr_samples)
<1>1. s \in Seq(Nat \X Nat) /\ n \in Nat /\ Ordered /\ Covered
  BY DEF PlaceInv, RefInv
<1>2. \A k \in 1 .. n : s[k][1] \in Nat
  BY <1>1
<1>3. ASSUME Muxed!Around(i) # {}
      PROVE  s[1][1] <= i /\ i <= s[n][1]
  <2>1. PICK k \in 1 .. (n - 1) : s[k][1] <= i /\ i <= s[k + 1][1]
    BY <1>3 DEF Muxed!Around
  <2>2. k \in 1 .. n /\ k + 1 \in 1 .. n /\ 1 \in 1 .. n /\ n \in 1 .. n
    BY <1>1
  <2>3. (1 < k => s[1][1] < s[k][1]) /\ (k + 1 < n => s[k + 1][1] < s[n][1])
    BY <1>1, <2>2 DEF Ordered
  <2>4. s[1][1] <= s[k][1]
    BY <1>2, <2>2, <2>3
  <2>5. s[k + 1][1] <= s[n][1]
    BY <1>2, <2>2, <2>3
  <2>6. s[1][1] \in Nat /\ s[k][1] \in Nat /\ s[k + 1][1] \in Nat /\ s[n][1] \in Nat
    BY <1>2, <2>2
  <2> QED
    BY <2>1, <2>4, <2>5, <2>6
<1>4. s[1][1] <= i /\ i <= s[n][1] => Muxed!Around(i) # {}
  BY <1>1 DEF Covered
<1> QED
  BY <1>3, <1>4

(* The first reference pair around a place.                                       *)
LEMMA FirstAround ==
  ASSUME PlaceInv, NEW i \in Nat, Muxed!Around(i) # {}
  PROVE  \E k \in Muxed!Around(i) : \A j \in Muxed!Around(i) : k <= j
<1> DEFINE s == pcr_samples  n == Len(pcr_samples)
<1>1. s \in Seq(Nat \X Nat) /\ n \in Nat /\ Ordered
  BY DEF PlaceInv, RefInv
<1>2. \A k \in 1 .. n : s[k][1] \in Nat
  BY <1>1
<1>3. PICK k \in Muxed!Around(i) : TRUE
  OBVIOUS
<1>4. \A j : j \in Muxed!Around(i) <=> j \in 1 .. (n - 1) /\ s[j][1] <= i /\ i <= s[j + 1][1]
  BY DEF Muxed!Around
<1>5. ASSUME NEW j \in Muxed!Around(i), j < k
      PROVE  j = k - 1
  <2>1. j \in 1 .. (n - 1) /\ k \in 1 .. (n - 1) /\ i <= s[j + 1][1] /\ s[k][1] <= i
    BY <1>4
  <2>0. n \in Nat /\ j \in 1 .. (n - 1) /\ k \in 1 .. (n - 1)
    BY <1>1, <2>1, Zenon
  <2>2. j + 1 \in 1 .. n /\ k \in 1 .. n
    <3> HIDE DEF n
    <3> QED
      BY <2>0
  <2>3. j + 1 < k => s[j + 1][1] < s[k][1]
    BY <1>1, <2>2 DEF Ordered
  <2>4. s[j + 1][1] \in Nat /\ s[k][1] \in Nat
    BY <1>2, <2>2
  <2>5. ~(j + 1 < k)
    BY <2>1, <2>3, <2>4
  <2> QED
    BY <1>5, <2>1, <2>5
<1>6. k \in Int /\ \A j \in Muxed!Around(i) : j \in Int
  BY <1>4
<1>7. CASE k - 1 \in Muxed!Around(i)
  <2>1. \A j \in Muxed!Around(i) : k - 1 <= j
    BY <1>5, <1>6
  <2> QED
    BY <1>7, <2>1
<1>8. CASE k - 1 \notin Muxed!Around(i)
  <2>1. \A j \in Muxed!Around(i) : k <= j
    BY <1>5, <1>6, <1>8
  <2> QED
    BY <2>1
<1> QED
  BY <1>7, <1>8

LEMMA Proportion ==
  ASSUME NEW D \in Nat \ {0}, NEW m \in Int
  PROVE  (D * m * 12) \div D = 12 * m
  OBVIOUS

(* Of a muxer on time the interpolated times are the true ones.                   *)
LEMMA TimeIs ==
  ASSUME PlaceInv, Muxed!OnTime, NEW i \in Nat, Muxed!Around(i) # {}
  PROVE  Muxed!T(i) = 12 * (i + 1)
<1> DEFINE s == pcr_samples  n == Len(pcr_samples)
           k == CHOOSE k \in Muxed!Around(i) : \A j \in Muxed!Around(i) : k <= j
           a == s[k]  b == s[k + 1]
<1>1. s \in Seq(Nat \X Nat) /\ n \in Nat /\ Ordered
  BY DEF PlaceInv, RefInv
<1>2. k \in Muxed!Around(i)
  BY FirstAround
<1>3. Muxed!T(i) = 12 * a[2] + ((b[2] - a[2]) * (i - a[1]) * 12) \div (b[1] - a[1])
  BY Zenon DEF Muxed!T
<1> HIDE DEF k
<1>4. k \in 1 .. (n - 1) /\ k \in 1 .. n /\ k + 1 \in 1 .. n /\ k < k + 1
  BY <1>1, <1>2 DEF Muxed!Around
<1>5. a[1] \in Nat /\ b[1] \in Nat /\ a[1] < b[1]
  <2>1. a \in Nat \X Nat /\ b \in Nat \X Nat
    BY <1>1, <1>4, ElementOfSeq, Zenon
  <2>2. s[k][1] < s[k + 1][1]
    BY <1>1, <1>4 DEF Ordered
  <2> QED
    BY <2>1, <2>2
<1>6. a[2] = a[1] + 1 /\ b[2] = b[1] + 1
  BY <1>1, <1>4 DEF Muxed!OnTime
<1> DEFINE D == b[1] - a[1]  m == i - a[1]
<1>7. D \in Nat \ {0} /\ m \in Int /\ b[2] - a[2] = D
  BY <1>5, <1>6
<1>8. Muxed!T(i) = 12 * a[2] + (D * m * 12) \div D
  BY <1>3, <1>7
<1>9. Muxed!T(i) = 12 * a[2] + 12 * m
  BY <1>7, <1>8, Proportion
<1> QED
  BY <1>5, <1>6, <1>9

(* The verdict is the one of the true times.                                      *)
LEMMA TableIs ==
  ASSUME PlaceInv, Muxed!OnTime, Len(pcr_samples) >= 2, NEW p \in Muxed!Pid
  PROVE  /\ Muxed!TableOK(p) <=> Muxed!Soon(Muxed!InRange(p), tableTimes[p], TableMax)
         /\ \A j \in 1 .. Len(tableTimes[p]) : tableTimes[p][j] = table_at[p][j] + 1
<1> DEFINE s == pcr_samples  n == Len(pcr_samples)  x == table_at[p]  y == tableTimes[p]
           S == Muxed!Timed(p)
<1>1. /\ s \in Seq(Nat \X Nat) /\ n \in Nat /\ WrittenAt(x, y, at, now)
      /\ at \in Nat /\ now = at
  BY DEF PlaceInv, RefInv, NotedInv, Muxed!OnTime
<1>2. /\ Len(x) \in Nat /\ Len(y) = Len(x) /\ DOMAIN x = 1 .. Len(x) /\ DOMAIN y = 1 .. Len(x)
      /\ \A j \in 1 .. Len(x) : x[j] \in Nat /\ y[j] = x[j] + 1
  <2>1. x \in Seq(Nat) /\ y \in Seq(Nat) /\ Len(y) = Len(x)
    BY <1>1 DEF WrittenAt
  <2>2. \A j \in 1 .. Len(x) : x[j] \in Nat /\ y[j] \in Nat
    BY <2>1, ElementOfSeq
  <2>3. \A j \in 1 .. Len(x) : x[j] + 1 <= y[j] /\ y[j] <= x[j] + 1 + (now - at)
    BY <1>1 DEF WrittenAt
  <2>4. \A j \in 1 .. Len(x) : y[j] = x[j] + 1
    BY <1>1, <2>2, <2>3
  <2>5. Len(x) \in Nat /\ DOMAIN x = 1 .. Len(x) /\ DOMAIN y = 1 .. Len(x)
    BY <2>1
  <2> QED
    BY <2>1, <2>2, <2>4, <2>5
<1>3. s[1][2] = s[1][1] + 1 /\ s[n][2] = s[n][1] + 1 /\ s[1][1] \in Nat /\ s[n][1] \in Nat
  <2>1. 1 \in 1 .. n /\ n \in 1 .. n /\ DOMAIN s = 1 .. n
    BY <1>1
  <2>2. s[1] \in Nat \X Nat /\ s[n] \in Nat \X Nat
    BY <1>1, <2>1, ElementOfSeq
  <2> QED
    BY <2>1, <2>2 DEF Muxed!OnTime
<1>4. \A j \in 1 .. Len(x) : Muxed!Around(x[j]) # {} <=> s[1][1] <= x[j] /\ x[j] <= s[n][1]
  BY <1>2, AroundIs
<1>5. S = Muxed!InRange(p)
  <2>1. \A j \in 1 .. Len(x) : s[1][2] <= y[j] /\ y[j] <= s[n][2]
                                <=> s[1][1] <= x[j] /\ x[j] <= s[n][1]
    <3> SUFFICES ASSUME NEW j \in 1 .. Len(x)
                 PROVE  s[1][2] <= y[j] /\ y[j] <= s[n][2]
                          <=> s[1][1] <= x[j] /\ x[j] <= s[n][1]
      OBVIOUS
    <3>1. x[j] \in Nat /\ y[j] = x[j] + 1
      BY <1>2
    <3>2. ASSUME NEW u \in Nat, NEW v \in Nat, NEW w \in Nat
          PROVE  u + 1 <= w + 1 /\ w + 1 <= v + 1 <=> u <= w /\ w <= v
      OBVIOUS
    <3>5. x[j] \in Nat /\ s[1][1] \in Nat /\ s[n][1] \in Nat
      BY <1>3, <3>1, Zenon
    <3>3. s[1][1] + 1 <= x[j] + 1 /\ x[j] + 1 <= s[n][1] + 1
            <=> s[1][1] <= x[j] /\ x[j] <= s[n][1]
      BY <3>2, <3>5, Zenon
    <3>4. s[1][2] = s[1][1] + 1 /\ s[n][2] = s[n][1] + 1 /\ y[j] = x[j] + 1
      BY <1>3, <3>1, Zenon
    <3> QED
      BY <3>3, <3>4, Zenon
  <2>2. \A j : j \in S <=> j \in 1 .. Len(x) /\ Muxed!Around(x[j]) # {}
    BY <1>2 DEF Muxed!Timed
  <2>3. \A j : j \in Muxed!InRange(p)
          <=> j \in 1 .. Len(x) /\ s[1][2] <= y[j] /\ y[j] <= s[n][2]
    BY <1>2 DEF Muxed!InRange
  <2> QED
    BY <1>4, <2>1, <2>2, <2>3
<1>6. \A j \in S : Muxed!T(x[j]) = 12 * y[j] /\ y[j] \in Nat
  <2> SUFFICES ASSUME NEW j \in S
               PROVE  Muxed!T(x[j]) = 12 * y[j] /\ y[j] \in Nat
    OBVIOUS
  <2>1. j \in 1 .. Len(x) /\ Muxed!Around(x[j]) # {}
    BY <1>2 DEF Muxed!Timed
  <2>2. x[j] \in Nat /\ y[j] = x[j] + 1
    BY <1>2, <2>1
  <2>3. Muxed!T(x[j]) = 12 * (x[j] + 1)
    BY <2>1, <2>2, TimeIs
  <2> QED
    BY <2>2, <2>3
<1>7. Muxed!Soon(S, [j \in S |-> Muxed!T(x[j])], 12 * TableMax) <=> Muxed!Soon(S, y, TableMax)
  <2> DEFINE f == [j \in S |-> Muxed!T(x[j])]
  <2>1. TableMax \in Nat
    BY StreamConstants, Zenon DEF Muxed!ConstAssumption
  <2>2. ASSUME NEW i \in S, NEW j \in S
        PROVE  f[j] - f[i] <= 12 * TableMax <=> y[j] - y[i] <= TableMax
    <3>1. f[j] = 12 * y[j] /\ f[i] = 12 * y[i] /\ y[j] \in Nat /\ y[i] \in Nat
      BY <1>6
    <3>2. \A u, v, m \in Nat : 12 * v - 12 * u <= 12 * m <=> v - u <= m
      OBVIOUS
    <3> HIDE DEF f
    <3> QED
      BY <2>1, <3>1, <3>2, Zenon
  <2> HIDE DEF f, S
  <2>3. \A i, j \in S : f[j] - f[i] <= 12 * TableMax <=> y[j] - y[i] <= TableMax
    BY <2>2
  <2>4. Muxed!Soon(S, f, 12 * TableMax) <=> Muxed!Soon(S, y, TableMax)
    BY <2>3, Zenon DEF Muxed!Soon
  <2> QED
    BY <2>4 DEF f
<1> QED
  BY <1>2, <1>5, <1>7, Zenon DEF Muxed!TableOK

LEMMA TablesTrue == PlaceInv => Muxed!TablesExact
<1> SUFFICES ASSUME PlaceInv, Muxed!OnTime, Len(pcr_samples) >= 2, NEW p \in {"pat", "pmt"}
             PROVE  Muxed!TableOK(p) <=> Muxed!Soon(Muxed!InRange(p), tableTimes[p], TableMax)
  BY DEF Muxed!TablesExact
<1>1. p \in Muxed!Pid
  BY DEF Muxed!Pid
<1> QED
  BY <1>1, TableIs

--------------------------------------------------------------------------------
(* What of a fault the notes show: a place ahead of the first clock reference     *)
(* says nothing, a wrong step between two references stays, and a late packet     *)
(* behind the last reference makes the next step a wrong one.                     *)
Early(i) == pcr_samples # <<>> /\ i <= pcr_samples[1][1]
BadRef ==
  \E k \in 1 .. (Len(pcr_samples) - 1) :
    LET d == pcr_samples[k + 1][2] - pcr_samples[k][2] IN ~(d > 0 /\ d <= PcrMax)
Pending(i) ==
  \/ pcr_samples = <<>>
  \/ /\ pcr_samples[Len(pcr_samples)][1] < i
     /\ now - pcr_samples[Len(pcr_samples)][2] > PcrMax

Told(f) ==
  /\ f[2] \in Nat /\ f[2] < at
  /\ f[1] = "sync" => bad_sync > 0
  /\ f[1] = "pes" => (Muxed!Named(f[2]) => pes_misaligned > 0)
  /\ f[1] = "back" => Early(f[2]) \/ BadRef
  /\ f[1] = "late" => Early(f[2]) \/ BadRef \/ Pending(f[2])

ToldInv == bad_sync \in Nat /\ pes_misaligned \in Nat /\ \A f \in made : Told(f)

LEMMA PcrBound == PcrMax \in Nat /\ PcrMax >= 4
  BY StreamConstants, Zenon DEF Muxed!ConstAssumption

(* The references with one more, e.                                               *)
LEMMA RefsMore ==
  ASSUME PlaceInv, NEW v \in Nat, pcr_samples' = Append(pcr_samples, <<at, v>>)
  PROVE  /\ Len(pcr_samples) \in Nat /\ Len(pcr_samples') = Len(pcr_samples) + 1
         /\ pcr_samples' # <<>>
         /\ pcr_samples'[Len(pcr_samples) + 1] = <<at, v>>
         /\ \A k \in 1 .. Len(pcr_samples) :
              pcr_samples'[k] = pcr_samples[k] /\ pcr_samples[k] \in Nat \X Nat
<1>1. pcr_samples \in Seq(Nat \X Nat) /\ <<at, v>> \in Nat \X Nat
  BY DEF PlaceInv, RefInv
<1>2. /\ Len(pcr_samples) \in Nat /\ Len(pcr_samples') = Len(pcr_samples) + 1
      /\ pcr_samples'[Len(pcr_samples) + 1] = <<at, v>>
      /\ \A k \in 1 .. Len(pcr_samples) : pcr_samples'[k] = pcr_samples[k]
  BY <1>1
<1>3. \A k \in 1 .. Len(pcr_samples) : pcr_samples[k] \in Nat \X Nat
  BY <1>1, ElementOfSeq
<1>4. pcr_samples' # <<>>
  BY <1>2
<1> QED
  BY <1>2, <1>3, <1>4

LEMMA EarlyStays ==
  ASSUME PlaceInv, NEW v \in Nat, pcr_samples' = Append(pcr_samples, <<at, v>>)
  PROVE  /\ \A i : Early(i) => Early(i)'
         /\ BadRef => BadRef'
         /\ \A i \in Nat : pcr_samples = <<>> /\ i <= at => Early(i)'
         /\ pcr_samples # <<>> /\ (v - pcr_samples[Len(pcr_samples)][2] <= 0
                                   \/ v - pcr_samples[Len(pcr_samples)][2] > PcrMax) => BadRef'
<1> DEFINE s == pcr_samples  t == pcr_samples'  n == Len(pcr_samples)
<1>1. /\ n \in Nat /\ Len(t) = n + 1 /\ t # <<>> /\ t[n + 1] = <<at, v>>
      /\ \A k \in 1 .. n : t[k] = s[k] /\ s[k] \in Nat \X Nat
  BY RefsMore
<1>2. s # <<>> <=> n >= 1
  <2>1. s \in Seq(Nat \X Nat)
    BY DEF PlaceInv, RefInv
  <2> QED
    BY <2>1
<1>3. ASSUME NEW i, Early(i)
      PROVE  Early(i)'
  <2>1. 1 \in 1 .. n
    BY <1>1, <1>2, <1>3 DEF Early
  <2> QED
    BY <1>1, <1>3, <2>1 DEF Early
<1>4. ASSUME BadRef
      PROVE  BadRef'
  <2>1. PICK k \in 1 .. (n - 1) : ~(s[k + 1][2] - s[k][2] > 0 /\ s[k + 1][2] - s[k][2] <= PcrMax)
    BY <1>4 DEF BadRef
  <2>0. n \in Nat /\ k \in 1 .. (n - 1)
    BY <1>1, Zenon
  <2>2. k \in 1 .. n /\ k + 1 \in 1 .. n /\ k \in 1 .. ((n + 1) - 1)
    <3> HIDE DEF n
    <3> QED
      BY <2>0
  <2>3. t[k] = s[k] /\ t[k + 1] = s[k + 1]
    BY <1>1, <2>2, Zenon
  <2>4. ~(t[k + 1][2] - t[k][2] > 0 /\ t[k + 1][2] - t[k][2] <= PcrMax)
          /\ k \in 1 .. (Len(t) - 1)
    BY <1>1, <2>1, <2>2, <2>3, Zenon
  <2> QED
    BY <2>4 DEF BadRef
<1>5. ASSUME NEW i \in Nat, s = <<>>, i <= at
      PROVE  Early(i)'
  <2>1. n = 0
    BY <1>5
  <2>2. t[1] = <<at, v>>
    BY <1>1, <2>1
  <2> QED
    BY <1>1, <1>5, <2>2 DEF Early
<1>6. ASSUME s # <<>>, v - s[n][2] <= 0 \/ v - s[n][2] > PcrMax
      PROVE  BadRef'
  <2>1. n \in 1 .. n /\ n \in 1 .. (Len(t) - 1)
    BY <1>1, <1>2, <1>6
  <2>2. t[n] = s[n] /\ t[n + 1] = <<at, v>> /\ t[n + 1][2] = v
    BY <1>1, <2>1
  <2>3. s[n][2] \in Nat
    BY <1>1, <2>1
  <2>4. ~(t[n + 1][2] - t[n][2] > 0 /\ t[n + 1][2] - t[n][2] <= PcrMax)
    BY <1>6, <2>2, <2>3, PcrBound
  <2> QED
    BY <2>1, <2>4 DEF BadRef
<1> QED
  BY <1>3, <1>4, <1>5, <1>6

(* The reference a packet carries, if it does: its own time, or one that does not *)
(* go on.                                                                         *)
Fresh(delay, skew) ==
  \/ skew = 0
  \/ pcr_samples = <<>>
  \/ now + 1 + delay + skew <= pcr_samples[Len(pcr_samples)][2]

(* A fault that was told stays told.                                              *)
LEMMA NamedStays ==
  ASSUME PlaceInv, NEW k, NEW delay, NEW skew, NEW aligned,
         Muxed!Write(k, delay, skew, aligned), NEW i \in Nat, i <= at, Muxed!Named(i)'
  PROVE  Muxed!Named(i)
<1> DEFINE x == table_at["pmt"]  y == table_at'["pmt"]
<1>1. at \in Nat /\ x \in Seq(Nat) /\ "pmt" \in Muxed!Pid /\ DOMAIN table_at = Muxed!Pid
  BY DEF PlaceInv, NotedInv, WrittenAt, Muxed!Pid
<1>2. table_at' = IF Table THEN [table_at EXCEPT ![Muxed!Kind] = Append(@, at)] ELSE table_at
  BY WriteIs, Zenon DEF PlaceInv
<1>3. y = x \/ y = Append(x, at)
  BY <1>1, <1>2
<1>4. y # <<>> /\ y[1] < i
  BY DEF Muxed!Named
<1>5. CASE y = x
  BY <1>4, <1>5 DEF Muxed!Named
<1>6. CASE y = Append(x, at)
  <2>1. x # <<>>
    <3> SUFFICES ASSUME x = <<>>
                 PROVE  FALSE
      OBVIOUS
    <3>1. y[1] = at
      BY <1>6
    <3> QED
      BY <1>1, <1>4, <3>1
  <2>2. y[1] = x[1]
    BY <1>1, <1>6, <2>1
  <2> QED
    BY <1>4, <2>1, <2>2 DEF Muxed!Named
<1> QED
  BY <1>3, <1>5, <1>6

LEMMA ToldWrite ==
  ASSUME PlaceInv, ToldInv, NEW k, NEW delay, NEW skew, NEW aligned,
         Stamp(delay, skew), Fresh(delay, skew), Muxed!Write(k, delay, skew, aligned),
         NEW f, Told(f)
  PROVE  Told(f)'
<1>1. /\ at \in Nat /\ now \in Nat /\ f[2] \in Nat /\ f[2] < at
      /\ bad_sync \in Nat /\ pes_misaligned \in Nat
  BY DEF PlaceInv, ToldInv, Told
<1>2. /\ at' = at + 1 /\ now' = now + 1 + delay /\ bad_sync' = bad_sync
      /\ pes_misaligned' = IF Looked /\ ~aligned THEN pes_misaligned + 1 ELSE pes_misaligned
  <2>1. at \in Nat /\ NotedInv
    BY DEF PlaceInv
  <2>2. at' = at + 1 /\ now' = now + 1 + delay /\ bad_sync' = bad_sync
    BY <2>1, WriteIs, Zenon
  <2>3. pes_misaligned' = IF Looked /\ ~aligned THEN pes_misaligned + 1 ELSE pes_misaligned
    BY <2>1, WriteIs
  <2> QED
    BY <2>2, <2>3, Zenon
<1>3. delay \in Nat /\ now' + skew \in Nat /\ now' \in Nat /\ skew \in Int
  BY <1>1, <1>2 DEF Stamp
<1>4. f[2] \in Nat /\ f[2] < at' /\ f[2] <= at
  BY <1>1, <1>2
<1>5. f[1] = "sync" => bad_sync' > 0
  BY <1>2 DEF Told
<1>6. f[1] = "pes" => (Muxed!Named(f[2])' => pes_misaligned' > 0)
  <2> SUFFICES ASSUME f[1] = "pes", Muxed!Named(f[2])'
               PROVE  pes_misaligned' > 0
    OBVIOUS
  <2>1. pes_misaligned > 0
    BY <1>4, NamedStays DEF Told
  <2> QED
    BY <1>1, <1>2, <2>1
<1>7. CASE Muxed!Kind = "start"
  <2> DEFINE v == now' + skew
  <2>1. v \in Nat /\ pcr_samples' = Append(pcr_samples, <<at, v>>)
    BY <1>3, <1>7, WriteIs, Zenon DEF PlaceInv
  <2> HIDE DEF v
  <2>2. /\ Early(f[2]) => Early(f[2])'
        /\ BadRef => BadRef'
        /\ pcr_samples = <<>> => Early(f[2])'
        /\ pcr_samples # <<>> /\ (v - pcr_samples[Len(pcr_samples)][2] <= 0
                                  \/ v - pcr_samples[Len(pcr_samples)][2] > PcrMax) => BadRef'
    BY <1>4, <2>1, EarlyStays
  <2>3. Pending(f[2]) => Early(f[2])' \/ BadRef'
    <3> SUFFICES ASSUME Pending(f[2]), pcr_samples # <<>>
                 PROVE  BadRef'
      BY <2>2
    <3> DEFINE w == pcr_samples[Len(pcr_samples)][2]
    <3>1. w \in Nat /\ now - w > PcrMax
      <4>1. Len(pcr_samples) \in 1 .. Len(pcr_samples)
        <5>1. pcr_samples \in Seq(Nat \X Nat)
          BY DEF PlaceInv, RefInv
        <5> QED
          BY <5>1
      <4>2. pcr_samples[Len(pcr_samples)] \in Nat \X Nat
        BY <2>1, <4>1, RefsMore
      <4> QED
        BY <4>2 DEF Pending
    <3>2. skew = 0 \/ now + 1 + delay + skew <= w
      BY DEF Fresh
    <3> HIDE DEF w
    <3>3. v - w <= 0 \/ v - w > PcrMax
      BY <1>1, <1>2, <1>3, <3>1, <3>2, PcrBound DEF v
    <3> QED
      BY <2>2, <3>3 DEF w
  <2>4. /\ f[1] = "back" => Early(f[2])' \/ BadRef'
        /\ f[1] = "late" => Early(f[2])' \/ BadRef'
    BY <2>2, <2>3, Zenon DEF Told
  <2> QED
    BY <1>4, <1>5, <1>6, <2>4, Zenon DEF Told
<1>8. CASE Muxed!Kind # "start"
  <2>1. pcr_samples' = pcr_samples
    BY <1>8, WriteIs, Zenon DEF PlaceInv
  <2>2. (Early(f[2]) => Early(f[2])') /\ (BadRef => BadRef')
    BY <2>1 DEF Early, BadRef
  <2>3. Pending(f[2]) => Pending(f[2])'
    <3> SUFFICES ASSUME Pending(f[2]), pcr_samples # <<>>
                 PROVE  /\ pcr_samples[Len(pcr_samples)][1] < f[2]
                        /\ now' - pcr_samples[Len(pcr_samples)][2] > PcrMax
      BY <2>1 DEF Pending
    <3>1. pcr_samples[Len(pcr_samples)] \in Nat \X Nat
      <4>1. pcr_samples \in Seq(Nat \X Nat)
        BY DEF PlaceInv, RefInv
      <4>2. Len(pcr_samples) \in 1 .. Len(pcr_samples)
        BY <4>1
      <4> QED
        BY <4>1, <4>2, ElementOfSeq
    <3> QED
      BY <1>1, <1>2, <1>3, <3>1, PcrBound DEF Pending
  <2> QED
    BY <1>4, <1>5, <1>6, <2>2, <2>3, Zenon DEF Told
<1> QED
  BY <1>7, <1>8

LEMMA ToldUnwritten ==
  ASSUME PlaceInv, ToldInv, Muxed!Damage \/ Muxed!Stuff \/ Muxed!Repeat, NEW f, Told(f)
  PROVE  Told(f)'
<1>1. /\ at \in Nat /\ now \in Nat /\ f[2] \in Nat /\ f[2] < at
      /\ bad_sync \in Nat /\ pes_misaligned \in Nat
  BY DEF PlaceInv, ToldInv, Told
<1>2. /\ at' = at + 1 /\ now' = now + 1 /\ pcr_samples' = pcr_samples /\ table_at' = table_at
      /\ pes_misaligned' = pes_misaligned
      /\ bad_sync' = IF Muxed!Damage THEN bad_sync + 1 ELSE bad_sync
  BY UnwrittenIs, Zenon
<1>3. f[2] \in Nat /\ f[2] < at'
  BY <1>1, <1>2
<1>4. f[1] = "sync" => bad_sync' > 0
  BY <1>1, <1>2 DEF Told
<1>5. f[1] = "pes" => (Muxed!Named(f[2])' => pes_misaligned' > 0)
  BY <1>2 DEF Told, Muxed!Named
<1>6. (Early(f[2]) => Early(f[2])') /\ (BadRef => BadRef')
  BY <1>2 DEF Early, BadRef
<1>7. Pending(f[2]) => Pending(f[2])'
  <2> SUFFICES ASSUME Pending(f[2]), pcr_samples # <<>>
               PROVE  /\ pcr_samples[Len(pcr_samples)][1] < f[2]
                      /\ now' - pcr_samples[Len(pcr_samples)][2] > PcrMax
    BY <1>2 DEF Pending
  <2>1. pcr_samples \in Seq(Nat \X Nat)
    BY DEF PlaceInv, RefInv
  <2>2. Len(pcr_samples) \in 1 .. Len(pcr_samples)
    BY <2>1
  <2>3. pcr_samples[Len(pcr_samples)] \in Nat \X Nat
    BY <2>1, <2>2, ElementOfSeq
  <2> QED
    BY <1>1, <1>2, <2>3, PcrBound DEF Pending
<1> QED
  BY <1>3, <1>4, <1>5, <1>6, <1>7, Zenon DEF Told

--------------------------------------------------------------------------------
LEMMA RefsEnd ==
  ASSUME PlaceInv, pcr_samples # <<>>
  PROVE  /\ pcr_samples[Len(pcr_samples)] \in Nat \X Nat
         /\ pcr_samples[Len(pcr_samples)][1] < at /\ pcr_samples[Len(pcr_samples)][2] <= now
<1>1. pcr_samples \in Seq(Nat \X Nat) /\ RefInv
  BY DEF PlaceInv, RefInv
<1>2. Len(pcr_samples) \in 1 .. Len(pcr_samples)
  BY <1>1
<1> QED
  BY <1>1, <1>2, ElementOfSeq DEF RefInv

(* Each fault is told the moment it is made: a late packet,                       *)
LEMMA LateTold ==
  ASSUME PlaceInv, NEW i \in Nat, i = at, Muxed!Write(0, PcrMax, 0, TRUE)
  PROVE  Told(<<"late", i>>)'
<1>0. at \in Nat /\ NotedInv /\ now \in Nat /\ RefInv
  BY DEF PlaceInv
<1>1. at' = at + 1 /\ now' = now + 1 + PcrMax
  BY <1>0, WriteIs, Zenon
<1>2. now' \in Nat /\ now' + 0 = now'
  BY <1>0, <1>1, PcrBound
<1>3. ASSUME pcr_samples # <<>>
      PROVE  /\ pcr_samples[Len(pcr_samples)][1] < i
             /\ now' - pcr_samples[Len(pcr_samples)][2] > PcrMax
  BY <1>0, <1>1, <1>3, RefsEnd, PcrBound
<1>4. Early(i)' \/ BadRef' \/ Pending(i)'
  <2>1. CASE Muxed!Kind = "start"
    <3>1. pcr_samples' = Append(pcr_samples, <<at, now'>>)
      BY <1>0, <1>2, <2>1, WriteIs, Zenon
    <3>2. i \in Nat /\ i <= at
      BY <1>0
    <3> QED
      BY <1>0, <1>2, <1>3, <3>1, <3>2, EarlyStays
  <2>2. CASE Muxed!Kind # "start"
    <3>1. pcr_samples' = pcr_samples
      BY <1>0, <2>2, WriteIs, Zenon
    <3> QED
      BY <1>3, <3>1 DEF Pending
  <2> QED
    BY <2>1, <2>2
<1>5. i < at'
  BY <1>0, <1>1
<1> QED
  BY <1>4, <1>5 DEF Told

(* a start out of line, behind a PMT,                                             *)
LEMMA PesTold ==
  ASSUME PlaceInv, ToldInv, NEW i \in Nat, i = at, Muxed!Kind = "start",
         Muxed!Write(0, 0, 0, FALSE)
  PROVE  Told(<<"pes", i>>)'
<1>0. at \in Nat /\ NotedInv /\ pes_misaligned \in Nat
  BY DEF PlaceInv, ToldInv
<1>1. at' = at + 1
  BY <1>0, WriteIs, Zenon
<1>2. Muxed!Named(i)' => pes_misaligned' > 0
  <2>1. CASE "video" \in streams
    <3>1. Looked
      BY <2>1 DEF Looked
    <3>2. pes_misaligned' = IF Looked /\ ~FALSE THEN pes_misaligned + 1 ELSE pes_misaligned
      BY <1>0, WriteIs
    <3> QED
      BY <1>0, <3>1, <3>2
  <2>2. CASE "video" \notin streams
    <3>1. table_at["pmt"] = <<>>
      BY <1>0, <2>2 DEF NotedInv
    <3>2. ~Table
      BY Zenon DEF Table
    <3>3. table_at' = table_at
      BY <1>0, <3>2, WriteIs, Zenon
    <3> QED
      BY <3>1, <3>3 DEF Muxed!Named
  <2> QED
    BY <2>1, <2>2
<1>3. i < at'
  BY <1>0, <1>1
<1> QED
  BY <1>2, <1>3 DEF Told

(* and a reference that does not go on.                                           *)
LEMMA StandsFresh ==
  ASSUME PlaceInv, Stands
  PROVE  \E skew \in Int :
           /\ Stamp(0, skew) /\ Fresh(0, skew) /\ Muxed!Write(0, 0, skew, TRUE)
           /\ pcr_samples # <<>> =>
                now + 1 + 0 + skew <= pcr_samples[Len(pcr_samples)][2]
<1>0. at \in Nat /\ now \in Nat /\ pcr_samples \in Seq(Nat \X Nat)
  BY DEF PlaceInv, RefInv
<1>1. PICK value \in {0} \cup {pcr_samples[k][2] : k \in {Len(pcr_samples)} \ {0}} :
        Muxed!Write(0, 0, value - (now + 1), TRUE)
  BY Zenon DEF Stands
<1>2. value \in Nat /\ value <= now /\
      (pcr_samples # <<>> => value <= pcr_samples[Len(pcr_samples)][2])
  <2>1. CASE value = 0
    <3>1. pcr_samples # <<>> => 0 <= pcr_samples[Len(pcr_samples)][2]
      <4>1. pcr_samples # <<>> => pcr_samples[Len(pcr_samples)] \in Nat \X Nat
        BY RefsEnd
      <4> QED
        BY <4>1
    <3> QED
      BY <1>0, <2>1, <3>1
  <2>2. CASE value # 0
    <3>1. Len(pcr_samples) # 0 /\ value = pcr_samples[Len(pcr_samples)][2]
      BY <2>2
    <3>2. pcr_samples # <<>>
      BY <3>1
    <3> QED
      BY <3>1, <3>2, RefsEnd
  <2> QED
    BY <2>1, <2>2
<1> PICK skew \in Int : skew = value - (now + 1)
  BY <1>0, <1>2
<1>3. now + 1 + 0 + skew = value
  BY <1>0, <1>2
<1>4. Stamp(0, skew)
  BY <1>0, <1>2, <1>3 DEF Stamp
<1> QED
  BY <1>1, <1>2, <1>3, <1>4 DEF Fresh

LEMMA BackTold ==
  ASSUME PlaceInv, NEW i \in Nat, i = at, NEW skew \in Int, Muxed!Kind = "start",
         Stamp(0, skew), Muxed!Write(0, 0, skew, TRUE),
         pcr_samples # <<>> => now + 1 + 0 + skew <= pcr_samples[Len(pcr_samples)][2]
  PROVE  Told(<<"back", i>>)'
<1>0. at \in Nat /\ NotedInv /\ now \in Nat /\ RefInv
  BY DEF PlaceInv
<1>1. at' = at + 1 /\ now' = now + 1 + 0
  BY <1>0, WriteIs, Zenon
<1> DEFINE v == now' + skew
<1>2. v \in Nat /\ v = now + 1 + 0 + skew
  BY <1>0, <1>1 DEF Stamp
<1>3. pcr_samples' = Append(pcr_samples, <<at, v>>)
  BY <1>0, WriteIs, Zenon
<1> HIDE DEF v
<1>4. pcr_samples # <<>> => v - pcr_samples[Len(pcr_samples)][2] <= 0
  <2>1. pcr_samples # <<>> => pcr_samples[Len(pcr_samples)] \in Nat \X Nat
    BY RefsEnd
  <2> QED
    BY <1>2, <2>1
<1>5. Early(i)' \/ BadRef'
  <2>1. i \in Nat /\ i <= at
    BY <1>0
  <2> QED
    BY <1>2, <1>3, <1>4, <2>1, EarlyStays
<1>6. i < at'
  BY <1>0, <1>1
<1> QED
  BY <1>5, <1>6 DEF Told

(* A packet written keeps what was told, and adds a fault if that is told.        *)
LEMMA ToldMore ==
  ASSUME PlaceInv, ToldInv, NEW k, NEW delay, NEW skew, NEW aligned,
         Stamp(delay, skew), Fresh(delay, skew), Muxed!Write(k, delay, skew, aligned),
         \A f \in made' : f \in made \/ Told(f)'
  PROVE  PlaceInv' /\ ToldInv'
<1>1. PlaceInv'
  BY PlaceWrite
<1>2. \A f \in made : Told(f) /\ Told(f)'
  BY ToldWrite DEF ToldInv
<1>3. bad_sync' \in Nat /\ pes_misaligned' \in Nat
  <2>1. bad_sync \in Nat /\ pes_misaligned \in Nat /\ at \in Nat /\ NotedInv
    BY DEF ToldInv, PlaceInv
  <2>2. bad_sync' = bad_sync
    BY <2>1, WriteIs, Zenon
  <2>3. pes_misaligned' = IF Looked /\ ~aligned THEN pes_misaligned + 1 ELSE pes_misaligned
    BY <2>1, WriteIs
  <2> QED
    BY <2>1, <2>2, <2>3
<1>4. \A f \in made' : Told(f)'
  BY <1>2, Zenon
<1> QED
  BY <1>1, <1>3, <1>4 DEF ToldInv

LEMMA PlainStamp ==
  ASSUME PlaceInv, NEW delay \in Nat
  PROVE  Stamp(delay, 0) /\ Fresh(delay, 0)
  BY DEF PlaceInv, Stamp, Fresh

(* Other faults are in their place, and about another line.                       *)
LEMMA OtherTold ==
  ASSUME PlaceInv, NEW i \in Nat, i = at, at' = at + 1, NEW fault,
         fault \in {"loss", "turn", "stuff", "repeat"}
  PROVE  Told(<<fault, i>>)'
<1>1. i < at'
  OBVIOUS
<1> QED
  BY <1>1 DEF Told

LEMMA ToldStep ==
  ASSUME PlaceInv, ToldInv, [Muxed!Next]_(Muxed!vars)
  PROVE  PlaceInv' /\ ToldInv'
<1>0. at \in Nat /\ NotedInv
  BY DEF PlaceInv
<1> PICK i \in Nat : i = at
  BY <1>0
<1>1. CASE UNCHANGED Muxed!vars
  <2>1. PlaceInv'
    BY <1>1 DEF Muxed!vars, Muxed!muxer, Muxed!census, PlaceInv, RefInv, NotedInv, Ordered,
                Covered, Muxed!Around
  <2>2. ToldInv'
    BY <1>1 DEF Muxed!vars, Muxed!muxer, Muxed!census, ToldInv, Told, Early, BadRef, Pending,
                Muxed!Named
  <2> QED
    BY <2>1, <2>2
<1>2. CASE Wrote("none") /\ made' = made
  <2>1. Muxed!Write(0, 0, 0, TRUE) /\ made' = made \cup {}
    BY <1>2, Zenon DEF Wrote
  <2>2. Stamp(0, 0) /\ Fresh(0, 0)
    BY PlainStamp
  <2>3. \A f \in made' : f \in made \/ Told(f)'
    BY <1>2, Zenon
  <2> QED
    BY <2>1, <2>2, <2>3, ToldMore, Zenon
<1>3. ASSUME NEW fault \in {"loss", "turn", "late", "pes"}, Wrote(fault),
             made' = made \cup {<<fault, at>>}
      PROVE  PlaceInv' /\ ToldInv'
  <2>0. made' = made \cup {<<fault, i>>}
    BY <1>3
  <2>1. CASE fault \in {"loss", "turn"}
    <3>1. PICK k \in Int : Muxed!Write(k, 0, 0, TRUE)
      BY <1>3, <2>1, Zenon DEF Wrote
    <3>2. Stamp(0, 0) /\ Fresh(0, 0)
      BY PlainStamp
    <3>3. at' = at + 1
      BY <1>0, <3>1, WriteIs, Zenon
    <3>4. Told(<<fault, i>>)'
      BY <2>1, <3>3, OtherTold
    <3>5. \A f \in made' : f \in made \/ Told(f)'
      BY <2>0, <3>4, Zenon
    <3> QED
      BY <3>1, <3>2, <3>5, ToldMore, Zenon
  <2>2. CASE fault = "late"
    <3>1. Muxed!Write(0, PcrMax, 0, TRUE)
      BY <1>3, <2>2, Zenon DEF Wrote
    <3>2. Stamp(PcrMax, 0) /\ Fresh(PcrMax, 0)
      BY PlainStamp, PcrBound
    <3>3. Told(<<fault, i>>)'
      BY <2>2, <3>1, LateTold
    <3>5. \A f \in made' : f \in made \/ Told(f)'
      BY <2>0, <3>3, Zenon
    <3> QED
      BY <3>1, <3>2, <3>5, ToldMore, Zenon
  <2>3. CASE fault = "pes"
    <3>1. Muxed!Kind = "start" /\ Muxed!Write(0, 0, 0, FALSE)
      BY <1>3, <2>3, Zenon DEF Wrote
    <3>2. Stamp(0, 0) /\ Fresh(0, 0)
      BY PlainStamp
    <3>3. Told(<<fault, i>>)'
      BY <2>3, <3>1, PesTold
    <3>5. \A f \in made' : f \in made \/ Told(f)'
      BY <2>0, <3>3, Zenon
    <3> QED
      BY <3>1, <3>2, <3>5, ToldMore, Zenon
  <2> QED
    BY <2>1, <2>2, <2>3
<1>4. CASE Stands /\ made' = made \cup {<<"back", at>>}
  <2>1. PICK skew \in Int :
           /\ Stamp(0, skew) /\ Fresh(0, skew) /\ Muxed!Write(0, 0, skew, TRUE)
           /\ pcr_samples # <<>> =>
                now + 1 + 0 + skew <= pcr_samples[Len(pcr_samples)][2]
    BY <1>4, StandsFresh
  <2>2. Muxed!Kind = "start"
    BY <1>4, Zenon DEF Stands
  <2>3. Told(<<"back", i>>)'
    BY <2>1, <2>2, BackTold
  <2>4. made' = made \cup {<<"back", i>>}
    BY <1>4
  <2>5. \A f \in made' : f \in made \/ Told(f)'
    BY <2>3, <2>4, Zenon
  <2> QED
    BY <2>1, <2>5, ToldMore, Zenon
<1>5. ASSUME NEW fault \in {"sync", "stuff", "repeat"}, made' = made \cup {<<fault, at>>},
             Muxed!Damage \/ Muxed!Stuff \/ Muxed!Repeat, fault = "sync" => Muxed!Damage
      PROVE  PlaceInv' /\ ToldInv'
  <2>1. /\ at' = at + 1 /\ pes_misaligned' = pes_misaligned
        /\ bad_sync' = IF Muxed!Damage THEN bad_sync + 1 ELSE bad_sync
    BY <1>5, UnwrittenIs, Zenon
  <2>2. bad_sync' \in Nat /\ pes_misaligned' \in Nat /\ (Muxed!Damage => bad_sync' > 0)
    BY <2>1 DEF ToldInv
  <2>3. \A f \in made : Told(f)'
    BY <1>5, ToldUnwritten DEF ToldInv
  <2>4. Told(<<fault, i>>)'
    <3>1. i < at'
      BY <2>1
    <3> QED
      BY <1>5, <2>2, <3>1 DEF Told
  <2>5. \A f \in made' : Told(f)'
    <3>1. made' = made \cup {<<fault, i>>}
      BY <1>5
    <3> QED
      BY <2>3, <2>4, <3>1, Zenon
  <2>6. PlaceInv'
    BY <1>5, PlaceUnwritten
  <2> QED
    BY <2>2, <2>5, <2>6 DEF ToldInv
<1>6. Muxed!Next => PlaceInv' /\ ToldInv'
  <2> HAVE Muxed!Next
  <2> QED
    BY StepIs, <1>2, <1>3, <1>4, <1>5, Zenon
<1> QED
  BY <1>1, <1>6

--------------------------------------------------------------------------------
(* A muxer without a fault: how many of n notes there are, the k-th at place      *)
(* 4k - c of the cycle, when a packets are out.                                   *)
Even(n, c, a) == 4 * n <= a + c - 1 /\ a + c - 1 < 4 * n + 4

LEMMA EvenNext ==
  ASSUME NEW n \in Nat, NEW c \in 2 .. 4, NEW a \in Nat, Even(n, c, a)
  PROVE  /\ a % 4 = 4 - c => a = 4 * (n + 1) - c /\ Even(n + 1, c, a + 1)
         /\ a % 4 # 4 - c => Even(n, c, a + 1)
  BY DEF Even

EvenTables(p, c) ==
  /\ Even(Len(table_at[p]), c, at)
  /\ \A k \in 1 .. Len(table_at[p]) : table_at[p][k] = 4 * k - c

SoundInv ==
  made = {} =>
    /\ now = at /\ bad_sync = 0 /\ pes_misaligned = 0
    /\ pusi_seen \in Nat /\ (at >= 3 => pusi_seen > 0)
    /\ Even(Len(pcr_samples), 2, at)
    /\ \A k \in 1 .. Len(pcr_samples) : pcr_samples[k] = <<4 * k - 2, 4 * k - 1>>
    /\ EvenTables("pat", 4) /\ EvenTables("pmt", 3)

LEMMA SoundInit == Muxed!Init => ToldInv /\ SoundInv
<1> SUFFICES ASSUME Muxed!Init
             PROVE  ToldInv /\ SoundInv
  OBVIOUS
<1>1. /\ at = 0 /\ now = 0 /\ bad_sync = 0 /\ pes_misaligned = 0 /\ pusi_seen = 0 /\ made = {}
      /\ pcr_samples = <<>> /\ table_at = [p \in Muxed!Pid |-> <<>>]
  BY DEF Muxed!Init
<1>2. table_at["pat"] = <<>> /\ table_at["pmt"] = <<>>
  BY <1>1 DEF Muxed!Pid
<1>3. Len(<<>>) = 0
  OBVIOUS
<1>4. Even(0, 2, 0) /\ Even(0, 3, 0) /\ Even(0, 4, 0)
  BY DEF Even
<1>5. EvenTables("pat", 4) /\ EvenTables("pmt", 3)
  BY <1>1, <1>2, <1>3, <1>4 DEF EvenTables
<1>6. SoundInv
  BY <1>1, <1>3, <1>4, <1>5 DEF SoundInv
<1>7. ToldInv
  BY <1>1 DEF ToldInv
<1> QED
  BY <1>6, <1>7

(* The tables of a sound muxer, a packet later.                                   *)
LEMMA EvenWrite ==
  ASSUME PlaceInv, Muxed!Write(0, 0, 0, TRUE), NEW p \in Muxed!Pid, NEW c \in 2 .. 4,
         EvenTables(p, c), (Table /\ Muxed!Kind = p) <=> at % 4 = 4 - c
  PROVE  EvenTables(p, c)'
<1>0. at \in Nat /\ NotedInv
  BY DEF PlaceInv
<1> DEFINE x == table_at[p]  y == table_at'[p]  n == Len(table_at[p])
<1>1. x \in Seq(Nat) /\ n \in Nat /\ DOMAIN table_at = Muxed!Pid
  BY <1>0 DEF NotedInv, WrittenAt
<1>2. table_at' = IF Table THEN [table_at EXCEPT ![Muxed!Kind] = Append(@, at)] ELSE table_at
  BY <1>0, WriteIs
<1>3. at' = at + 1
  BY <1>0, WriteIs, Zenon
<1>4. Even(n, c, at) /\ \A k \in 1 .. n : x[k] = 4 * k - c
  BY DEF EvenTables
<1>5. CASE at % 4 = 4 - c
  <2>1. y = Append(x, at)
    BY <1>1, <1>2, <1>5
  <2>2. at = 4 * (n + 1) - c /\ Even(n + 1, c, at + 1)
    BY <1>0, <1>1, <1>4, <1>5, EvenNext
  <2>3. Len(y) = n + 1 /\ y[n + 1] = at /\ \A k \in 1 .. n : y[k] = x[k]
    BY <1>0, <1>1, <2>1
  <2>4. \A k \in 1 .. n + 1 : y[k] = 4 * k - c
    <3>1. \A k \in 1 .. n + 1 : k \in 1 .. n \/ k = n + 1
      BY <1>1
    <3> QED
      BY <1>4, <2>2, <2>3, <3>1
  <2> QED
    BY <1>3, <2>2, <2>3, <2>4 DEF EvenTables
<1>6. CASE at % 4 # 4 - c
  <2>1. y = x
    BY <1>1, <1>2, <1>6
  <2>2. Even(n, c, at + 1)
    BY <1>0, <1>1, <1>4, <1>6, EvenNext
  <2> QED
    BY <1>3, <1>4, <2>1, <2>2 DEF EvenTables
<1> QED
  BY <1>5, <1>6

LEMMA SoundWrite ==
  ASSUME PlaceInv, SoundInv, made = {}, Muxed!Write(0, 0, 0, TRUE)
  PROVE  SoundInv'
<1>0. at \in Nat /\ now \in Nat /\ NotedInv /\ pcr_samples \in Seq(Nat \X Nat)
  BY DEF PlaceInv, RefInv
<1>s. /\ now = at /\ bad_sync = 0 /\ pes_misaligned = 0
      /\ pusi_seen \in Nat /\ (at >= 3 => pusi_seen > 0)
      /\ Even(Len(pcr_samples), 2, at)
      /\ \A k \in 1 .. Len(pcr_samples) : pcr_samples[k] = <<4 * k - 2, 4 * k - 1>>
      /\ EvenTables("pat", 4) /\ EvenTables("pmt", 3)
  BY DEF SoundInv
<1>w. at' = at + 1 /\ now' = now + 1 + 0 /\ bad_sync' = bad_sync
  BY <1>0, WriteIs, Zenon
<1>1. /\ Muxed!Kind = "pat" <=> at % 4 = 0
      /\ Muxed!Kind = "pmt" <=> at % 4 = 1
      /\ Muxed!Kind = "start" <=> at % 4 = 2
  BY <1>0, KindIs, Zenon
<1>p. "pat" \in Muxed!Pid /\ "pmt" \in Muxed!Pid
  BY DEF Muxed!Pid
<1>2. at >= 1 => pmt_known
  <2> SUFFICES ASSUME at >= 1
               PROVE  tableTimes["pat"] # <<>>
    BY <1>0 DEF NotedInv
  <2>1. WrittenAt(table_at["pat"], tableTimes["pat"], at, now)
    BY <1>0, <1>p DEF NotedInv
  <2>2. Len(table_at["pat"]) = Len(tableTimes["pat"]) /\ Len(table_at["pat"]) \in Nat
    BY <2>1 DEF WrittenAt
  <2>3. at + 4 - 1 < 4 * Len(table_at["pat"]) + 4
    BY <1>s DEF EvenTables, Even
  <2>4. Len(tableTimes["pat"]) # 0
    BY <1>0, <2>2, <2>3
  <2> QED
    BY <2>4
<1>3. at >= 2 => "video" \in streams
  <2> SUFFICES ASSUME at >= 2
               PROVE  table_at["pmt"] # <<>>
    BY <1>0 DEF NotedInv
  <2>1. table_at["pmt"] \in Seq(Nat)
    BY <1>0, <1>p DEF NotedInv, WrittenAt
  <2>3. at + 3 - 1 < 4 * Len(table_at["pmt"]) + 4
    BY <1>s DEF EvenTables, Even
  <2>4. Len(table_at["pmt"]) # 0
    BY <1>0, <2>1, <2>3
  <2> QED
    BY <2>4
<1>4. EvenTables("pat", 4)' /\ EvenTables("pmt", 3)'
  <2>1. (Table /\ Muxed!Kind = "pat") <=> at % 4 = 4 - 4
    <3>1. 4 - 4 = 0
      OBVIOUS
    <3> QED
      BY <1>1, <3>1, Zenon DEF Table
  <2>2. (Table /\ Muxed!Kind = "pmt") <=> at % 4 = 4 - 3
    <3>1. 4 - 3 = 1 /\ (at % 4 = 1 => at >= 1)
      BY <1>0
    <3> QED
      BY <1>1, <1>2, <3>1, Zenon DEF Table
  <2>3. 4 \in 2 .. 4 /\ 3 \in 2 .. 4
    OBVIOUS
  <2>4. EvenTables("pat", 4)'
    BY <1>p, <1>s, <2>1, <2>3, EvenWrite
  <2>5. EvenTables("pmt", 3)'
    BY <1>p, <1>s, <2>2, <2>3, EvenWrite
  <2> QED
    BY <2>4, <2>5
<1>5. /\ Even(Len(pcr_samples'), 2, at')
      /\ \A k \in 1 .. Len(pcr_samples') : pcr_samples'[k] = <<4 * k - 2, 4 * k - 1>>
  <2> DEFINE n == Len(pcr_samples)
  <2>0. n \in Nat /\ Even(n, 2, at) /\ 2 \in 2 .. 4 /\ 4 - 2 = 2
    BY <1>0, <1>s
  <2>1. CASE Muxed!Kind = "start"
    <3>1. pcr_samples' = Append(pcr_samples, <<at, now' + 0>>)
      BY <1>0, <2>1, WriteIs, Zenon
    <3>2. at % 4 = 4 - 2
      BY <1>1, <2>0, <2>1
    <3>3. at = 4 * (n + 1) - 2 /\ Even(n + 1, 2, at + 1)
      BY <1>0, <2>0, <3>2, EvenNext
    <3>4. now' + 0 \in Nat /\ now' + 0 = at + 1
      BY <1>0, <1>s, <1>w
    <3>5. /\ Len(pcr_samples') = n + 1 /\ pcr_samples'[n + 1] = <<at, at + 1>>
          /\ \A k \in 1 .. n : pcr_samples'[k] = pcr_samples[k]
      BY <3>1, <3>4, RefsMore
    <3>6. pcr_samples'[n + 1] = <<4 * (n + 1) - 2, 4 * (n + 1) - 1>>
      <4>1. at + 1 = 4 * (n + 1) - 1
        BY <2>0, <3>3
      <4> QED
        BY <3>3, <3>5, <4>1
    <3>7. \A k \in 1 .. n + 1 : k \in 1 .. n \/ k = n + 1
      BY <2>0
    <3>8. \A k \in 1 .. n + 1 : pcr_samples'[k] = <<4 * k - 2, 4 * k - 1>>
      BY <1>s, <3>5, <3>6, <3>7
    <3> QED
      BY <1>w, <3>3, <3>5, <3>8
  <2>2. CASE Muxed!Kind # "start"
    <3>1. pcr_samples' = pcr_samples
      BY <1>0, <2>2, WriteIs, Zenon
    <3>2. at % 4 # 4 - 2
      BY <1>1, <2>0, <2>2
    <3>3. Even(n, 2, at + 1)
      BY <1>0, <2>0, <3>2, EvenNext
    <3> QED
      BY <1>s, <1>w, <3>1, <3>3
  <2> QED
    BY <2>1, <2>2
<1>6. pes_misaligned' = 0
  <2>1. pes_misaligned' = IF Looked /\ ~TRUE THEN pes_misaligned + 1 ELSE pes_misaligned
    BY <1>0, WriteIs
  <2> QED
    BY <1>s, <2>1
<1>7. pusi_seen' \in Nat /\ (at' >= 3 => pusi_seen' > 0)
  <2>1. pusi_seen' = IF Looked THEN pusi_seen + 1 ELSE pusi_seen
    BY <1>0, WriteIs, Zenon
  <2>2. at = 2 => Looked
    <3>1. at = 2 => at % 4 = 2 /\ at >= 2
      OBVIOUS
    <3> QED
      BY <1>1, <1>3, <3>1, Zenon DEF Looked
  <2>3. at = 2 \/ at' < 3 \/ at >= 3
    BY <1>0, <1>w
  <2> QED
    BY <1>0, <1>s, <1>w, <2>1, <2>2, <2>3
<1>8. now' = at' /\ bad_sync' = 0
  BY <1>0, <1>s, <1>w
<1> QED
  BY <1>4, <1>5, <1>6, <1>7, <1>8 DEF SoundInv

LEMMA SoundStep ==
  ASSUME PlaceInv, SoundInv, [Muxed!Next]_(Muxed!vars)
  PROVE  SoundInv'
<1>1. CASE UNCHANGED Muxed!vars
  BY <1>1 DEF Muxed!vars, Muxed!muxer, Muxed!census, SoundInv, EvenTables
<1>2. CASE made' # {}
  BY <1>2 DEF SoundInv
<1>3. CASE Muxed!Next /\ made' = {}
  <2>1. Muxed!Write(0, 0, 0, TRUE) /\ made' = made
    <3>1. Wrote("none") /\ made' = made
      BY <1>3, StepIs
    <3> QED
      BY <3>1, Zenon DEF Wrote
  <2> QED
    BY <1>3, <2>1, SoundWrite
<1> QED
  BY <1>1, <1>2, <1>3

--------------------------------------------------------------------------------
(* The census's module has the operator from its own instance of FiniteSets.      *)
LEMMA TableCardIs == ASSUME NEW S PROVE Muxed!Cardinality(S) = Cardinality(S)
  BY DEF Muxed!Cardinality, Cardinality

(* Three cycles of a sound muxer: tables in time.                                 *)
LEMMA EvenSoon ==
  ASSUME PlaceInv, SoundInv, made = {}, at = CensusPkt, NEW p \in {"pat", "pmt"},
         NEW c \in 3 .. 4, EvenTables(p, c)
  PROVE  Muxed!TableOK(p)
<1> DEFINE s == pcr_samples  n == Len(pcr_samples)  x == table_at[p]  y == tableTimes[p]
           L == Len(table_at[p])  S == Muxed!InRange(p)
<1>0. /\ at \in Nat /\ at >= 12 /\ NotedInv /\ s \in Seq(Nat \X Nat) /\ n \in Nat
      /\ p \in Muxed!Pid /\ TableMax \in Nat /\ TableMax >= 4
  <2>1. CensusPkt >= 12 /\ TableMax \in Nat /\ TableMax >= 4
    BY StreamConstants, Zenon DEF Muxed!ConstAssumption
  <2> QED
    BY <2>1 DEF PlaceInv, RefInv, Muxed!Pid
<1>s. /\ now = at /\ bad_sync = 0 /\ Even(n, 2, at)
      /\ \A k \in 1 .. n : s[k] = <<4 * k - 2, 4 * k - 1>>
  BY DEF SoundInv
<1>1. n >= 3
  BY <1>0, <1>s DEF Even
<1>2. Muxed!OnTime
  <2>1. DOMAIN s = 1 .. n
    BY <1>0
  <2>2. \A k \in 1 .. n : s[k][1] = 4 * k - 2 /\ s[k][2] = 4 * k - 1
    BY <1>s
  <2>3. \A k \in 1 .. n : s[k][2] = s[k][1] + 1
    BY <1>0, <2>2
  <2> QED
    BY <1>s, <2>1, <2>3 DEF Muxed!OnTime
<1>3. /\ Muxed!TableOK(p) <=> Muxed!Soon(S, y, TableMax)
      /\ \A j \in 1 .. Len(y) : y[j] = x[j] + 1
  <2>1. p \in Muxed!Pid /\ n >= 2
    BY <1>0, <1>1
  <2> QED
    BY <1>2, <2>1, TableIs, Zenon
<1>4. L \in Nat /\ Len(y) = L /\ DOMAIN y = 1 .. L
  <2>1. WrittenAt(x, y, at, now)
    BY <1>0 DEF NotedInv
  <2>2. x \in Seq(Nat) /\ y \in Seq(Nat) /\ Len(x) = Len(y)
    BY <2>1 DEF WrittenAt
  <2> QED
    BY <2>2
<1>5. \A j \in 1 .. L : y[j] = 4 * j - c + 1
  <2>1. \A j \in 1 .. L : x[j] = 4 * j - c
    BY DEF EvenTables
  <2> QED
    BY <1>3, <1>4, <2>1
<1>6. L >= 3
  <2>1. at + c - 1 < 4 * L + 4
    BY DEF EvenTables, Even
  <2> QED
    BY <1>0, <1>4, <2>1
<1>7. \A j : j \in S <=> j \in 1 .. L /\ 3 <= y[j] /\ y[j] <= 4 * n - 1
  <2>1. s[1][2] = 3 /\ s[n][2] = 4 * n - 1
    BY <1>1, <1>s
  <2> QED
    BY <1>4, <2>1 DEF Muxed!InRange
<1> HIDE DEF S, L, n, x, y, s
<1>8. Cardinality(S) >= 2
  <2>1. 2 \in S /\ 3 \in S
    <3>1. 2 \in 1 .. L /\ 3 \in 1 .. L
      BY <1>4, <1>6
    <3>2. y[2] = 8 - c + 1 /\ y[3] = 12 - c + 1
      BY <1>5, <3>1
    <3>3. 11 <= 4 * n - 1
      BY <1>0, <1>1
    <3>4. 3 <= y[2] /\ y[2] <= 4 * n - 1 /\ 3 <= y[3] /\ y[3] <= 4 * n - 1
      BY <1>0, <3>2, <3>3
    <3> QED
      BY <1>7, <3>1, <3>4
  <2>2. S \in SUBSET (1 .. L) /\ IsFiniteSet(1 .. L)
    <3>1. IsFiniteSet(1 .. L)
      <4>1. 1 \in Int /\ L \in Int
        BY <1>4
      <4> QED
        BY <4>1, FS_Interval
    <3> QED
      BY <1>7, <3>1
  <2>3. IsFiniteSet(S) /\ Cardinality(S) \in Nat
    BY <2>2, FS_Subset, FS_CardinalityType
  <2>4. IsFiniteSet({2}) /\ Cardinality({2}) = 1
    BY FS_Singleton
  <2>5. Cardinality({2} \cup {3}) = 2
    <3>1. 3 \notin {2}
      OBVIOUS
    <3>2. Cardinality({2} \cup {3}) = 1 + 1
      BY <2>4, <3>1, FS_AddElement
    <3> QED
      BY <3>2
  <2>6. {2} \cup {3} \in SUBSET S
    BY <2>1
  <2>7. Cardinality({2} \cup {3}) <= Cardinality(S)
    BY <2>3, <2>6, FS_Subset
  <2> QED
    BY <2>3, <2>5, <2>7
<1>9. ASSUME NEW i \in S, NEW j \in S, i < j, \A k \in S : k <= i \/ j <= k
      PROVE  y[j] - y[i] <= TableMax
  <2>1. i \in 1 .. L /\ j \in 1 .. L /\ 3 <= y[i] /\ y[j] <= 4 * n - 1
    BY <1>7
  <2>2. y[i] = 4 * i - c + 1 /\ y[j] = 4 * j - c + 1
    BY <1>5, <2>1
  <2>3. i + 1 \in S
    <3>1. i + 1 \in 1 .. L
      BY <1>4, <1>9, <2>1
    <3>2. y[i + 1] = 4 * (i + 1) - c + 1
      BY <1>5, <3>1
    <3>3. 3 <= y[i + 1] /\ y[i + 1] <= 4 * n - 1
      BY <1>0, <1>9, <2>1, <2>2, <3>2
    <3> QED
      BY <1>7, <3>1, <3>3
  <2>4. i + 1 <= i \/ j <= i + 1
    BY <1>9, <2>3
  <2>5. j = i + 1
    BY <1>9, <2>1, <2>4
  <2> QED
    BY <1>0, <2>1, <2>2, <2>5
<1>10. Muxed!Soon(S, y, TableMax)
  BY <1>8, <1>9, TableCardIs DEF Muxed!Soon
<1> QED
  BY <1>3, <1>10 DEF S, y

LEMMA SoundVerdicts ==
  PlaceInv /\ SoundInv /\ at = CensusPkt /\ made = {} =>
    Muxed!PcrOK /\ Muxed!PesOK /\ Muxed!TableOK("pat") /\ Muxed!TableOK("pmt")
<1> SUFFICES ASSUME PlaceInv, SoundInv, at = CensusPkt, made = {}
             PROVE  Muxed!PcrOK /\ Muxed!PesOK /\ Muxed!TableOK("pat") /\ Muxed!TableOK("pmt")
  OBVIOUS
<1>0. at \in Nat /\ at >= 12 /\ pcr_samples \in Seq(Nat \X Nat)
  <2>1. CensusPkt >= 12
    BY StreamConstants, Zenon DEF Muxed!ConstAssumption
  <2> QED
    BY <2>1 DEF PlaceInv, RefInv
<1>s. /\ pes_misaligned = 0 /\ pusi_seen \in Nat /\ (at >= 3 => pusi_seen > 0)
      /\ Even(Len(pcr_samples), 2, at)
      /\ \A k \in 1 .. Len(pcr_samples) : pcr_samples[k] = <<4 * k - 2, 4 * k - 1>>
      /\ EvenTables("pat", 4) /\ EvenTables("pmt", 3)
  BY DEF SoundInv
<1>1. Muxed!PcrOK
  <2> DEFINE n == Len(pcr_samples)
  <2>1. n \in Nat /\ n >= 3
    BY <1>0, <1>s DEF Even
  <2>2. ASSUME NEW k \in 1 .. (n - 1)
        PROVE  pcr_samples[k + 1][2] - pcr_samples[k][2] = 4
    <3>0. n \in Nat /\ k \in 1 .. (n - 1)
      BY <2>1, <2>2
    <3>1. k \in 1 .. n /\ k + 1 \in 1 .. n
      <4> HIDE DEF n
      <4> QED
        BY <3>0
    <3>2. pcr_samples[k][2] = 4 * k - 1 /\ pcr_samples[k + 1][2] = 4 * (k + 1) - 1
      BY <1>s, <3>1
    <3> QED
      BY <3>1, <3>2
  <2>3. 4 > 0 /\ 4 <= PcrMax
    BY PcrBound
  <2> QED
    BY <2>1, <2>2, <2>3 DEF Muxed!PcrOK
<1>2. Muxed!PesOK
  BY <1>0, <1>s DEF Muxed!PesOK
<1>3. 3 \in 3 .. 4 /\ 4 \in 3 .. 4
  OBVIOUS
<1>4. Muxed!TableOK("pat")
  BY <1>s, <1>3, EvenSoon
<1>5. Muxed!TableOK("pmt")
  BY <1>s, <1>3, EvenSoon
<1> QED
  BY <1>1, <1>2, <1>4, <1>5

(* A fault between the first reference and the last fails its line.               *)
LEMMA FaultTold ==
  ASSUME PlaceInv, ToldInv, NEW f \in made, Muxed!Enclosed(f[2])
  PROVE  Muxed!Tells(f[1], f[2])
<1>1. Told(f) /\ f[2] \in Nat
  BY DEF ToldInv, Told
<1>2. /\ pcr_samples # <<>> /\ pcr_samples[1][1] < f[2]
      /\ f[2] <= pcr_samples[Len(pcr_samples)][1]
  BY DEF Muxed!Enclosed
<1>3. ~Early(f[2]) /\ ~Pending(f[2])
  <2>1. pcr_samples \in Seq(Nat \X Nat)
    BY DEF PlaceInv, RefInv
  <2>2. 1 \in 1 .. Len(pcr_samples)
    BY <1>2, <2>1
  <2>3. pcr_samples[1] \in Nat \X Nat
    BY <2>1, <2>2, ElementOfSeq
  <2>4. pcr_samples[Len(pcr_samples)] \in Nat \X Nat
    BY <1>2, RefsEnd
  <2> QED
    BY <1>1, <1>2, <2>3, <2>4 DEF Early, Pending
<1>4. f[1] \in {"late", "back"} => BadRef
  BY <1>1, <1>3 DEF Told
<1>5. BadRef => ~Muxed!PcrOK
  BY DEF BadRef, Muxed!PcrOK
<1>6. f[1] = "pes" => (Muxed!Named(f[2]) => ~Muxed!PesOK)
  <2>1. pes_misaligned \in Nat
    BY DEF ToldInv
  <2> QED
    BY <1>1, <2>1 DEF Told, Muxed!PesOK
<1>7. f[1] = "sync" => bad_sync > 0
  BY <1>1 DEF Told
<1> QED
  BY <1>4, <1>5, <1>6, <1>7 DEF Muxed!Tells

(* The census tells, for any number of faults and any length of capture from      *)
(* three cycles on: the tables are judged as by their true times, a sound muxer   *)
(* is OK in every line, and a fault between the first and the last clock          *)
(* reference fails its line (ts_census.py:126-185).                               *)
THEOREM CensusCorrect == Muxed!Spec => []CensusTells
<1>1. Muxed!Init => PlaceInv /\ ToldInv /\ SoundInv
  BY PlaceInit, SoundInit
<1>2. PlaceInv /\ ToldInv /\ SoundInv /\ [Muxed!Next]_(Muxed!vars)
        => PlaceInv' /\ ToldInv' /\ SoundInv'
  BY ToldStep, SoundStep
<1>3. PlaceInv /\ ToldInv /\ SoundInv => CensusTells
  <2> HAVE PlaceInv /\ ToldInv /\ SoundInv
  <2>1. \A f \in made : Muxed!Enclosed(f[2]) => Muxed!Tells(f[1], f[2])
    BY FaultTold
  <2> QED
    BY <2>1, TablesTrue, SoundVerdicts, Zenon DEF CensusTells, Muxed!CensusTells
<1> QED
  BY <1>1, <1>2, <1>3, PTL DEF Muxed!Spec

--------------------------------------------------------------------------------
(* What TLC runs is a behaviour of each part, with the others standing still.     *)
THEOREM StreamsMerged == StreamsSpec => Spec /\ Reader!Spec /\ Gaps!Spec /\ Muxed!Spec
<1>1. StreamsInit => Init /\ Reader!Init /\ Gaps!Init /\ Muxed!Init
  BY DEF StreamsInit
<1> DEFINE all == <<part, vars, demuxVars, gapVars, censusVars>>
<1>2. [StreamsNext]_all => [Next]_vars
  BY DEF StreamsNext
<1>3. [StreamsNext]_all => [Reader!Next]_(Reader!vars)
  BY DEF StreamsNext, demuxVars, Reader!vars, Reader!client, Reader!server
<1>4. [StreamsNext]_all => [Gaps!Next]_(Gaps!vars)
  BY DEF StreamsNext, gapVars, Gaps!vars, Gaps!source, Gaps!history, Gaps!probe
<1>5. [StreamsNext]_all => [Muxed!Next]_(Muxed!vars)
  BY DEF StreamsNext, censusVars, Muxed!vars, Muxed!muxer, Muxed!census
<1> QED
  BY <1>1, <1>2, <1>3, <1>4, <1>5, PTL
     DEF StreamsSpec, Spec, Reader!Spec, Gaps!Spec, Muxed!Spec
================================================================================
