--------------------------- MODULE MeasuredProofs ---------------------------
(***************************************************************************)
(* Proofs about what the house measures, for any values of the constants:  *)
(* a room's temperature, the ventilation unit's converter and tachometers, *)
(* a meter and its file, the water meter's contact; at the end all of them *)
(* together, each moving by its own steps (MCMeasured).                    *)
(***************************************************************************)
EXTENDS MCMeasured, FiniteSetTheorems, SequenceTheorems, TLAPS

-----------------------------------------------------------------------------
(* A room's temperature.                                                    *)

(* SimpleSensor holds the last sample that made sense, or nothing; CurT     *)
(* hears of at most one NaN in a row and so never gives up its value.       *)
ValueIsGood ==
  /\ v = good /\ enr \in {0, 1}
  /\ IF val = NaN THEN TRUE ELSE val = good /\ enr = 0

(* The ring, read from the slot after cur, holds the last readings.         *)
Slot(c, i) == IF c + i < Cnt THEN c + i ELSE c + i - Cnt
RingIsSeen == \A i \in 1..Cnt : seen[i] = ring[Slot(cur, i)]

SensorIInv == TypeOK /\ ValueIsGood /\ RingIsSeen

(* The slots form a ring.                                                   *)
LEMMA Around ==
  /\ Cnt \in Nat /\ Cnt > 1
  /\ \A c \in Slots :
       /\ After(c) \in Slots /\ After(c) = Slot(c, 1) /\ Slot(c, Cnt) = c
       /\ \A i \in 1..Cnt : Slot(c, i) \in Slots
       /\ \A i \in 1..(Cnt - 1) : Slot(After(c), i) = Slot(c, i + 1) /\ Slot(After(c), i) # After(c)
<1>1. Cnt \in Nat /\ Cnt > 1
  BY RoomSensorAssumption
<1>2. ASSUME NEW c \in Slots PROVE After(c) = IF c = Cnt - 1 THEN 0 ELSE c + 1
  <2>1. c \in Nat /\ c < Cnt
    BY <1>1 DEF Slots
  <2>2. CASE c = Cnt - 1
    BY <1>1, <2>1, <2>2 DEF After
  <2>3. CASE c # Cnt - 1
    BY <1>1, <2>1, <2>3 DEF After
  <2> QED BY <2>2, <2>3
<1> QED BY <1>1, <1>2 DEF Slots, Slot

(* What a sample makes of what the sensor delivers.                         *)
LEMMA ReadingType == ASSUME wire \in Raws \cup {Invalid} PROVE Reading(wire) \in Temps \cup {NaN}
BY DEF Reading, Temps

(* Temperatures are numbers, and NaN is none.                               *)
LEMMA TempsAreInts == Temps \subseteq Int /\ NaN \notin Temps
BY RoomSensorAssumption DEF Temps, Plausible, Mild

(* Before the first sample.                                                 *)
LEMMA SensorInitIInv == Init => SensorIInv
<1> SUFFICES ASSUME Init PROVE SensorIInv
  OBVIOUS
<1>1. Cnt \in Nat /\ Cnt > 1 /\ Mild \in Temps
  BY RoomSensorAssumption DEF Temps
<1>2. TypeOK
  <2>1. ring \in [Slots -> Temps] /\ seen \in [1..Cnt -> Temps] /\ cur \in Slots
    BY <1>1 DEF Init, Slots
  <2>2. seen \in Seq(Temps) /\ Len(seen) = Cnt
    BY <1>1, <2>1
  <2> QED BY <1>1, <2>1, <2>2 DEF Init, TypeOK
<1>3. RingIsSeen
  BY <1>1, Around DEF Init, RingIsSeen, Slots
<1> QED BY <1>2, <1>3 DEF Init, SensorIInv, ValueIsGood

(* A sample is read and perhaps passed on.                                  *)
LEMMA SampleSteps == SensorIInv /\ Sample => SensorIInv'
<1> SUFFICES ASSUME SensorIInv, Sample PROVE SensorIInv'
  OBVIOUS
<1> DEFINE t == Reading(wire)
<1>1. /\ val' = IF t # val THEN t ELSE val
      /\ IF t # val THEN CurTUpdate(t) ELSE UNCHANGED <<v, enr>>
      /\ good' = IF t = NaN THEN good ELSE t
      /\ UNCHANGED <<wire, ring, cur, reported, seen>>
  BY DEF Sample, Notified
<1>2. t \in Temps \cup {NaN}
  BY ReadingType DEF SensorIInv, TypeOK
<1> HIDE DEF t
<1>3. ValueIsGood' /\ (v' = v \/ v' = t) /\ (t # NaN => v' = t)
  <2>1. CASE t = val
    BY <1>1, <2>1 DEF SensorIInv, ValueIsGood
  <2>2. CASE t # val /\ t = NaN
    <3>1. enr = 0 /\ enr' = enr + 1 /\ ~(enr + 1 > 3)
      BY <1>1, <2>2 DEF SensorIInv, ValueIsGood, CurTUpdate
    <3> QED BY <1>1, <2>2, <3>1 DEF SensorIInv, ValueIsGood, CurTUpdate
  <2>3. CASE t # val /\ t # NaN
    BY <1>1, <2>3 DEF SensorIInv, ValueIsGood, CurTUpdate
  <2> QED BY <2>1, <2>2, <2>3
<1>4. TypeOK'
  <2>1. v' \in Temps \cup {NaN} /\ val' \in Temps \cup {NaN} /\ good' \in Temps
    BY <1>1, <1>2, <1>3 DEF SensorIInv, TypeOK
  <2>2. enr' \in Nat
    BY <1>3 DEF ValueIsGood
  <2> QED BY <1>1, <2>1, <2>2 DEF SensorIInv, TypeOK
<1> QED BY <1>1, <1>3, <1>4 DEF SensorIInv, RingIsSeen

(* A cycle of the heating puts the reading into the next slot.              *)
LEMMA CycleSteps == SensorIInv /\ Cycle => SensorIInv'
<1> SUFFICES ASSUME SensorIInv, Cycle PROVE SensorIInv'
  OBVIOUS
<1>1. v # NaN /\ v \in Temps
  BY TempsAreInts DEF SensorIInv, ValueIsGood, TypeOK
<1>2. /\ cur' = After(cur) /\ ring' = [ring EXCEPT ![cur'] = v] /\ seen' = Append(Tail(seen), v)
      /\ UNCHANGED <<wire, val, v, enr, good, reported>>
  BY <1>1 DEF Cycle
<1>3. /\ cur \in Slots /\ ring \in [Slots -> Temps] /\ seen \in Seq(Temps) /\ Len(seen) = Cnt
      /\ Cnt \in Nat /\ Cnt > 1 /\ cur' \in Slots
  BY <1>2, Around DEF SensorIInv, TypeOK
<1>4. /\ seen' \in Seq(Temps) /\ Len(seen') = Cnt /\ seen'[Cnt] = v
      /\ \A i \in 1..(Cnt - 1) : seen'[i] = seen[i + 1]
  <2>1. seen # <<>>
    BY <1>3
  <2>2. Tail(seen) \in Seq(Temps) /\ Len(Tail(seen)) = Cnt - 1 /\ \A i \in 1..(Cnt - 1) : Tail(seen)[i] = seen[i + 1]
    BY <1>3, <2>1
  <2> QED BY <1>1, <1>2, <1>3, <2>2
<1>5. TypeOK'
  BY <1>1, <1>2, <1>3, <1>4 DEF SensorIInv, TypeOK
<1>6. RingIsSeen'
  <2> SUFFICES ASSUME NEW i \in 1..Cnt PROVE seen'[i] = ring'[Slot(cur', i)]
    BY DEF RingIsSeen, Slot
  <2>1. CASE i = Cnt
    <3>1. Slot(cur', i) = cur'
      BY <1>3, <2>1, Around
    <3> QED BY <1>2, <1>3, <1>4, <2>1, <3>1
  <2>2. CASE i # Cnt
    <3>1. i \in 1..(Cnt - 1) /\ i + 1 \in 1..Cnt
      BY <1>3, <2>2
    <3>2. Slot(cur', i) = Slot(cur, i + 1) /\ Slot(cur', i) # cur' /\ Slot(cur, i + 1) \in Slots
      BY <1>2, <1>3, <3>1, Around
    <3>3. ring'[Slot(cur', i)] = ring[Slot(cur, i + 1)]
      BY <1>2, <1>3, <3>2
    <3> QED BY <1>4, <3>1, <3>3 DEF SensorIInv, RingIsSeen
  <2> QED BY <2>1, <2>2
<1> QED BY <1>2, <1>5, <1>6 DEF SensorIInv, ValueIsGood

(* Every sample, every cycle, and any change of the temperature.            *)
LEMMA SensorNextIInv == SensorIInv /\ [Next]_vars => SensorIInv'
<1>1. SensorIInv /\ UNCHANGED vars => SensorIInv'
  BY DEF SensorIInv, TypeOK, ValueIsGood, RingIsSeen, Slot, vars
<1>2. SensorIInv /\ Drift => SensorIInv'
  BY DEF SensorIInv, TypeOK, ValueIsGood, RingIsSeen, Slot, Drift
<1> QED BY <1>1, <1>2, SampleSteps, CycleSteps DEF Next

(* The slots that delta() subtracts are the last reading's and the first's. *)
LEMMA RingSpans == SensorIInv => DeltaSpansRing
<1> SUFFICES ASSUME SensorIInv PROVE DeltaSpansRing
  OBVIOUS
<1>1. cur \in Slots /\ Cnt \in 1..Cnt /\ 1 \in 1..Cnt
  BY Around DEF SensorIInv, TypeOK
<1>2. seen[Cnt] = ring[cur] /\ seen[1] = ring[After(cur)]
  BY <1>1, Around DEF SensorIInv, RingIsSeen
<1> QED BY <1>2 DEF DeltaSpansRing, Delta

(* 85 degrees are only believed next to a temperature the heating has seen. *)
LEMMA PowerOnSteps ==
  SensorIInv /\ [Next]_vars => [v' = PowerOn /\ v # PowerOn => v - PowerOn \in -15..15]_vars
<1> SUFFICES ASSUME SensorIInv, Next, v' = PowerOn, v # PowerOn PROVE v - PowerOn \in -15..15
  OBVIOUS
<1>1. Sample
  BY DEF Next, Cycle, Drift
<1>2. Reading(wire) = PowerOn
  BY <1>1, RoomSensorAssumption DEF Sample, CurTUpdate, PowerOn
<1>3. wire = PowerOn /\ Settled
  BY <1>2, RoomSensorAssumption DEF Reading, PowerOn
<1> QED BY <1>3 DEF Settled, SensorIInv, ValueIsGood


(* The inductive invariant from the sensor to the ring.                     *)
THEOREM SensorInvariance == Spec => []SensorIInv
<1> QED BY SensorInitIInv, SensorNextIInv, PTL DEF Spec

(* What the heating works with is the last sample that made sense, and its  *)
(* trend is that of the last Cnt readings, for any sensor and any samples   *)
(* (setValue, CurT::update, add, delta).                                    *)
THEOREM HeatingFollowsSensor == Spec => [](FollowsSensor /\ DeltaSpansRing)
<1>1. SensorIInv => FollowsSensor
  BY DEF SensorIInv, ValueIsGood, FollowsSensor
<1> QED BY <1>1, RingSpans, SensorInvariance, PTL

(* 85 degrees, which a sensor without power delivers, are only ever seen    *)
(* next to a temperature (setValue).                                        *)
THEOREM PowerOnStaysHidden == Spec => PowerOnIsHidden
<1> QED BY SensorInvariance, PowerOnSteps, PTL DEF Spec, PowerOnIsHidden

-----------------------------------------------------------------------------
(* The ventilation unit's converter and tachometers.                        *)

(* A quotient: a window's length by its pulses, a sum by its terms.        *)
LEMMA Quotient ==
  ASSUME NEW a \in Nat, NEW n \in Nat \ {0}
  PROVE  /\ a \div n \in 0..a
         /\ \A b \in Nat : a = b * n => a \div n = b
<1> DEFINE q == a \div n
<1>1. q \in Int /\ n * q <= a /\ a < n * q + n
  OBVIOUS
<1> HIDE DEF q
<1>2. q >= 0
  <2>1. CASE q < 0
    <3>1. q + 1 <= 0
      BY <1>1, <2>1
    <3>2. n * (q + 1) <= 0
      BY <1>1, <3>1
    <3>3. n * (q + 1) = n * q + n
      BY <1>1
    <3> QED BY <1>1, <3>2, <3>3
  <2> QED BY <1>1, <2>1
<1>3. q <= a
  <2>1. n * q >= q
    BY <1>1, <1>2
  <2> QED BY <1>1, <2>1
<1>4. ASSUME NEW b \in Nat, a = b * n PROVE q = b
  <2>1. CASE q < b
    <3>1. n * (q + 1) <= n * b
      BY <1>1, <1>2, <2>1
    <3>2. n * (q + 1) = n * q + n /\ n * b = b * n
      BY <1>1
    <3> QED BY <1>1, <1>4, <3>1, <3>2
  <2>2. CASE q > b
    <3>1. n * (b + 1) <= n * q
      BY <1>1, <1>2, <2>2
    <3>2. n * (b + 1) = b * n + n
      OBVIOUS
    <3> QED BY <1>1, <1>4, <3>1, <3>2
  <2> QED BY <1>1, <2>1, <2>2
<1> QED BY <1>1, <1>2, <1>3, <1>4 DEF q

(* The converter samples the channel whose turn it is, except between two.  *)
ChannelFollowed == meSt # "before" => chs = curCh

(* All samples of a window but the p-th, which may be none of them, are     *)
(* right.                                                                   *)
RightBut(s, p, u) == \A i \in 1..Len(s) : i # p => s[i] = u

(* One sample of a window may be wrong, be it still in the converter.       *)
WindowRight ==
  LET right == RightBut(medbuf[curCh], 0, voltage[curCh])
  IN /\ \E p \in Nat : RightBut(medbuf[curCh], p, voltage[curCh])
     /\ ~spiked => right /\ (meSt = "converting" => sample = voltage[curCh])
     /\ meSt = "converting" /\ sample # voltage[curCh] => right
     /\ Len(medbuf[curCh]) < MedBufSize
     /\ \A c \in Ch \ {curCh} : medbuf[c] = <<>>

(* A channel's sum consists of its own medians, and they of its voltage.    *)
SumRight ==
  \A c \in Ch : avgcnt[c] < AvgCount /\ avgsum[c] = avgcnt[c] * voltage[c]

MeasTypeOK ==
  /\ meSt \in {"sampling", "converting", "before"} /\ curCh \in Ch /\ chs \in Ch
  /\ sample \in Adc /\ voltage \in [Ch -> Adc] /\ spiked \in BOOLEAN
  /\ medbuf \in [Ch -> Seq(Adc)] /\ avgsum \in [Ch -> 0..(SumMod - 1)]
  /\ avgcnt \in [Ch -> 0..AvgCount] /\ temp \in [Ch -> Adc \cup {NoTemp}]
MeasIInv == MeasTypeOK /\ ChannelFollowed /\ WindowRight /\ SumRight /\ MeasRight

(* A sum that fits is not cut.                                              *)
LEMMA Uncut == ASSUME NEW a \in Nat, NEW m \in Nat, a < m PROVE a % m = a
OBVIOUS

(* The median of a full window with one disturbed sample at most is the     *)
(* voltage.                                                                 *)
LEMMA MedianRight ==
  ASSUME NEW s \in Seq(Adc), Len(s) = MedBufSize, NEW p \in Nat, NEW u \in Adc, RightBut(s, p, u)
  PROVE  Median(s) = u
<1> DEFINE N == Len(s)
           h == N \div 2
           Below(v_) == {i \in DOMAIN s : s[i] < v_}
           Above(v_) == {i \in DOMAIN s : s[i] > v_}
           Mid(v_) == Cardinality(Below(v_)) <= h /\ Cardinality(Above(v_)) <= h
<1>1. N \in Nat /\ h \in Nat /\ 1 <= h /\ h < N - 1 /\ DOMAIN s = 1..N
  <2>1. N \in Nat /\ N > 2 /\ DOMAIN s = 1..N
    BY RekuMeasAssumption
  <2> QED BY <2>1
<1>2. Adc \subseteq Int /\ \A i \in 1..N : s[i] \in Adc
  <2>1. \A i \in 1..N : s[i] \in Adc
    OBVIOUS
  <2>2. Adc \subseteq Nat
    BY RekuMeasAssumption
  <2> QED BY <2>1, <2>2
<1>3. \A i \in 1..N : i # p => s[i] = u
  BY DEF RightBut
<1>4. IsFiniteSet(1..N) /\ Cardinality(1..N) = N
  <2>1. 1 \in Int /\ N \in Int /\ 1 <= N
    BY <1>1
  <2>2. Cardinality(1..N) = N - 1 + 1
    BY <2>1, FS_Interval
  <2> QED BY <1>1, <2>1, <2>2, FS_Interval
<1> HIDE DEF N, h
<1>5. IsFiniteSet({p}) /\ Cardinality({p}) = 1
  BY FS_Singleton
<1>6. Cardinality((1..N) \ {p}) >= N - 1 /\ Cardinality((1..N) \ {p}) \in Nat
  <2>1. CASE p \in 1..N
    <3>1. Cardinality((1..N) \ {p}) = N - 1
      BY <1>4, <2>1, FS_RemoveElement
    <3> QED BY <1>1, <3>1
  <2>2. CASE p \notin 1..N
    <3>1. (1..N) \ {p} = 1..N
      BY <2>2
    <3>2. Cardinality((1..N) \ {p}) = N
      BY <1>4, <3>1
    <3> QED BY <1>1, <3>2
  <2> QED BY <2>1, <2>2
<1>7. \A S \in SUBSET (1..N) : S \subseteq {p} => Cardinality(S) <= h
  <2> SUFFICES ASSUME NEW S \in SUBSET (1..N), S \subseteq {p} PROVE Cardinality(S) <= h
    OBVIOUS
  <2>1. IsFiniteSet(S) /\ Cardinality(S) <= 1
    BY <1>5, FS_Subset
  <2>2. Cardinality(S) \in Nat
    BY <2>1, FS_CardinalityType
  <2> QED BY <1>1, <2>1, <2>2
<1>8. \A S \in SUBSET (1..N) : (1..N) \ {p} \subseteq S => ~(Cardinality(S) <= h)
  <2> SUFFICES ASSUME NEW S \in SUBSET (1..N), (1..N) \ {p} \subseteq S PROVE ~(Cardinality(S) <= h)
    OBVIOUS
  <2>1. IsFiniteSet(S)
    BY <1>4, FS_Subset
  <2>2. Cardinality((1..N) \ {p}) <= Cardinality(S) /\ Cardinality(S) \in Nat
    BY <2>1, FS_Subset, FS_CardinalityType
  <2> QED BY <1>1, <1>6, <2>2
<1>9. Mid(u)
  <2>1. Below(u) \in SUBSET (1..N) /\ Below(u) \subseteq {p}
    BY <1>1, <1>2, <1>3
  <2>2. Above(u) \in SUBSET (1..N) /\ Above(u) \subseteq {p}
    BY <1>1, <1>2, <1>3
  <2> QED BY <1>7, <2>1, <2>2
<1>10. ASSUME NEW v_ \in Adc, Mid(v_) PROVE v_ = u
  <2>1. Below(v_) \in SUBSET (1..N) /\ Above(v_) \in SUBSET (1..N)
    BY <1>1
  <2>2. u < v_ => (1..N) \ {p} \subseteq Below(v_)
    BY <1>1, <1>2, <1>3
  <2>3. u > v_ => (1..N) \ {p} \subseteq Above(v_)
    BY <1>1, <1>2, <1>3
  <2>4. ~(u < v_) /\ ~(u > v_)
    BY <1>8, <1>10, <2>1, <2>2, <2>3
  <2> QED BY <1>2, <2>4
<1> HIDE DEF Mid
<1>11. Median(s) = CHOOSE v_ \in Adc : Mid(v_)
  BY DEF Median, Mid, h, N
<1> QED BY <1>9, <1>10, <1>11

(* Before the first sample.                                                 *)
LEMMA MeasInitIInv == RekuMeasInit => MeasIInv
<1> SUFFICES ASSUME RekuMeasInit PROVE MeasIInv
  OBVIOUS
<1>1. curCh \in Ch /\ voltage \in [Ch -> Adc] /\ Adc \subseteq Nat /\ AvgCount \in Nat /\ AvgCount > 0
  BY RekuMeasAssumption DEF RekuMeasInit, Ch
<1>2. voltage[curCh] \in Adc /\ AvgCount * voltage[curCh] < SumMod /\ SumMod \in Nat
  BY <1>1, RekuMeasAssumption
<1>3. SumMod > 0
  <2>1. \A m, u \in Nat : m * u \in Nat
    OBVIOUS
  <2>2. AvgCount * voltage[curCh] \in Nat
    BY <1>1, <1>2, <2>1
  <2>3. \A x, m \in Nat : x < m => m > 0
    OBVIOUS
  <2> QED BY <1>2, <2>2, <2>3
<1>5. MeasTypeOK
  <2>1. 0 \in 0..(SumMod - 1) /\ 0 \in 0..AvgCount
    BY <1>1, <1>2, <1>3
  <2>2. avgsum \in [Ch -> 0..(SumMod - 1)] /\ avgcnt \in [Ch -> 0..AvgCount]
    BY <2>1 DEF RekuMeasInit
  <2>3. medbuf \in [Ch -> Seq(Adc)] /\ temp \in [Ch -> Adc \cup {NoTemp}]
    BY DEF RekuMeasInit
  <2> QED BY <1>1, <2>2, <2>3 DEF RekuMeasInit, MeasTypeOK, Ch
<1>6. SumRight
  <2>1. \A c \in Ch : voltage[c] \in Nat /\ avgcnt[c] = 0 /\ avgsum[c] = 0
    BY <1>1 DEF RekuMeasInit
  <2>2. \A u \in Nat : 0 * u = 0
    OBVIOUS
  <2> QED BY <1>1, <2>1, <2>2 DEF SumRight
<1>7. WindowRight
  <2>1. medbuf[curCh] = <<>> /\ \A c \in Ch : medbuf[c] = <<>>
    BY <1>1 DEF RekuMeasInit
  <2>2. RightBut(<<>>, 0, voltage[curCh])
    BY DEF RightBut
  <2> QED BY <2>1, <2>2, RekuMeasAssumption DEF RekuMeasInit, WindowRight
<1> QED BY <1>1, <1>5, <1>6, <1>7 DEF RekuMeasInit, MeasIInv, ChannelFollowed, MeasRight

(* Before a conversion, the sample disturbed or not.                        *)
LEMMA SamplingSteps == MeasIInv /\ Sampling => MeasIInv'
<1> SUFFICES ASSUME MeasIInv, Sampling PROVE MeasIInv'
  OBVIOUS
<1>1. /\ chs = curCh /\ meSt' = "converting" /\ curCh \in Ch /\ voltage[curCh] \in Adc
      /\ UNCHANGED <<curCh, chs, voltage, medbuf, avgsum, avgcnt, temp>>
  BY DEF Sampling, MeasIInv, MeasTypeOK, ChannelFollowed
<1>2. sample' \in Adc /\ spiked' \in BOOLEAN
  BY <1>1 DEF Sampling, MeasIInv, MeasTypeOK
<1>3. MeasTypeOK'
  BY <1>1, <1>2 DEF MeasIInv, MeasTypeOK
<1>4. WindowRight'
  <2>1. CASE sample' = voltage[chs] /\ UNCHANGED spiked
    BY <1>1, <2>1 DEF MeasIInv, WindowRight
  <2>2. CASE ~spiked /\ spiked' = TRUE
    BY <1>1, <2>2 DEF MeasIInv, WindowRight
  <2> QED BY <2>1, <2>2 DEF Sampling
<1> QED BY <1>1, <1>3, <1>4 DEF MeasIInv, ChannelFollowed, SumRight, MeasRight

(* Before the next sample the multiplexer is set.                           *)
LEMMA BeforeNextSteps == MeasIInv /\ BeforeNext => MeasIInv'
<1> SUFFICES ASSUME MeasIInv, BeforeNext PROVE MeasIInv'
  OBVIOUS
<1>1. /\ meSt = "before" /\ meSt' = "sampling" /\ chs' = curCh
      /\ UNCHANGED <<curCh, sample, voltage, spiked, medbuf, avgsum, avgcnt, temp>>
  BY DEF BeforeNext
<1> QED BY <1>1 DEF MeasIInv, MeasTypeOK, ChannelFollowed, WindowRight, SumRight, MeasRight

(* The median of a window is taken into the channel's sum, and the sum into *)
(* its temperature.                                                         *)
LEMMA AddSteps ==
  ASSUME MeasIInv, Add(voltage[curCh]), UNCHANGED voltage
  PROVE  /\ curCh' \in Ch
         /\ avgsum' \in [Ch -> 0..(SumMod - 1)] /\ avgcnt' \in [Ch -> 0..AvgCount]
         /\ temp' \in [Ch -> Adc \cup {NoTemp}]
         /\ SumRight' /\ MeasRight'
<1> DEFINE u == voltage[curCh]
           n == avgcnt[curCh]
           sum == (avgsum[curCh] + u) % SumMod
<1>1. /\ curCh \in Ch /\ u \in Adc /\ u \in Nat /\ n \in Nat /\ AvgCount \in Nat /\ n < AvgCount
      /\ avgsum[curCh] = n * u /\ SumMod \in Nat /\ AvgCount * u < SumMod
      /\ avgsum \in [Ch -> 0..(SumMod - 1)] /\ avgcnt \in [Ch -> 0..AvgCount]
      /\ temp \in [Ch -> Adc \cup {NoTemp}]
  <2>1. /\ curCh \in Ch /\ avgcnt[curCh] < AvgCount /\ avgsum[curCh] = n * u
        /\ voltage \in [Ch -> Adc]
        /\ avgsum \in [Ch -> 0..(SumMod - 1)] /\ avgcnt \in [Ch -> 0..AvgCount]
        /\ temp \in [Ch -> Adc \cup {NoTemp}]
    BY DEF MeasIInv, MeasTypeOK, SumRight
  <2>2. u \in Adc /\ n \in 0..AvgCount
    BY <2>1
  <2>3. u \in Nat /\ AvgCount * u < SumMod
    BY <2>2, RekuMeasAssumption, Zenon
  <2>4. AvgCount \in Nat /\ SumMod \in Nat
    BY RekuMeasAssumption
  <2> QED BY <2>1, <2>2, <2>3, <2>4
<1>2. sum = (n + 1) * u /\ sum \in Nat /\ sum < SumMod
  <2>1. (n + 1) * u \in Nat /\ (n + 1) * u = n * u + u
    BY <1>1
  <2>2. (n + 1) * u <= AvgCount * u /\ AvgCount * u \in Nat
    <3>1. \A k \in Nat : n + 1 + k = AvgCount => AvgCount * u = (n + 1) * u + k * u /\ k * u \in Nat
      BY <1>1
    <3>2. AvgCount - (n + 1) \in Nat /\ n + 1 + (AvgCount - (n + 1)) = AvgCount
      BY <1>1
    <3>3. \E k \in Nat : AvgCount * u = (n + 1) * u + k * u /\ k * u \in Nat
      BY <3>1, <3>2
    <3> QED BY <1>1, <2>1, <3>3
  <2>3. (n + 1) * u < SumMod
    BY <1>1, <2>1, <2>2
  <2>4. sum = ((n + 1) * u) % SumMod
    BY <1>1, <2>1
  <2> QED BY <1>1, <2>1, <2>3, <2>4, Uncut
<1> HIDE DEF sum
<1>3. CASE n + 1 < AvgCount
  <2>1. /\ avgsum' = [avgsum EXCEPT ![curCh] = sum]
        /\ avgcnt' = [avgcnt EXCEPT ![curCh] = n + 1]
        /\ UNCHANGED <<temp, curCh>>
    BY <1>3 DEF Add, sum
  <2>2. avgsum' \in [Ch -> 0..(SumMod - 1)] /\ avgcnt' \in [Ch -> 0..AvgCount]
    BY <1>1, <1>2, <1>3, <2>1
  <2>3. SumRight'
    <3>1. avgsum'[curCh] = sum /\ avgcnt'[curCh] = n + 1 /\ voltage' = voltage
      BY <1>1, <2>1
    <3>2. \A c \in Ch \ {curCh} : avgsum'[c] = avgsum[c] /\ avgcnt'[c] = avgcnt[c]
      BY <1>1, <2>1
    <3> QED BY <1>2, <1>3, <3>1, <3>2 DEF MeasIInv, SumRight
  <2> QED BY <1>1, <2>1, <2>2, <2>3 DEF MeasIInv, MeasRight
<1>4. CASE ~(n + 1 < AvgCount)
  <2>1. /\ temp' = [temp EXCEPT ![curCh] = sum \div AvgCount]
        /\ avgsum' = [avgsum EXCEPT ![curCh] = 0]
        /\ avgcnt' = [avgcnt EXCEPT ![curCh] = 0]
        /\ curCh' \in Ch \ {curCh}
    BY <1>4 DEF Add, sum
  <2>2. sum \div AvgCount = u
    <3>1. n + 1 = AvgCount /\ AvgCount \in Nat \ {0}
      BY <1>1, <1>4
    <3>2. sum = u * AvgCount
      BY <1>1, <1>2, <3>1
    <3> QED BY <1>1, <1>2, <3>1, <3>2, Quotient
  <2>3. /\ avgsum' \in [Ch -> 0..(SumMod - 1)] /\ avgcnt' \in [Ch -> 0..AvgCount]
        /\ temp' \in [Ch -> Adc \cup {NoTemp}]
    BY <1>1, <1>2, <2>1, <2>2
  <2>4. SumRight'
    <3>1. avgsum'[curCh] = 0 /\ avgcnt'[curCh] = 0 /\ voltage' = voltage /\ 0 * u = 0 /\ 0 < AvgCount
      BY <1>1, <2>1
    <3>2. \A c \in Ch \ {curCh} : avgsum'[c] = avgsum[c] /\ avgcnt'[c] = avgcnt[c]
      BY <1>1, <2>1
    <3> QED BY <3>1, <3>2 DEF MeasIInv, SumRight
  <2>5. MeasRight'
    <3>1. temp'[curCh] = voltage'[curCh]
      BY <1>1, <2>1, <2>2
    <3>2. \A c \in Ch \ {curCh} : temp'[c] = temp[c]
      BY <1>1, <2>1
    <3> QED BY <3>1, <3>2 DEF MeasIInv, MeasRight
  <2> QED BY <2>1, <2>3, <2>4, <2>5
<1> QED BY <1>3, <1>4

(* A conversion ends: within a window or at its end.                        *)
LEMMA ConvertedSteps == MeasIInv /\ Converted => MeasIInv'
<1> SUFFICES ASSUME MeasIInv, Converted PROVE MeasIInv'
  OBVIOUS
<1> DEFINE u == voltage[curCh]
           old == medbuf[curCh]
           buf == Append(old, sample)
<1>1. /\ curCh \in Ch /\ u \in Adc /\ old \in Seq(Adc) /\ sample \in Adc
      /\ medbuf \in [Ch -> Seq(Adc)] /\ MedBufSize \in Nat /\ MedBufSize > 2 /\ Len(old) < MedBufSize
      /\ meSt = "converting" /\ meSt' = "before" /\ UNCHANGED <<chs, sample, voltage>>
  BY RekuMeasAssumption DEF MeasIInv, MeasTypeOK, WindowRight, Converted
<1>2. /\ buf \in Seq(Adc) /\ Len(buf) = Len(old) + 1 /\ buf[Len(old) + 1] = sample /\ Len(old) \in Nat
      /\ \A i \in 1..Len(old) : buf[i] = old[i]
  BY <1>1
<1>3. /\ \E p \in Nat : RightBut(old, p, u)
      /\ ~spiked => RightBut(old, 0, u) /\ sample = u
      /\ sample # u => RightBut(old, 0, u)
      /\ \A c \in Ch \ {curCh} : medbuf[c] = <<>>
  BY <1>1 DEF MeasIInv, WindowRight
<1> HIDE DEF buf
<1>4. /\ \E p \in Nat : RightBut(buf, p, u)
      /\ ~spiked => RightBut(buf, 0, u)
  <2>1. \A p \in Nat : RightBut(old, p, u) /\ sample = u => RightBut(buf, p, u)
    BY <1>2 DEF RightBut
  <2>2. sample # u => RightBut(buf, Len(old) + 1, u)
    BY <1>2, <1>3 DEF RightBut
  <2> QED BY <1>2, <1>3, <2>1, <2>2
<1>5. CASE Len(buf) = MedBufSize
  <2>1. medbuf' = [medbuf EXCEPT ![curCh] = <<>>] /\ Add(Median(buf)) /\ spiked' = FALSE
    BY <1>5 DEF Converted, buf
  <2>2. Median(buf) = u
    BY <1>1, <1>2, <1>4, <1>5, MedianRight
  <2>3. /\ curCh' \in Ch
        /\ avgsum' \in [Ch -> 0..(SumMod - 1)] /\ avgcnt' \in [Ch -> 0..AvgCount]
        /\ temp' \in [Ch -> Adc \cup {NoTemp}]
        /\ SumRight' /\ MeasRight'
    BY <1>1, <2>1, <2>2, AddSteps
  <2>4. medbuf' \in [Ch -> Seq(Adc)] /\ \A c \in Ch : medbuf'[c] = <<>>
    BY <1>1, <1>3, <2>1
  <2>5. MeasTypeOK'
    BY <1>1, <2>1, <2>3, <2>4 DEF MeasIInv, MeasTypeOK
  <2>6. WindowRight'
    <3>1. medbuf'[curCh'] = <<>> /\ RightBut(<<>>, 0, voltage'[curCh'])
      BY <2>3, <2>4 DEF RightBut
    <3> QED BY <1>1, <2>1, <2>4, <3>1 DEF WindowRight
  <2> QED BY <1>1, <2>3, <2>5, <2>6 DEF MeasIInv, ChannelFollowed
<1>6. CASE Len(buf) # MedBufSize
  <2>1. medbuf' = [medbuf EXCEPT ![curCh] = buf] /\ UNCHANGED <<avgsum, avgcnt, temp, curCh, spiked>>
    BY <1>6 DEF Converted, buf
  <2>2. medbuf' \in [Ch -> Seq(Adc)] /\ medbuf'[curCh] = buf /\ \A c \in Ch \ {curCh} : medbuf'[c] = <<>>
    BY <1>1, <1>2, <1>3, <2>1
  <2>3. MeasTypeOK'
    BY <1>1, <2>1, <2>2 DEF MeasIInv, MeasTypeOK
  <2>4. Len(buf) < MedBufSize
    BY <1>1, <1>2, <1>6
  <2>5. WindowRight'
    BY <1>1, <1>4, <2>1, <2>2, <2>4 DEF WindowRight
  <2> QED BY <1>1, <2>1, <2>3, <2>5 DEF MeasIInv, ChannelFollowed, SumRight, MeasRight
<1> QED BY <1>5, <1>6

(* Every step of the converter.                                             *)
LEMMA MeasNextIInv == MeasIInv /\ [RekuMeasNext]_measVars => MeasIInv'
<1>1. MeasIInv /\ UNCHANGED measVars => MeasIInv'
  BY DEF MeasIInv, MeasTypeOK, ChannelFollowed, WindowRight, SumRight, MeasRight, measVars
<1> QED BY <1>1, SamplingSteps, BeforeNextSteps, ConvertedSteps DEF RekuMeasNext

(* While a fan runs evenly its tachometer's window is one of three: begun   *)
(* before the fan's speed changed, where no pulse has come yet or it cannot *)
(* last longer than another one; begun between two pulses, after a window   *)
(* without any; or begun with a pulse, and then it is right when it ends.   *)
OldWindow ==
  /\ steady <= t0
  /\ steady + pulse <= speed \/ t0 + pulse <= TachoWindow + speed
OddWindow ==
  /\ t0 <= steady /\ steady - t0 < speed
  /\ t0 + pulse <= TachoWindow + speed
FirstEnd == TachoStill + 1 + speed
PulseWindow ==
  /\ t0 + pulse = speed * (cnt + 1) /\ t0 + pulse <= TachoWindow + speed
  /\ steady <= t0 + FirstEnd \/ period = speed

TachoStands == speed = 0 => pulse = 0 /\ (steady <= t0 \/ period = 0)
TachoRuns ==
  speed > 0 /\ TachoWindow + speed <= TachoStill + 1 =>
    /\ pulse \in 1..speed
    /\ OldWindow \/ OddWindow \/ PulseWindow

TachoTypeOK ==
  /\ speed \in Speeds /\ pulse \in 0..TachoStill /\ t0 \in 0..TachoStill /\ cnt \in Nat
  /\ period \in 0..(TachoStill + 1) /\ steady \in 0..LongSteady
TachoIInv == TachoTypeOK /\ TachoStands /\ TachoRuns

(* A fan starts with a window.                                              *)
LEMMA TachoInitIInv == RekuMeasInit => TachoIInv
<1> SUFFICES ASSUME RekuMeasInit PROVE TachoIInv
  OBVIOUS
<1>1. speed \in Nat /\ speed <= TachoStill /\ TachoStill \in Nat /\ TachoWindow \in Nat
  BY RekuMeasAssumption DEF RekuMeasInit
<1>2. TachoTypeOK
  BY <1>1 DEF RekuMeasInit, TachoTypeOK, LongSteady
<1> QED BY <1>1, <1>2 DEF RekuMeasInit, TachoIInv, TachoStands, TachoRuns, OldWindow

(* The fan changes its speed, in any window.                                *)
LEMMA NewSpeedSteps == TachoIInv /\ NewSpeed => TachoIInv'
<1> SUFFICES ASSUME TachoIInv, NewSpeed PROVE TachoIInv'
  OBVIOUS
<1>1. speed' \in Speeds /\ pulse' = speed' /\ steady' = 0 /\ t0' = t0 /\ cnt' = cnt /\ period' = period
  BY DEF NewSpeed
<1>2. speed' \in Nat /\ speed' <= TachoStill /\ TachoStill \in Nat /\ TachoWindow \in Nat
  BY <1>1, RekuMeasAssumption
<1>3. t0 \in 0..TachoStill
  BY DEF TachoIInv, TachoTypeOK
<1>4. TachoTypeOK'
  BY <1>1, <1>2, <1>3 DEF TachoIInv, TachoTypeOK, LongSteady
<1>5. TachoStands'
  BY <1>1, <1>3 DEF TachoStands
<1>6. TachoRuns'
  <2>0. /\ steady' \in Nat /\ pulse' \in Nat /\ speed' \in Nat
        /\ steady' <= 0 /\ pulse' <= speed' /\ steady' <= t0'
    BY <1>1, <1>2, <1>3
  <2>1. \A i, j, n \in Nat : i <= 0 /\ j <= n => i + j <= n
    OBVIOUS
  <2>2. steady' + pulse' <= speed'
    BY <2>0, <2>1, Zenon
  <2>3. speed' > 0 => pulse' \in 1..speed'
    BY <1>1, <1>2
  <2> QED BY <2>0, <2>2, <2>3, Zenon DEF TachoRuns, OldWindow
<1> QED BY <1>4, <1>5, <1>6 DEF TachoIInv

(* A tick, with a pulse or without, at the end of a window or within.       *)
LEMMA TachoTickSteps == TachoIInv /\ TachoTick => TachoIInv'
<1> SUFFICES ASSUME TachoIInv, TachoTick PROVE TachoIInv'
  OBVIOUS
<1> DEFINE edge == speed > 0 /\ pulse <= 1
           sound == speed > 0 /\ TachoWindow + speed <= TachoStill + 1
<1>0. /\ TachoStill \in Nat /\ TachoWindow \in 0..TachoStill /\ TachoStill > 0 /\ LongSteady \in Nat
      /\ LongSteady = 3 * (TachoStill + 1)
      /\ speed \in Nat /\ speed <= TachoStill /\ pulse \in 0..TachoStill /\ t0 \in 0..TachoStill
      /\ cnt \in Nat /\ period \in 0..(TachoStill + 1) /\ steady \in 0..LongSteady
      /\ speed \in Speeds
  BY RekuMeasAssumption DEF TachoIInv, TachoTypeOK, LongSteady
<1>a. /\ Tacho(edge, t0 + 1) /\ speed' = speed
      /\ pulse' = IF edge THEN speed ELSE IF pulse > 0 THEN pulse - 1 ELSE 0
      /\ steady' = IF steady < LongSteady THEN steady + 1 ELSE steady
  BY DEF TachoTick
<1>b. steady' \in 0..LongSteady /\ pulse' \in 0..TachoStill /\ steady' <= steady + 1
  BY <1>0, <1>a
<1>1. CASE edge /\ t0 + 1 > TachoWindow
  <2>0. period' = (t0 + 1) \div (cnt + 1) /\ t0' = 0 /\ cnt' = 0 /\ pulse' = speed
    BY <1>1, <1>a DEF Tacho, Restarted
  <2>1. /\ period' \in 0..(t0 + 1)
        /\ t0 + 1 = speed * (cnt + 1) => period' = speed
    <3>1. t0 + 1 \in Nat /\ cnt + 1 \in Nat \ {0}
      BY <1>0
    <3> QED BY <1>0, <2>0, <3>1, Quotient
  <2>2. TachoTypeOK'
    <3>1. period' \in 0..(TachoStill + 1) /\ t0' \in 0..TachoStill /\ cnt' \in Nat
      BY <1>0, <2>0, <2>1
    <3> QED BY <1>0, <1>a, <1>b, <3>1 DEF TachoTypeOK, LongSteady
  <2>3. ASSUME sound PROVE PulseWindow'
    <3>0. pulse = 1 /\ (OldWindow \/ OddWindow \/ PulseWindow)
      BY <1>0, <1>1, <2>3 DEF TachoIInv, TachoRuns
    <3>1. t0' + pulse' = speed' * (cnt' + 1) /\ t0' + pulse' <= TachoWindow + speed'
      BY <1>0, <1>a, <2>0
    <3>2. CASE OldWindow
      BY <1>0, <1>a, <1>b, <2>0, <2>3, <3>1, <3>2 DEF OldWindow, PulseWindow, FirstEnd
    <3>3. CASE OddWindow
      BY <1>0, <1>a, <1>b, <2>0, <2>3, <3>0, <3>1, <3>3 DEF OddWindow, PulseWindow, FirstEnd
    <3>4. CASE PulseWindow
      <4>1. period' = speed'
        BY <1>a, <2>1, <3>0, <3>4 DEF PulseWindow
      <4> QED BY <3>1, <4>1 DEF PulseWindow
    <3> QED BY <3>0, <3>2, <3>3, <3>4
  <2>4. sound => pulse' \in 1..speed'
    BY <1>0, <1>a, <2>0
  <2> QED BY <1>1, <1>a, <2>2, <2>3, <2>4 DEF TachoIInv, TachoStands, TachoRuns
<1>2. CASE edge /\ ~(t0 + 1 > TachoWindow)
  <2>0. UNCHANGED period /\ t0' = t0 + 1 /\ cnt' = cnt + 1 /\ pulse' = speed
    BY <1>2, <1>a DEF Tacho
  <2>1. ASSUME sound PROVE OldWindow' \/ OddWindow' \/ PulseWindow'
    <3>0. pulse = 1 /\ (OldWindow \/ OddWindow \/ PulseWindow)
      BY <1>0, <1>2, <2>1 DEF TachoIInv, TachoRuns
    <3>2. CASE OldWindow
      BY <1>0, <1>a, <1>b, <1>2, <2>0, <3>2 DEF OldWindow
    <3>3. CASE OddWindow
      BY <1>0, <1>a, <1>b, <1>2, <2>0, <2>1, <3>0, <3>3 DEF OddWindow, OldWindow
    <3>4. CASE PulseWindow
      <4>1. speed' * (cnt' + 1) = speed * (cnt + 1) + speed
        BY <1>0, <1>a, <2>0
      <4>2. speed * (cnt + 1) \in Int
        BY <1>0
      <4> QED BY <1>0, <1>a, <1>b, <1>2, <2>0, <3>0, <3>4, <4>1, <4>2 DEF PulseWindow, FirstEnd
    <3> QED BY <3>0, <3>2, <3>3, <3>4
  <2>2. TachoTypeOK'
    <3>1. t0' \in 0..TachoStill
      BY <1>0, <1>2, <2>0, <2>1
    <3> QED BY <1>0, <1>a, <1>b, <2>0, <3>1 DEF TachoTypeOK, LongSteady
  <2>3. sound => pulse' \in 1..speed'
    BY <1>0, <1>a, <2>0
  <2> QED BY <1>2, <1>a, <2>1, <2>2, <2>3 DEF TachoIInv, TachoStands, TachoRuns
<1>3. CASE ~edge /\ t0 + 1 > TachoStill
  <2>0. period' = 0 /\ t0' = 0 /\ cnt' = 0
    BY <1>3, <1>a DEF Tacho
  <2>1. ASSUME sound PROVE OddWindow' /\ pulse' \in 1..speed'
    <3>0. pulse > 1 /\ pulse' = pulse - 1 /\ pulse \in 1..speed /\ (OldWindow \/ OddWindow \/ PulseWindow)
      BY <1>0, <1>3, <1>a, <2>1 DEF TachoIInv, TachoRuns
    <3>1. steady + pulse <= speed /\ steady <= t0
      BY <1>0, <1>3, <2>1, <3>0 DEF OldWindow, OddWindow, PulseWindow
    <3> QED BY <1>0, <1>a, <1>b, <2>0, <2>1, <3>0, <3>1 DEF OddWindow
  <2>2. TachoTypeOK'
    BY <1>0, <1>a, <1>b, <2>0 DEF TachoTypeOK, LongSteady
  <2>3. speed = 0 => pulse' = 0
    BY <1>0, <1>a DEF TachoIInv, TachoStands
  <2> QED BY <1>a, <2>0, <2>1, <2>2, <2>3 DEF TachoIInv, TachoStands, TachoRuns
<1>4. CASE ~edge /\ ~(t0 + 1 > TachoStill)
  <2>0. UNCHANGED <<period, cnt>> /\ t0' = t0 + 1
    BY <1>4, <1>a DEF Tacho
  <2>1. ASSUME sound PROVE (OldWindow \/ OddWindow \/ PulseWindow)' /\ pulse' \in 1..speed'
    <3>0. pulse > 1 /\ pulse' = pulse - 1 /\ pulse \in 1..speed /\ (OldWindow \/ OddWindow \/ PulseWindow)
      BY <1>0, <1>4, <1>a, <2>1 DEF TachoIInv, TachoRuns
    <3>1. t0' + pulse' = t0 + pulse /\ pulse' \in 1..speed'
      BY <1>0, <1>a, <2>0, <3>0
    <3>2. CASE OldWindow
      BY <1>0, <1>a, <1>b, <2>0, <3>0, <3>1, <3>2, <1>4, <2>1 DEF OldWindow
    <3>3. CASE OddWindow
      BY <1>0, <1>a, <1>b, <2>0, <2>1, <3>0, <3>1, <3>3 DEF OddWindow, OldWindow
    <3>4. CASE PulseWindow
      <4>1. speed * (cnt + 1) \in Int /\ UNCHANGED <<speed, cnt, period>>
        BY <1>0, <1>a, <2>0
      <4> QED BY <1>0, <1>a, <1>b, <2>0, <3>1, <3>4, <4>1 DEF PulseWindow, FirstEnd
    <3> QED BY <3>0, <3>1, <3>2, <3>3, <3>4
  <2>2. TachoTypeOK'
    BY <1>0, <1>4, <1>a, <1>b, <2>0 DEF TachoTypeOK, LongSteady
  <2>3. TachoStands'
    BY <1>0, <1>a, <1>b, <2>0 DEF TachoIInv, TachoStands
  <2> QED BY <1>a, <2>1, <2>2, <2>3 DEF TachoIInv, TachoRuns
<1> QED BY <1>1, <1>2, <1>3, <1>4

(* Every tick and change of speed.                                          *)
LEMMA TachoNextIInv == TachoIInv /\ [RekuTachoNext]_tachoVars => TachoIInv'
<1>1. TachoIInv /\ UNCHANGED tachoVars => TachoIInv'
  BY DEF TachoIInv, TachoTypeOK, TachoStands, TachoRuns, OldWindow, OddWindow, PulseWindow, FirstEnd, tachoVars
<1> QED BY <1>1, NewSpeedSteps, TachoTickSteps DEF RekuTachoNext

(* Three of the longest windows are enough.                                 *)
LEMMA TachoShows == TachoIInv => TachoTrue
<1> SUFFICES ASSUME TachoIInv, steady = LongSteady, TachoWindow + speed <= TachoStill + 1
             PROVE  period = speed
  BY DEF TachoTrue
<1>1. /\ TachoStill \in Nat /\ TachoWindow \in Nat /\ TachoStill > 0
      /\ steady = 3 * (TachoStill + 1)
      /\ speed \in Nat /\ speed <= TachoStill /\ pulse \in 0..TachoStill /\ t0 \in 0..TachoStill
      /\ cnt \in Nat /\ period \in 0..(TachoStill + 1)
  BY RekuMeasAssumption DEF TachoIInv, TachoTypeOK, LongSteady
<1>2. CASE speed = 0
  BY <1>1, <1>2 DEF TachoIInv, TachoStands
<1>3. CASE speed > 0
  <2>1. pulse \in 1..speed /\ (OldWindow \/ OddWindow \/ PulseWindow)
    BY <1>3 DEF TachoIInv, TachoRuns
  <2>2. ~OldWindow /\ ~OddWindow
    BY <1>1, <2>1 DEF OldWindow, OddWindow
  <2> QED BY <1>1, <2>1, <2>2 DEF PulseWindow, FirstEnd
<1> QED BY <1>1, <1>2, <1>3

(* The inductive invariants of converter and tachometers.                   *)
THEOREM MeasInvariance == RekuMeasSpec => []MeasIInv
<1> QED BY MeasInitIInv, MeasNextIInv, PTL DEF RekuMeasSpec

(* The same for the tachometers.                                            *)
THEOREM TachoInvariance == RekuTachoSpec => []TachoIInv
<1> QED BY TachoInitIInv, TachoNextIInv, PTL DEF RekuTachoSpec

(* The unit's temperatures are its channels' voltages, whatever one sample  *)
(* of each window is, and its fans' periods are right three of the longest  *)
(* windows after they last changed (do_meas_temp, calc_med, do_tacho).      *)
THEOREM UnitMeasuresRight == RekuMeasSpec /\ RekuTachoSpec => []UnitMeasures
<1>1. MeasIInv /\ TachoIInv => UnitMeasures
  BY TachoShows DEF MeasIInv, UnitMeasures
<1> QED BY <1>1, MeasInvariance, TachoInvariance, PTL

-----------------------------------------------------------------------------
(* A meter's total and its file.                                            *)

Storing == {mtPc, ioPc} \cap {"trunc", "write"} # {}
Writing == "write" \in {mtPc, ioPc}

(* Each change of what is stored is followed by its own writing, so that    *)
(* the file fits whenever nobody is writing, overlapped or not.             *)
FileFits ==
  /\ Storing => lastStored # None
  /\ ~Storing => \/ file = None /\ lastStored = None
                 \/ file # None /\ lastStored # None
                    /\ Near(file, lastStored, Grain \div 2)
  /\ file = None => unsaved \/ spoilt \/ Storing

(* Only the increment of impCount and the reset can be in each other's way: *)
(* what the meter has, whatever the threads are doing.                      *)
Counted ==
  (IF ioPc = "orig" THEN ioVal ELSE orig) + impCount + (IF mtPc = "inc" THEN 1 ELSE 0)
InMemory ==
  /\ mtPc = "inc" => mtVal = impCount
  /\ Near(Counted, due, stops * (Lacking + 1))

(* What the meter's thread and the io thread know while they are alone.     *)
MeterCounts ==
  /\ mtPc = "inc" => mtVal = impCount
  /\ mtPc = "calc" => mtVal = orig
  /\ mtPc = "store" => mtVal = Total
  /\ mtPc \in {"trunc", "write"} => lastStored = Total
IoCounts ==
  /\ ioPc = "orig" => unsaved /\ impCount = 0
  /\ ioPc = "calc" => ioVal = orig
  /\ ioPc = "store" => ioVal = Total
  /\ ioPc \in {"trunc", "write"} => lastStored = Total

(* How far the total may be from what is stored, and from the file.         *)
Late(pcs) == IF mtPc \in pcs THEN 1 ELSE 0
StoredNear ==
  /\ lastStored # None /\ (unsaved => ioPc \notin {"orig", "store"}) =>
       Near(lastStored, Total, MinDelta + Late({"read", "calc", "store"}))
  /\ file # None /\ ~unsaved /\ ~Writing =>
       Near(file, Total, Lacking + Late({"read", "calc", "store", "trunc"}))
  /\ file = None => unsaved \/ spoilt \/ Writing

Alone ==
  /\ mtPc = "idle" \/ ioPc = "idle"
  /\ MeterCounts /\ IoCounts
  /\ overlapped = "mending" => mtPc # "idle"
  /\ overlapped = "no" => StoredNear

MeterIInv ==
  /\ MetersTypeOK /\ FileFits
  /\ ~spoilt => InMemory
  /\ overlapped # "yes" => Alone
-----------------------------------------------------------------------------
(* Six digits are off by at most half of what they resolve.                 *)
LEMMA RoundedIsNear ==
  ASSUME NEW total \in Nat
  PROVE  Rounded(total) \in Nat /\ Near(Rounded(total), total, Grain \div 2)
<1> DEFINE h == Grain \div 2
           d == (total + h) \div Grain
<1>1. Grain \in Nat \ {0}
  BY MetersAssumption
<1>2. h \in Nat /\ Grain <= 2 * h + 1
  BY <1>1
<1>3. d \in Nat /\ d * Grain <= total + h /\ total + h < d * Grain + Grain
  BY <1>1, <1>2
<1>4. d * Grain \in Nat
  BY <1>1, <1>3
<1> HIDE DEF h, d
<1>5. d * Grain - total <= h /\ total - d * Grain <= h
  BY <1>1, <1>2, <1>3, <1>4
<1> QED BY <1>4, <1>5 DEF Rounded, Near, h, d

(* What the distances are made of.                                          *)
LEMMA DistancesAreNat ==
  /\ MinDelta \in Nat /\ Grain \div 2 \in Nat /\ Lacking \in Nat
  /\ Lacking = MinDelta + Grain \div 2
<1>1. Grain \div 2 \in Nat
  BY MetersAssumption
<1> QED BY <1>1, MetersAssumption DEF Lacking

(* One more stop costs one more distance.                                   *)
LEMMA StopsCost ==
  ASSUME NEW n \in Nat
  PROVE  n * (Lacking + 1) \in Nat /\ (n + 1) * (Lacking + 1) = n * (Lacking + 1) + Lacking + 1
<1>1. PICK c \in Nat : c = Lacking + 1
  BY DistancesAreNat
<1>2. n * c \in Nat /\ (n + 1) * c = n * c + c
  BY <1>1
<1> QED BY <1>1, <1>2, DistancesAreNat

(* At first everything is zero, with or without a file.                     *)
LEMMA MeterInitIInv == MetersInit => MeterIInv
<1> SUFFICES ASSUME MetersInit PROVE MeterIInv
  OBVIOUS
<1>0. 0 * (Lacking + 1) = 0
  BY DistancesAreNat
<1>1. MetersTypeOK
  <2>1. /\ {impCount, orig, mtVal, ioVal, due, stops} \subseteq Nat
        /\ {lastStored, file} \subseteq Nat \cup {None}
    BY DEF MetersInit
  <2>2. /\ mtPc = "idle" /\ ioPc = "idle" /\ unsaved \in BOOLEAN /\ spoilt \in BOOLEAN
        /\ overlapped = "no"
    BY DEF MetersInit
  <2> QED BY <2>1, <2>2 DEF MetersTypeOK, StorePcs
<1>f. \/ file = 0 /\ lastStored = 0
      \/ file = None /\ lastStored = None /\ unsaved
  BY DEF MetersInit
<1>2. FileFits
  <2>1. ~Storing
    BY DEF MetersInit, Storing
  <2>2. Near(0, 0, Grain \div 2) /\ 0 # None
    BY DistancesAreNat DEF Near, None
  <2> QED BY <1>f, <2>1, <2>2 DEF FileFits
<1>3. InMemory
  BY <1>0 DEF MetersInit, InMemory, Counted, Near
<1>4. Alone
  <2>1. Total = 0 /\ mtPc = "idle" /\ ioPc = "idle" /\ overlapped = "no"
    BY DEF MetersInit, Total
  <2>2. Near(0, 0, MinDelta + 0) /\ Near(0, 0, Lacking + 0) /\ 0 # None
    BY DistancesAreNat DEF Near, None
  <2>3. StoredNear
    BY <1>f, <2>1, <2>2 DEF StoredNear, Late
  <2> QED BY <2>1, <2>3 DEF Alone, MeterCounts, IoCounts
<1> QED BY <1>1, <1>2, <1>3, <1>4 DEF MeterIInv

(* store(v) on a thread at pc, the other one at any place: what becomes of  *)
(* the stored value and of the file.                                        *)
LEMMA StoreFits ==
  ASSUME MeterIInv, NEW pc \in {"store", "trunc", "write"}, NEW total \in Nat, Store(pc, total),
         pc \in {"trunc", "write"} => lastStored # None
  PROVE  /\ lastStored' \in Nat \cup {None} /\ file' \in Nat \cup {None}
         /\ lastStored' # None
         /\ pc = "store" => lastStored' = total /\ file' = file
         /\ pc = "trunc" => lastStored' = lastStored /\ file' = None
         /\ pc = "write" => /\ lastStored' = lastStored /\ file' # None
                            /\ Near(file', lastStored', Grain \div 2)
<1>1. CASE pc = "store"
  BY <1>1 DEF Store, MeterIInv, MetersTypeOK, None
<1>2. CASE pc = "trunc"
  BY <1>2 DEF Store, MeterIInv, MetersTypeOK
<1>3. CASE pc = "write"
  <2>1. lastStored \in Nat /\ lastStored' = lastStored /\ file' = Rounded(lastStored)
    BY <1>3 DEF Store, MeterIInv, MetersTypeOK
  <2>2. Rounded(lastStored) \in Nat /\ Near(Rounded(lastStored), lastStored, Grain \div 2)
    BY <2>1, RoundedIsNear
  <2> QED BY <1>3, <2>1, <2>2 DEF None
<1> QED BY <1>1, <1>2, <1>3
-----------------------------------------------------------------------------
(* event, checkStore and store on the meter's thread.                       *)
LEMMA MeterSteps == MeterIInv /\ Meter => MeterIInv'
<1> SUFFICES ASSUME MeterIInv, Meter PROVE MeterIInv'
  OBVIOUS
<1> USE DEF StorePcs
<1>0. UNCHANGED <<orig, ioPc, ioVal>> /\ Watching
  BY DEF Meter
<1>t. /\ impCount \in Nat /\ orig \in Nat /\ mtVal \in Nat /\ ioVal \in Nat /\ due \in Nat
      /\ stops \in Nat /\ lastStored \in Nat \cup {None} /\ file \in Nat \cup {None}
      /\ stops * (Lacking + 1) \in Nat
  BY StopsCost DEF MeterIInv, MetersTypeOK
<1>w. unsaved' \in BOOLEAN /\ spoilt' \in BOOLEAN /\ overlapped' \in {"no", "yes", "mending"}
  BY <1>0 DEF Watching, MeterIInv, MetersTypeOK
<1>o. overlapped' # "yes" =>
        /\ overlapped = "yes" => mtPc = "idle" /\ overlapped' = "mending" /\ ioPc = "idle"
        /\ overlapped' = "mending" => mtPc' # "idle"
        /\ overlapped' = "no" => overlapped = "no" \/ (overlapped = "mending" /\ mtPc' = "idle")
        /\ mtPc' = "idle" \/ ioPc = "idle"
  <2> SUFFICES ASSUME overlapped' # "yes"
               PROVE  /\ overlapped = "yes" => mtPc = "idle" /\ overlapped' = "mending" /\ ioPc = "idle"
                      /\ overlapped' = "mending" => mtPc' # "idle"
                      /\ overlapped' = "no" => overlapped = "no" \/ (overlapped = "mending" /\ mtPc' = "idle")
                      /\ mtPc' = "idle" \/ ioPc = "idle"
    OBVIOUS
  <2>1. mtPc' = "idle" \/ ioPc = "idle"
    <3>1. ioPc' = ioPc
      BY <1>0
    <3>2. mtPc' # "idle" /\ ioPc' # "idle" => overlapped' = "yes"
      <4> SUFFICES ASSUME mtPc' # "idle" /\ ioPc' # "idle" PROVE overlapped' = "yes"
        OBVIOUS
      <4> QED BY <1>0 DEF Watching
    <3> QED BY <3>1, <3>2
  <2>2. CASE overlapped = "yes" /\ mtPc = "idle" /\ mtPc' # "idle"
    BY <1>0, <2>1, <2>2 DEF Watching
  <2>3. CASE overlapped = "mending" /\ mtPc' = "idle"
    BY <1>0, <2>1, <2>3 DEF Watching
  <2>4. CASE /\ ~(overlapped = "yes" /\ mtPc = "idle" /\ mtPc' # "idle")
             /\ ~(overlapped = "mending" /\ mtPc' = "idle")
    BY <1>0, <2>1, <2>4 DEF Watching
  <2> QED BY <2>2, <2>3, <2>4
<1>1. CASE /\ mtPc = "idle" /\ mtPc' = "inc" /\ mtVal' = impCount /\ due' = due + 1
           /\ UNCHANGED <<impCount, lastStored, file>>
  <2>1. MetersTypeOK'
    BY <1>0, <1>1, <1>w DEF MeterIInv, MetersTypeOK, Watching
  <2>2. FileFits'
    BY <1>0, <1>1 DEF MeterIInv, FileFits, Storing, Watching, Ends
  <2>3. ~spoilt' => InMemory'
    BY <1>0, <1>1, <1>t DEF MeterIInv, InMemory, Counted, Near, Watching
  <2>4. overlapped' # "yes" => Alone'
    <3> SUFFICES ASSUME overlapped' # "yes" PROVE Alone'
      OBVIOUS
    <3>1. ioPc = "idle" /\ Total' = Total
      BY <1>0, <1>1, <1>o DEF Total
    <3>2. ~Ends(mtPc, mtPc') /\ ~Ends(ioPc, ioPc')
      BY <1>0, <1>1, <3>1 DEF Ends
    <3>3. unsaved' = unsaved /\ spoilt' = spoilt
      BY <1>0, <3>2 DEF Watching, MeterIInv, MetersTypeOK
    <3>4. overlapped' = "no" => StoredNear'
      <4>1. overlapped' = "no" => StoredNear
        BY <1>1, <1>o DEF MeterIInv, Alone
      <4> QED BY <1>0, <1>1, <3>1, <3>3, <4>1 DEF StoredNear, Writing, Late
    <3> QED BY <1>0, <1>1, <3>1, <3>4 DEF Alone, MeterCounts, IoCounts
  <2> QED BY <2>1, <2>2, <2>3, <2>4 DEF MeterIInv
<1>2. CASE /\ mtPc = "inc" /\ impCount' = mtVal + 1 /\ mtPc' = "read" /\ mtVal' = 0
           /\ UNCHANGED <<lastStored, file, due>>
  <2>1. MetersTypeOK'
    BY <1>0, <1>2, <1>w, <1>t DEF MeterIInv, MetersTypeOK, Watching
  <2>2. FileFits'
    BY <1>0, <1>2 DEF MeterIInv, FileFits, Storing, Watching, Ends
  <2>3. ~spoilt' => InMemory'
    BY <1>0, <1>2, <1>t DEF MeterIInv, InMemory, Counted, Near, Watching
  <2>4. overlapped' # "yes" => Alone'
    <3> SUFFICES ASSUME overlapped' # "yes" PROVE Alone'
      OBVIOUS
    <3>1. /\ ioPc = "idle" /\ overlapped # "yes" /\ overlapped' = overlapped /\ Alone
          /\ mtVal = impCount
      BY <1>o, <1>2, <1>0 DEF MeterIInv, Watching, Alone, MeterCounts
    <3>2. Total' = Total + 1 /\ Total \in Nat
      BY <1>0, <1>2, <1>t, <3>1 DEF Total
    <3>e. (unsaved' <=> unsaved) /\ (spoilt' <=> spoilt)
      BY <1>0, <1>2, <3>1 DEF Watching, Ends
    <3>3. overlapped' = "no" => StoredNear'
      <4> SUFFICES ASSUME overlapped' = "no" PROVE StoredNear'
        OBVIOUS
      <4>1. StoredNear /\ ~Writing /\ ~Writing'
        BY <1>0, <1>2, <3>1 DEF Alone, Writing
      <4>2. lastStored # None => Near(lastStored, Total, MinDelta)
        BY <1>2, <3>1, <4>1, DistancesAreNat DEF StoredNear, Late
      <4>3. file # None /\ ~unsaved => Near(file, Total, Lacking)
        BY <1>2, <3>1, <4>1, DistancesAreNat DEF StoredNear, Late
      <4>4. Late({"read", "calc", "store"})' = 1 /\ Late({"read", "calc", "store", "trunc"})' = 1
        BY <1>2 DEF Late
      <4>5. lastStored' # None => Near(lastStored', Total', MinDelta + 1)
        BY <1>2, <1>t, <3>2, <4>2, DistancesAreNat DEF Near, None
      <4>6. file' # None /\ ~unsaved' => Near(file', Total', Lacking + 1)
        BY <1>2, <1>t, <3>2, <3>e, <4>3, DistancesAreNat DEF Near, None
      <4> QED BY <1>2, <3>e, <4>1, <4>4, <4>5, <4>6 DEF StoredNear
    <3> QED BY <1>0, <1>2, <3>1, <3>3 DEF Alone, MeterCounts, IoCounts
  <2> QED BY <2>1, <2>2, <2>3, <2>4 DEF MeterIInv
<1>3. CASE /\ mtPc = "read" /\ mtVal' = orig /\ mtPc' = "calc"
           /\ UNCHANGED <<impCount, lastStored, file, due>>
  <2>1. MetersTypeOK'
    BY <1>0, <1>3, <1>w DEF MeterIInv, MetersTypeOK, Watching
  <2>2. FileFits'
    BY <1>0, <1>3 DEF MeterIInv, FileFits, Storing, Watching, Ends
  <2>3. ~spoilt' => InMemory'
    BY <1>0, <1>3, <1>t DEF MeterIInv, InMemory, Counted, Near, Watching
  <2>4. overlapped' # "yes" => Alone'
    BY <1>0, <1>3, <1>t, <1>o
       DEF MeterIInv, Alone, MeterCounts, IoCounts, StoredNear, Writing, Total, Late, Watching, Ends
  <2> QED BY <2>1, <2>2, <2>3, <2>4 DEF MeterIInv
<1>4. CASE \E hour \in BOOLEAN : CheckStore(hour) /\ UNCHANGED due
  <2>0. /\ mtPc = "calc" /\ mtVal' = mtVal + impCount
        /\ mtPc' = "store" \/ (mtPc' = "idle" /\ ~Far(mtVal + impCount))
        /\ UNCHANGED <<impCount, lastStored, file, due>>
    BY <1>4 DEF CheckStore
  <2>1. MetersTypeOK'
    BY <1>0, <2>0, <1>w, <1>t DEF MeterIInv, MetersTypeOK, Watching
  <2>2. FileFits'
    BY <1>0, <2>0 DEF MeterIInv, FileFits, Storing, Watching, Ends
  <2>3. ~spoilt' => InMemory'
    BY <1>0, <2>0, <1>t DEF MeterIInv, InMemory, Counted, Near, Watching
  <2>4. overlapped' # "yes" => Alone'
    <3> SUFFICES ASSUME overlapped' # "yes" PROVE Alone'
      OBVIOUS
    <3>0. ioPc = "idle" /\ overlapped # "yes" /\ Alone /\ mtVal = orig
      BY <1>o, <2>0 DEF MeterIInv, Alone, MeterCounts
    <3>u. ~Ends(mtPc, mtPc') /\ ~Ends(ioPc, ioPc')
      BY <2>0, <3>0 DEF Ends
    <3>1. /\ ioPc = "idle" /\ overlapped # "yes" /\ Alone /\ mtVal = orig
          /\ unsaved' = unsaved /\ spoilt' = spoilt
      BY <1>0, <3>0, <3>u DEF Watching, MeterIInv, MetersTypeOK
    <3>2. Total' = Total /\ Total = mtVal + impCount /\ Total \in Nat
      BY <1>0, <2>0, <1>t, <3>1 DEF Total
    <3>3. CASE mtPc' = "store"
      <4>1. overlapped' = overlapped
        BY <1>0, <2>0, <3>1, <3>3 DEF Watching
      <4>2. overlapped' = "no" => StoredNear'
        BY <1>0, <2>0, <3>1, <3>2, <3>3, <4>1 DEF Alone, StoredNear, Writing, Late
      <4> QED BY <1>0, <2>0, <3>1, <3>2, <3>3, <4>1, <4>2, <1>o DEF Alone, MeterCounts, IoCounts
    <3>4. CASE mtPc' = "idle" /\ ~Far(mtVal + impCount)
      <4>1. lastStored # None => Near(lastStored, Total, MinDelta)
        BY <1>t, <3>2, <3>4, DistancesAreNat DEF Far, Near, None
      <4>2. file # None => Near(file, lastStored, Grain \div 2) /\ lastStored # None
        BY <2>0, <3>1 DEF MeterIInv, FileFits, Storing
      <4>3. file # None => Near(file, Total, Lacking)
        BY <1>t, <3>2, <4>1, <4>2, DistancesAreNat DEF Near, None
      <4>4. file = None => unsaved \/ spoilt
        BY <2>0, <3>1 DEF MeterIInv, FileFits, Storing
      <4>5. StoredNear'
        BY <1>0, <1>t, <2>0, <3>1, <3>2, <3>4, <4>1, <4>3, <4>4, DistancesAreNat
           DEF StoredNear, Writing, Late
      <4> QED BY <1>0, <1>o, <2>0, <3>1, <3>4, <4>5 DEF Alone, MeterCounts, IoCounts
    <3> QED BY <2>0, <3>3, <3>4
  <2> QED BY <2>1, <2>2, <2>3, <2>4 DEF MeterIInv
<1>5. CASE /\ Store(mtPc, mtVal) /\ mtPc' = StoreNext(mtPc, mtVal)
           /\ UNCHANGED <<impCount, mtVal, due>>
  <2>0. mtPc \in {"store", "trunc", "write"} /\ mtVal \in Nat
    BY <1>5, <1>t DEF Store
  <2>1. mtPc \in {"trunc", "write"} => lastStored # None
    BY DEF MeterIInv, FileFits, Storing
  <2>2. /\ lastStored' \in Nat \cup {None} /\ file' \in Nat \cup {None}
        /\ lastStored' # None
        /\ mtPc = "store" => lastStored' = mtVal /\ file' = file
        /\ mtPc = "trunc" => lastStored' = lastStored /\ file' = None
        /\ mtPc = "write" => /\ lastStored' = lastStored /\ file' # None
                             /\ Near(file', lastStored', Grain \div 2)
    BY <1>5, <2>0, <2>1, StoreFits
  <2>3. \/ mtPc = "store" /\ mtVal = lastStored /\ mtPc' = "idle"
        \/ mtPc = "store" /\ mtVal # lastStored /\ mtPc' = "trunc"
        \/ mtPc = "trunc" /\ mtPc' = "write"
        \/ mtPc = "write" /\ mtPc' = "idle"
    BY <1>5, <2>0 DEF StoreNext
  <2>4. MetersTypeOK'
    BY <1>0, <1>5, <2>2, <2>3, <1>w DEF MeterIInv, MetersTypeOK, Watching
  <2>5. FileFits'
    BY <1>0, <1>5, <2>2, <2>3 DEF MeterIInv, FileFits, Storing, Watching, Ends
  <2>6. ~spoilt' => InMemory'
    BY <1>0, <1>5, <1>t, <2>3 DEF MeterIInv, InMemory, Counted, Near, Watching
  <2>7. overlapped' # "yes" => Alone'
    <3> SUFFICES ASSUME overlapped' # "yes" PROVE Alone'
      OBVIOUS
    <3>1. ioPc = "idle" /\ overlapped # "yes" /\ Alone /\ spoilt' = spoilt
      BY <1>o, <2>3, <1>0 DEF MeterIInv, Watching, Alone
    <3>2. Total' = Total /\ Total \in Nat /\ lastStored' = Total
      BY <1>0, <1>5, <1>t, <2>2, <2>3, <3>1 DEF Total, Alone, MeterCounts
    <3>3. overlapped' = "no" => StoredNear'
      <4> SUFFICES ASSUME overlapped' = "no" PROVE StoredNear'
        OBVIOUS
      <4>1. Near(lastStored', Total', MinDelta + Late({"read", "calc", "store"})')
        BY <3>2, <2>3, DistancesAreNat DEF Near, Late
      <4>2. CASE mtPc = "store" /\ mtPc' = "trunc"
        <5>1. ~Ends(mtPc, mtPc') /\ ~Ends(ioPc, ioPc')
          BY <1>0, <3>1, <4>2 DEF Ends
        <5>2. overlapped = "no" /\ unsaved' = unsaved /\ file' = file
          BY <1>0, <1>o, <2>2, <3>1, <4>2, <5>1 DEF Watching, MeterIInv, MetersTypeOK
        <5>3. StoredNear /\ ~Writing /\ ~Writing'
          BY <1>0, <3>1, <4>2, <5>2 DEF Alone, Writing
        <5>4. /\ Late({"read", "calc", "store", "trunc"}) = 1
              /\ Late({"read", "calc", "store", "trunc"})' = 1
          BY <4>2 DEF Late
        <5> QED BY <3>1, <3>2, <4>1, <5>2, <5>3, <5>4 DEF StoredNear
      <4>3. CASE mtPc = "trunc" /\ mtPc' = "write"
        BY <1>0, <2>2, <4>1, <4>3 DEF StoredNear, Writing
      <4>4. CASE mtPc' = "idle"
        <5>1. file' # None => Near(file', lastStored', Grain \div 2)
          BY <1>0, <2>3, <2>5, <3>1, <4>4 DEF FileFits, Storing
        <5>2. file' # None => Near(file', Total', Lacking + Late({"read", "calc", "store", "trunc"})')
          BY <1>t, <2>2, <3>2, <4>4, <5>1, DistancesAreNat DEF Near, Late
        <5>3. file' = None => unsaved' \/ spoilt'
          BY <1>0, <2>3, <2>5, <3>1, <4>4 DEF FileFits, Storing
        <5> QED BY <4>1, <5>2, <5>3 DEF StoredNear
      <4> QED BY <2>3, <4>2, <4>3, <4>4
    <3> QED BY <1>0, <1>5, <1>o, <2>3, <3>1, <3>2, <3>3 DEF Alone, MeterCounts, IoCounts
  <2> QED BY <2>4, <2>5, <2>6, <2>7 DEF MeterIInv
<1> QED BY <1>1, <1>2, <1>3, <1>4, <1>5 DEF Meter

(* A new total arrives.                                                     *)
LEMMA SetNewValueSteps == ASSUME MeterIInv, NEW total \in NewTotals, SetNewValue(total) PROVE MeterIInv'
<1> USE DEF StorePcs
<1>0. total \in Nat /\ 0 * (Lacking + 1) = 0
  BY MetersAssumption, DistancesAreNat
<1>1. MetersTypeOK'
  BY <1>0 DEF MeterIInv, MetersTypeOK, SetNewValue, Reset
<1>2. FileFits'
  BY DEF MeterIInv, FileFits, Storing, SetNewValue
<1>3. ~spoilt' => InMemory'
  <2> SUFFICES ASSUME mtPc # "inc" PROVE InMemory'
    BY DEF SetNewValue
  <2>1. mtPc' = mtPc /\ ioPc' = "orig" /\ ioVal' = total /\ impCount' = 0 /\ due' = total /\ stops' = 0
    BY DEF SetNewValue, Reset
  <2>2. Counted' = total
    BY <1>0, <2>1 DEF Counted
  <2> QED BY <1>0, <2>1, <2>2 DEF InMemory, Near
<1>4. overlapped' # "yes" => Alone'
  BY <1>0 DEF MeterIInv, MetersTypeOK, Alone, MeterCounts, IoCounts, SetNewValue, Reset, StoredNear
<1> QED BY <1>1, <1>2, <1>3, <1>4 DEF MeterIInv

(* The rest of setNewValue, and the last store, on the io thread.           *)
LEMMA IoSteps == MeterIInv /\ Io => MeterIInv'
<1> SUFFICES ASSUME MeterIInv, Io PROVE MeterIInv'
  OBVIOUS
<1> USE DEF StorePcs
<1>0. UNCHANGED <<impCount, mtPc, mtVal, due>> /\ Watching
  BY DEF Io
<1>t. /\ impCount \in Nat /\ orig \in Nat /\ mtVal \in Nat /\ ioVal \in Nat /\ due \in Nat
      /\ stops \in Nat /\ lastStored \in Nat \cup {None} /\ file \in Nat \cup {None}
      /\ stops * (Lacking + 1) \in Nat
  BY StopsCost DEF MeterIInv, MetersTypeOK
<1>w. unsaved' \in BOOLEAN /\ spoilt' \in BOOLEAN /\ overlapped' \in {"no", "yes", "mending"}
  BY <1>0 DEF Watching, MeterIInv, MetersTypeOK
<1>o. overlapped' # "yes" => /\ overlapped \in {"no", "mending"}
                             /\ overlapped' = "mending" => mtPc # "idle"
                             /\ overlapped' = "no" => overlapped = "no"
                             /\ mtPc = "idle" \/ ioPc' = "idle"
  BY <1>0 DEF Watching, MeterIInv, MetersTypeOK, Alone
<1>1. CASE ioPc = "orig" /\ orig' = ioVal /\ ioPc' = "store" /\ UNCHANGED <<lastStored, file, ioVal>>
  <2>1. MetersTypeOK' /\ FileFits'
    BY <1>0, <1>1, <1>t, <1>w DEF MeterIInv, MetersTypeOK, Watching, Ends, FileFits, Storing
  <2>2. ~spoilt' => InMemory'
    BY <1>0, <1>1, <1>t DEF MeterIInv, InMemory, Counted, Near, Watching
  <2>3. overlapped' # "yes" => Alone'
    <3> SUFFICES ASSUME overlapped' # "yes" PROVE Alone'
      OBVIOUS
    <3>1. mtPc = "idle" /\ overlapped = "no" /\ Alone /\ unsaved /\ impCount = 0
      BY <1>1, <1>o DEF MeterIInv, Alone, IoCounts
    <3>2. unsaved' /\ overlapped' = "no" /\ ioPc' = "store" /\ mtPc' = "idle"
      BY <1>0, <1>1, <1>o, <3>1 DEF Watching, Ends
    <3>3. ioVal' = Total'
      BY <1>0, <1>1, <1>t, <3>1 DEF Total
    <3>4. StoredNear'
      BY <3>2 DEF StoredNear
    <3> QED BY <3>2, <3>3, <3>4 DEF Alone, MeterCounts, IoCounts
  <2> QED BY <2>1, <2>2, <2>3 DEF MeterIInv
<1>2. CASE ioPc = "idle" /\ ioPc' = "read" /\ UNCHANGED <<orig, lastStored, file, ioVal>>
  <2>1. MetersTypeOK' /\ FileFits'
    BY <1>0, <1>2, <1>w DEF MeterIInv, MetersTypeOK, Watching, Ends, FileFits, Storing
  <2>2. ~spoilt' => InMemory'
    BY <1>0, <1>2, <1>t DEF MeterIInv, InMemory, Counted, Near, Watching
  <2>3. overlapped' # "yes" => Alone'
    BY <1>0, <1>2, <1>t, <1>o
       DEF MeterIInv, Alone, MeterCounts, IoCounts, StoredNear, Writing, Total, Late, Watching, Ends
  <2> QED BY <2>1, <2>2, <2>3 DEF MeterIInv
<1>3. CASE ioPc = "read" /\ ioPc' = "calc" /\ ioVal' = orig /\ UNCHANGED <<orig, lastStored, file>>
  <2>1. MetersTypeOK' /\ FileFits'
    BY <1>0, <1>3, <1>t, <1>w DEF MeterIInv, MetersTypeOK, Watching, Ends, FileFits, Storing
  <2>2. ~spoilt' => InMemory'
    BY <1>0, <1>3, <1>t DEF MeterIInv, InMemory, Counted, Near, Watching
  <2>3. overlapped' # "yes" => Alone'
    BY <1>0, <1>3, <1>t, <1>o
       DEF MeterIInv, Alone, MeterCounts, IoCounts, StoredNear, Writing, Total, Late, Watching, Ends
  <2> QED BY <2>1, <2>2, <2>3 DEF MeterIInv
<1>4. CASE /\ ioPc = "calc" /\ ioPc' = "store" /\ ioVal' = ioVal + impCount
           /\ UNCHANGED <<orig, lastStored, file>>
  <2>1. MetersTypeOK' /\ FileFits'
    BY <1>0, <1>4, <1>t, <1>w DEF MeterIInv, MetersTypeOK, Watching, Ends, FileFits, Storing
  <2>2. ~spoilt' => InMemory'
    BY <1>0, <1>4, <1>t DEF MeterIInv, InMemory, Counted, Near, Watching
  <2>3. overlapped' # "yes" => Alone'
    BY <1>0, <1>4, <1>t, <1>o
       DEF MeterIInv, Alone, MeterCounts, IoCounts, StoredNear, Writing, Total, Late, Watching, Ends
  <2> QED BY <2>1, <2>2, <2>3 DEF MeterIInv
<1>5. CASE Store(ioPc, ioVal) /\ ioPc' = StoreNext(ioPc, ioVal) /\ UNCHANGED <<orig, ioVal>>
  <2>0. ioPc \in {"store", "trunc", "write"} /\ ioVal \in Nat
    BY <1>5, <1>t DEF Store
  <2>1. ioPc \in {"trunc", "write"} => lastStored # None
    BY DEF MeterIInv, FileFits, Storing
  <2>2. /\ lastStored' \in Nat \cup {None} /\ file' \in Nat \cup {None}
        /\ lastStored' # None
        /\ ioPc = "store" => lastStored' = ioVal /\ file' = file
        /\ ioPc = "trunc" => lastStored' = lastStored /\ file' = None
        /\ ioPc = "write" => /\ lastStored' = lastStored /\ file' # None
                             /\ Near(file', lastStored', Grain \div 2)
    BY <1>5, <2>0, <2>1, StoreFits
  <2>3. \/ ioPc = "store" /\ ioVal = lastStored /\ ioPc' = "idle"
        \/ ioPc = "store" /\ ioVal # lastStored /\ ioPc' = "trunc"
        \/ ioPc = "trunc" /\ ioPc' = "write"
        \/ ioPc = "write" /\ ioPc' = "idle"
    BY <1>5, <2>0 DEF StoreNext
  <2>4. MetersTypeOK'
    BY <1>0, <1>5, <2>2, <2>3, <1>w DEF MeterIInv, MetersTypeOK, Watching
  <2>5. FileFits'
    BY <1>0, <1>5, <2>2, <2>3 DEF MeterIInv, FileFits, Storing, Watching, Ends
  <2>6. ~spoilt' => InMemory'
    BY <1>0, <1>5, <1>t, <2>3 DEF MeterIInv, InMemory, Counted, Near, Watching
  <2>7. overlapped' # "yes" => Alone'
    <3> SUFFICES ASSUME overlapped' # "yes" PROVE Alone'
      OBVIOUS
    <3>1. /\ mtPc = "idle" /\ overlapped = "no" /\ overlapped' = "no" /\ Alone
          /\ spoilt' = spoilt
      BY <1>o, <2>3, <1>0 DEF MeterIInv, Watching, Alone
    <3>2. Total' = Total /\ Total \in Nat /\ lastStored' = Total
      BY <1>0, <1>5, <1>t, <2>2, <2>3, <3>1 DEF Total, Alone, IoCounts
    <3>3. StoredNear'
      <4>1. Near(lastStored', Total', MinDelta + Late({"read", "calc", "store"})')
        BY <1>0, <3>1, <3>2, DistancesAreNat DEF Near, Late
      <4>2. CASE ioPc = "store" /\ ioPc' = "trunc"
        <5>1. ~Ends(mtPc, mtPc') /\ ~Ends(ioPc, ioPc')
          BY <1>0, <3>1, <4>2 DEF Ends
        <5>2. unsaved' = unsaved /\ file' = file
          BY <1>0, <2>2, <4>2, <5>1 DEF Watching, MeterIInv, MetersTypeOK
        <5>3. StoredNear /\ ~Writing /\ ~Writing'
          BY <1>0, <3>1, <4>2 DEF Alone, Writing
        <5>4. /\ Late({"read", "calc", "store", "trunc"}) = 0
              /\ Late({"read", "calc", "store", "trunc"})' = 0
          BY <1>0, <3>1 DEF Late
        <5> QED BY <3>1, <3>2, <4>1, <5>2, <5>3, <5>4 DEF StoredNear
      <4>3. CASE ioPc = "trunc" /\ ioPc' = "write"
        BY <1>0, <2>2, <4>1, <4>3 DEF StoredNear, Writing
      <4>4. CASE ioPc' = "idle"
        <5>1. file' # None => Near(file', lastStored', Grain \div 2)
          BY <1>0, <2>3, <2>5, <3>1, <4>4 DEF FileFits, Storing
        <5>2. file' # None => Near(file', Total', Lacking + Late({"read", "calc", "store", "trunc"})')
          BY <1>0, <1>t, <2>2, <3>1, <3>2, <5>1, DistancesAreNat DEF Near, Late
        <5>3. file' = None => unsaved' \/ spoilt'
          BY <1>0, <2>3, <2>5, <3>1, <4>4 DEF FileFits, Storing
        <5> QED BY <4>1, <5>2, <5>3 DEF StoredNear
      <4> QED BY <2>3, <4>2, <4>3, <4>4
    <3> QED BY <1>0, <1>5, <2>3, <3>1, <3>2, <3>3 DEF Alone, MeterCounts, IoCounts
  <2> QED BY <2>4, <2>5, <2>6, <2>7 DEF MeterIInv
<1> QED BY <1>1, <1>2, <1>3, <1>4, <1>5 DEF Io

(* A stop, at any point: the true total stays what it was, and what the     *)
(* file has is as far behind as one more stop may cost.                     *)
LEMMA MeterRestartSteps == MeterIInv /\ Restart => MeterIInv'
<1> SUFFICES ASSUME MeterIInv, Restart PROVE MeterIInv'
  OBVIOUS
<1> USE DEF StorePcs
<1>t. /\ impCount \in Nat /\ orig \in Nat /\ mtVal \in Nat /\ ioVal \in Nat /\ due \in Nat
      /\ stops \in Nat /\ file \in Nat \cup {None} /\ orig' \in Nat
      /\ stops * (Lacking + 1) \in Nat
      /\ (stops + 1) * (Lacking + 1) = stops * (Lacking + 1) + Lacking + 1
  BY StopsCost DEF MeterIInv, MetersTypeOK, Restart
<1>1. MetersTypeOK'
  <2>1. file' = file /\ lastStored' = file /\ stops' \in Nat /\ due' = due
    BY <1>t DEF Restart
  <2>2. impCount' = 0 /\ mtVal' = 0 /\ ioVal' = 0
    BY DEF Restart
  <2>3. unsaved' \in BOOLEAN /\ spoilt' \in BOOLEAN /\ overlapped' = "no"
    BY DEF Restart, MeterIInv, MetersTypeOK, Exposed
  <2> QED BY <1>t, <2>1, <2>2, <2>3 DEF MetersTypeOK, Restart
<1>2. file = None => spoilt'
  BY DEF MeterIInv, MetersTypeOK, Alone, StoredNear, Writing, Restart, Exposed
<1>3. FileFits'
  BY <1>t, <1>2, DistancesAreNat DEF FileFits, Storing, Restart, Near, None
<1>4. ~spoilt' => InMemory'
  <2> SUFFICES ASSUME ~spoilt, ~Exposed PROVE InMemory'
    BY DEF Restart
  <2>1. /\ overlapped = "no" /\ ~unsaved /\ ~Writing /\ Alone /\ StoredNear /\ InMemory
        /\ file # None
    BY <1>2 DEF Exposed, Writing, MeterIInv, Alone, Restart
  <2>2. Near(file, Total, Lacking + Late({"read", "calc", "store", "trunc"}))
    BY <2>1 DEF StoredNear
  <2>3. ioPc # "orig"
    BY <2>1 DEF Alone, IoCounts
  <2>4. Near(file, Counted, Lacking + 1)
    BY <1>t, <2>1, <2>2, <2>3, DistancesAreNat DEF Counted, Total, Near, Late, None
  <2>5. Counted \in Nat /\ Near(Counted, due, stops * (Lacking + 1))
    BY <1>t, <2>1, <2>3 DEF Counted, InMemory
  <2>6. Near(file, due, (stops + 1) * (Lacking + 1))
    BY <1>t, <2>1, <2>4, <2>5, DistancesAreNat DEF Near, None
  <2>7. Counted' = file
    BY <1>t, <2>1 DEF Counted, Restart, None
  <2> QED BY <2>6, <2>7 DEF InMemory, Restart
<1>5. Alone'
  BY <1>t, <1>2, DistancesAreNat
     DEF Restart, Alone, MeterCounts, IoCounts, StoredNear, Near, Total, Late, Writing, None
<1> QED BY <1>1, <1>3, <1>4, <1>5 DEF MeterIInv

(* Every step of either thread, and a stop.                                 *)
LEMMA MeterNextIInv == MeterIInv /\ [MetersNext]_meterVars => MeterIInv'
<1> SUFFICES ASSUME MeterIInv, [MetersNext]_meterVars PROVE MeterIInv'
  OBVIOUS
<1>1. CASE UNCHANGED meterVars
  BY <1>1 DEF MeterIInv, MetersTypeOK, FileFits, Storing, InMemory, Counted, Alone, MeterCounts,
     IoCounts, StoredNear, Writing, Total, Late, meterVars
<1> QED BY <1>1, MeterSteps, IoSteps, SetNewValueSteps, MeterRestartSteps DEF MetersNext

(* The inductive invariant of counting, setting, storing and stopping.      *)
THEOREM MeterInvariance == MetersSpec => []MeterIInv
<1> QED BY MeterInitIInv, MeterNextIInv, PTL DEF MetersSpec
-----------------------------------------------------------------------------
(* What is to be shown of the count and of the file.                        *)
LEMMA CountIsKept == MeterIInv => MeterKept
<1> SUFFICES ASSUME MeterIInv PROVE MeterKept
  OBVIOUS
<1>1. TotalCounted
  <2> SUFFICES ASSUME mtPc = "idle", ioPc = "idle", ~spoilt
               PROVE  Near(Total, due, stops * (Lacking + 1))
    BY DEF TotalCounted
  <2>1. Counted = Total
    BY DEF Counted, Total, MeterIInv, MetersTypeOK
  <2> QED BY <2>1 DEF MeterIInv, InMemory
<1>2. FileNear
  <2> SUFFICES ASSUME mtPc = "idle", ioPc = "idle"
               PROVE  /\ file = None => unsaved \/ spoilt
                      /\ file # None /\ overlapped = "no" => Near(file, Total, Lacking)
    BY DEF FileNear
  <2>1. file = None => unsaved \/ spoilt
    BY DEF MeterIInv, FileFits, Storing
  <2>2. ASSUME file # None, overlapped = "no" PROVE Near(file, Total, Lacking)
    <3>1. lastStored # None /\ Near(file, lastStored, Grain \div 2)
      BY <2>2 DEF MeterIInv, FileFits, Storing
    <3>2. Near(lastStored, Total, MinDelta)
      BY <2>2, <3>1, DistancesAreNat DEF MeterIInv, Alone, StoredNear, Late
    <3> QED BY <2>2, <3>1, <3>2, DistancesAreNat DEF MeterIInv, MetersTypeOK, Near, Total, None
  <2> QED BY <2>1, <2>2
<1> QED BY <1>1, <1>2 DEF MeterKept

(* Well-typedness for any number of impulses.                               *)
THEOREM MeterTypeCorrect == MetersSpec => []MetersTypeOK
<1> QED BY MeterInvariance, PTL DEF MeterIInv

(* With the threads at work at once and through any number of stops: what   *)
(* is counted lacks of the true total at most, for each stop since the last *)
(* new one, minDeltoToSTore, the digits of the file and an impulse, unless  *)
(* that new total came within an increment or a stop found the file         *)
(* exposed; and the file is that close whenever an event has been alone     *)
(* (event, setNewValue, checkStore, store, the constructor).                *)
THEOREM CountSurvives == MetersSpec => []MeterKept
<1> QED BY MeterInvariance, CountIsKept, PTL

-----------------------------------------------------------------------------
(* The water meter's contact.                                               *)

(* The water meter's filter: its time is up at Quiet, and what it took for  *)
(* valid is what the contact was when it was last quiet.                    *)
WaterIInv ==
  /\ WaterTypeOK /\ quietFor < Quiet
  /\ lastEvent = line /\ lastValidEvent = settled

(* At first it is closed.                                                   *)
LEMMA WaterInitIInv == WaterInit => WaterIInv
<1> SUFFICES ASSUME WaterInit PROVE WaterIInv
  OBVIOUS
<1>1. 0 \in 0..Quiet /\ 0 < Quiet
  BY MetersAssumption
<1>2. quietFor \in 0..Quiet /\ quietFor < Quiet
  BY <1>1 DEF WaterInit
<1> QED BY <1>2 DEF WaterInit, WaterIInv, WaterTypeOK

(* An edge, a tick; and each counts rightly.                                *)
LEMMA WaterSteps ==
  WaterIInv /\ [WaterNext]_waterVars =>
    /\ WaterIInv'
    /\ [counted' = (settled = "falling" /\ settled' = "rising")]_waterVars
<1> SUFFICES ASSUME WaterIInv, [WaterNext]_waterVars
             PROVE  /\ WaterIInv'
                    /\ [counted' = (settled = "falling" /\ settled' = "rising")]_waterVars
  OBVIOUS
<1>1. CASE UNCHANGED waterVars
  BY <1>1 DEF WaterIInv, WaterTypeOK, waterVars
<1>2. CASE Edge
  <2>1. WaterIInv'
    <3>1. 0 \in 0..Quiet /\ 0 < Quiet
      BY MetersAssumption
    <3>2. quietFor' \in 0..Quiet /\ quietFor' < Quiet
      BY <1>2, <3>1 DEF Edge
    <3> QED BY <1>2, <3>2 DEF WaterIInv, WaterTypeOK, Edge
  <2>2. counted' = FALSE /\ settled' = settled
    BY <1>2 DEF Edge
  <2> QED BY <2>1, <2>2
<1>3. CASE WaterTick
  <2>0. /\ quietFor \in Nat /\ quietFor < Quiet /\ Quiet \in Nat
        /\ {line, lastEvent, lastValidEvent, settled} \subseteq {"rising", "falling"}
        /\ lastEvent = line /\ lastValidEvent = settled /\ UNCHANGED <<line, lastEvent>>
    BY <1>3, MetersAssumption DEF WaterIInv, WaterTypeOK, WaterTick
  <2>1. CASE quietFor + 1 = Quiet
    <3>1. /\ quietFor' = 0 /\ lastValidEvent' = lastEvent /\ settled' = line
          /\ counted' = (lastEvent # lastValidEvent /\ lastEvent = "rising")
      BY <1>3, <2>0, <2>1 DEF WaterTick, QuietEnough
    <3>2. counted' = (settled = "falling" /\ settled' = "rising")
      BY <2>0, <3>1
    <3>3. counted' \in BOOLEAN
      BY <3>1
    <3>4. WaterIInv'
      BY <2>0, <2>1, <3>1, <3>3 DEF WaterIInv, WaterTypeOK
    <3> QED BY <3>2, <3>4
  <2>2. CASE quietFor + 1 # Quiet
    <3>1. quietFor' = quietFor + 1 /\ counted' = FALSE /\ UNCHANGED <<lastValidEvent, settled>>
      BY <1>3, <2>0, <2>2 DEF WaterTick, QuietEnough
    <3>2. quietFor' \in 0..Quiet /\ quietFor' < Quiet
      BY <2>0, <2>2, <3>1
    <3>3. WaterIInv'
      BY <2>0, <3>1, <3>2 DEF WaterIInv, WaterTypeOK
    <3> QED BY <3>1, <3>3
  <2> QED BY <2>1, <2>2
<1> QED BY <1>1, <1>2, <1>3 DEF WaterNext

(* The inductive invariant of the water meter's filter.                     *)
THEOREM WaterInvariance == WaterSpec => []WaterIInv
<1> QED BY WaterInitIInv, WaterSteps, PTL DEF WaterSpec

(* An impulse is counted exactly when the contact is quietly closed after   *)
(* it was quietly open, however it bounces (Vodomer::event).                *)
THEOREM WaterCountsClosings == WaterSpec => WaterCounted
<1> QED BY WaterInvariance, WaterSteps, PTL DEF WaterSpec, WaterCounted

-----------------------------------------------------------------------------
(* All together.                                                            *)

(* All that is measured.                                                    *)
MeasuredIInv == SensorIInv /\ MeasIInv /\ TachoIInv /\ MeterIInv /\ WaterIInv

(* Each part moves by its own steps, or not at all.                         *)
LEMMA EachByItself ==
  [MCNext]_measuredVars =>
    /\ [Next]_vars /\ [RekuMeasNext]_measVars /\ [RekuTachoNext]_tachoVars
    /\ [MetersNext]_meterVars /\ [WaterNext]_waterVars
BY DEF MCNext, measuredVars, Only, InSensor, InSamples, InTacho, InMeter, InWater

(* The inductive invariant of all parts.                                    *)
THEOREM MeasuredInvariance == MCSpec => []MeasuredIInv
<1>1. MCInit => MeasuredIInv
  BY SensorInitIInv, MeasInitIInv, TachoInitIInv, MeterInitIInv, WaterInitIInv
  DEF MCInit, MeasuredIInv
<1>2. MeasuredIInv /\ [MCNext]_measuredVars => MeasuredIInv'
  BY EachByItself, SensorNextIInv, MeasNextIInv, TachoNextIInv, MeterNextIInv, WaterSteps
  DEF MeasuredIInv
<1> QED BY <1>1, <1>2, PTL DEF MCSpec

(* Well-typedness of what is measured, for any values of its constants.     *)
THEOREM MeasuredTypeCorrect == MCSpec => []MeasuredTypeOK
<1>1. MeasuredIInv => MeasuredTypeOK
  BY DEF MeasuredIInv, MeasuredTypeOK, SensorIInv, MeasIInv, MeasTypeOK, TachoIInv, TachoTypeOK,
         RekuMeasTypeOK, MeterIInv, WaterIInv
<1> QED BY <1>1, MeasuredInvariance, PTL

(* What holds of each part holds of them together.                          *)
THEOREM MeasuredIsRight ==
  MCSpec => []UnitMeasures /\ []MeterKept /\ []FollowsSensor /\ []DeltaSpansRing
<1>1. MeasuredIInv => UnitMeasures /\ MeterKept /\ FollowsSensor /\ DeltaSpansRing
  BY TachoShows, CountIsKept, RingSpans
  DEF MeasuredIInv, MeasIInv, UnitMeasures, SensorIInv, ValueIsGood, FollowsSensor
<1> QED BY <1>1, MeasuredInvariance, PTL
=============================================================================
