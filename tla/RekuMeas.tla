------------------------------ MODULE RekuMeas ------------------------------
(***************************************************************************)
(* What the ventilation unit measures (rekuperacia_fw/main.c): one         *)
(* converter for the temperatures of two channels, medians of a few        *)
(* samples averaged into a sum of SumMod - 1 at most, and the fans'        *)
(* tachometers.  The channels' voltages stay; a sample may be disturbed,   *)
(* one in each median's window.  Time passes in ticks of 150 ms.           *)
(***************************************************************************)
EXTENDS Integers, Sequences, FiniteSets

CONSTANTS
  Adc,                   \* the values of the converter
  MedBufSize, AvgCount, SumMod,
  Speeds,                \* ticks between a fan's pulses; 0: it stands still
  TachoWindow, TachoStill, NoTemp \* the firmware's 450 and 900 ms; no value

ASSUME RekuMeasAssumption ==
  /\ Adc \subseteq Nat /\ {MedBufSize, AvgCount, SumMod, TachoWindow, TachoStill} \subseteq Nat
  /\ MedBufSize % 2 = 1 /\ MedBufSize > 2 /\ AvgCount > 0
  /\ \A a \in Adc : AvgCount * a < SumMod
  /\ TachoStill > 0 /\ TachoWindow <= TachoStill /\ Speeds \subseteq 0..TachoStill
  /\ NoTemp \notin Adc

VARIABLES
  meSt, curCh, chs,      \* measCtx.state, .curCh; ADCON0bits.CHS
  sample, voltage,       \* ADRES; what each channel really is
  spiked,                \* this window had its disturbed sample
  medbuf, avgsum, avgcnt, \* of each channel
  temp,                  \* rekuCh[ch].temp; NoTemp for the 0 before the first
  speed, pulse,          \* of a fan, and the ticks to its next pulse
  t0, cnt, period,       \* tacho[ch], ticks since t0; rekuCh[ch].period
  steady                 \* history: ticks since the speed changed

measVars == <<meSt, curCh, chs, sample, voltage, spiked, medbuf, avgsum, avgcnt, temp>>
tachoVars == <<speed, pulse, t0, cnt, period, steady>>

Ch == {"intk", "exht"}
LongSteady == 3 * (TachoStill + 1)   \* three of the longest windows
RekuMeasTypeOK ==
  /\ meSt \in {"sampling", "converting", "before"} /\ curCh \in Ch /\ chs \in Ch
  /\ sample \in Adc /\ voltage \in [Ch -> Adc] /\ spiked \in BOOLEAN
  /\ medbuf \in [Ch -> Seq(Adc)] /\ avgsum \in [Ch -> 0..(SumMod - 1)]
  /\ avgcnt \in [Ch -> 0..AvgCount] /\ temp \in [Ch -> Adc \cup {NoTemp}]
  /\ speed \in Speeds /\ pulse \in 0..TachoStill /\ t0 \in 0..TachoStill /\ cnt \in Nat
  /\ period \in 0..(TachoStill + 1) /\ steady \in 0..LongSteady

RekuMeasInit ==
  /\ meSt = "sampling" /\ curCh = "intk" /\ chs = "intk"
  /\ sample \in Adc /\ voltage \in [Ch -> Adc] /\ spiked = FALSE
  /\ medbuf = [c \in Ch |-> <<>>] /\ avgsum = [c \in Ch |-> 0] /\ avgcnt = [c \in Ch |-> 0]
  /\ temp = [c \in Ch |-> NoTemp]
  /\ speed \in Speeds /\ pulse = speed /\ t0 = 0 /\ cnt = 0 /\ period = 0 /\ steady = 0

-----------------------------------------------------------------------------
(* SAMPLING: 25 us after the channel was chosen the converter starts.       *)
Sampling ==
  /\ meSt = "sampling" /\ meSt' = "converting"
  /\ \/ sample' = voltage[chs] /\ UNCHANGED spiked
     \/ ~spiked /\ spiked' = TRUE /\ sample' \in Adc
  /\ UNCHANGED <<curCh, chs, voltage, medbuf, avgsum, avgcnt, temp>>

(* calc_med with bubbleSort.                                                *)
MutMedian(s) == CHOOSE v \in Adc : \E i \in DOMAIN s : s[i] = v /\ \A j \in DOMAIN s : s[j] <= v
Median(s) ==
  CHOOSE v \in Adc :
    LET Half(P(_)) == Cardinality({i \in DOMAIN s : P(s[i])}) <= Len(s) \div 2
    IN Half(LAMBDA x : x < v) /\ Half(LAMBDA x : x > v)

(* The median of a full window goes into the sum, a full sum into temp, and *)
(* then the other channel has its turn.                                     *)
Add(med) ==
  LET sum == (avgsum[curCh] + med) % SumMod
  IN IF avgcnt[curCh] + 1 < AvgCount
       THEN /\ avgsum' = [avgsum EXCEPT ![curCh] = sum]
            /\ avgcnt' = [avgcnt EXCEPT ![curCh] = @ + 1]
            /\ UNCHANGED <<temp, curCh>>
       ELSE /\ temp' = [temp EXCEPT ![curCh] = sum \div AvgCount]
            /\ avgsum' = [avgsum EXCEPT ![curCh] = 0]
            /\ avgcnt' = [avgcnt EXCEPT ![curCh] = 0]
            /\ curCh' \in Ch \ {curCh}

(* CONVERTING, done.                                                        *)
Converted ==
  /\ meSt = "converting" /\ meSt' = "before"
  /\ LET buf == Append(medbuf[curCh], sample)
     IN IF Len(buf) = MedBufSize
          THEN medbuf' = [medbuf EXCEPT ![curCh] = <<>>] /\ Add(Median(buf)) /\ spiked' = FALSE
          ELSE /\ medbuf' = [medbuf EXCEPT ![curCh] = buf]
               /\ UNCHANGED <<avgsum, avgcnt, temp, curCh, spiked>>
  /\ UNCHANGED <<chs, sample, voltage>>

(* BEFORE_NEXT.                                                             *)
BeforeNext ==
  /\ meSt = "before" /\ meSt' = "sampling" /\ chs' = curCh
  /\ UNCHANGED <<curCh, sample, voltage, spiked, medbuf, avgsum, avgcnt, temp>>

-----------------------------------------------------------------------------
(* do_tacho for a channel, with the tick's pulse or without.                *)
MutRestarted == UNCHANGED cnt
Restarted == cnt' = 0
Tacho(edge, t) ==
  IF edge
    THEN IF t > TachoWindow THEN period' = t \div (cnt + 1) /\ t0' = 0 /\ Restarted
         ELSE cnt' = cnt + 1 /\ t0' = t /\ UNCHANGED period
    ELSE IF t > TachoStill THEN period' = 0 /\ t0' = 0 /\ cnt' = 0
         ELSE t0' = t /\ UNCHANGED <<cnt, period>>

TachoTick ==
  LET edge == speed > 0 /\ pulse <= 1
  IN /\ Tacho(edge, t0 + 1)
     /\ pulse' = IF edge THEN speed ELSE IF pulse > 0 THEN pulse - 1 ELSE 0
     /\ steady' = IF steady < LongSteady THEN steady + 1 ELSE steady
     /\ UNCHANGED speed

NewSpeed ==
  /\ \E s \in Speeds \ {speed} : speed' = s /\ pulse' = s
  /\ steady' = 0 /\ UNCHANGED <<t0, cnt, period>>

(* The converter and the tachometers share the loop and nothing else.       *)
RekuMeasNext == Sampling \/ Converted \/ BeforeNext
RekuTachoNext == TachoTick \/ NewSpeed
RekuMeasSpec == RekuMeasInit /\ [][RekuMeasNext]_measVars
RekuTachoSpec == RekuMeasInit /\ [][RekuTachoNext]_tachoVars
-----------------------------------------------------------------------------
(* Each channel's temperature is its own and no disturbed sample shows in   *)
(* it: the multiplexer follows the channel, the median and the sum fit.     *)
MeasRight == \A c \in Ch : temp[c] \in {NoTemp, voltage[c]}

(* A fan that has run evenly for three of the longest windows is seen at    *)
(* its speed, one that stands still at none.  A fan so slow that a pulse    *)
(* after the shortest window may come later than the longest is not meant:  *)
(* it is seen to stand still in between.                                    *)
TachoTrue == steady = LongSteady /\ TachoWindow + speed <= TachoStill + 1 => period = speed

(* What the unit sends of its channels and fans is what they are            *)
(* (do_meas_temp, calc_med, do_tacho).                                      *)
UnitMeasures == MeasRight /\ TachoTrue
=============================================================================
